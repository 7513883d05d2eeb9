------------------------------ MODULE Drive402 -------------------------------
(***************************************************************************)
(* One DS402 servo drive and the program that runs it: can402 init (the    *)
(* part that concerns one drive), canmat_402_init, canmat_402_set_op_mode, *)
(* canmat_402_start, the control words and velocities can402 sends while   *)
(* it runs, and canmat_402_stop (ds402.c, can402.c).  The program may be   *)
(* killed between any two accesses and started again: the drive keeps its  *)
(* state, the program's struct canmat_402_drive starts from zero.          *)
(*                                                                         *)
(* An access has the outcomes of SdoClient: done, failed without effect,   *)
(* failed although the drive did it.  When its receive failed, its answer  *)
(* is still to come, and the next access of this process takes it for its  *)
(* own.  A control word and a status word are the sets of their bits.  The *)
(* drive itself is external.                                               *)
(***************************************************************************)
EXTENDS Integers

CONSTANTS
  Vel,          \* target velocities, raw; 0 is one of them
  InitDrives,   \* the drives before the first run: <<state, word, mode, target>>
  RpdoUser,     \* drive->rpdo_user
  MaxIter,      \* the bound of canmat_402_start's loop (100 in the code)
  MaxSessions,  \* bound: runs of the program
  MaxFails,     \* bound: accesses that fail
  MaxFaults     \* bound: faults of the drive

VARIABLES
  pc,       \* the next access of the program, "down" when it does not run
  ctrl,     \* drive->ctrl_word
  target,   \* drive->target_vel_raw
  mode,     \* drive->op_mode
  stat,     \* the state canmat_402_start last decoded from drive->stat_word
  c,        \* iterations of canmat_402_start's loop
  remap,    \* what canmat_402_set_op_mode's remap returned
  stopped,  \* the last run ended with a canmat_402_stop that returned OK
  late,     \* the answer of an access whose receive failed is still to come
  dctrl,    \* the drive: its control word,
  dstate,   \*   its state,
  dmode,    \*   its mode of operation,
  dtarget,  \*   its vl target velocity,
  mapped,   \*   and which of can402's two RPDOs are enabled with their mapping
  excuse,   \* iterations the drive has cost the running canmat_402_start
  sessions, fails, dfaults

program == <<ctrl, target, mode, stat, c, remap>>
device  == <<dctrl, dstate, dmode, dtarget, mapped>>
failures == <<fails, late>>
vars    == <<pc, program, stopped, device, excuse, sessions, failures, dfaults>>

Bit   == {"SWITCH_ON", "ENABLE_VOLTAGE", "QUICK_STOP", "ENABLE_OPERATION",
          "RFG", "RESET_FAULT", "HALT"}
State == {"NRDY", "SW_ON_DISABLE", "RDY", "OP_DIS", "OP_EN", "QUICK_STOP",
          "FAULT_REACTION", "FAULT"}
Mode  == {"VELOCITY", "OTHER", "UNSET"}
StatusBit == 0 .. 6   \* of the higher bits no state depends
Pdo   == {"ctrl", "user"}

InitPc  == {"ul_ctrl", "ul_target", "ul_mode"}
SetupPc == {"remap_ctrl", "remap_tpdo", "check_mode", "dl_mode", "dl_ref", "remap_user", "dl_rfg"}
StartPc == {"status", "nmt", "command", "fault_shutdown", "fault_nmt", "fault_reset"}
Pc      == InitPc \union SetupPc \union StartPc \union {"run", "stop", "down"}

ASSUME VelAssumption    == 0 \in Vel
ASSUME DrivesAssumption == InitDrives \subseteq State \X (SUBSET Bit) \X {"VELOCITY", "OTHER"} \X Vel
ASSUME BoundsAssumption == /\ RpdoUser \in Int /\ MaxIter \in Nat
                           /\ MaxSessions \in Nat /\ MaxFails \in Nat /\ MaxFaults \in Nat

(***************************************************************************)
(* The control commands: (ctrl_word & MASK_AND) | MASK_OR (ds402.h).       *)
(***************************************************************************)
\* Mutant: the mask does not clear "reset fault".
ShutdownKeepsReset(w) == (w \ {"SWITCH_ON"}) \union {"QUICK_STOP", "ENABLE_VOLTAGE"}

\* Mutant: the masks of QUICK_STOP.
ShutdownQuickStops(w) == (w \ {"RESET_FAULT", "QUICK_STOP"}) \union {"ENABLE_VOLTAGE"}

Shutdown(w) == (w \ {"RESET_FAULT", "SWITCH_ON"}) \union {"QUICK_STOP", "ENABLE_VOLTAGE"}

\* Mutant: the mask does not clear "enable operation".
SwitchOnKeepsEnable(w) ==
  (w \ {"RESET_FAULT"}) \union {"QUICK_STOP", "ENABLE_VOLTAGE", "SWITCH_ON"}

SwitchOn(w) ==
  (w \ {"RESET_FAULT", "ENABLE_OPERATION"}) \union {"QUICK_STOP", "ENABLE_VOLTAGE", "SWITCH_ON"}

DisableVoltage(w) == w \ {"RESET_FAULT", "ENABLE_VOLTAGE"}

EnableOp(w) == (w \ {"RESET_FAULT"})
  \union {"ENABLE_OPERATION", "QUICK_STOP", "ENABLE_VOLTAGE", "SWITCH_ON"}

ResetFault(w) == w \union {"RESET_FAULT"}

\* The command canmat_402_start gives a drive it found in state s.
Command(s, w) ==
  CASE s = "SW_ON_DISABLE" -> Shutdown(w)
    [] s = "RDY"           -> SwitchOn(w)
    [] s = "OP_DIS"        -> EnableOp(w)
    [] s = "QUICK_STOP"    -> DisableVoltage(w)

(***************************************************************************)
(* The drive (DS402's state machine): the states it may be in after the    *)
(* word w, when the word before it was old.  A drive that is ready and is  *)
(* told to switch on with "enable operation" set may do both at once.      *)
(***************************************************************************)
Powered(w)   == {"ENABLE_VOLTAGE", "QUICK_STOP"} \subseteq w
Switched(w)  == Powered(w) /\ "SWITCH_ON" \in w
Operating(w) == Switched(w) /\ "ENABLE_OPERATION" \in w

\* A drive that is found ready to switch on has not been told to operate, and one that is
\* found operating has: they would have left these states.
ASSUME SettledAssumption ==
  \A d \in InitDrives : /\ d[1] = "RDY" => ~Operating(d[2])
                        /\ d[1] = "OP_EN" => Operating(d[2])

After(s, old, w) ==
  CASE s = "SW_ON_DISABLE" /\ Powered(w) /\ ~Switched(w) -> {"RDY"}
    [] s = "RDY" /\ Operating(w)                         -> {"OP_DIS", "OP_EN"}
    [] s = "RDY" /\ Switched(w) /\ ~Operating(w)         -> {"OP_DIS"}
    [] s \in {"RDY", "OP_DIS"} /\ ~Powered(w)            -> {"SW_ON_DISABLE"}
    [] s = "OP_DIS" /\ Operating(w)                      -> {"OP_EN"}
    [] s \in {"OP_DIS", "OP_EN"} /\ Powered(w) /\ ~Switched(w) -> {"RDY"}
    [] s = "OP_EN" /\ Switched(w) /\ ~Operating(w)       -> {"OP_DIS"}
    [] s = "OP_EN" /\ ~Powered(w) /\ "ENABLE_VOLTAGE" \in w -> {"QUICK_STOP"}
    [] s \in {"OP_EN", "QUICK_STOP"} /\ "ENABLE_VOLTAGE" \notin w -> {"SW_ON_DISABLE"}
    [] s = "FAULT" /\ "RESET_FAULT" \in w \ old          -> {"SW_ON_DISABLE"}
    [] OTHER                                             -> {s}

Receives(w) == dctrl' = w /\ dstate' \in After(dstate, dctrl, w)
-----------------------------------------------------------------------------

Init ==
  /\ pc = "down"
  /\ ctrl = {} /\ target = 0 /\ mode = "UNSET" /\ stat = "NRDY" /\ c = 0 /\ remap = "OK"
  /\ \E d \in InitDrives : dstate = d[1] /\ dctrl = d[2] /\ dmode = d[3] /\ dtarget = d[4]
  /\ mapped = {}
  /\ stopped = FALSE /\ late = FALSE
  /\ excuse = 0 /\ sessions = 0 /\ fails = 0 /\ dfaults = 0

CountFail   == fails < MaxFails /\ fails' = fails + 1
SendFails   == CountFail /\ UNCHANGED late
AccessFails == CountFail /\ late' \in {late, TRUE}

\* Mutant: the cached word is not updated.
DlOkNoCache(w) ==
  /\ Receives(w)
  /\ UNCHANGED <<ctrl, failures>>

\* canmat_402_dl_ctrlmask with the word w when it returns OK.  A late answer is taken for
\* the answer to this download, whatever becomes of the download.
DlOk(w) ==
  /\ ctrl' = w
  /\ Receives(w) \/ (late /\ UNCHANGED <<dctrl, dstate>>)
  /\ UNCHANGED failures

\* When it returns an error, a new one or that of a late answer
DlErr(w) ==
  /\ AccessFails \/ (late /\ UNCHANGED failures)
  /\ Receives(w) \/ UNCHANGED <<dctrl, dstate>>
  /\ UNCHANGED ctrl

\* The program goes on at next, or at other.
DlCtrl(w, next, other) ==
  \/ DlOk(w) /\ pc' = next
  \/ DlErr(w) /\ pc' = other

\* A new process: its struct is all zero.
Launch ==
  /\ pc = "down"
  /\ sessions < MaxSessions
  /\ sessions' = sessions + 1
  /\ pc' = "ul_ctrl"
  /\ ctrl' = {} /\ target' = 0 /\ mode' = "UNSET" /\ stat' = "NRDY" /\ c' = 0 /\ remap' = "OK"
  /\ stopped' = FALSE /\ late' = FALSE
  /\ UNCHANGED <<device, excuse, fails, dfaults>>

\* canmat_402_init.  Its other uploads (status, position, velocity, limits) only fill
\* fields nothing here depends on.  A failure ends the program at once (SNS_REQUIRE).
Uploads(at, next) ==
  /\ pc = at
  /\ \/ pc' = next /\ UNCHANGED failures
     \/ pc' = "down" /\ AccessFails
  /\ UNCHANGED <<stat, c, remap, stopped, device, excuse, sessions, dfaults>>

UploadCtrl ==
  /\ Uploads("ul_ctrl", "ul_target")
  /\ ctrl' = IF pc' = "down" THEN ctrl ELSE dctrl
  /\ UNCHANGED <<target, mode>>

UploadTarget ==
  /\ Uploads("ul_target", "ul_mode")
  /\ target' = IF pc' = "down" THEN target ELSE dtarget
  /\ UNCHANGED <<ctrl, mode>>

UploadMode ==
  /\ Uploads("ul_mode", "remap_ctrl")
  /\ mode' = IF pc' = "down" THEN mode ELSE dmode
  /\ UNCHANGED <<ctrl, target>>

\* canmat_pdo_remap, see PdoRemap: when it fails the PDO may be left disabled.
Remaps(p) ==
  \/ remap' = "OK" /\ mapped' = mapped \union {p} /\ UNCHANGED failures
  \/ remap' = "ERR" /\ mapped' \in {mapped, mapped \ {p}, mapped \union {p}} /\ AccessFails

RemapCtrl ==
  /\ pc = "remap_ctrl"
  /\ Remaps("ctrl")
  /\ pc' = IF remap' = "OK" THEN "remap_tpdo" ELSE "stop"
  /\ UNCHANGED <<ctrl, target, mode, stat, c, stopped, dctrl, dstate, dmode, dtarget,
                 excuse, sessions, dfaults>>

RemapTpdo ==
  /\ pc = "remap_tpdo"
  /\ \/ pc' = "check_mode" /\ UNCHANGED failures
     \/ pc' = "stop" /\ AccessFails
  /\ UNCHANGED <<program, stopped, device, excuse, sessions, dfaults>>

\* Mutant: the mode is set whether the drive is halted or not.
CheckModeAnyway ==
  /\ pc = "check_mode"
  /\ pc' = IF RpdoUser < 0 \/ RpdoUser > 255 THEN "stop"
           ELSE IF mode = "VELOCITY" THEN "remap_user" ELSE "dl_mode"
  /\ UNCHANGED <<program, stopped, device, excuse, sessions, failures, dfaults>>

CheckMode ==
  /\ pc = "check_mode"
  /\ pc' = IF RpdoUser < 0 \/ RpdoUser > 255 THEN "stop"              \* ERR_PARAM
           ELSE IF mode = "VELOCITY" THEN "remap_user"
           ELSE IF "HALT" \notin ctrl THEN "stop"                      \* ERR_MOTION
           ELSE "dl_mode"
  /\ UNCHANGED <<program, stopped, device, excuse, sessions, failures, dfaults>>

DlMode ==
  /\ pc = "dl_mode"
  /\ \/ dmode' = "VELOCITY" /\ mode' = "VELOCITY" /\ pc' = "dl_ref" /\ UNCHANGED failures
     \/ dmode' \in {dmode, "VELOCITY"} /\ UNCHANGED mode /\ pc' = "stop" /\ AccessFails
  /\ UNCHANGED <<ctrl, target, stat, c, remap, stopped, dctrl, dstate, dtarget, mapped,
                 excuse, sessions, dfaults>>

\* The drive's target is set to 0, drive->target_vel_raw is not.
DlRef ==
  /\ pc = "dl_ref"
  /\ \/ dtarget' = 0 /\ pc' = "remap_user" /\ UNCHANGED failures
     \/ dtarget' \in {dtarget, 0} /\ pc' = "stop" /\ AccessFails
  /\ UNCHANGED <<program, stopped, dctrl, dstate, dmode, mapped, excuse, sessions, dfaults>>

\* Whatever the remap returns, the control word is sent next.
RemapUser ==
  /\ pc = "remap_user"
  /\ Remaps("user")
  /\ pc' = "dl_rfg"
  /\ UNCHANGED <<ctrl, target, mode, stat, c, stopped, dctrl, dstate, dmode, dtarget,
                 excuse, sessions, dfaults>>

\* Mutant: canmat_402_set_op_mode returns the status of the control word alone.
DlRfgForgets ==
  /\ pc = "dl_rfg"
  /\ DlCtrl(ctrl \union {"RFG"}, "status", "stop")
  /\ c' = 0 /\ excuse' = 0
  /\ UNCHANGED <<target, mode, stat, remap, stopped, dmode, dtarget, mapped, sessions, dfaults>>

DlRfg ==
  /\ pc = "dl_rfg"
  /\ DlCtrl(ctrl \union {"RFG"}, IF remap = "OK" THEN "status" ELSE "stop", "stop")
  /\ c' = 0 /\ excuse' = 0
  /\ UNCHANGED <<target, mode, stat, remap, stopped, dmode, dtarget, mapped, sessions, dfaults>>
-----------------------------------------------------------------------------

(***************************************************************************)
(* canmat_402_start                                                        *)
(***************************************************************************)
\* The status words of a drive in each state (external: DS402's table of them): the bits
\* that are set, and those that are clear.
Coding == [NRDY           |-> [set |-> {},           clear |-> {0, 1, 2, 3, 6}],
           SW_ON_DISABLE  |-> [set |-> {6},          clear |-> {0, 1, 2, 3}],
           RDY            |-> [set |-> {0, 5},       clear |-> {1, 2, 3, 6}],
           OP_DIS         |-> [set |-> {0, 1, 5},    clear |-> {2, 3, 6}],
           OP_EN          |-> [set |-> {0, 1, 2, 5}, clear |-> {3, 6}],
           QUICK_STOP     |-> [set |-> {0, 1, 2},    clear |-> {3, 5, 6}],
           FAULT_REACTION |-> [set |-> {0, 1, 2, 3}, clear |-> {6}],
           FAULT          |-> [set |-> {3},          clear |-> {0, 1, 2, 6}]]

Shown(s) == {w \in SUBSET StatusBit : Coding[s].set \subseteq w /\ Coding[s].clear \cap w = {}}

\* CANMAT_402_STATE_VAL_MASK_* and CANMAT_402_STATE_VAL_*
MaskOf(s) == IF s \in {"RDY", "OP_DIS", "OP_EN", "QUICK_STOP"} THEN {0, 1, 2, 3, 5, 6}
                                                            ELSE {0, 1, 2, 3, 6}

ValOf == [NRDY |-> {}, SW_ON_DISABLE |-> {6}, RDY |-> {0, 5}, OP_DIS |-> {0, 1, 5},
          OP_EN |-> {0, 1, 2, 5}, QUICK_STOP |-> {0, 1, 2},
          FAULT_REACTION |-> {0, 1, 2, 3}, FAULT |-> {3}]

Matches(w, s) == w \cap MaskOf(s) = ValOf[s]

\* canmat_402_state.  No word matches two states (StatesDiffer in Drive402Proofs), so the
\* order of its tests makes no difference.
Decode(w) == IF \E s \in State : Matches(w, s) THEN CHOOSE s \in State : Matches(w, s)
                                               ELSE "UNKNOWN"

\* The switch of canmat_402_start
OnStatus(s) ==
  CASE s = "OP_EN"                         -> "run"
    [] s = "NRDY"                          -> "nmt"
    [] s \in {"FAULT_REACTION", "FAULT"}   -> "fault_shutdown"
    [] s = "UNKNOWN"                       -> "stop"                   \* ERR_PROTO
    [] OTHER                               -> "command"

\* The upload returns a word of the drive's state, or one that has no state, or it fails.
UploadStatus ==
  \/ /\ \E w \in Shown(dstate) : stat' = Decode(w)
     /\ pc' = OnStatus(stat') /\ UNCHANGED failures
  \/ /\ \E w \in SUBSET StatusBit : Decode(w) = "UNKNOWN" /\ stat' = Decode(w)
     /\ pc' = OnStatus(stat') /\ SendFails
  \/ UNCHANGED stat /\ pc' = "stop" /\ AccessFails

\* Mutant: the loop's bound is off by one.
StartStatusOnceMore ==
  /\ pc = "status"
  /\ c <= MaxIter
  /\ c' = c + 1
  /\ UploadStatus
  /\ excuse' = IF dstate \in {"NRDY", "FAULT_REACTION"} THEN excuse + 1 ELSE excuse
  /\ UNCHANGED <<ctrl, target, mode, remap, stopped, device, sessions, dfaults>>

StartStatus ==
  /\ pc = "status"
  /\ c < MaxIter
  /\ c' = c + 1
  /\ UploadStatus
  /\ excuse' = IF dstate \in {"NRDY", "FAULT_REACTION"} THEN excuse + 1 ELSE excuse
  /\ UNCHANGED <<ctrl, target, mode, remap, stopped, device, sessions, dfaults>>

StartGivesUp ==
  /\ pc = "status"
  /\ c >= MaxIter
  /\ pc' = "stop"                                                      \* ERR_DEV
  /\ UNCHANGED <<program, stopped, device, excuse, sessions, failures, dfaults>>

SendNmt(at, next) ==
  /\ pc = at
  /\ \/ pc' = next /\ UNCHANGED failures
     \/ pc' = "stop" /\ SendFails
  /\ UNCHANGED <<program, stopped, device, excuse, sessions, dfaults>>

StartNmt == SendNmt("nmt", "status")

StartDl(at, w, next) ==
  /\ pc = at
  /\ DlCtrl(w, next, "stop")
  /\ UNCHANGED <<target, mode, stat, c, remap, stopped, dmode, dtarget, mapped,
                 excuse, sessions, dfaults>>

StartCommand  == pc = "command" /\ StartDl("command", Command(stat, ctrl), "status")
FaultShutdown == StartDl("fault_shutdown", Shutdown(ctrl), "fault_nmt")
FaultNmt      == SendNmt("fault_nmt", "fault_reset")
FaultReset    == StartDl("fault_reset", ResetFault(ctrl), "status")
-----------------------------------------------------------------------------

(***************************************************************************)
(* can402's run loop, as far as it concerns one drive (see Can402): RPDOs  *)
(* that halt and unhalt the drive and set its velocity.                    *)
(***************************************************************************)
SendCtrl(w) ==
  /\ pc = "run"
  /\ \/ /\ ctrl' = w
        /\ IF "ctrl" \in mapped THEN Receives(w) ELSE UNCHANGED <<dctrl, dstate>>
        /\ UNCHANGED failures
     \/ SendFails /\ UNCHANGED <<ctrl, dctrl, dstate>>
  /\ UNCHANGED <<pc, target, mode, stat, c, remap, stopped, dmode, dtarget, mapped,
                 excuse, sessions, dfaults>>

Halt   == "HALT" \notin ctrl /\ SendCtrl(ctrl \union {"HALT"})
Unhalt == "HALT" \in ctrl /\ SendCtrl(ctrl \ {"HALT"})

\* Nothing is sent when the target is the one sent last.
SendTarget(v) ==
  /\ pc = "run"
  /\ "HALT" \notin ctrl
  /\ v # target
  /\ \/ /\ target' = v
        /\ dtarget' = IF "user" \in mapped /\ dmode = "VELOCITY" THEN v ELSE dtarget
        /\ UNCHANGED failures
     \/ SendFails /\ UNCHANGED <<target, dtarget>>
  /\ UNCHANGED <<pc, ctrl, mode, stat, c, remap, stopped, dctrl, dstate, dmode, mapped,
                 excuse, sessions, dfaults>>

RunEnds ==
  /\ pc = "run"
  /\ pc' = "stop"
  /\ UNCHANGED <<program, stopped, device, excuse, sessions, failures, dfaults>>

\* canmat_402_stop, after which the program exits whatever it returned
Stop ==
  /\ pc = "stop"
  /\ \/ DlOk(Shutdown(ctrl)) /\ stopped' = TRUE
     \/ DlErr(Shutdown(ctrl)) /\ stopped' = FALSE
  /\ pc' = "down"
  /\ UNCHANGED <<target, mode, stat, c, remap, dmode, dtarget, mapped, excuse, sessions, dfaults>>

\* The process dies.
Killed ==
  /\ pc # "down"
  /\ pc' = "down"
  /\ UNCHANGED <<program, stopped, device, excuse, sessions, failures, dfaults>>
-----------------------------------------------------------------------------

(***************************************************************************)
(* The drive on its own.                                                   *)
(***************************************************************************)
DriveAlone(s) ==
  /\ dstate' = s
  /\ UNCHANGED <<pc, program, stopped, dctrl, dmode, dtarget, mapped, sessions, failures>>

DriveBoots == dstate = "NRDY" /\ DriveAlone("SW_ON_DISABLE") /\ UNCHANGED <<excuse, dfaults>>

\* Recovering from a fault takes at most five iterations of canmat_402_start.
DriveFaults ==
  /\ dstate \notin {"NRDY", "FAULT_REACTION", "FAULT"}
  /\ dfaults < MaxFaults
  /\ dfaults' = dfaults + 1
  /\ excuse' = excuse + 5
  /\ DriveAlone("FAULT_REACTION")

DriveFaultEnds ==
  /\ dstate = "FAULT_REACTION"
  /\ DriveAlone("FAULT")
  /\ UNCHANGED <<excuse, dfaults>>

Next ==
  \/ Launch \/ UploadCtrl \/ UploadTarget \/ UploadMode
  \/ RemapCtrl \/ RemapTpdo \/ CheckMode \/ DlMode \/ DlRef \/ RemapUser \/ DlRfg
  \/ StartStatus \/ StartGivesUp \/ StartNmt \/ StartCommand
  \/ FaultShutdown \/ FaultNmt \/ FaultReset
  \/ Halt \/ Unhalt \/ (\E v \in Vel : SendTarget(v)) \/ RunEnds \/ Stop \/ Killed
  \/ DriveBoots \/ DriveFaults \/ DriveFaultEnds

Spec == Init /\ [][Next]_vars
-----------------------------------------------------------------------------

\* The types of the variables.
TypeOK ==
  /\ pc \in Pc
  /\ ctrl \subseteq Bit /\ dctrl \subseteq Bit
  /\ target \in Vel /\ dtarget \in Vel
  /\ mode \in Mode /\ dmode \in {"VELOCITY", "OTHER"}
  /\ stat \in State \union {"UNKNOWN"} /\ dstate \in State
  /\ c \in 0 .. MaxIter
  /\ remap \in {"OK", "ERR"}
  /\ stopped \in BOOLEAN /\ late \in BOOLEAN
  /\ mapped \subseteq Pdo
  /\ sessions \in 0 .. MaxSessions /\ fails \in 0 .. MaxFails /\ dfaults \in 0 .. MaxFaults
  /\ excuse \in Nat

(***************************************************************************)
(* From the upload of the control word until the program gives up, the     *)
(* word it computes the next one from is the word the drive has, although  *)
(* it is kept by two functions and sent in two ways (ds402.c:101-103,      *)
(* can402.c:564-580).                                                      *)
(***************************************************************************)
CtrlCacheExact ==
  pc \notin {"ul_ctrl", "stop", "down"} => ctrl = dctrl

(***************************************************************************)
(* can402 does not run before the drive is in velocity mode, both RPDOs    *)
(* are mapped and the ramp generator is on, whatever failed on the way,    *)
(* in this run or in an earlier one (ds402.c:286-294).                     *)
(***************************************************************************)
RunMeansReady ==
  pc = "run" => dmode = "VELOCITY" /\ mapped = Pdo /\ "RFG" \in dctrl

(***************************************************************************)
(* A started loop needs at most one iteration per step of the drive to     *)
(* "operation enabled", and more only for a drive that boots, reacts to a  *)
(* fault or faults while it is being started (ds402.c:181-228).            *)
(***************************************************************************)
Rank == [s \in State |-> CASE s = "OP_EN" -> 0
                           [] s = "OP_DIS" -> 1
                           [] s = "RDY" -> 2
                           [] s = "SW_ON_DISABLE" -> 3
                           [] OTHER -> 4]

StartMakesProgress == pc = "status" => c + Rank[dstate] <= 4 + excuse

(***************************************************************************)
(* After a stop that returned OK (ds402.c:233-235) the drive is off, "OFF" *)
(* as ds402.h:119-124 has it, however the run ended, with two exceptions   *)
(* that are the code's.  SHUTDOWN does not take a drive out of its quick   *)
(* stop: one that was found quick-stopped stays on unless canmat_402_start *)
(* had brought it to "operation enabled", and one that was brought there   *)
(* is not quick-stopped.  And the OK may be the late answer of an access   *)
(* of the setup whose receive failed (sdo.c:223-226).                      *)
(***************************************************************************)
On      == {"OP_DIS", "OP_EN", "QUICK_STOP"}
Started == stat = "OP_EN"

StopLeavesOff ==
  pc = "down" /\ stopped /\ ~late =>
    dstate \notin (IF Started THEN On ELSE On \ {"QUICK_STOP"})

(***************************************************************************)
(* "Make sure the drive is halted" (ds402.c:269): the mode of operation    *)
(* changes only while the drive itself has its halt bit set.               *)
(***************************************************************************)
ModeChangesHalted == [][dmode' # dmode => "HALT" \in dctrl]_vars

(***************************************************************************)
(* "Need to set the enable operation bit independently" (ds402.h:89): a    *)
(* drive is switched on before its operation is enabled, also when the bit *)
(* is still set from an earlier run.                                       *)
(***************************************************************************)
EnabledWhenSwitchedOn ==
  [][dstate # "OP_EN" /\ dstate' = "OP_EN" => dstate = "OP_DIS"]_vars

(***************************************************************************)
(* "check if update necessary to save bandwidth" (can402.c:532): a target  *)
(* that equals drive->target_vel_raw needs no RPDO, because the drive has  *)
(* that target already.                                                    *)
(***************************************************************************)
SkippedTargetIsSet == pc = "run" => target = dtarget
=============================================================================
