--------------------------- MODULE Drive402Proofs ----------------------------
(***************************************************************************)
(* Theorems about Drive402, for every set of velocities, every drive found *)
(* and every bound.                                                        *)
(***************************************************************************)
EXTENDS Drive402, TLAPS

(***************************************************************************)
(* The drive.                                                              *)
(***************************************************************************)
LEMMA AfterType ==
  ASSUME NEW s \in State, NEW old, NEW w, NEW t \in After(s, old, w)
  PROVE  t \in State
BY DEF After, State

\* The two ways into "operation enabled", and what the word of a drive that is ready lacks.
LEMMA AfterOperating ==
  ASSUME NEW s \in State, NEW old, NEW w, NEW t \in After(s, old, w)
  PROVE  /\ t = "OP_EN" /\ s # "OP_EN" => s = "OP_DIS" \/ (s = "RDY" /\ Operating(w))
         /\ t = "RDY" => ~Operating(w)
BY DEF After, State, Switched, Operating

\* The commands, given to a drive in the state they are for
LEMMA AfterShutdown ==
  ASSUME NEW s \in State, NEW old, NEW w, NEW t \in After(s, old, Shutdown(w))
  PROVE  /\ s = "SW_ON_DISABLE" => t = "RDY"
         /\ t \notin {"OP_DIS", "OP_EN"}
         /\ s \in {"FAULT_REACTION", "FAULT"} => t = s
BY DEF After, State, Shutdown, Powered, Switched, Operating

LEMMA AfterSwitchOn ==
  ASSUME NEW old, NEW w, NEW t \in After("RDY", old, SwitchOn(w))
  PROVE  t = "OP_DIS"
BY DEF After, SwitchOn, Powered, Switched, Operating

LEMMA AfterEnableOp ==
  ASSUME NEW old, NEW w, NEW t \in After("OP_DIS", old, EnableOp(w))
  PROVE  t = "OP_EN"
BY DEF After, EnableOp, Powered, Switched, Operating

LEMMA AfterDisableVoltage ==
  ASSUME NEW old, NEW w, NEW t \in After("QUICK_STOP", old, DisableVoltage(w))
  PROVE  t = "SW_ON_DISABLE"
BY DEF After, DisableVoltage, Powered, Switched, Operating

\* A drive with a fault leaves that state only when the reset bit is set anew.
LEMMA AfterFault ==
  ASSUME NEW s \in {"FAULT_REACTION", "FAULT"}, NEW old, NEW w, NEW t \in After(s, old, w)
  PROVE  /\ s = "FAULT_REACTION" => t = s
         /\ s = "FAULT" /\ "RESET_FAULT" \notin w => t = s
         /\ s = "FAULT" /\ "RESET_FAULT" \in w \ old => t = "SW_ON_DISABLE"
BY DEF After
-----------------------------------------------------------------------------

(***************************************************************************)
(* The status word: whatever the bits that do not count, a word that a     *)
(* drive shows in a state is decoded as that state (ds402.c:49-71,         *)
(* ds402.h:118-142).                                                       *)
(***************************************************************************)
LEMMA ShownMatches ==
  ASSUME NEW s \in State, NEW w \in Shown(s)
  PROVE  Matches(w, s)
<1>1. Coding[s].set \subseteq w /\ Coding[s].clear \cap w = {}
  BY DEF Shown
<1>2. ASSUME NEW b PROVE b \in ValOf[s] <=> b \in Coding[s].set
  BY DEF ValOf, Coding, State
<1>3. ASSUME NEW b PROVE b \in MaskOf(s) <=> b \in Coding[s].set \/ b \in Coding[s].clear
  BY DEF MaskOf, Coding, State
<1> QED BY <1>1, <1>2, <1>3 DEF Matches

\* Two states have values that differ in a bit both masks keep.
LEMMA StatesDiffer ==
  ASSUME NEW s \in State, NEW t \in State, s # t
  PROVE  \E b \in MaskOf(s) \cap MaskOf(t) : ~(b \in ValOf[s] <=> b \in ValOf[t])
BY DEF State, MaskOf, ValOf

THEOREM DecodeExact ==
  ASSUME NEW s \in State, NEW w \in Shown(s)
  PROVE  Decode(w) = s
<1>1. Matches(w, s)
  BY ShownMatches
<1>2. ASSUME NEW t \in State, Matches(w, t) PROVE t = s
  <2>1. SUFFICES ASSUME t # s PROVE FALSE
    OBVIOUS
  <2>2. PICK b \in MaskOf(s) \cap MaskOf(t) : ~(b \in ValOf[s] <=> b \in ValOf[t])
    BY <2>1, StatesDiffer
  <2>3. b \in w <=> b \in ValOf[s]
    BY <1>1, <2>2 DEF Matches
  <2>4. b \in w <=> b \in ValOf[t]
    BY <1>2, <2>2 DEF Matches
  <2> QED BY <2>2, <2>3, <2>4
<1> QED BY <1>1, <1>2 DEF Decode

\* What the upload of the status word and the switch make of it
LEMMA StatusOutcomes ==
  ASSUME UploadStatus, dstate \in State
  PROVE  \/ stat' = dstate /\ pc' = OnStatus(dstate) /\ UNCHANGED failures
         \/ stat' = "UNKNOWN" /\ pc' = "stop" /\ SendFails
         \/ stat' = stat /\ pc' = "stop" /\ AccessFails
<1>1. CASE (\E w \in Shown(dstate) : stat' = Decode(w)) /\ pc' = OnStatus(stat')
             /\ UNCHANGED failures
  BY <1>1, DecodeExact
<1>2. CASE stat' = "UNKNOWN" /\ pc' = OnStatus(stat') /\ SendFails
  BY <1>2 DEF OnStatus
<1> QED BY <1>1, <1>2 DEF UploadStatus

LEMMA OnStatusType ==
  ASSUME NEW s \in State
  PROVE  /\ OnStatus(s) \in {"run", "nmt", "fault_shutdown", "command"}
         /\ OnStatus(s) = "run" <=> s = "OP_EN"
         /\ OnStatus(s) = "nmt" <=> s = "NRDY"
         /\ OnStatus(s) = "fault_shutdown" <=> s \in {"FAULT_REACTION", "FAULT"}
BY DEF OnStatus, State
-----------------------------------------------------------------------------

(***************************************************************************)
(* The steps of Next: those that send a control word, with the word; those *)
(* of the program that do not; those of the drive on its own.              *)
(***************************************************************************)
Word == CASE pc = "dl_rfg"         -> ctrl \union {"RFG"}
          [] pc = "command"        -> Command(stat, ctrl)
          [] pc = "fault_shutdown" -> Shutdown(ctrl)
          [] pc = "fault_reset"    -> ResetFault(ctrl)
          [] pc = "stop"           -> Shutdown(ctrl)

InitStep  == Launch \/ UploadCtrl \/ UploadTarget \/ UploadMode
SetupStep == RemapCtrl \/ RemapTpdo \/ CheckMode \/ DlMode \/ DlRef \/ RemapUser
StartStep == StartStatus \/ StartGivesUp \/ StartNmt \/ FaultNmt
DlStep    == DlRfg \/ StartCommand \/ FaultShutdown \/ FaultReset \/ Stop
RunStep   == Halt \/ Unhalt \/ \E v \in Vel : SendTarget(v)
AloneStep == DriveBoots \/ DriveFaults \/ DriveFaultEnds

LEMMA StepKinds ==
  ASSUME [Next]_vars
  PROVE  \/ InitStep \/ SetupStep \/ StartStep \/ DlStep \/ RunStep \/ RunEnds \/ Killed
         \/ AloneStep \/ UNCHANGED vars
BY DEF Next, InitStep, SetupStep, StartStep, DlStep, RunStep, AloneStep

\* What a step that downloads a control word changes
LEMMA DlChanges ==
  ASSUME DlStep
  PROVE  /\ pc \in {"dl_rfg", "command", "fault_shutdown", "fault_reset", "stop"}
         /\ DlOk(Word) \/ (DlErr(Word) /\ pc' \in {"stop", "down"})
         /\ pc' \in {"status", "fault_nmt", "stop", "down"}
         /\ pc' = "down" <=> pc = "stop"
         /\ pc' = "status" => /\ pc \in {"dl_rfg", "command", "fault_reset"}
                              /\ pc = "dl_rfg" => remap = "OK"
         /\ pc' = "fault_nmt" => pc = "fault_shutdown"
         /\ UNCHANGED <<target, mode, stat, remap, dmode, dtarget, mapped, sessions, dfaults>>
         /\ pc = "dl_rfg" => c' = 0 /\ excuse' = 0
         /\ pc # "dl_rfg" => UNCHANGED <<c, excuse>>
         /\ IF pc = "stop" THEN stopped' \in BOOLEAN /\ (stopped' => DlOk(Word))
                           ELSE UNCHANGED stopped
<1>1. CASE DlRfg
  BY <1>1 DEF DlRfg, DlCtrl, Word
<1>2. CASE StartCommand
  BY <1>2 DEF StartCommand, StartDl, DlCtrl, Word
<1>3. CASE FaultShutdown
  BY <1>3 DEF FaultShutdown, StartDl, DlCtrl, Word
<1>4. CASE FaultReset
  BY <1>4 DEF FaultReset, StartDl, DlCtrl, Word
<1>5. CASE Stop
  BY <1>5 DEF Stop, Word
<1> QED BY <1>1, <1>2, <1>3, <1>4, <1>5 DEF DlStep
-----------------------------------------------------------------------------

(***************************************************************************)
(* The types.  A command is computed from the state that was decoded, and  *)
(* only for the states that have one; the state may have become a fault    *)
(* since.                                                                  *)
(***************************************************************************)
Faulty == {"FAULT_REACTION", "FAULT"}

CommandFits ==
  pc = "command" => /\ stat \in {"SW_ON_DISABLE", "RDY", "OP_DIS", "QUICK_STOP"}
                    /\ dstate \in {stat} \union Faulty

LEMMA WordType ==
  ASSUME TypeOK, CommandFits,
         pc \in {"dl_rfg", "command", "fault_shutdown", "fault_reset", "stop"}
  PROVE  Word \subseteq Bit
BY DEF TypeOK, CommandFits, Word, Command, Shutdown, SwitchOn, EnableOp, DisableVoltage,
       ResetFault, Bit

LEMMA FailsType ==
  ASSUME TypeOK, UNCHANGED failures \/ SendFails \/ AccessFails
  PROVE  fails' \in 0 .. MaxFails /\ late' \in BOOLEAN
<1>1. fails' = fails \/ CountFail
  BY DEF SendFails, AccessFails, failures
<1>2. fails' \in 0 .. MaxFails
  BY <1>1, BoundsAssumption DEF TypeOK, CountFail
<1>3. late' = late \/ late' = TRUE
  BY DEF SendFails, AccessFails, failures
<1> QED BY <1>2, <1>3 DEF TypeOK

LEMMA ReceivesType ==
  ASSUME TypeOK, NEW w \in SUBSET Bit, Receives(w) \/ UNCHANGED <<dctrl, dstate>>
  PROVE  dctrl' \subseteq Bit /\ dstate' \in State
BY AfterType DEF TypeOK, Receives

LEMMA InitType ==
  ASSUME TypeOK, InitStep
  PROVE  TypeOK'
<1> USE DEF TypeOK, program, device, failures
<1>1. CASE Launch
  <2>1. sessions' \in 0 .. MaxSessions /\ c' \in 0 .. MaxIter
    BY <1>1, BoundsAssumption DEF Launch
  <2>2. pc' \in Pc /\ mode' \in Mode /\ stat' \in State /\ target' \in Vel
    BY <1>1, VelAssumption DEF Launch, Pc, InitPc, Mode, State
  <2> QED BY <1>1, <2>1, <2>2 DEF Launch
<1>2. CASE UploadCtrl
  BY <1>2, FailsType DEF UploadCtrl, Uploads, Pc, InitPc
<1>3. CASE UploadTarget
  BY <1>3, FailsType DEF UploadTarget, Uploads, Pc, InitPc
<1>4. CASE UploadMode
  BY <1>4, FailsType DEF UploadMode, Uploads, Pc, SetupPc, Mode
<1> QED BY <1>1, <1>2, <1>3, <1>4 DEF InitStep

LEMMA SetupType ==
  ASSUME TypeOK, SetupStep
  PROVE  TypeOK'
<1> USE DEF TypeOK, program, device, failures, Pc, SetupPc
<1>1. CASE RemapCtrl
  BY <1>1, FailsType DEF RemapCtrl, Remaps, Pdo
<1>2. CASE RemapTpdo
  BY <1>2, FailsType DEF RemapTpdo
<1>3. CASE CheckMode
  BY <1>3 DEF CheckMode
<1>4. CASE DlMode
  BY <1>4, FailsType DEF DlMode, Mode
<1>5. CASE DlRef
  BY <1>5, FailsType, VelAssumption DEF DlRef
<1>6. CASE RemapUser
  BY <1>6, FailsType DEF RemapUser, Remaps, Pdo
<1> QED BY <1>1, <1>2, <1>3, <1>4, <1>5, <1>6 DEF SetupStep

LEMMA StartType ==
  ASSUME TypeOK, StartStep
  PROVE  TypeOK'
<1> USE DEF TypeOK, program, device, failures, Pc, StartPc
<1>1. CASE StartStatus
  <2>1. c' \in 0 .. MaxIter /\ excuse' \in Nat
    BY <1>1, BoundsAssumption DEF StartStatus
  <2>2. pc' \in Pc /\ stat' \in State \union {"UNKNOWN"}
    BY <1>1, StatusOutcomes, OnStatusType DEF StartStatus
  <2>3. fails' \in 0 .. MaxFails /\ late' \in BOOLEAN
    BY <1>1, FailsType, StatusOutcomes DEF StartStatus
  <2> QED BY <1>1, <2>1, <2>2, <2>3 DEF StartStatus
<1>2. CASE StartGivesUp
  BY <1>2 DEF StartGivesUp
<1>3. CASE StartNmt \/ FaultNmt
  BY <1>3, FailsType DEF StartNmt, FaultNmt, SendNmt
<1> QED BY <1>1, <1>2, <1>3 DEF StartStep

LEMMA DlType ==
  ASSUME TypeOK, CommandFits, DlStep
  PROVE  TypeOK'
<1>1. DlOk(Word) \/ DlErr(Word)
  BY DlChanges
<1>2. Word \in SUBSET Bit
  BY DlChanges, WordType
<1>3. dctrl' \subseteq Bit /\ dstate' \in State
  BY <1>1, <1>2, ReceivesType DEF DlOk, DlErr
<1>4. ctrl' \subseteq Bit
  BY <1>1, <1>2 DEF DlOk, DlErr, TypeOK
<1>5. fails' \in 0 .. MaxFails /\ late' \in BOOLEAN
  BY <1>1, FailsType DEF DlOk, DlErr
<1>6. pc' \in Pc /\ stopped' \in BOOLEAN
  BY DlChanges DEF TypeOK, Pc, StartPc
<1>7. c' \in 0 .. MaxIter /\ excuse' \in Nat
  BY DlChanges, BoundsAssumption DEF TypeOK
<1> QED BY <1>3, <1>4, <1>5, <1>6, <1>7, DlChanges DEF TypeOK

LEMMA RunType ==
  ASSUME TypeOK, RunStep
  PROVE  TypeOK'
<1>1. ASSUME NEW w \in SUBSET Bit, SendCtrl(w)
      PROVE  TypeOK'
  <2>1. dctrl' \subseteq Bit /\ dstate' \in State /\ ctrl' \subseteq Bit
    BY <1>1, ReceivesType DEF SendCtrl, TypeOK
  <2>2. fails' \in 0 .. MaxFails /\ late' \in BOOLEAN
    BY <1>1, FailsType DEF SendCtrl, TypeOK
  <2> QED BY <1>1, <2>1, <2>2 DEF SendCtrl, TypeOK
<1>2. ASSUME NEW v \in Vel, SendTarget(v)
      PROVE  TypeOK'
  BY <1>2, FailsType DEF SendTarget, TypeOK
<1>3. ctrl \union {"HALT"} \in SUBSET Bit /\ ctrl \ {"HALT"} \in SUBSET Bit
  BY DEF TypeOK, Bit
<1> QED BY <1>1, <1>2, <1>3 DEF RunStep, Halt, Unhalt

LEMMA AloneType ==
  ASSUME TypeOK, AloneStep
  PROVE  TypeOK'
<1> USE DEF AloneStep, DriveAlone, TypeOK, program, failures, State
<1>1. CASE DriveBoots
  BY <1>1 DEF DriveBoots
<1>2. CASE DriveFaults
  BY <1>2, BoundsAssumption DEF DriveFaults
<1>3. CASE DriveFaultEnds
  BY <1>3 DEF DriveFaultEnds
<1> QED BY <1>1, <1>2, <1>3

LEMMA CommandStep ==
  ASSUME TypeOK, CommandFits, [Next]_vars
  PROVE  CommandFits'
<1> USE DEF CommandFits, Faulty
<1>1. CASE pc' # "command"
  BY <1>1
<1>2. CASE StartStatus
  <2>1. \/ stat' = dstate /\ pc' = OnStatus(dstate)
        \/ pc' = "stop"
    BY <1>2, StatusOutcomes DEF StartStatus, TypeOK
  <2>2. UNCHANGED dstate
    BY <1>2 DEF StartStatus, device
  <2> QED BY <2>1, <2>2, OnStatusType DEF TypeOK, State
<1>3. CASE AloneStep
  BY <1>3 DEF AloneStep, DriveBoots, DriveFaults, DriveFaultEnds, DriveAlone, program
<1>4. CASE InitStep \/ SetupStep \/ StartGivesUp \/ StartNmt \/ FaultNmt \/ RunEnds \/ Killed
  <2>1. pc' # "command"
    BY <1>4 DEF InitStep, Launch, UploadCtrl, UploadTarget, UploadMode, Uploads,
                SetupStep, RemapCtrl, RemapTpdo, CheckMode, DlMode, DlRef, RemapUser,
                StartGivesUp, StartNmt, FaultNmt, SendNmt, RunEnds, Killed
  <2> QED BY <1>1, <2>1
<1>5. CASE DlStep
  BY <1>1, <1>5, DlChanges
<1>6. CASE RunStep
  <2>1. pc' # "command"
    BY <1>6 DEF RunStep, Halt, Unhalt, SendCtrl, SendTarget
  <2> QED BY <1>1, <2>1
<1>7. CASE UNCHANGED vars
  BY <1>7 DEF vars, program, device
<1> QED BY <1>2, <1>3, <1>4, <1>5, <1>6, <1>7, StepKinds DEF StartStep

(***************************************************************************)
(* The types of Drive402's variables, and CommandFits with them, because   *)
(* there is no command for the other states.                               *)
(***************************************************************************)
LEMMA TypesAlways == Spec => [](TypeOK /\ CommandFits)
<1>1. Init => TypeOK /\ CommandFits
  <2> SUFFICES ASSUME Init PROVE TypeOK /\ CommandFits
    OBVIOUS
  <2>1. /\ dstate \in State /\ dctrl \subseteq Bit /\ dmode \in {"VELOCITY", "OTHER"}
        /\ dtarget \in Vel
    <3>1. PICK d \in InitDrives :
            dstate = d[1] /\ dctrl = d[2] /\ dmode = d[3] /\ dtarget = d[4]
      BY DEF Init
    <3>2. d \in State \X (SUBSET Bit) \X {"VELOCITY", "OTHER"} \X Vel
      BY DrivesAssumption
    <3> QED BY <3>1, <3>2
  <2>2. /\ c \in 0 .. MaxIter /\ excuse \in Nat
        /\ sessions \in 0 .. MaxSessions /\ fails \in 0 .. MaxFails /\ dfaults \in 0 .. MaxFaults
    BY BoundsAssumption DEF Init
  <2> QED BY <2>1, <2>2, VelAssumption DEF Init, TypeOK, CommandFits, Pc, Mode, State
<1>2. TypeOK /\ CommandFits /\ [Next]_vars => (TypeOK /\ CommandFits)'
  <2> SUFFICES ASSUME TypeOK, CommandFits, [Next]_vars PROVE TypeOK' /\ CommandFits'
    OBVIOUS
  <2>1. CASE RunEnds \/ Killed
    BY <2>1, CommandStep DEF RunEnds, Killed, TypeOK, Pc, program, device, failures
  <2>2. CASE UNCHANGED vars
    BY <2>2, CommandStep DEF vars, TypeOK, program, device, failures
  <2> QED BY <2>1, <2>2, CommandStep, StepKinds,
             InitType, SetupType, StartType, DlType, RunType, AloneType
<1> QED BY <1>1, <1>2, PTL DEF Spec

(***************************************************************************)
(* The types of Drive402's variables, for any drives, velocities, bounds.  *)
(***************************************************************************)
THEOREM TypeCorrect == Spec => []TypeOK
BY TypesAlways, PTL
-----------------------------------------------------------------------------

(***************************************************************************)
(* Late answers.  Every failure leads to the end, and only after the one   *)
(* of the user RPDO's remap a further access comes before that: no upload  *)
(* and no command of canmat_402_start ever reads an earlier answer.        *)
(***************************************************************************)
LateInv == late => pc \in {"stop", "down"} \/ (pc = "dl_rfg" /\ remap = "ERR")

LEMMA LateStep ==
  ASSUME TypeOK, LateInv, [Next]_vars
  PROVE  LateInv'
<1> USE DEF LateInv, failures, program, SendFails, AccessFails, CountFail
<1>1. CASE InitStep
  BY <1>1 DEF InitStep, Launch, UploadCtrl, UploadTarget, UploadMode, Uploads
<1>2. CASE SetupStep
  BY <1>2 DEF SetupStep, RemapCtrl, RemapTpdo, CheckMode, DlMode, DlRef, RemapUser, Remaps
<1>3. CASE StartStatus
  <2>1. pc' = "stop" \/ late' = late
    BY <1>3, StatusOutcomes DEF StartStatus, TypeOK
  <2> QED BY <1>3, <2>1 DEF StartStatus
<1>4. CASE StartGivesUp \/ StartNmt \/ FaultNmt
  BY <1>4 DEF StartGivesUp, StartNmt, FaultNmt, SendNmt
<1>5. CASE DlStep
  <2>1. pc' \in {"stop", "down"} \/ (late' = late /\ (pc = "dl_rfg" => remap = "OK"))
    BY <1>5, DlChanges DEF DlOk
  <2>2. pc # "dl_rfg" /\ late => pc' \in {"stop", "down"}
    BY <1>5, DlChanges
  <2> QED BY <2>1, <2>2
<1>6. CASE RunStep \/ RunEnds \/ Killed
  BY <1>6 DEF RunStep, Halt, Unhalt, SendCtrl, SendTarget, RunEnds, Killed
<1>7. CASE AloneStep \/ UNCHANGED vars
  BY <1>7 DEF AloneStep, DriveBoots, DriveFaults, DriveFaultEnds, DriveAlone, vars
<1> QED BY <1>1, <1>2, <1>3, <1>4, <1>5, <1>6, <1>7, StepKinds DEF StartStep

LEMMA LateAlways == Spec => []LateInv
<1>1. Init => LateInv
  BY DEF Init, LateInv
<1>2. TypeOK /\ LateInv /\ [Next]_vars => LateInv'
  BY LateStep
<1> QED BY <1>1, <1>2, TypesAlways, PTL DEF Spec

\* A download after which the program does not give up was done by the drive.
LEMMA DlGoesOn ==
  ASSUME LateInv, DlStep, pc' \in {"status", "fault_nmt"}
  PROVE  Receives(Word) /\ ctrl' = Word
<1>1. DlOk(Word)
  BY DlChanges
<1>2. ~late
  BY DlChanges DEF LateInv
<1> QED BY <1>1, <1>2 DEF DlOk
-----------------------------------------------------------------------------

(***************************************************************************)
(* The control word and the setup.  CtrlCacheExact is kept by the RPDOs of *)
(* the run loop only because the control word's RPDO is still mapped       *)
(* there, and what RunMeansReady says of "run" has been achieved one       *)
(* access after the other since the struct was filled.                     *)
(***************************************************************************)
Ready == mapped = Pdo /\ "RFG" \in ctrl /\ dmode = "VELOCITY"

ModeKnown == pc \in {"remap_ctrl", "remap_tpdo", "check_mode"} => mode = dmode

CtrlMapped == pc \in SetupPc \ {"remap_ctrl"} => "ctrl" \in mapped

ModeSet ==
  /\ pc = "dl_mode" => "HALT" \in ctrl
  /\ pc \in {"dl_ref", "remap_user", "dl_rfg"} => dmode = "VELOCITY"
  /\ pc = "dl_rfg" /\ remap = "OK" => mapped = Pdo

StartsReady == pc \in StartPc \union {"run"} => Ready

ReadyInv == CtrlCacheExact /\ ModeKnown /\ CtrlMapped /\ ModeSet /\ StartsReady

\* The commands keep the ramp generator on.
LEMMA WordKeepsRfg ==
  ASSUME TypeOK, CommandFits,
         pc \in {"dl_rfg", "command", "fault_shutdown", "fault_reset", "stop"},
         pc = "dl_rfg" \/ "RFG" \in ctrl
  PROVE  "RFG" \in Word
BY DEF TypeOK, CommandFits, Word, Command, Shutdown, SwitchOn, EnableOp, DisableVoltage, ResetFault

LEMMA SetupReady ==
  ASSUME TypeOK, ReadyInv, InitStep \/ SetupStep
  PROVE  ReadyInv'
<1> USE DEF ReadyInv, CtrlCacheExact, ModeKnown, CtrlMapped, ModeSet, StartsReady,
            SetupPc, StartPc, program, device
<1>1. CASE InitStep
  BY <1>1 DEF InitStep, Launch, UploadCtrl, UploadTarget, UploadMode, Uploads
<1>2. CASE RemapCtrl
  BY <1>2 DEF RemapCtrl, Remaps
<1>3. CASE RemapTpdo
  BY <1>3 DEF RemapTpdo
<1>4. CASE CheckMode
  BY <1>4 DEF CheckMode
<1>5. CASE DlMode
  BY <1>5 DEF DlMode
<1>6. CASE DlRef
  BY <1>6 DEF DlRef
<1>7. CASE RemapUser
  BY <1>7 DEF RemapUser, Remaps, Pdo, TypeOK
<1> QED BY <1>1, <1>2, <1>3, <1>4, <1>5, <1>6, <1>7 DEF SetupStep

LEMMA DlReady ==
  ASSUME TypeOK, CommandFits, LateInv, ReadyInv, DlStep
  PROVE  ReadyInv'
<1>1. CASE pc' \in {"stop", "down"}
  BY <1>1 DEF ReadyInv, CtrlCacheExact, ModeKnown, CtrlMapped, ModeSet, StartsReady, SetupPc, StartPc
<1>2. CASE pc' \in {"status", "fault_nmt"}
  <2>1. /\ Receives(Word) /\ ctrl' = Word /\ UNCHANGED <<mapped, dmode>>
        /\ pc \in {"dl_rfg", "command", "fault_shutdown", "fault_reset"}
        /\ pc = "dl_rfg" => remap = "OK"
    BY <1>2, DlChanges, DlGoesOn
  <2>2. mapped = Pdo /\ dmode = "VELOCITY" /\ (pc = "dl_rfg" \/ "RFG" \in ctrl)
    BY <2>1 DEF ReadyInv, ModeSet, StartsReady, Ready, StartPc
  <2>3. Ready' /\ ctrl' = dctrl'
    BY <2>1, <2>2, WordKeepsRfg DEF Ready, Receives
  <2> QED BY <1>2, <2>3 DEF ReadyInv, CtrlCacheExact, ModeKnown, CtrlMapped, ModeSet, StartsReady,
                            SetupPc
<1> QED BY <1>1, <1>2, DlChanges

LEMMA RunReady ==
  ASSUME ReadyInv, RunStep
  PROVE  ReadyInv' /\ pc = "run"
<1> USE DEF ReadyInv, CtrlCacheExact, ModeKnown, CtrlMapped, ModeSet, StartsReady, Ready,
            SetupPc, StartPc
<1>1. CASE Halt
  BY <1>1 DEF Halt, SendCtrl, Receives, Pdo
<1>2. CASE Unhalt
  BY <1>2 DEF Unhalt, SendCtrl, Receives, Pdo
<1>3. ASSUME NEW v \in Vel, SendTarget(v) PROVE ReadyInv' /\ pc = "run"
  BY <1>3 DEF SendTarget
<1> QED BY <1>1, <1>2, <1>3 DEF RunStep

LEMMA OtherReady ==
  ASSUME TypeOK, ReadyInv, StartStep \/ RunEnds \/ Killed \/ AloneStep \/ UNCHANGED vars
  PROVE  ReadyInv'
<1> USE DEF ReadyInv, CtrlCacheExact, ModeKnown, CtrlMapped, ModeSet, StartsReady, Ready,
            SetupPc, StartPc, program, device
<1>1. CASE StartStatus
  <2>1. pc' \in (StartPc \ {"status"}) \union {"run", "stop"}
    BY <1>1, StatusOutcomes, OnStatusType DEF StartStatus, TypeOK
  <2> QED BY <1>1, <2>1 DEF StartStatus
<1>2. CASE StartGivesUp \/ StartNmt \/ FaultNmt
  BY <1>2 DEF StartGivesUp, StartNmt, FaultNmt, SendNmt
<1>3. CASE RunEnds \/ Killed
  BY <1>3 DEF RunEnds, Killed
<1>4. CASE AloneStep
  BY <1>4 DEF AloneStep, DriveBoots, DriveFaults, DriveFaultEnds, DriveAlone
<1>5. CASE UNCHANGED vars
  BY <1>5 DEF vars
<1> QED BY <1>1, <1>2, <1>3, <1>4, <1>5 DEF StartStep

LEMMA ReadyAlways == Spec => []ReadyInv
<1>1. Init => ReadyInv
  BY DEF Init, ReadyInv, CtrlCacheExact, ModeKnown, CtrlMapped, ModeSet, StartsReady,
         SetupPc, StartPc
<1>2. TypeOK /\ CommandFits /\ LateInv /\ ReadyInv /\ [Next]_vars => ReadyInv'
  BY StepKinds, SetupReady, DlReady, RunReady, OtherReady
<1> QED BY <1>1, <1>2, TypesAlways, LateAlways, PTL DEF Spec

(***************************************************************************)
(* The word the program computes the next one from is the drive's          *)
(* (ds402.c:101-103, can402.c:564-580), for any drive, after any failures  *)
(* and restarts.                                                           *)
(***************************************************************************)
THEOREM CacheCorrect == Spec => []CtrlCacheExact
<1>1. ReadyInv => CtrlCacheExact
  BY DEF ReadyInv
<1> QED BY <1>1, ReadyAlways, PTL

(***************************************************************************)
(* can402 runs only with a drive in velocity mode, with both RPDOs mapped  *)
(* and the ramp generator on (ds402.c:286-294).                            *)
(***************************************************************************)
THEOREM RunCorrect == Spec => []RunMeansReady
<1>1. ReadyInv => RunMeansReady
  BY DEF ReadyInv, CtrlCacheExact, StartsReady, Ready, RunMeansReady, StartPc
<1> QED BY <1>1, ReadyAlways, PTL

(***************************************************************************)
(* The mode of operation changes only while the drive has its halt bit set *)
(* (ds402.c:269-272).                                                      *)
(***************************************************************************)
THEOREM ModeCorrect == Spec => ModeChangesHalted
<1> DEFINE Halted == dmode' # dmode => "HALT" \in dctrl
<1>1. ASSUME ReadyInv, [Next]_vars PROVE Halted
  <2> USE DEF program, device
  <2>1. CASE DlMode
    BY <1>1, <2>1 DEF DlMode, ReadyInv, CtrlCacheExact, ModeSet
  <2>2. CASE InitStep
    BY <2>2 DEF InitStep, Launch, UploadCtrl, UploadTarget, UploadMode, Uploads
  <2>3. CASE RemapCtrl \/ RemapTpdo \/ CheckMode \/ DlRef \/ RemapUser
    BY <2>3 DEF RemapCtrl, RemapTpdo, CheckMode, DlRef, RemapUser
  <2>4. CASE StartStep
    BY <2>4 DEF StartStep, StartStatus, StartGivesUp, StartNmt, FaultNmt, SendNmt
  <2>5. CASE DlStep
    BY <2>5, DlChanges
  <2>6. CASE RunStep \/ RunEnds \/ Killed
    BY <2>6 DEF RunStep, Halt, Unhalt, SendCtrl, SendTarget, RunEnds, Killed
  <2>7. CASE AloneStep \/ UNCHANGED vars
    BY <2>7 DEF AloneStep, DriveBoots, DriveFaults, DriveFaultEnds, DriveAlone, vars
  <2> QED BY <1>1, <2>1, <2>2, <2>3, <2>4, <2>5, <2>6, <2>7, StepKinds DEF SetupStep
<1>2. ReadyInv /\ [Next]_vars => [Halted]_vars
  BY <1>1
<1> QED BY <1>2, ReadyAlways, PTL DEF Spec, ModeChangesHalted
-----------------------------------------------------------------------------

(***************************************************************************)
(* Enabling.  What reaches a drive that is ready to switch on must not     *)
(* have all of the operating bits: its own word has not, because the word  *)
(* that made it ready had not, the words the program derives from that     *)
(* word have them only if it has, and "enable operation" is commanded only *)
(* to a drive that was found switched on and has not become ready since.   *)
(***************************************************************************)
ReadyDriveIdle == dstate = "RDY" => ~Operating(dctrl)

\* The steps in which the drive receives a word, which is then the word w
LEMMA WordsReceived ==
  ASSUME TypeOK, CommandFits, ReadyInv, DlStep \/ RunStep
  PROVE  \/ UNCHANGED <<dctrl, dstate>>
         \/ \E w : Receives(w) /\ (dstate = "RDY" /\ Operating(w) => Operating(dctrl))
<1>1. CASE DlStep
  <2>1. Receives(Word) \/ UNCHANGED <<dctrl, dstate>>
    BY <1>1, DlChanges DEF DlOk, DlErr
  <2>2. ASSUME dstate = "RDY", Operating(Word)
        PROVE  Operating(dctrl)
    <3>1. pc = "stop" \/ pc = "fault_shutdown" => ~Operating(Word)
      BY DEF Word, Shutdown, Switched, Operating
    <3>2. pc = "command" => ~Operating(Word)
      BY <2>2 DEF CommandFits, Faulty, Word, Command, SwitchOn, Operating
    <3>3. pc \in {"dl_rfg", "fault_reset"} => ctrl = dctrl
      BY DEF ReadyInv, CtrlCacheExact
    <3>4. pc \in {"dl_rfg", "fault_reset"} => Operating(ctrl)
      BY <2>2 DEF Word, ResetFault, Operating, Switched, Powered
    <3> QED BY <1>1, <2>2, <3>1, <3>2, <3>3, <3>4, DlChanges
  <2> QED BY <2>1, <2>2
<1>2. CASE RunStep
  <2>1. ctrl = dctrl
    BY <1>2, RunReady DEF ReadyInv, CtrlCacheExact
  <2>2. CASE Halt
    <3>1. Operating(ctrl \union {"HALT"}) => Operating(ctrl)
      BY DEF Operating, Switched, Powered
    <3> QED BY <2>1, <2>2, <3>1 DEF Halt, SendCtrl
  <2>3. CASE Unhalt
    <3>1. Operating(ctrl \ {"HALT"}) => Operating(ctrl)
      BY DEF Operating, Switched, Powered
    <3> QED BY <2>1, <2>3, <3>1 DEF Unhalt, SendCtrl
  <2>4. ASSUME NEW v \in Vel, SendTarget(v) PROVE UNCHANGED <<dctrl, dstate>>
    BY <2>4 DEF SendTarget
  <2> QED BY <1>2, <2>2, <2>3, <2>4 DEF RunStep
<1> QED BY <1>1, <1>2

\* No other step gives the drive a word, and the drive does not become ready by itself.
LEMMA NoWord ==
  ASSUME InitStep \/ SetupStep \/ StartStep \/ RunEnds \/ Killed \/ AloneStep \/ UNCHANGED vars
  PROVE  /\ UNCHANGED dctrl
         /\ dstate' = dstate \/ dstate' \in {"SW_ON_DISABLE", "FAULT_REACTION", "FAULT"}
<1> USE DEF device
<1>1. CASE InitStep
  BY <1>1 DEF InitStep, Launch, UploadCtrl, UploadTarget, UploadMode, Uploads
<1>2. CASE SetupStep
  BY <1>2 DEF SetupStep, RemapCtrl, RemapTpdo, CheckMode, DlMode, DlRef, RemapUser
<1>3. CASE StartStep
  BY <1>3 DEF StartStep, StartStatus, StartGivesUp, StartNmt, FaultNmt, SendNmt
<1>4. CASE RunEnds \/ Killed
  BY <1>4 DEF RunEnds, Killed
<1>5. CASE AloneStep \/ UNCHANGED vars
  BY <1>5 DEF AloneStep, DriveBoots, DriveFaults, DriveFaultEnds, DriveAlone, vars
<1> QED BY <1>1, <1>2, <1>3, <1>4, <1>5

LEMMA EnableStep ==
  ASSUME TypeOK, CommandFits, ReadyInv, ReadyDriveIdle, [Next]_vars
  PROVE  /\ ReadyDriveIdle'
         /\ dstate # "OP_EN" /\ dstate' = "OP_EN" => dstate = "OP_DIS"
<1>1. CASE UNCHANGED <<dctrl, dstate>>
  BY <1>1 DEF ReadyDriveIdle
<1>2. ASSUME NEW w, Receives(w), dstate = "RDY" /\ Operating(w) => Operating(dctrl)
      PROVE  /\ ReadyDriveIdle'
             /\ dstate # "OP_EN" /\ dstate' = "OP_EN" => dstate = "OP_DIS"
  <2>1. dctrl' = w /\ dstate' \in After(dstate, dctrl, w) /\ dstate \in State
    BY <1>2 DEF Receives, TypeOK
  <2> QED BY <1>2, <2>1, AfterOperating DEF ReadyDriveIdle
<1>3. CASE DlStep \/ RunStep
  BY <1>1, <1>2, <1>3, WordsReceived
<1>4. CASE UNCHANGED dctrl /\ dstate' \in {"SW_ON_DISABLE", "FAULT_REACTION", "FAULT"}
  BY <1>4 DEF ReadyDriveIdle
<1> QED BY <1>1, <1>3, <1>4, NoWord, StepKinds

(***************************************************************************)
(* A drive is switched on before its operation is enabled (ds402.h:89),    *)
(* whatever bits an earlier run has left in its control word.              *)
(***************************************************************************)
THEOREM EnableCorrect == Spec => EnabledWhenSwitchedOn
<1> DEFINE Enabled == dstate # "OP_EN" /\ dstate' = "OP_EN" => dstate = "OP_DIS"
<1>1. Init => ReadyDriveIdle
  BY SettledAssumption DEF Init, ReadyDriveIdle
<1>2. TypeOK /\ CommandFits /\ ReadyInv /\ ReadyDriveIdle /\ [Next]_vars => ReadyDriveIdle'
  BY EnableStep
<1>3. Spec => []ReadyDriveIdle
  BY <1>1, <1>2, TypesAlways, ReadyAlways, PTL DEF Spec
<1>4. TypeOK /\ CommandFits /\ ReadyInv /\ ReadyDriveIdle /\ [Next]_vars => [Enabled]_vars
  BY EnableStep
<1> QED BY <1>3, <1>4, TypesAlways, ReadyAlways, PTL DEF Spec, EnabledWhenSwitchedOn
-----------------------------------------------------------------------------

(***************************************************************************)
(* The end.  The words that reach a drive in operation never take it to    *)
(* its quick stop: it has all of the operating bits, each word the program *)
(* derives from them keeps "quick stop" set (which is active low), so a    *)
(* drive that was started is not quick-stopped later.                      *)
(***************************************************************************)
OperatingDrive == dstate = "OP_EN" => Operating(dctrl)

StartedRuns == Started => dstate # "QUICK_STOP"

\* The words that reach a drive in operation
LEMMA WordsOperating ==
  ASSUME TypeOK, CommandFits, ReadyInv, OperatingDrive, DlStep \/ RunStep
  PROVE  \/ UNCHANGED <<dctrl, dstate>>
         \/ \E w : Receives(w) /\ (dstate = "OP_EN" => "QUICK_STOP" \in w)
<1>1. CASE DlStep
  <2>1. Receives(Word) \/ UNCHANGED <<dctrl, dstate>>
    BY <1>1, DlChanges DEF DlOk, DlErr
  <2>2. ASSUME dstate = "OP_EN" PROVE "QUICK_STOP" \in Word
    <3>1. pc = "stop" \/ pc = "fault_shutdown" => "QUICK_STOP" \in Word
      BY DEF Word, Shutdown
    <3>2. pc # "command"
      BY <2>2 DEF CommandFits, Faulty
    <3>3. pc \in {"dl_rfg", "fault_reset"} => "QUICK_STOP" \in ctrl
      BY <2>2 DEF ReadyInv, CtrlCacheExact, OperatingDrive, Operating, Switched, Powered
    <3> QED BY <1>1, <3>1, <3>2, <3>3, DlChanges DEF Word, ResetFault
  <2> QED BY <2>1, <2>2
<1>2. CASE RunStep
  <2>1. dstate = "OP_EN" => "QUICK_STOP" \in ctrl
    BY <1>2, RunReady DEF ReadyInv, CtrlCacheExact, OperatingDrive, Operating, Switched, Powered
  <2>2. CASE Halt
    BY <2>1, <2>2 DEF Halt, SendCtrl
  <2>3. CASE Unhalt
    BY <2>1, <2>3 DEF Unhalt, SendCtrl
  <2>4. ASSUME NEW v \in Vel, SendTarget(v) PROVE UNCHANGED <<dctrl, dstate>>
    BY <2>4 DEF SendTarget
  <2> QED BY <1>2, <2>2, <2>3, <2>4 DEF RunStep
<1> QED BY <1>1, <1>2

LEMMA AfterQuick ==
  ASSUME NEW s \in State, NEW old, NEW w, NEW t \in After(s, old, w)
  PROVE  /\ t = "OP_EN" => s = "OP_EN" \/ Operating(w)
         /\ s = "OP_EN" /\ t = "OP_EN" => Operating(w)
         /\ t = "QUICK_STOP" => s = "QUICK_STOP" \/ (s = "OP_EN" /\ "QUICK_STOP" \notin w)
BY DEF After, State, Operating, Switched, Powered

\* The drive does not go into operation without the bits, nor into a quick stop.
LEMMA QuickStep ==
  ASSUME TypeOK, CommandFits, ReadyInv, OperatingDrive, [Next]_vars
  PROVE  /\ OperatingDrive'
         /\ dstate' = "QUICK_STOP" => dstate = "QUICK_STOP"
<1>1. CASE UNCHANGED <<dctrl, dstate>>
  BY <1>1 DEF OperatingDrive
<1>2. ASSUME NEW w, Receives(w), dstate = "OP_EN" => "QUICK_STOP" \in w
      PROVE  /\ OperatingDrive'
             /\ dstate' = "QUICK_STOP" => dstate = "QUICK_STOP"
  <2>1. dctrl' = w /\ dstate' \in After(dstate, dctrl, w) /\ dstate \in State
    BY <1>2 DEF Receives, TypeOK
  <2> QED BY <1>2, <2>1, AfterQuick DEF OperatingDrive
<1>3. CASE DlStep \/ RunStep
  BY <1>1, <1>2, <1>3, WordsOperating
<1>4. CASE UNCHANGED dctrl /\ dstate' \in {"SW_ON_DISABLE", "FAULT_REACTION", "FAULT"}
  BY <1>4 DEF OperatingDrive
<1> QED BY <1>1, <1>3, <1>4, NoWord, StepKinds

\* What start last decoded changes only in its loop, and with a new process.
LEMMA StartedStep ==
  ASSUME TypeOK, [Next]_vars, stat' # stat
  PROVE  stat' # "OP_EN" \/ (StartStatus /\ dstate' = dstate /\ dstate = "OP_EN")
<1> USE DEF program
<1>1. CASE StartStatus
  <2>1. stat' = dstate \/ stat' = "UNKNOWN"
    BY <1>1, StatusOutcomes DEF StartStatus, TypeOK
  <2> QED BY <1>1, <2>1 DEF StartStatus, device
<1>2. CASE InitStep
  BY <1>2 DEF InitStep, Launch, UploadCtrl, UploadTarget, UploadMode, Uploads
<1>3. CASE SetupStep
  BY <1>3 DEF SetupStep, RemapCtrl, RemapTpdo, CheckMode, DlMode, DlRef, RemapUser
<1>4. CASE StartGivesUp \/ StartNmt \/ FaultNmt
  BY <1>4 DEF StartGivesUp, StartNmt, FaultNmt, SendNmt
<1>5. CASE DlStep
  BY <1>5, DlChanges
<1>6. CASE RunStep \/ RunEnds \/ Killed
  BY <1>6 DEF RunStep, Halt, Unhalt, SendCtrl, SendTarget, RunEnds, Killed
<1>7. CASE AloneStep \/ UNCHANGED vars
  BY <1>7 DEF AloneStep, DriveBoots, DriveFaults, DriveFaultEnds, DriveAlone, vars
<1> QED BY <1>1, <1>2, <1>3, <1>4, <1>5, <1>6, <1>7, StepKinds DEF StartStep

LEMMA QuickAlways == Spec => [](OperatingDrive /\ StartedRuns)
<1>1. Init => OperatingDrive /\ StartedRuns
  BY SettledAssumption DEF Init, OperatingDrive, StartedRuns, Started
<1>2. TypeOK /\ CommandFits /\ ReadyInv /\ OperatingDrive /\ StartedRuns /\ [Next]_vars
        => (OperatingDrive /\ StartedRuns)'
  BY QuickStep, StartedStep DEF StartedRuns, Started
<1> QED BY <1>1, <1>2, TypesAlways, ReadyAlways, PTL DEF Spec

(***************************************************************************)
(* "stopped" belongs to a program that is down, and from the state a       *)
(* successful stop leaves the drive in it does not switch itself on.       *)
(***************************************************************************)
OffInv == stopped /\ ~late => dstate \notin {"OP_DIS", "OP_EN"}

DownInv == stopped => pc = "down"

LEMMA DownStep ==
  ASSUME DownInv, [Next]_vars
  PROVE  /\ DownInv'
         /\ stopped' => stopped \/ Stop
         /\ stopped /\ stopped' => /\ UNCHANGED late
                                  /\ dstate' \in {dstate, "SW_ON_DISABLE", "FAULT_REACTION", "FAULT"}
<1> USE DEF DownInv, program, device, failures
<1>1. CASE Stop
  <2>1. pc = "stop" /\ pc' = "down"
    BY <1>1 DEF Stop
  <2>2. ~stopped
    BY <2>1
  <2> QED BY <1>1, <2>1, <2>2
<1>2. CASE DlRfg \/ StartCommand \/ FaultShutdown \/ FaultReset
  BY <1>2 DEF DlRfg, StartCommand, FaultShutdown, FaultReset, StartDl
<1>3. CASE InitStep
  BY <1>3 DEF InitStep, Launch, UploadCtrl, UploadTarget, UploadMode, Uploads
<1>4. CASE SetupStep
  BY <1>4 DEF SetupStep, RemapCtrl, RemapTpdo, CheckMode, DlMode, DlRef, RemapUser
<1>5. CASE StartStep
  BY <1>5 DEF StartStep, StartStatus, StartGivesUp, StartNmt, FaultNmt, SendNmt
<1>6. CASE RunStep \/ RunEnds \/ Killed
  BY <1>6 DEF RunStep, Halt, Unhalt, SendCtrl, SendTarget, RunEnds, Killed
<1>7. CASE AloneStep \/ UNCHANGED vars
  BY <1>7 DEF AloneStep, DriveBoots, DriveFaults, DriveFaultEnds, DriveAlone, vars
<1> QED BY <1>1, <1>2, <1>3, <1>4, <1>5, <1>6, <1>7, StepKinds DEF DlStep

LEMMA OffStep ==
  ASSUME TypeOK, DownInv, OffInv, [Next]_vars
  PROVE  OffInv'
<1> SUFFICES ASSUME stopped', ~late' PROVE dstate' \notin {"OP_DIS", "OP_EN"}
  BY DEF OffInv
<1>1. CASE Stop
  <2>1. DlOk(Shutdown(ctrl))
    BY <1>1 DEF Stop
  <2>2. Receives(Shutdown(ctrl))
    BY <2>1 DEF DlOk, failures
  <2> QED BY <2>2, AfterShutdown DEF Receives, TypeOK
<1>2. CASE stopped
  BY <1>2, DownStep DEF OffInv
<1> QED BY <1>1, <1>2, DownStep

(***************************************************************************)
(* After a stop that returned OK, and was not a late answer's OK, the      *)
(* drive is off (ds402.c:233-235) until a program is started again, unless *)
(* it was found quick-stopped and never started.                           *)
(***************************************************************************)
THEOREM StopCorrect == Spec => []StopLeavesOff
<1>1. Init => DownInv /\ OffInv
  BY DEF Init, DownInv, OffInv
<1>2. TypeOK /\ DownInv /\ OffInv /\ [Next]_vars => DownInv' /\ OffInv'
  BY DownStep, OffStep
<1>3. OffInv /\ StartedRuns => StopLeavesOff
  BY DEF OffInv, StartedRuns, StopLeavesOff, On
<1> QED BY <1>1, <1>2, <1>3, TypesAlways, QuickAlways, PTL DEF Spec
-----------------------------------------------------------------------------

(***************************************************************************)
(* Progress.  The iterations used and the steps still to go, at each       *)
(* access of the loop: an iteration that has decoded a state owes the      *)
(* command for it, or the three accesses that reset a fault, of which the  *)
(* first clears the bit the last one sets anew.  A fault pays for itself.  *)
(***************************************************************************)
FaultPc == {"fault_shutdown", "fault_nmt", "fault_reset"}

Budget(n) == c + Rank[dstate] <= n + excuse

StatusBudget  == pc \in {"status", "nmt"} => Budget(4)

CommandBudget == pc = "command" => Budget(IF dstate = stat THEN 5 ELSE 4)

FaultBudget ==
  /\ pc \in FaultPc => dstate \in Faulty /\ Budget(IF dstate = "FAULT" THEN 5 ELSE 4)
  /\ pc \in {"fault_nmt", "fault_reset"} => "RESET_FAULT" \notin dctrl

ProgressInv == StatusBudget /\ CommandBudget /\ FaultBudget

LEMMA RankValues ==
  /\ Rank["OP_EN"] = 0 /\ Rank["OP_DIS"] = 1 /\ Rank["RDY"] = 2 /\ Rank["SW_ON_DISABLE"] = 3
  /\ \A s \in {"NRDY", "QUICK_STOP", "FAULT_REACTION", "FAULT"} : Rank[s] = 4
  /\ \A s \in State : Rank[s] \in 0 .. 4
BY DEF Rank, State

LEMMA StatusProgress ==
  ASSUME TypeOK, ProgressInv, StartStatus
  PROVE  ProgressInv'
<1>1. c \in Nat /\ excuse \in Nat /\ dstate \in State /\ Rank[dstate] \in Nat
  BY RankValues DEF TypeOK
<1>2. c + Rank[dstate] <= 4 + excuse
  BY <1>1 DEF StartStatus, ProgressInv, StatusBudget, Budget
<1>3. c' = c + 1 /\ UNCHANGED <<dstate, dctrl>>
  BY DEF StartStatus, device
<1>4. excuse' = IF dstate \in {"NRDY", "FAULT_REACTION"} THEN excuse + 1 ELSE excuse
  BY DEF StartStatus
<1>5. pc' = "stop" \/ (stat' = dstate /\ pc' = OnStatus(dstate))
  BY <1>1, StatusOutcomes DEF StartStatus
<1>6. CASE pc' = "stop"
  BY <1>6 DEF ProgressInv, StatusBudget, CommandBudget, FaultBudget, FaultPc
<1>7. CASE stat' = dstate /\ pc' = OnStatus(dstate)
  <2>1. pc' = "nmt" => dstate = "NRDY"
    BY <1>1, <1>7, OnStatusType
  <2>2. pc' \in FaultPc => pc' = "fault_shutdown" /\ dstate \in Faulty
    BY <1>1, <1>7, OnStatusType DEF FaultPc, Faulty
  <2>3. pc' # "status"
    BY <1>1, <1>7, OnStatusType
  <2> QED BY <1>1, <1>2, <1>3, <1>4, <1>7, <2>1, <2>2, <2>3
          DEF ProgressInv, StatusBudget, CommandBudget, FaultBudget, Budget, Faulty, FaultPc
<1> QED BY <1>5, <1>6, <1>7

LEMMA AloneProgress ==
  ASSUME TypeOK, CommandFits, ProgressInv, AloneStep
  PROVE  ProgressInv'
<1> USE DEF DriveAlone, program, ProgressInv, StatusBudget, CommandBudget, FaultBudget, Budget,
            FaultPc, Faulty, CommandFits
<1>1. c \in Nat /\ excuse \in Nat /\ dstate \in State /\ Rank[dstate] \in 0 .. 4
  BY RankValues DEF TypeOK
<1>2. CASE DriveBoots
  BY <1>1, <1>2, RankValues DEF DriveBoots
<1>3. CASE DriveFaults
  <2>1. /\ excuse' = excuse + 5 /\ dstate' = "FAULT_REACTION"
        /\ dstate \notin Faulty
        /\ UNCHANGED <<pc, c, stat, dctrl>>
    BY <1>3 DEF DriveFaults
  <2>2. pc \notin FaultPc
    BY <2>1
  <2>3. Rank["FAULT_REACTION"] = 4
    BY RankValues
  <2>4. CASE pc \in {"status", "nmt"}
    BY <1>1, <2>1, <2>2, <2>3, <2>4
  <2>5. CASE pc = "command"
    <3>1. dstate = stat /\ Rank[stat] >= 1 /\ stat # "FAULT_REACTION"
      BY <2>1, <2>5, RankValues
    <3>2. c + Rank[dstate] <= 5 + excuse
      BY <2>5, <3>1
    <3> QED BY <1>1, <2>1, <2>3, <2>5, <3>1, <3>2
  <2> QED BY <2>1, <2>2, <2>4, <2>5
<1>4. CASE DriveFaultEnds
  BY <1>1, <1>4, RankValues DEF DriveFaultEnds
<1> QED BY <1>2, <1>3, <1>4 DEF AloneStep

\* A command takes a drive that is still in the state it is for one step further.
LEMMA CommandProgress ==
  ASSUME TypeOK, CommandFits, ProgressInv, pc = "command", Receives(Command(stat, ctrl))
  PROVE  c + Rank[dstate'] <= 4 + excuse
<1> USE DEF Faulty
<1>1. /\ stat \in {"SW_ON_DISABLE", "RDY", "OP_DIS", "QUICK_STOP"}
      /\ dstate \in {stat} \union Faulty
  BY DEF CommandFits
<1>2. c \in Nat /\ excuse \in Nat /\ dstate \in State
  BY DEF TypeOK
<1>3. dstate' \in After(dstate, dctrl, Command(stat, ctrl))
  BY DEF Receives
<1>4. c + Rank[dstate] <= (IF dstate = stat THEN 5 ELSE 4) + excuse
  BY DEF ProgressInv, CommandBudget, Budget
<1>5. CASE dstate = stat
  <2>1. Rank[dstate'] = Rank[dstate] - 1
    <3>1. CASE stat = "SW_ON_DISABLE"
      <4>1. dstate' = "RDY"
        BY <1>2, <1>3, <1>5, <3>1, AfterShutdown DEF Command
      <4> QED BY <1>5, <3>1, <4>1, RankValues
    <3>2. CASE stat = "RDY"
      <4>1. dstate' = "OP_DIS"
        BY <1>3, <1>5, <3>2, AfterSwitchOn DEF Command
      <4> QED BY <1>5, <3>2, <4>1, RankValues
    <3>3. CASE stat = "OP_DIS"
      <4>1. dstate' = "OP_EN"
        BY <1>3, <1>5, <3>3, AfterEnableOp DEF Command
      <4> QED BY <1>5, <3>3, <4>1, RankValues
    <3>4. CASE stat = "QUICK_STOP"
      <4>1. dstate' = "SW_ON_DISABLE"
        BY <1>3, <1>5, <3>4, AfterDisableVoltage DEF Command
      <4> QED BY <1>5, <3>4, <4>1, RankValues
    <3> QED BY <1>1, <3>1, <3>2, <3>3, <3>4
  <2> QED BY <1>2, <1>4, <1>5, <2>1, RankValues
<1>6. CASE dstate # stat
  <2>1. dstate \in Faulty
    BY <1>1, <1>6
  <2>2. dstate' \in {dstate, "SW_ON_DISABLE"}
    BY <1>3, <2>1 DEF After
  <2> QED BY <1>2, <1>4, <1>6, <2>1, <2>2, RankValues
<1> QED BY <1>5, <1>6

LEMMA DlProgress ==
  ASSUME TypeOK, CommandFits, LateInv, ProgressInv, DlStep
  PROVE  ProgressInv'
<1> USE DEF Faulty
<1>1. c \in Nat /\ excuse \in Nat /\ dstate \in State
  BY DEF TypeOK
<1>2. CASE pc' \in {"stop", "down"}
  BY <1>2 DEF ProgressInv, StatusBudget, CommandBudget, FaultBudget, FaultPc
<1>3. CASE pc' = "status"
  <2>1. Receives(Word) /\ pc \in {"dl_rfg", "command", "fault_reset"}
    BY <1>3, DlChanges, DlGoesOn
  <2>2. CASE pc = "dl_rfg"
    <3>1. c' = 0 /\ excuse' = 0
      BY <2>2, DlChanges
    <3>2. dstate' \in State
      BY <2>1, <1>1, AfterType DEF Receives
    <3>3. c' + Rank[dstate'] <= 4 + excuse'
      BY <3>1, <3>2, RankValues
    <3> QED BY <1>3, <3>3 DEF ProgressInv, StatusBudget, CommandBudget, FaultBudget, FaultPc, Budget
  <2>3. CASE pc \in {"command", "fault_reset"}
    <3>1. UNCHANGED <<c, excuse>>
      BY <2>3, DlChanges
    <3>2. c + Rank[dstate'] <= 4 + excuse
      <4>1. CASE pc = "command"
        BY <2>1, <4>1, CommandProgress DEF Word
      <4>2. CASE pc = "fault_reset"
        <5>1. /\ dstate \in Faulty /\ "RESET_FAULT" \notin dctrl
              /\ c + Rank[dstate] <= (IF dstate = "FAULT" THEN 5 ELSE 4) + excuse
          BY <4>2 DEF ProgressInv, FaultBudget, Budget, FaultPc
        <5>2. dstate' \in After(dstate, dctrl, ResetFault(ctrl))
          BY <2>1, <4>2 DEF Receives, Word
        <5>3. "RESET_FAULT" \in ResetFault(ctrl) \ dctrl
          BY <5>1 DEF ResetFault
        <5>4. dstate' = IF dstate = "FAULT" THEN "SW_ON_DISABLE" ELSE dstate
          BY <5>1, <5>2, <5>3, AfterFault
        <5> QED BY <1>1, <5>1, <5>4, RankValues
      <4> QED BY <2>3, <4>1, <4>2
    <3> QED BY <1>3, <3>1, <3>2
            DEF ProgressInv, StatusBudget, CommandBudget, FaultBudget, FaultPc, Budget
  <2> QED BY <2>1, <2>2, <2>3
<1>4. CASE pc' = "fault_nmt"
  <2>1. pc = "fault_shutdown" /\ Receives(Shutdown(ctrl)) /\ UNCHANGED <<c, excuse>>
    BY <1>4, DlChanges, DlGoesOn DEF Word
  <2>2. dstate \in Faulty
    BY <2>1 DEF ProgressInv, FaultBudget, FaultPc
  <2>3. dstate' = dstate
    BY <1>1, <2>1, <2>2, AfterShutdown DEF Receives
  <2>4. "RESET_FAULT" \notin dctrl'
    BY <2>1 DEF Receives, Shutdown
  <2> QED BY <1>4, <2>1, <2>2, <2>3, <2>4
          DEF ProgressInv, StatusBudget, CommandBudget, FaultBudget, FaultPc, Budget
<1> QED BY <1>2, <1>3, <1>4, DlChanges

LEMMA OtherProgress ==
  ASSUME ProgressInv,
         InitStep \/ SetupStep \/ StartGivesUp \/ StartNmt \/ FaultNmt \/ RunStep \/ RunEnds
           \/ Killed \/ UNCHANGED vars
  PROVE  ProgressInv'
<1> USE DEF ProgressInv, StatusBudget, CommandBudget, FaultBudget, Budget, FaultPc, program, device
<1>1. CASE InitStep
  BY <1>1 DEF InitStep, Launch, UploadCtrl, UploadTarget, UploadMode, Uploads
<1>2. CASE SetupStep
  BY <1>2 DEF SetupStep, RemapCtrl, RemapTpdo, CheckMode, DlMode, DlRef, RemapUser
<1>3. CASE StartGivesUp \/ StartNmt \/ FaultNmt
  BY <1>3 DEF StartGivesUp, StartNmt, FaultNmt, SendNmt
<1>4. CASE RunStep \/ RunEnds \/ Killed
  BY <1>4 DEF RunStep, Halt, Unhalt, SendCtrl, SendTarget, RunEnds, Killed
<1>5. CASE UNCHANGED vars
  BY <1>5 DEF vars
<1> QED BY <1>1, <1>2, <1>3, <1>4, <1>5

(***************************************************************************)
(* A started loop needs at most one iteration per step of the drive to     *)
(* "operation enabled", and more only for a drive that boots, reacts to a  *)
(* fault or faults (ds402.c:181-228), for any number of iterations.        *)
(***************************************************************************)
THEOREM ProgressCorrect == Spec => []StartMakesProgress
<1>1. Init => ProgressInv
  BY DEF Init, ProgressInv, StatusBudget, CommandBudget, FaultBudget, FaultPc
<1>2. TypeOK /\ CommandFits /\ LateInv /\ ProgressInv /\ [Next]_vars => ProgressInv'
  BY StatusProgress, AloneProgress, DlProgress, OtherProgress, StepKinds DEF StartStep
<1>3. ProgressInv => StartMakesProgress
  BY DEF ProgressInv, StatusBudget, Budget, StartMakesProgress
<1> QED BY <1>1, <1>2, <1>3, TypesAlways, LateAlways, PTL DEF Spec
=============================================================================
