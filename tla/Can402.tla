------------------------------- MODULE Can402 --------------------------------
(***************************************************************************)
(* The daemon can402 with all its drives: the command line, the setup of   *)
(* the drives, one loop over them after the other; the main thread, which  *)
(* waits for a motor reference, halts and unhalts the drives, sends        *)
(* velocities and publishes feedback; the feedback thread, which reads CAN *)
(* frames and stores the raw position and velocity of a drive one after    *)
(* the other; and the end, which stops the drives.  The threads share the  *)
(* raw values and the shutdown flag, nothing else, and take no lock.       *)
(*                                                                         *)
(* What one call of ds402.c does to one drive is in Drive402, here it is   *)
(* one step; what canmat_pdo_remap does is in PdoRemap.  Ach channels, the *)
(* clock and signals are external.  Of a position or velocity the model    *)
(* keeps which frame of the drive it came from.  The drives are different  *)
(* nodes.  The loads and stores of the raw values are __ATOMIC_RELAXED;    *)
(* the model takes them in program order, as they are executed on x86.     *)
(***************************************************************************)
EXTENDS Integers, FiniteSets, Can402Args

CONSTANTS
  N,             \* drive_set.n; the drives are 1 .. N
  CmdLines,      \* command lines; those parse accepts name N drives
  Vel,           \* velocities that can be sent, raw
  EventChannel,  \* opt_chan_event is given
  MaxMsgs,       \* bound: reference messages
  MaxFails,      \* bound: failed accesses, failed sends and failed ach_get calls
  MaxFrames      \* bound: MaxFrames[d] feedback frames of drive d

Drive == 1 .. N

ASSUME NAssumption      == N \in Nat \ {0}
ASSUME LinesAssumption  == \A l \in CmdLines : Accepted(l) =>
                             Parsed(l).drives \in
                               [Drive -> [node : Nat, ctrl : 0 .. 255, user : 0 .. 255]]
ASSUME VelAssumption    == 0 \in Vel
ASSUME EventAssumption  == EventChannel \in BOOLEAN
ASSUME BoundsAssumption == /\ MaxMsgs \in Nat /\ MaxFails \in Nat
                           /\ MaxFrames \in [Drive -> Nat]

VARIABLES
  pc,         \* the main thread
  chan,       \* the channel get_msg reads
  k,          \* the drive a loop over the drives is at
  result,     \* what ach_get returned: a message, a bogus one, a timeout, ...
  mode,       \* msg_ref->mode: a velocity, or one that sends nothing to the drives
  live,       \* msg_ref has not expired
  expired,    \* msg_ref had expired at cx->now, when ach_get returned
  halt,       \* cx->halt
  halted,     \* halted[d]: CTRLMASK_HALT in ctrl_word, cached and on the drive
  target,     \* target[d]: target_vel_raw
  mpos, mvel, \* the frames actual_pos and actual_vel were computed from
  fb,         \* the feedback thread
  fbd,        \* the drive whose frame it has received
  rpos, rvel, \* the frames actual_pos_raw and actual_vel_raw came from
  shutdown,   \* sns_cx.shutdown
  cfg,        \* cfg[d]: the numbers of the drive's control and user RPDO
  on,         \* the drives that are switched on
  vmode,      \* the drives that are in velocity mode
  maps,       \* maps[d]: the RPDOs of the drive that are enabled, with their object
  unstopped,  \* the drives whose canmat_402_stop failed
  quick,      \* the drives found quick-stopped and not started since; they are on
  late,       \* the drives that still owe the answer of an access whose receive failed
  owed,       \* drives whose last halting RPDO was not sent
  msgs, fails

halting  == <<halt, halted, owed>>
feedback == <<fb, fbd, rpos, rvel>>
power    == <<on, quick, late, unstopped>>
setup    == <<cfg, power, vmode, maps>>
vars == <<pc, chan, k, result, mode, live, expired, halting, target, mpos, mvel,
          feedback, setup, shutdown, msgs, fails>>

SetupPc == {"parse", "init", "map_ctrl", "map_fb", "op_mode", "start", "create"}
Ended == pc \in {"join", "stop", "exited", "died"}

\* The drives are as an earlier program left them, except for their mappings, of which
\* the model keeps those of this run.  cx->halt is set whether they are halted or not,
\* and the reference buffer is zero, which is an expired message.
Init ==
  /\ pc = "parse" /\ chan = "ref" /\ k = 1 /\ result = "NONE"
  /\ mode = "OTHER" /\ live = FALSE /\ expired = TRUE
  /\ halt = TRUE
  /\ halted \in [Drive -> BOOLEAN]
  /\ owed = {d \in Drive : ~halted[d]}
  /\ target \in [Drive -> Vel]
  /\ mpos = [d \in Drive |-> 0] /\ mvel = [d \in Drive |-> 0]
  /\ fb = "none" /\ fbd = 1
  /\ rpos = [d \in Drive |-> 0] /\ rvel = [d \in Drive |-> 0]
  /\ shutdown = FALSE
  /\ cfg = [d \in Drive |-> [ctrl |-> 0, user |-> 0]]
  /\ on \in SUBSET Drive /\ quick \in SUBSET on /\ vmode \in SUBSET Drive
  /\ maps = [d \in Drive |-> {}]
  /\ unstopped = {} /\ late = {}
  /\ msgs = 0 /\ fails = 0

CountFails(n) == fails + n <= MaxFails /\ fails' = fails + n
-----------------------------------------------------------------------------

(***************************************************************************)
(* parse and init                                                          *)
(***************************************************************************)
loop == <<chan, result, mode, live, expired, halting, target, mpos, mvel, fbd, rpos, rvel,
          shutdown, msgs>>

Parse(line) ==
  /\ pc = "parse"
  /\ IF Accepted(line)
     THEN /\ cfg' = [d \in Drive |-> [ctrl |-> Parsed(line).drives[d].ctrl,
                                      user |-> Parsed(line).drives[d].user]]
          /\ pc' = "init"
     ELSE pc' = "died" /\ UNCHANGED cfg
  /\ UNCHANGED <<k, loop, fb, power, vmode, maps, fails>>

\* One round of the loop at the label here, over the drives; next follows it.
NextDrive(here, next) ==
  /\ pc = here
  /\ IF k < N THEN k' = k + 1 /\ UNCHANGED pc ELSE k' = 1 /\ pc' = next
  /\ UNCHANGED fails

\* goto FAIL
GotoFail(here) ==
  /\ pc = here
  /\ k' = 1 /\ pc' = "stop"

\* An access to drive k fails; when it was the receive, the answer is still to come.
AccessFails == CountFails(1) /\ late' \in {late, late \union {k}}

\* canmat_402_init: the program exits when it fails, the drives are not stopped.
InitDrive ==
  /\ \/ NextDrive("init", "map_ctrl")
     \/ pc = "init" /\ pc' = "died" /\ UNCHANGED k /\ CountFails(1)
  /\ UNCHANGED <<loop, fb, setup>>

\* canmat_pdo_remap; one that fails may leave the PDO as it was, disabled or remapped.
Remapped(m, num, obj) == {p \in m : p[1] # num} \union {<<num, obj>>}
Remaps(num, obj)      == maps' = [maps EXCEPT ![k] = Remapped(@, num, obj)]
RemapFails(num, obj)  ==
  \E m \in {maps[k], {p \in maps[k] : p[1] # num}, Remapped(maps[k], num, obj)} :
    maps' = [maps EXCEPT ![k] = m]

MapCtrl ==
  /\ \/ /\ Remaps(cfg[k].ctrl, "CONTROLWORD")
        /\ NextDrive("map_ctrl", "map_fb") /\ UNCHANGED late
     \/ /\ RemapFails(cfg[k].ctrl, "CONTROLWORD")
        /\ GotoFail("map_ctrl") /\ AccessFails
  /\ UNCHANGED <<loop, fb, cfg, on, quick, vmode, unstopped>>

MapFeedback ==
  /\ \/ NextDrive("map_fb", "op_mode") /\ UNCHANGED late
     \/ GotoFail("map_fb") /\ AccessFails
  /\ UNCHANGED <<loop, fb, cfg, on, quick, vmode, maps, unstopped>>

\* Mutant: a drive is started right after its mode is set, in the same loop.
SetOpModeAndStart ==
  /\ k \in vmode \/ halted[k]
  /\ vmode' = vmode \union {k}
  /\ Remaps(cfg[k].user, "TARGET")
  /\ on' = on \union {k} /\ quick' = quick \ {k}
  /\ NextDrive("op_mode", "start")
  /\ UNCHANGED <<loop, fb, cfg, unstopped, late>>

\* canmat_402_set_op_mode
SetOpMode ==
  /\ \/ /\ k \in vmode \/ halted[k]
        /\ vmode' = vmode \union {k}
        /\ Remaps(cfg[k].user, "TARGET")
        /\ NextDrive("op_mode", "start") /\ UNCHANGED late
     \/ /\ k \in vmode \/ halted[k]
        /\ vmode' \in {vmode, vmode \union {k}}
        /\ RemapFails(cfg[k].user, "TARGET")
        /\ k \in vmode' \/ UNCHANGED maps
        /\ GotoFail("op_mode") /\ AccessFails
     \/ /\ k \notin vmode /\ ~halted[k]                               \* ERR_MOTION
        /\ GotoFail("op_mode")
        /\ UNCHANGED <<vmode, maps, late, fails>>
  /\ UNCHANGED <<loop, fb, cfg, on, quick, unstopped>>

\* canmat_402_start takes a drive out of its quick stop; one that fails may have switched
\* the drive on or off.
StartDrive ==
  /\ \/ /\ on' = on \union {k} /\ quick' = quick \ {k}
        /\ NextDrive("start", "create") /\ UNCHANGED late
     \/ /\ \/ on' \in {on \union {k}, on \ {k}} /\ quick' = quick \ {k}
           \/ UNCHANGED <<on, quick>>
        /\ GotoFail("start") /\ AccessFails
  /\ UNCHANGED <<loop, fb, cfg, vmode, maps, unstopped>>

\* pthread_create; SNS_DIE when it fails, the drives are not stopped.
CreateThread ==
  /\ pc = "create"
  /\ \/ fb' = "loop" /\ pc' = "head" /\ UNCHANGED fails
     \/ UNCHANGED fb /\ pc' = "died" /\ CountFails(1)
  /\ UNCHANGED <<k, loop, setup>>

SetUp ==
  \/ \E line \in CmdLines : Parse(line)
  \/ InitDrive \/ MapCtrl \/ MapFeedback \/ SetOpMode \/ StartDrive \/ CreateThread
-----------------------------------------------------------------------------

(***************************************************************************)
(* run and get_msg up to the switch                                        *)
(***************************************************************************)
Head ==
  /\ pc = "head"
  /\ pc' = IF shutdown THEN "join" ELSE "get"
  /\ chan' = "ref"
  /\ UNCHANGED <<k, result, mode, live, expired, halting, target, mpos, mvel, feedback,
                 setup, shutdown, msgs, fails>>

GetReturns(r) ==
  /\ pc = "get"
  /\ pc' = "load_pos"
  /\ k' = 1
  /\ result' = r
  /\ UNCHANGED <<chan, halting, target, mpos, mvel, feedback, setup, shutdown>>

\* The message may be late already.  One of a wrong size is in the buffer all the same.
GetMessage(m, fresh, r) ==
  /\ GetReturns(r)
  /\ msgs < MaxMsgs
  /\ msgs' = msgs + 1
  /\ mode' = m
  /\ live' = fresh
  /\ expired' = ~fresh
  /\ UNCHANGED fails

GetTimeout ==
  /\ chan = "ref"
  /\ GetReturns("TIMEOUT")
  /\ expired' = ~live
  /\ UNCHANGED <<mode, live, msgs, fails>>

\* No frame in the event channel, or the wait was cancelled by the signal handler.
GetNothing ==
  /\ chan = "event" \/ shutdown
  /\ GetReturns("NONE")
  /\ expired' = ~live
  /\ UNCHANGED <<mode, live, msgs, fails>>

GetFails(r) ==
  /\ GetReturns(r)
  /\ CountFails(1)
  /\ expired' = ~live
  /\ UNCHANGED <<mode, live, msgs>>

Get ==
  \/ \E m \in {"VEL", "OTHER"}, fresh \in BOOLEAN : GetMessage(m, fresh, "OK")
  \/ \E fresh \in BOOLEAN : GetMessage("OTHER", fresh, "BOGUS")
  \/ GetTimeout
  \/ GetNothing
  \/ \E r \in {"NONE", "CORRUPT"} : GetFails(r)

(***************************************************************************)
(* update_feedback: two atomic loads per drive                             *)
(***************************************************************************)
LoadPos ==
  /\ pc = "load_pos"
  /\ mpos' = [mpos EXCEPT ![k] = rpos[k]]
  /\ pc' = "load_vel"
  /\ UNCHANGED <<chan, k, result, mode, live, expired, halting, target, mvel, feedback,
                 setup, shutdown, msgs, fails>>

\* Mutant: the loop over the drives is one too long.
LoadVelOneMore ==
  /\ pc = "load_vel"
  /\ mvel' = [mvel EXCEPT ![k] = rvel[k]]
  /\ k' = k + 1
  /\ pc' = IF k < N THEN "load_pos" ELSE "act"
  /\ UNCHANGED <<chan, result, mode, live, expired, halting, target, mpos, feedback,
                 setup, shutdown, msgs, fails>>

LoadVel ==
  /\ pc = "load_vel"
  /\ mvel' = [mvel EXCEPT ![k] = rvel[k]]
  /\ IF k < N THEN k' = k + 1 /\ pc' = "load_pos" ELSE k' = 1 /\ pc' = "act"
  /\ UNCHANGED <<chan, result, mode, live, expired, halting, target, mpos, feedback,
                 setup, shutdown, msgs, fails>>
-----------------------------------------------------------------------------

(***************************************************************************)
(* halt( cx, 1 ) when h are the halt bits: every drive that is not halted  *)
(* is sent one, F of these sends fail, and the flag is set anyway.         *)
(***************************************************************************)
HaltAll(h, F) ==
  /\ F \subseteq {d \in Drive : ~h[d]}
  /\ halted' = [d \in Drive |-> d \notin F]
  /\ owed' = F
  /\ halt' = TRUE

\* halt( cx, 0 ) when no send fails
UnhaltAll ==
  /\ halted' = [d \in Drive |-> FALSE]
  /\ owed' = {}
  /\ halt' = FALSE

\* Mutant: halt( cx, 0 ) does not return after it has halted the drives again.
UnhaltStopsAtNoReturn(d, F) ==
  /\ halted[d]
  /\ F \subseteq {e \in Drive : e < d \/ ~halted[e]}
  /\ halted' = [e \in Drive |-> e \notin F]
  /\ owed' = F
  /\ halt' = FALSE

\* Mutant: halt( cx, 0 ) returns without halting the drives again.
UnhaltStopsAtKeeps(d, F) ==
  /\ halted[d]
  /\ F = {}
  /\ halted' = [e \in Drive |-> e >= d /\ halted[e]]
  /\ owed' = {}
  /\ halt' = TRUE

\* halt( cx, 0 ) when the send to drive d fails: the drives before d are unhalted, and
\* all are halted again.
UnhaltStopsAt(d, F) ==
  /\ halted[d]
  /\ HaltAll([e \in Drive |-> e >= d /\ halted[e]], F)

\* The velocities process computes (see PosLimit); a target sent before is not sent again.
SendTargets(vl, F) ==
  /\ F \subseteq {d \in Drive : vl[d] # target[d]}
  /\ target' = [d \in Drive |-> IF d \in F THEN target[d] ELSE vl[d]]

\* get_msg returns, and the event channel is next or the feedback.
Leave ==
  /\ IF chan = "ref" /\ EventChannel THEN pc' = "get" /\ chan' = "event"
                                     ELSE pc' = "post" /\ UNCHANGED chan
  /\ result' = "NONE" /\ expired' = TRUE
  /\ UNCHANGED <<k, mode, live, mpos, mvel, feedback, setup, shutdown, msgs>>

\* Mutant: nothing is sent while cx->halt says the drives are halted.
TimeoutHaltsOnce ==
  /\ pc = "act" /\ result = "TIMEOUT" /\ expired
  /\ IF halt THEN UNCHANGED <<halting, fails>>
     ELSE \E F \in SUBSET Drive : HaltAll(halted, F) /\ CountFails(Cardinality(F))
  /\ UNCHANGED target
  /\ Leave

TimeoutHalts ==
  /\ pc = "act" /\ result = "TIMEOUT" /\ expired
  /\ \E F \in SUBSET Drive : HaltAll(halted, F) /\ CountFails(Cardinality(F))
  /\ UNCHANGED target
  /\ Leave

\* A timeout before the reference expires falls through to the size check with a size of
\* 0; bogus, expired and cancelled messages and other modes change nothing here either.
ActNothing ==
  /\ pc = "act"
  /\ \/ result = "TIMEOUT" /\ ~expired
     \/ result \in {"NONE", "BOGUS"}
     \/ result = "OK" /\ (expired \/ mode = "OTHER")
  /\ UNCHANGED <<halting, target, fails>>
  /\ Leave

Process == pc = "act" /\ result = "OK" /\ ~expired /\ mode = "VEL"

ProcessVelocity ==
  /\ Process
  /\ UnhaltAll
  /\ \E vl \in [Drive -> Vel], F \in SUBSET Drive :
       SendTargets(vl, F) /\ CountFails(Cardinality(F))
  /\ Leave

\* Mutant: process does not look at cx->halt after it has unhalted the drives.
ProcessUnhaltFailsGoesOn ==
  /\ Process
  /\ \E d \in Drive, F \in SUBSET Drive :
       UnhaltStopsAt(d, F) /\ CountFails(1 + Cardinality(F))
  /\ \E vl \in [Drive -> Vel] : SendTargets(vl, {})
  /\ Leave

ProcessUnhaltFails ==
  /\ Process
  /\ \E d \in Drive, F \in SUBSET Drive :
       UnhaltStopsAt(d, F) /\ CountFails(1 + Cardinality(F))
  /\ UNCHANGED target
  /\ Leave

\* SNS_DIE: the process exits, the drives are not stopped.
Die ==
  /\ pc = "act" /\ result = "CORRUPT"
  /\ pc' = "died"
  /\ UNCHANGED <<chan, k, result, mode, live, expired, halting, target, mpos, mvel, feedback,
                 setup, shutdown, msgs, fails>>

\* send_feedback publishes mpos and mvel.
Post ==
  /\ pc = "post"
  /\ pc' = "head"
  /\ UNCHANGED <<chan, k, result, mode, live, expired, halting, target, mpos, mvel, feedback,
                 setup, shutdown, msgs, fails>>
-----------------------------------------------------------------------------

(***************************************************************************)
(* The end of main                                                         *)
(***************************************************************************)
\* Mutant: the drives are stopped without waiting for the feedback thread.
JoinNot ==
  /\ pc = "join"
  /\ pc' = "stop"
  /\ UNCHANGED <<chan, k, result, mode, live, expired, halting, target, mpos, mvel, feedback,
                 setup, shutdown, msgs, fails>>

Join ==
  /\ pc = "join"
  /\ fb = "done"
  /\ pc' = "stop"
  /\ UNCHANGED <<chan, k, result, mode, live, expired, halting, target, mpos, mvel, feedback,
                 setup, shutdown, msgs, fails>>

\* What SHUTDOWN switches off: not a drive that is in its quick stop
ShutOff == {k} \ quick

\* Mutant: the loop ends at the first drive that could not be stopped.
StopDriveOrGiveUp ==
  /\ \/ on' = on \ ShutOff /\ UNCHANGED unstopped /\ NextDrive("stop", "exited")
     \/ /\ on' \in {on, on \ ShutOff}
        /\ unstopped' = unstopped \union {k}
        /\ pc = "stop" /\ pc' = "exited" /\ UNCHANGED k
        /\ CountFails(1)
  /\ UNCHANGED <<loop, fb, cfg, quick, late, vmode, maps>>

\* canmat_402_stop for every drive, whatever the earlier ones returned: done; an OK that
\* was a late answer; an error, a new one or that of a late answer.
StopDrive ==
  /\ pc = "stop"
  /\ IF k < N THEN k' = k + 1 /\ UNCHANGED pc ELSE k' = 1 /\ pc' = "exited"
  /\ \/ on' = on \ ShutOff /\ UNCHANGED <<unstopped, fails>>
     \/ k \in late /\ UNCHANGED <<on, unstopped, fails>>
     \/ /\ on' \in {on, on \ ShutOff}
        /\ unstopped' = unstopped \union {k}
        /\ CountFails(1) \/ (k \in late /\ UNCHANGED fails)
  /\ UNCHANGED <<loop, fb, cfg, quick, late, vmode, maps>>

Main ==
  \/ SetUp
  \/ Head \/ Get \/ LoadPos \/ LoadVel
  \/ TimeoutHalts \/ ActNothing \/ ProcessVelocity \/ ProcessUnhaltFails \/ Die
  \/ Post \/ Join \/ StopDrive

(***************************************************************************)
(* The feedback thread                                                     *)
(***************************************************************************)
main == <<pc, chan, k, result, mode, live, expired, halting, target, mpos, mvel,
          setup, shutdown, msgs, fails>>

\* Mutant: the thread does not look at the flag.
FbLoopForever ==
  /\ fb = "loop"
  /\ fb' = "recv"
  /\ UNCHANGED <<main, fbd, rpos, rvel>>

FbLoop ==
  /\ fb = "loop"
  /\ fb' = IF shutdown THEN "done" ELSE "recv"
  /\ UNCHANGED <<main, fbd, rpos, rvel>>

FbRecv(d) ==
  /\ fb = "recv"
  /\ rpos[d] < MaxFrames[d]
  /\ fb' = "store_pos"
  /\ fbd' = d
  /\ UNCHANGED <<main, rpos, rvel>>

\* Another frame, one of a wrong length, or an error
FbRecvOther ==
  /\ fb = "recv"
  /\ fb' = "loop"
  /\ UNCHANGED <<main, fbd, rpos, rvel>>

\* Mutant: the length is checked between the two stores.
FbStorePosThenCheck ==
  /\ fb = "store_pos"
  /\ rpos' = [rpos EXCEPT ![fbd] = @ + 1]
  /\ fb' \in {"store_vel", "loop"}
  /\ UNCHANGED <<main, fbd, rvel>>

FbStorePos ==
  /\ fb = "store_pos"
  /\ rpos' = [rpos EXCEPT ![fbd] = @ + 1]
  /\ fb' = "store_vel"
  /\ UNCHANGED <<main, fbd, rvel>>

FbStoreVel ==
  /\ fb = "store_vel"
  /\ rvel' = [rvel EXCEPT ![fbd] = rpos[fbd]]
  /\ fb' = "loop"
  /\ UNCHANGED <<main, fbd, rpos>>

Alive == pc \notin {"exited", "died"}

Fb == Alive /\ (FbLoop \/ (\E d \in Drive : FbRecv(d)) \/ FbRecvOther \/ FbStorePos \/ FbStoreVel)
-----------------------------------------------------------------------------

\* The clock passes the expiry time of msg_ref.
Expire ==
  /\ live
  /\ live' = FALSE
  /\ UNCHANGED <<pc, chan, k, result, mode, expired, halting, target, mpos, mvel, feedback,
                 setup, shutdown, msgs, fails>>

\* The handlers are set at the start of init.
Signal ==
  /\ Alive /\ pc # "parse"
  /\ ~shutdown
  /\ shutdown' = TRUE
  /\ UNCHANGED <<pc, chan, k, result, mode, live, expired, halting, target, mpos, mvel,
                 feedback, setup, msgs, fails>>

Next == Main \/ Fb \/ Signal \/ Expire

Spec == Init /\ [][Next]_vars

(***************************************************************************)
(* Fairness: both threads are scheduled; the drives answer the accesses of *)
(* init and stop, or they fail; ach_get returns at the latest at           *)
(* its timeout; frames go on arriving, because init has given the drives'  *)
(* feedback TPDO an event timer of 10 ms (can402.c:343); time passes.      *)
(***************************************************************************)
FairSpec == Spec /\ WF_vars(Main) /\ WF_vars(Fb) /\ WF_vars(Expire)
-----------------------------------------------------------------------------

\* The types of the variables.
TypeOK ==
  /\ pc \in SetupPc \union
            {"head", "get", "load_pos", "load_vel", "act", "post", "join", "stop", "exited", "died"}
  /\ chan \in {"ref", "event"}
  /\ k \in Drive
  /\ result \in {"OK", "BOGUS", "TIMEOUT", "NONE", "CORRUPT"}
  /\ mode \in {"VEL", "OTHER"}
  /\ live \in BOOLEAN /\ expired \in BOOLEAN /\ halt \in BOOLEAN /\ shutdown \in BOOLEAN
  /\ halted \in [Drive -> BOOLEAN]
  /\ owed \subseteq Drive
  /\ target \in [Drive -> Vel]
  /\ mpos \in [Drive -> Nat] /\ mvel \in [Drive -> Nat]
  /\ rpos \in [Drive -> Nat] /\ rvel \in [Drive -> Nat]
  /\ fb \in {"none", "loop", "recv", "store_pos", "store_vel", "done"}
  /\ fbd \in Drive
  /\ cfg \in [Drive -> [ctrl : 0 .. 255, user : 0 .. 255]]
  /\ on \subseteq Drive /\ quick \subseteq on /\ late \subseteq Drive
  /\ vmode \subseteq Drive /\ unstopped \subseteq Drive
  /\ maps \in [Drive -> SUBSET ((0 .. 255) \X {"CONTROLWORD", "TARGET"})]
  /\ msgs \in 0 .. MaxMsgs /\ fails \in 0 .. MaxFails

(***************************************************************************)
(* "make sure we unhalted" (can402.c:518): while cx->halt is clear, every  *)
(* drive is unhalted, whichever sends failed since the last reference.     *)
(***************************************************************************)
UnhaltedTogether == ~halt => \A d \in Drive : ~halted[d]

(***************************************************************************)
(* While cx->halt is set, only a drive whose own halting RPDO was not sent *)
(* is not halted: an unhalt that fails half-way is undone                  *)
(* (can402.c:577-578).                                                     *)
(***************************************************************************)
HaltedUnlessUnsent == halt => \A d \in Drive : halted[d] \/ d \in owed

(***************************************************************************)
(* A velocity is sent only for a reference that had not expired when it    *)
(* was read, and only when no drive is halted: never to some of the drives *)
(* while others stand still (can402.c:503-518).                            *)
(***************************************************************************)
VelocityOnlyUnhalted ==
  [][target' # target => ~expired /\ ~halt' /\ \A d \in Drive : ~halted'[d]]_vars

(***************************************************************************)
(* The velocity published with a position is at most one frame of the      *)
(* drive older than the position, however the stores of the feedback       *)
(* thread and the loads of the main thread interleave (can402.c:591-592,   *)
(* 653-654).                                                               *)
(***************************************************************************)
VelocityNotOlder == pc = "post" => \A d \in Drive : mpos[d] <= mvel[d] + 1

(***************************************************************************)
(* The SDO accesses of init and stop read the socket only when the         *)
(* feedback thread, which reads it too, has ended or was never created     *)
(* (can402.c:165-179).                                                     *)
(***************************************************************************)
OneReader == pc \in SetupPc \union {"stop", "exited"} => fb \in {"none", "done"}

(***************************************************************************)
(* No drive is switched on before every drive of the set is in velocity    *)
(* mode and has its control word and its target in the two RPDOs the       *)
(* daemon will send: a setup that fails half-way, or a command line,       *)
(* cannot leave a running drive that a halt does not reach                 *)
(* (can402.c:284-288, 321-377).                                            *)
(***************************************************************************)
Ready(d) == /\ d \in vmode
            /\ <<cfg[d].ctrl, "CONTROLWORD">> \in maps[d]
            /\ <<cfg[d].user, "TARGET">> \in maps[d]

SwitchedOnWhenAllReady == [][on' \ on # {} => \A d \in Drive : Ready(d)]_vars

(***************************************************************************)
(* When the daemon has run and exits after a signal, only a drive whose    *)
(* own stop returned an error may still be on.  When the setup failed,     *)
(* also one that was found quick-stopped and had not been started, which   *)
(* SHUTDOWN leaves on (ds402.c:233-235, ds402.h:124), and the one whose    *)
(* answer was still to come, which stop may have taken for its own         *)
(* (sdo.c:223-226, can402.c:393-395, 664-671).  The ways of "died" promise *)
(* nothing.                                                                *)
(***************************************************************************)
EndsPoweredOff ==
  pc = "exited" => on \subseteq unstopped \union (IF fb = "done" THEN {} ELSE quick \union late)

(***************************************************************************)
(* When references stop arriving, all drives are halted and stay so,       *)
(* although halting RPDOs may fail before one does not, or the daemon      *)
(* ends (can402.c:417-421).  Every behaviour has finitely many messages.   *)
(***************************************************************************)
ReferenceLossHalts == <>[](Ended \/ \A d \in Drive : halted[d])

(***************************************************************************)
(* After a signal the daemon ends, whatever its threads were waiting for   *)
(* (can402.c:455, 176, 625).                                               *)
(***************************************************************************)
SignalEnds == shutdown ~> pc \in {"exited", "died"}
=============================================================================
