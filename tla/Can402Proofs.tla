---------------------------- MODULE Can402Proofs -----------------------------
(***************************************************************************)
(* Theorems about Can402, for every number of drives, every set of command *)
(* lines that name them, and every bound.                                  *)
(***************************************************************************)
EXTENDS Can402, FiniteSetTheorems, TLAPS

\* The steps of the main thread from the head of its loop to the end of it.
RunStep == \/ Head \/ Get \/ LoadPos \/ LoadVel
           \/ TimeoutHalts \/ ActNothing \/ ProcessVelocity \/ ProcessUnhaltFails \/ Die
           \/ Post \/ Join

LEMMA StepKinds ==
  ASSUME [Next]_vars
  PROVE  SetUp \/ RunStep \/ StopDrive \/ Fb \/ Signal \/ Expire \/ UNCHANGED vars
BY DEF Next, Main, RunStep

\* What the last check of parse says of the drives of an accepted line.
LEMMA AcceptedNumbers ==
  ASSUME NEW line \in CmdLines, Accepted(line)
  PROVE  /\ Parsed(line).drives \in [Drive -> [node : Nat, ctrl : 0 .. 255, user : 0 .. 255]]
         /\ \A d \in Drive : Parsed(line).drives[d].user # Parsed(line).drives[d].ctrl
<1>1. Parsed(line).drives \in [Drive -> [node : Nat, ctrl : 0 .. 255, user : 0 .. 255]]
  BY LinesAssumption
<1>2. DOMAIN Parsed(line).drives = Drive
  BY <1>1
<1> QED BY <1>1, <1>2 DEF Accepted

LEMMA CountsAreNumbers ==
  ASSUME NEW F \in SUBSET Drive
  PROVE  Cardinality(F) \in Nat
<1>1. IsFiniteSet(Drive)
  BY FS_Interval, NAssumption DEF Drive
<1> QED BY <1>1, FS_Subset, FS_CardinalityType

LEMMA FailsInBounds ==
  ASSUME TypeOK, NEW n \in Nat, CountFails(n)
  PROVE  fails' \in 0 .. MaxFails
BY BoundsAssumption DEF TypeOK, CountFails

LEMMA AccessFailsType ==
  ASSUME TypeOK, AccessFails
  PROVE  fails' \in 0 .. MaxFails /\ late' \subseteq Drive
BY FailsInBounds DEF AccessFails, TypeOK
-----------------------------------------------------------------------------

(***************************************************************************)
(* The types.                                                              *)
(***************************************************************************)
LEMMA TypeInit == Init => TypeOK
<1> SUFFICES ASSUME Init PROVE TypeOK
  OBVIOUS
<1>1. 1 \in Drive
  BY NAssumption DEF Drive
<1>2. pc \in SetupPc /\ chan \in {"ref", "event"} /\ k \in Drive
  BY <1>1 DEF Init, SetupPc
<1>3. /\ result = "NONE" /\ mode = "OTHER"
      /\ live \in BOOLEAN /\ expired \in BOOLEAN /\ halt \in BOOLEAN /\ shutdown \in BOOLEAN
  BY DEF Init
<1>4. halted \in [Drive -> BOOLEAN] /\ owed \subseteq Drive /\ target \in [Drive -> Vel]
  BY DEF Init
<1>5. /\ mpos \in [Drive -> Nat] /\ mvel \in [Drive -> Nat]
      /\ rpos \in [Drive -> Nat] /\ rvel \in [Drive -> Nat]
      /\ fb = "none" /\ fbd \in Drive
  BY <1>1 DEF Init
<1>6. cfg \in [Drive -> [ctrl : 0 .. 255, user : 0 .. 255]]
  BY DEF Init
<1>7. /\ on \subseteq Drive /\ quick \subseteq on /\ late \subseteq Drive
      /\ vmode \subseteq Drive /\ unstopped \subseteq Drive
  BY DEF Init
<1>8. maps \in [Drive -> SUBSET ((0 .. 255) \X {"CONTROLWORD", "TARGET"})]
  BY DEF Init
<1>9. msgs \in 0 .. MaxMsgs /\ fails \in 0 .. MaxFails
  BY BoundsAssumption DEF Init
<1> QED BY <1>2, <1>3, <1>4, <1>5, <1>6, <1>7, <1>8, <1>9 DEF TypeOK

LEMMA FirstDrive == 1 \in Drive
BY NAssumption DEF Drive

LEMMA NextDriveInSet ==
  ASSUME NEW d \in Drive, d < N
  PROVE  d + 1 \in Drive
BY NAssumption DEF Drive

LEMMA NextDriveType ==
  ASSUME TypeOK, NEW here \in SetupPc \union {"stop"}, NEW next \in SetupPc \union {"exited"},
         NextDrive(here, next)
  PROVE  k' \in Drive /\ pc' \in SetupPc \union {"stop", "exited"} /\ fails' = fails
<1>1. k \in Drive BY DEF TypeOK
<1>2. k' \in Drive
  BY <1>1, FirstDrive, NextDriveInSet DEF NextDrive
<1>3. pc' \in SetupPc \union {"stop", "exited"} /\ fails' = fails
  BY DEF NextDrive
<1> QED BY <1>2, <1>3

LEMMA GotoFailType ==
  ASSUME NEW here, GotoFail(here)
  PROVE  k' \in Drive /\ pc' = "stop"
BY NAssumption DEF GotoFail, Drive

LEMMA RemapType ==
  ASSUME TypeOK, NEW num \in 0 .. 255, NEW obj \in {"CONTROLWORD", "TARGET"},
         Remaps(num, obj) \/ RemapFails(num, obj)
  PROVE  maps' \in [Drive -> SUBSET ((0 .. 255) \X {"CONTROLWORD", "TARGET"})]
<1> DEFINE Map == SUBSET ((0 .. 255) \X {"CONTROLWORD", "TARGET"})
<1>1. k \in Drive /\ maps \in [Drive -> Map]
  BY DEF TypeOK
<1>2. maps[k] \in Map
  BY <1>1
<1>3. {p \in maps[k] : p[1] # num} \in Map
  BY <1>2
<1>4. Remapped(maps[k], num, obj) \in Map
  BY <1>3 DEF Remapped
<1>5. PICK m \in Map : maps' = [maps EXCEPT ![k] = m]
  BY <1>2, <1>3, <1>4 DEF Remaps, RemapFails
<1> QED BY <1>1, <1>5

LEMMA ParseType ==
  ASSUME TypeOK, NEW line \in CmdLines, Parse(line)
  PROVE  TypeOK'
<1>1. cfg' \in [Drive -> [ctrl : 0 .. 255, user : 0 .. 255]]
  <2>1. CASE Accepted(line)
    <3>1. \A d \in Drive : /\ Parsed(line).drives[d].ctrl \in 0 .. 255
                           /\ Parsed(line).drives[d].user \in 0 .. 255
      BY <2>1, AcceptedNumbers
    <3> QED BY <2>1, <3>1 DEF Parse
  <2>2. CASE ~Accepted(line)
    BY <2>2 DEF Parse, TypeOK
  <2> QED BY <2>1, <2>2
<1>2. pc' \in {"init", "died"}
  BY DEF Parse
<1> QED BY <1>1, <1>2 DEF Parse, TypeOK, SetupPc, loop, halting, power

LEMMA SetUpType ==
  ASSUME TypeOK, SetUp
  PROVE  TypeOK'
<1> USE DEF SetupPc, loop, halting, setup, power
<1>1. ASSUME NEW line \in CmdLines, Parse(line) PROVE TypeOK'
  BY <1>1, ParseType
<1>2. CASE InitDrive
  <2>1. CASE NextDrive("init", "map_ctrl")
    BY <1>2, <2>1, NextDriveType DEF InitDrive, TypeOK
  <2>2. CASE pc' = "died" /\ UNCHANGED k /\ CountFails(1)
    BY <1>2, <2>2, FailsInBounds DEF InitDrive, TypeOK
  <2> QED BY <1>2, <2>1, <2>2 DEF InitDrive
<1>3. CASE MapCtrl
  <2>1. cfg[k].ctrl \in 0 .. 255
    BY DEF TypeOK
  <2>2. maps' \in [Drive -> SUBSET ((0 .. 255) \X {"CONTROLWORD", "TARGET"})]
    BY <1>3, <2>1, RemapType DEF MapCtrl
  <2>3. k' \in Drive /\ pc' \in SetupPc \union {"stop", "exited"}
    BY <1>3, NextDriveType, GotoFailType DEF MapCtrl
  <2>4. fails' \in 0 .. MaxFails /\ late' \subseteq Drive
    BY <1>3, AccessFailsType DEF MapCtrl, NextDrive, TypeOK
  <2> QED BY <1>3, <2>2, <2>3, <2>4 DEF MapCtrl, TypeOK
<1>4. CASE MapFeedback
  <2>1. k' \in Drive /\ pc' \in SetupPc \union {"stop", "exited"}
    BY <1>4, NextDriveType, GotoFailType DEF MapFeedback
  <2>2. fails' \in 0 .. MaxFails /\ late' \subseteq Drive
    BY <1>4, AccessFailsType DEF MapFeedback, NextDrive, TypeOK
  <2> QED BY <1>4, <2>1, <2>2 DEF MapFeedback, TypeOK
<1>5. CASE SetOpMode
  <2>1. cfg[k].user \in 0 .. 255
    BY DEF TypeOK
  <2>2. maps' \in [Drive -> SUBSET ((0 .. 255) \X {"CONTROLWORD", "TARGET"})]
    BY <1>5, <2>1, RemapType DEF SetOpMode, TypeOK
  <2>3. k' \in Drive /\ pc' \in SetupPc \union {"stop", "exited"}
    BY <1>5, NextDriveType, GotoFailType DEF SetOpMode
  <2>4. fails' \in 0 .. MaxFails /\ late' \subseteq Drive
    BY <1>5, AccessFailsType DEF SetOpMode, NextDrive, TypeOK
  <2>5. vmode' \subseteq Drive
    BY <1>5 DEF SetOpMode, TypeOK
  <2> QED BY <1>5, <2>2, <2>3, <2>4, <2>5 DEF SetOpMode, TypeOK
<1>6. CASE StartDrive
  <2>1. k' \in Drive /\ pc' \in SetupPc \union {"stop", "exited"}
    BY <1>6, NextDriveType, GotoFailType DEF StartDrive
  <2>2. fails' \in 0 .. MaxFails /\ late' \subseteq Drive
    BY <1>6, AccessFailsType DEF StartDrive, NextDrive, TypeOK
  <2>3. on' \subseteq Drive /\ quick' \subseteq on'
    BY <1>6 DEF StartDrive, TypeOK
  <2> QED BY <1>6, <2>1, <2>2, <2>3 DEF StartDrive, TypeOK
<1>7. CASE CreateThread
  <2>1. fails' \in 0 .. MaxFails
    BY <1>7, FailsInBounds DEF CreateThread, TypeOK
  <2> QED BY <1>7, <2>1 DEF CreateThread, TypeOK
<1> QED BY <1>1, <1>2, <1>3, <1>4, <1>5, <1>6, <1>7 DEF SetUp

\* The steps that send RPDOs.
LEMMA HaltAllType ==
  ASSUME NEW h, NEW F \in SUBSET Drive, HaltAll(h, F)
  PROVE  halted' \in [Drive -> BOOLEAN] /\ owed' \subseteq Drive /\ halt' = TRUE
BY DEF HaltAll

LEMMA ActType ==
  ASSUME TypeOK, TimeoutHalts \/ ActNothing \/ ProcessVelocity \/ ProcessUnhaltFails
  PROVE  TypeOK'
<1> USE DEF halting
<1>1. pc' \in {"get", "post"} /\ chan' \in {"ref", "event"} /\ result' = "NONE" /\ expired' = TRUE
  BY DEF TimeoutHalts, ActNothing, ProcessVelocity, ProcessUnhaltFails, Leave, TypeOK
<1>2. UNCHANGED <<k, mode, live, mpos, mvel, feedback, setup, shutdown, msgs>>
  BY DEF TimeoutHalts, ActNothing, ProcessVelocity, ProcessUnhaltFails, Leave
<1>3. /\ halted' \in [Drive -> BOOLEAN] /\ owed' \subseteq Drive /\ halt' \in BOOLEAN
      /\ target' \in [Drive -> Vel]
      /\ fails' \in 0 .. MaxFails
  <2>1. CASE TimeoutHalts
    <3>1. PICK F \in SUBSET Drive : HaltAll(halted, F) /\ CountFails(Cardinality(F))
      BY <2>1 DEF TimeoutHalts
    <3>2. fails' \in 0 .. MaxFails
      BY <3>1, CountsAreNumbers, FailsInBounds
    <3> QED BY <2>1, <3>1, <3>2, HaltAllType DEF TimeoutHalts, TypeOK
  <2>2. CASE ActNothing
    BY <2>2 DEF ActNothing, TypeOK
  <2>3. CASE ProcessVelocity
    <3>1. PICK vl \in [Drive -> Vel], F \in SUBSET Drive :
            SendTargets(vl, F) /\ CountFails(Cardinality(F))
      BY <2>3 DEF ProcessVelocity
    <3>2. fails' \in 0 .. MaxFails
      BY <3>1, CountsAreNumbers, FailsInBounds
    <3>3. target' \in [Drive -> Vel]
      BY <3>1 DEF SendTargets, TypeOK
    <3>4. halted' \in [Drive -> BOOLEAN] /\ owed' \subseteq Drive /\ halt' \in BOOLEAN
      BY <2>3 DEF ProcessVelocity, UnhaltAll
    <3> QED BY <3>2, <3>3, <3>4
  <2>4. CASE ProcessUnhaltFails
    <3>1. PICK d \in Drive, F \in SUBSET Drive :
            UnhaltStopsAt(d, F) /\ CountFails(1 + Cardinality(F))
      BY <2>4 DEF ProcessUnhaltFails
    <3>2. Cardinality(F) \in Nat
      BY CountsAreNumbers
    <3>3. fails' \in 0 .. MaxFails
      BY <3>1, <3>2, FailsInBounds
    <3>4. halted' \in [Drive -> BOOLEAN] /\ owed' \subseteq Drive /\ halt' \in BOOLEAN
      BY <3>1, HaltAllType DEF UnhaltStopsAt
    <3> QED BY <2>4, <3>3, <3>4 DEF ProcessUnhaltFails, TypeOK
  <2> QED BY <2>1, <2>2, <2>3, <2>4
<1> QED BY <1>1, <1>2, <1>3 DEF TypeOK, setup, power, feedback

LEMMA RunType ==
  ASSUME TypeOK, RunStep
  PROVE  TypeOK'
<1> USE DEF halting, feedback, setup, power
<1>1. CASE Head
  BY <1>1 DEF Head, TypeOK
<1>2. CASE Get
  <2>1. ASSUME NEW m \in {"VEL", "OTHER"}, NEW fresh \in BOOLEAN, NEW r \in {"OK", "BOGUS"},
               GetMessage(m, fresh, r)
        PROVE  TypeOK'
    <3>1. msgs' \in 0 .. MaxMsgs
      BY <2>1, BoundsAssumption DEF GetMessage, TypeOK
    <3> QED BY <2>1, <3>1, FirstDrive DEF GetMessage, GetReturns, TypeOK
  <2>2. CASE GetTimeout
    BY <2>2, FirstDrive DEF GetTimeout, GetReturns, TypeOK
  <2>3. CASE GetNothing
    BY <2>3, FirstDrive DEF GetNothing, GetReturns, TypeOK
  <2>4. ASSUME NEW r \in {"NONE", "CORRUPT"}, GetFails(r)
        PROVE  TypeOK'
    <3>1. fails' \in 0 .. MaxFails
      BY <2>4, FailsInBounds DEF GetFails
    <3> QED BY <2>4, <3>1, FirstDrive DEF GetFails, GetReturns, TypeOK
  <2> QED BY <1>2, <2>1, <2>2, <2>3, <2>4 DEF Get
<1>3. CASE LoadPos
  BY <1>3 DEF LoadPos, TypeOK
<1>4. CASE LoadVel
  <2>1. mvel' \in [Drive -> Nat] /\ k' \in Drive /\ pc' \in {"load_pos", "act"}
    BY <1>4, FirstDrive, NextDriveInSet DEF LoadVel, TypeOK
  <2> QED BY <1>4, <2>1 DEF LoadVel, TypeOK
<1>5. CASE TimeoutHalts \/ ActNothing \/ ProcessVelocity \/ ProcessUnhaltFails
  BY <1>5, ActType
<1>6. CASE Die
  BY <1>6 DEF Die, TypeOK
<1>7. CASE Post
  BY <1>7 DEF Post, TypeOK
<1>8. CASE Join
  BY <1>8 DEF Join, TypeOK
<1> QED BY <1>1, <1>2, <1>3, <1>4, <1>5, <1>6, <1>7, <1>8 DEF RunStep

LEMMA StopType ==
  ASSUME TypeOK, StopDrive
  PROVE  TypeOK'
<1>1. k' \in Drive /\ pc' \in {"stop", "exited"}
  BY FirstDrive, NextDriveInSet DEF StopDrive, TypeOK
<1>2. fails' \in 0 .. MaxFails
  BY FailsInBounds DEF StopDrive, TypeOK
<1>3. on' \subseteq Drive /\ quick' \subseteq on' /\ unstopped' \subseteq Drive
  BY DEF StopDrive, ShutOff, TypeOK
<1> QED BY <1>1, <1>2, <1>3 DEF StopDrive, TypeOK, loop, halting

LEMMA FbType ==
  ASSUME TypeOK, Fb
  PROVE  TypeOK'
<1>1. /\ UNCHANGED main
      /\ fb' \in {"loop", "recv", "store_pos", "store_vel", "done"}
      /\ fbd' \in Drive
  BY DEF Fb, FbLoop, FbRecv, FbRecvOther, FbStorePos, FbStoreVel, TypeOK
<1>2. rpos' \in [Drive -> Nat] /\ rvel' \in [Drive -> Nat]
  <2>1. CASE FbStorePos
    BY <2>1 DEF FbStorePos, TypeOK
  <2>2. CASE FbStoreVel
    BY <2>2 DEF FbStoreVel, TypeOK
  <2>3. CASE UNCHANGED <<rpos, rvel>>
    BY <2>3 DEF TypeOK
  <2> QED BY <2>1, <2>2, <2>3 DEF Fb, FbLoop, FbRecv, FbRecvOther
<1> QED BY <1>1, <1>2 DEF TypeOK, main, halting, setup, power

(***************************************************************************)
(* The types of Can402's variables, for any drives, lines and bounds.      *)
(***************************************************************************)
THEOREM TypeCorrect == Spec => []TypeOK
<1>1. TypeOK /\ [Next]_vars => TypeOK'
  <2> SUFFICES ASSUME TypeOK, [Next]_vars PROVE TypeOK'
    OBVIOUS
  <2>1. CASE Signal
    BY <2>1 DEF Signal, TypeOK, halting, feedback, setup, power
  <2>2. CASE Expire
    <3>1. /\ live' \in BOOLEAN
          /\ UNCHANGED <<pc, chan, k, result, mode, expired, halt, halted, owed, target, mpos,
                         mvel, fb, fbd, rpos, rvel, cfg, on, quick, late, unstopped, vmode, maps,
                         shutdown, msgs, fails>>
      BY <2>2 DEF Expire, halting, feedback, setup, power
    <3> QED BY <3>1 DEF TypeOK
  <2>3. CASE UNCHANGED vars
    BY <2>3 DEF vars, TypeOK, halting, feedback, setup, power
  <2> QED BY <2>1, <2>2, <2>3, StepKinds, SetUpType, RunType, StopType, FbType
<1> QED BY <1>1, TypeInit, PTL DEF Spec
-----------------------------------------------------------------------------

(***************************************************************************)
(* Halting and velocities.  The two invariants are inductive together:     *)
(* HaltedUnlessUnsent is what UnhaltedTogether becomes when cx->halt is    *)
(* set, and an unhalt that fails half-way ends as a halt.                  *)
(***************************************************************************)
Commanded == <<halt, halted, owed, target>>

LEMMA OnlyActCommands ==
  ASSUME SetUp \/ Head \/ Get \/ LoadPos \/ LoadVel \/ Die \/ Post \/ Join \/ StopDrive
           \/ Fb \/ Signal \/ Expire \/ UNCHANGED vars
  PROVE  UNCHANGED Commanded
<1> USE DEF Commanded, halting
<1>1. CASE SetUp
  BY <1>1 DEF SetUp, Parse, InitDrive, MapCtrl, MapFeedback, SetOpMode, StartDrive, CreateThread,
              loop, setup
<1>2. CASE Get
  BY <1>2 DEF Get, GetMessage, GetTimeout, GetNothing, GetFails, GetReturns
<1>3. CASE Head \/ LoadPos \/ LoadVel \/ Die \/ Post \/ Join
  BY <1>3 DEF Head, LoadPos, LoadVel, Die, Post, Join
<1>4. CASE Fb
  BY <1>4 DEF Fb, FbLoop, FbRecv, FbRecvOther, FbStorePos, FbStoreVel, main
<1>5. CASE StopDrive \/ Signal \/ Expire \/ UNCHANGED vars
  BY <1>5 DEF StopDrive, Signal, Expire, vars, loop
<1> QED BY <1>1, <1>2, <1>3, <1>4, <1>5

HaltInv == UnhaltedTogether /\ HaltedUnlessUnsent

LEMMA HaltAllHalts ==
  ASSUME NEW h, NEW F, HaltAll(h, F)
  PROVE  HaltInv'
BY DEF HaltAll, HaltInv, UnhaltedTogether, HaltedUnlessUnsent

LEMMA HaltStep ==
  ASSUME HaltInv, [Next]_vars
  PROVE  HaltInv'
<1>1. CASE TimeoutHalts
  BY <1>1, HaltAllHalts DEF TimeoutHalts
<1>2. CASE ActNothing
  BY <1>2 DEF ActNothing, halting, HaltInv, UnhaltedTogether, HaltedUnlessUnsent
<1>3. CASE ProcessVelocity
  BY <1>3 DEF ProcessVelocity, UnhaltAll, HaltInv, UnhaltedTogether, HaltedUnlessUnsent
<1>4. CASE ProcessUnhaltFails
  BY <1>4, HaltAllHalts DEF ProcessUnhaltFails, UnhaltStopsAt
<1>5. CASE UNCHANGED Commanded
  BY <1>5 DEF Commanded, HaltInv, UnhaltedTogether, HaltedUnlessUnsent
<1> QED BY <1>1, <1>2, <1>3, <1>4, <1>5, StepKinds, OnlyActCommands DEF RunStep

LEMMA HaltAlways == Spec => []HaltInv
<1>1. Init => HaltInv
  BY DEF Init, HaltInv, UnhaltedTogether, HaltedUnlessUnsent
<1>2. HaltInv /\ [Next]_vars => HaltInv'
  BY HaltStep
<1> QED BY <1>1, <1>2, PTL DEF Spec

(***************************************************************************)
(* While cx->halt is clear every drive is unhalted (can402.c:516-518,      *)
(* 574-585), for any number of drives and any failing sends.               *)
(***************************************************************************)
THEOREM UnhaltCorrect == Spec => []UnhaltedTogether
<1>1. HaltInv => UnhaltedTogether
  BY DEF HaltInv
<1> QED BY <1>1, HaltAlways, PTL

(***************************************************************************)
(* While cx->halt is set, only a drive whose own halting RPDO was not sent *)
(* is not halted (can402.c:560-585).                                       *)
(***************************************************************************)
THEOREM HaltCorrect == Spec => []HaltedUnlessUnsent
<1>1. HaltInv => HaltedUnlessUnsent
  BY DEF HaltInv
<1> QED BY <1>1, HaltAlways, PTL

(***************************************************************************)
(* A velocity is sent only for a reference that has not expired, and with  *)
(* all drives unhalted (can402.c:503-518).                                 *)
(***************************************************************************)
THEOREM VelocityCorrect == Spec => VelocityOnlyUnhalted
<1> DEFINE Sent == target' # target => ~expired /\ ~halt' /\ \A d \in Drive : ~halted'[d]
<1>1. ASSUME [Next]_vars PROVE Sent
  <2>1. CASE TimeoutHalts \/ ActNothing \/ ProcessUnhaltFails
    BY <2>1 DEF TimeoutHalts, ActNothing, ProcessUnhaltFails
  <2>2. CASE ProcessVelocity
    BY <2>2 DEF ProcessVelocity, Process, UnhaltAll
  <2>3. CASE UNCHANGED Commanded
    BY <2>3 DEF Commanded
  <2> QED BY <1>1, <2>1, <2>2, <2>3, StepKinds, OnlyActCommands DEF RunStep
<1>2. [Next]_vars => [Sent]_vars
  BY <1>1
<1> QED BY <1>2, PTL DEF Spec, VelocityOnlyUnhalted
-----------------------------------------------------------------------------

(***************************************************************************)
(* Who reads the socket.  The invariant also says when the thread may not  *)
(* run yet: before the head of the loop.                                   *)
(***************************************************************************)
LEMMA RunLeavesSetup ==
  ASSUME RunStep
  PROVE  /\ pc \notin SetupPc \union {"stop", "exited"}
         /\ pc' \notin SetupPc \union {"exited"}
         /\ pc' = "stop" => pc = "join" /\ k' = k /\ fb = "done"
         /\ UNCHANGED <<fb, setup>>
<1> USE DEF SetupPc, feedback
<1>1. CASE Get
  BY <1>1 DEF Get, GetMessage, GetTimeout, GetNothing, GetFails, GetReturns
<1>2. CASE Head \/ LoadPos \/ LoadVel \/ Die \/ Post \/ Join
  BY <1>2 DEF Head, LoadPos, LoadVel, Die, Post, Join
<1>3. CASE TimeoutHalts \/ ActNothing \/ ProcessVelocity \/ ProcessUnhaltFails
  BY <1>3 DEF TimeoutHalts, ActNothing, ProcessVelocity, ProcessUnhaltFails, Process, Leave
<1> QED BY <1>1, <1>2, <1>3 DEF RunStep

ReaderInv ==
  /\ pc \in SetupPc => fb = "none"
  /\ pc \in {"stop", "exited"} => fb \in {"none", "done"}

LEMMA ReaderStep ==
  ASSUME ReaderInv, [Next]_vars
  PROVE  ReaderInv'
<1> USE DEF SetupPc, ReaderInv
<1>1. CASE SetUp
  BY <1>1 DEF SetUp, Parse, InitDrive, MapCtrl, MapFeedback, SetOpMode, StartDrive, CreateThread,
              NextDrive, GotoFail
<1>2. CASE RunStep
  BY <1>2, RunLeavesSetup
<1>3. CASE StopDrive
  BY <1>3 DEF StopDrive
<1>4. CASE Fb
  BY <1>4 DEF Fb, FbLoop, FbRecv, FbRecvOther, FbStorePos, FbStoreVel, main
<1>5. CASE Signal \/ Expire \/ UNCHANGED vars
  BY <1>5 DEF Signal, Expire, vars, feedback
<1> QED BY <1>1, <1>2, <1>3, <1>4, <1>5, StepKinds

LEMMA ReaderAlways == Spec => []ReaderInv
<1>1. Init => ReaderInv
  BY DEF Init, ReaderInv, SetupPc
<1>2. ReaderInv /\ [Next]_vars => ReaderInv'
  BY ReaderStep
<1> QED BY <1>1, <1>2, PTL DEF Spec

(***************************************************************************)
(* SDO accesses and the feedback thread never read the socket at the same  *)
(* time (can402.c:165-179).                                                *)
(***************************************************************************)
THEOREM ReaderCorrect == Spec => []OneReader
<1>1. ReaderInv => OneReader
  BY DEF ReaderInv, OneReader
<1> QED BY <1>1, ReaderAlways, PTL
-----------------------------------------------------------------------------

(***************************************************************************)
(* The setup.  SwitchedOnWhenAllReady needs to know what each loop has     *)
(* done to the drives before k, and that the last check of parse keeps the *)
(* target of a drive from replacing its control word in a mapping.         *)
(***************************************************************************)
CtrlMapped(d) == <<cfg[d].ctrl, "CONTROLWORD">> \in maps[d]

NumbersDiffer == pc \in SetupPc \ {"parse"} => \A d \in Drive : cfg[d].user # cfg[d].ctrl

CtrlLoop ==
  /\ pc = "map_ctrl" => \A d \in Drive : d < k => CtrlMapped(d)
  /\ pc \in {"map_fb", "op_mode", "start"} => \A d \in Drive : CtrlMapped(d)

ModeLoop ==
  /\ pc = "op_mode" => \A d \in Drive : d < k => Ready(d)
  /\ pc = "start" => \A d \in Drive : Ready(d)

SetUpInv == NumbersDiffer /\ CtrlLoop /\ ModeLoop

\* A round of a loop: the drives before k' are those before k and k itself.
LEMMA Round ==
  ASSUME TypeOK, NEW here, NEW next, here # next, NextDrive(here, next)
  PROVE  /\ pc = here /\ pc' \in {here, next}
         /\ pc' = here => \A d \in Drive : d < k' => d < k \/ d = k
         /\ pc' = next => k' = 1 /\ \A d \in Drive : d < k \/ d = k
BY NAssumption DEF TypeOK, NextDrive, Drive

LEMMA NoneBeforeFirst == \A d \in Drive : ~(d < 1)
BY DEF Drive

LEMMA RemapsKeeps ==
  ASSUME TypeOK, NEW num, NEW obj, Remaps(num, obj)
  PROVE  /\ <<num, obj>> \in maps'[k]
         /\ \A d \in Drive : d # k => maps'[d] = maps[d]
         /\ \A n, o : n # num /\ <<n, o>> \in maps[k] => <<n, o>> \in maps'[k]
<1>1. k \in Drive /\ maps \in [Drive -> SUBSET ((0 .. 255) \X {"CONTROLWORD", "TARGET"})]
  BY DEF TypeOK
<1>2. maps' = [maps EXCEPT ![k] = {p \in maps[k] : p[1] # num} \union {<<num, obj>>}]
  BY DEF Remaps, Remapped
<1>3. maps'[k] = {p \in maps[k] : p[1] # num} \union {<<num, obj>>}
  BY <1>1, <1>2
<1>4. \A d \in Drive : d # k => maps'[d] = maps[d]
  BY <1>1, <1>2
<1>5. ASSUME NEW n, NEW o, n # num, <<n, o>> \in maps[k]
      PROVE  <<n, o>> \in maps'[k]
  BY <1>3, <1>5
<1> QED BY <1>3, <1>4, <1>5

LEMMA ParseStep ==
  ASSUME NEW line \in CmdLines, Parse(line)
  PROVE  SetUpInv'
<1>1. pc' = "died" \/ (pc' = "init" /\ Accepted(line))
  BY DEF Parse
<1>2. NumbersDiffer'
  <2>1. CASE pc' = "init" /\ Accepted(line)
    <3>1. \A d \in Drive : Parsed(line).drives[d].user # Parsed(line).drives[d].ctrl
      BY <2>1, AcceptedNumbers
    <3> QED BY <2>1, <3>1 DEF Parse, NumbersDiffer
  <2> QED BY <1>1, <2>1 DEF NumbersDiffer, SetupPc
<1> QED BY <1>1, <1>2 DEF SetUpInv, CtrlLoop, ModeLoop

LEMMA MapCtrlStep ==
  ASSUME TypeOK, SetUpInv, MapCtrl
  PROVE  SetUpInv'
<1>1. UNCHANGED cfg
  BY DEF MapCtrl
<1>2. CASE GotoFail("map_ctrl")
  BY <1>2 DEF GotoFail, SetUpInv, NumbersDiffer, CtrlLoop, ModeLoop, SetupPc
<1>3. CASE Remaps(cfg[k].ctrl, "CONTROLWORD") /\ NextDrive("map_ctrl", "map_fb")
  <2>1. \A d \in Drive : d < k => CtrlMapped(d)'
    BY <1>1, <1>3, RemapsKeeps, Round DEF SetUpInv, CtrlLoop, CtrlMapped, Drive
  <2>2. \A d \in Drive : d = k => CtrlMapped(d)'
    BY <1>1, <1>3, RemapsKeeps DEF CtrlMapped
  <2>3. CtrlLoop'
    BY <1>3, <2>1, <2>2, Round DEF CtrlLoop, CtrlMapped
  <2>4. NumbersDiffer' /\ ModeLoop'
    BY <1>1, <1>3, Round DEF SetUpInv, NumbersDiffer, ModeLoop, SetupPc
  <2> QED BY <2>3, <2>4 DEF SetUpInv
<1> QED BY <1>2, <1>3 DEF MapCtrl

LEMMA SetOpModeStep ==
  ASSUME TypeOK, SetUpInv, SetOpMode
  PROVE  SetUpInv'
<1>1. UNCHANGED cfg
  BY DEF SetOpMode
<1>2. CASE GotoFail("op_mode")
  BY <1>2 DEF GotoFail, SetUpInv, NumbersDiffer, CtrlLoop, ModeLoop, SetupPc
<1>3. CASE /\ vmode' = vmode \union {k}
           /\ Remaps(cfg[k].user, "TARGET")
           /\ NextDrive("op_mode", "start")
  <2>1. k \in Drive /\ pc = "op_mode"
    BY <1>3, Round DEF TypeOK
  <2>2. cfg[k].user # cfg[k].ctrl /\ \A d \in Drive : CtrlMapped(d)
    BY <2>1 DEF SetUpInv, NumbersDiffer, CtrlLoop, SetupPc
  <2>3. \A d \in Drive : d = k => CtrlMapped(d)'
    BY <1>1, <1>3, <2>1, <2>2, RemapsKeeps DEF CtrlMapped
  <2>4. \A d \in Drive : d = k => Ready(d)'
    BY <1>1, <1>3, <2>3, RemapsKeeps DEF CtrlMapped, Ready
  <2>5. ASSUME NEW d \in Drive, d # k
        PROVE  CtrlMapped(d)' /\ (Ready(d) => Ready(d)')
    BY <1>1, <1>3, <2>2, <2>5, RemapsKeeps DEF CtrlMapped, Ready
  <2>6. \A d \in Drive : CtrlMapped(d)'
    BY <2>3, <2>5
  <2>7. \A d \in Drive : d < k \/ d = k => Ready(d)'
    BY <2>1, <2>4, <2>5 DEF SetUpInv, ModeLoop, Ready
  <2>8. CtrlLoop'
    BY <1>3, <2>6, Round DEF CtrlLoop, CtrlMapped
  <2>9. ModeLoop'
    BY <1>3, <2>7, Round DEF ModeLoop, Ready
  <2>10. NumbersDiffer'
    BY <1>1, <1>3, Round DEF SetUpInv, NumbersDiffer, SetupPc
  <2> QED BY <2>8, <2>9, <2>10 DEF SetUpInv
<1> QED BY <1>2, <1>3 DEF SetOpMode

LEMMA SetUpStep ==
  ASSUME TypeOK, SetUpInv, [Next]_vars
  PROVE  SetUpInv'
<1>1. ASSUME NEW line \in CmdLines, Parse(line) PROVE SetUpInv'
  BY <1>1, ParseStep
<1>2. CASE InitDrive
  <2>1. CASE NextDrive("init", "map_ctrl")
    BY <1>2, <2>1, Round, NoneBeforeFirst
    DEF InitDrive, setup, power, SetUpInv, NumbersDiffer, CtrlLoop, CtrlMapped, ModeLoop, SetupPc
  <2>2. CASE pc' = "died"
    BY <2>2 DEF SetUpInv, NumbersDiffer, CtrlLoop, ModeLoop, SetupPc
  <2> QED BY <1>2, <2>1, <2>2 DEF InitDrive
<1>3. CASE MapCtrl
  BY <1>3, MapCtrlStep
<1>4. CASE MapFeedback
  <2>1. CASE NextDrive("map_fb", "op_mode")
    BY <1>4, <2>1, Round, NoneBeforeFirst
    DEF MapFeedback, setup, power, SetUpInv, NumbersDiffer, CtrlLoop, CtrlMapped, ModeLoop, SetupPc
  <2>2. CASE GotoFail("map_fb")
    BY <2>2 DEF GotoFail, SetUpInv, NumbersDiffer, CtrlLoop, ModeLoop, SetupPc
  <2> QED BY <1>4, <2>1, <2>2 DEF MapFeedback
<1>5. CASE SetOpMode
  BY <1>5, SetOpModeStep
<1>6. CASE StartDrive
  <2>1. CASE NextDrive("start", "create")
    BY <1>6, <2>1, Round
    DEF StartDrive, SetUpInv, NumbersDiffer, CtrlLoop, CtrlMapped, ModeLoop, Ready, SetupPc
  <2>2. CASE GotoFail("start")
    BY <2>2 DEF GotoFail, SetUpInv, NumbersDiffer, CtrlLoop, ModeLoop, SetupPc
  <2> QED BY <1>6, <2>1, <2>2 DEF StartDrive
<1>7. CASE pc' \notin SetupPc
  BY <1>7 DEF SetUpInv, NumbersDiffer, CtrlLoop, ModeLoop, SetupPc
<1>8. CASE UNCHANGED <<pc, k, setup>>
  BY <1>8 DEF setup, power, SetUpInv, NumbersDiffer, CtrlLoop, CtrlMapped, ModeLoop, Ready
<1>9. CASE CreateThread \/ RunStep \/ StopDrive
  <2>1. pc' \notin SetupPc
    BY <1>9, RunLeavesSetup DEF CreateThread, StopDrive, SetupPc
  <2> QED BY <1>7, <2>1
<1>10. CASE Fb \/ Signal \/ Expire \/ UNCHANGED vars
  <2>1. UNCHANGED <<pc, k, setup>>
    BY <1>10 DEF Fb, FbLoop, FbRecv, FbRecvOther, FbStorePos, FbStoreVel, main,
                 Signal, Expire, vars
  <2> QED BY <1>8, <2>1
<1> QED BY <1>1, <1>2, <1>3, <1>4, <1>5, <1>6, <1>9, <1>10, StepKinds DEF SetUp

LEMMA SetUpAlways == Spec => []SetUpInv
<1>1. Init => SetUpInv
  BY DEF Init, SetUpInv, NumbersDiffer, CtrlLoop, ModeLoop
<1>2. TypeOK /\ SetUpInv /\ [Next]_vars => SetUpInv'
  BY SetUpStep
<1> QED BY <1>1, <1>2, TypeCorrect, PTL DEF Spec

(***************************************************************************)
(* No drive is switched on before all of them are in velocity mode and     *)
(* reached by the RPDOs the daemon sends (can402.c:284-289, 321-377), for  *)
(* any number of drives and any command line.                              *)
(***************************************************************************)
THEOREM SwitchOnCorrect == Spec => SwitchedOnWhenAllReady
<1> DEFINE AllReady == on' \ on # {} => \A d \in Drive : Ready(d)
<1>1. ASSUME SetUpInv, [Next]_vars PROVE AllReady
  <2>1. CASE StartDrive
    BY <1>1, <2>1 DEF StartDrive, NextDrive, GotoFail, SetUpInv, ModeLoop
  <2>2. CASE on' \subseteq on
    BY <2>2
  <2>3. CASE SetUp
    BY <2>1, <2>2, <2>3 DEF SetUp, Parse, InitDrive, MapCtrl, MapFeedback, SetOpMode, CreateThread,
                            setup, power
  <2>4. CASE RunStep
    BY <2>2, <2>4, RunLeavesSetup DEF setup, power
  <2>5. CASE StopDrive
    BY <2>2, <2>5 DEF StopDrive, ShutOff
  <2>6. CASE Fb \/ Signal \/ Expire \/ UNCHANGED vars
    BY <2>2, <2>6 DEF Fb, FbLoop, FbRecv, FbRecvOther, FbStorePos, FbStoreVel, main,
                      Signal, Expire, vars, setup, power
  <2> QED BY <1>1, <2>3, <2>4, <2>5, <2>6, StepKinds
<1>2. SetUpInv /\ [Next]_vars => [AllReady]_vars
  BY <1>1
<1> QED BY <1>2, SetUpAlways, PTL DEF Spec, SwitchedOnWhenAllReady
-----------------------------------------------------------------------------

(***************************************************************************)
(* The end.  The loop that stops the drives begins at the first one        *)
(* because every way to it leaves k there, and the drives it has passed    *)
(* are off, could not be stopped, or are those a stop may leave on.  There *)
(* are none of the latter once the feedback thread has been created: every *)
(* drive has been started then, and no access has failed.                  *)
(***************************************************************************)
AtFirst == pc \in {"create", "head", "act", "post", "join"} => k = 1

Excepted == quick \union late

NoneLate == pc \in SetupPc => late = {}

StartedOnes ==
  /\ pc = "start" => \A d \in Drive : d < k => d \notin quick
  /\ pc = "create" \/ fb # "none" => Excepted = {}

Passed == pc = "stop" => \A d \in Drive : d < k /\ d \in on => d \in unstopped \union Excepted

Exited == pc = "exited" => on \subseteq unstopped \union Excepted

StopInv == AtFirst /\ NoneLate /\ StartedOnes /\ Passed /\ Exited

LEMMA RunAtFirst ==
  ASSUME AtFirst, RunStep
  PROVE  AtFirst'
<1> USE DEF AtFirst
<1>1. CASE Get
  BY <1>1 DEF Get, GetMessage, GetTimeout, GetNothing, GetFails, GetReturns
<1>2. CASE Head \/ LoadPos \/ LoadVel \/ Die \/ Post \/ Join
  BY <1>2 DEF Head, LoadPos, LoadVel, Die, Post, Join
<1>3. CASE TimeoutHalts \/ ActNothing \/ ProcessVelocity \/ ProcessUnhaltFails
  BY <1>3 DEF TimeoutHalts, ActNothing, ProcessVelocity, ProcessUnhaltFails, Process, Leave
<1> QED BY <1>1, <1>2, <1>3 DEF RunStep

LEMMA SetUpEnds ==
  ASSUME AtFirst, SetUp
  PROVE  AtFirst' /\ pc' # "exited" /\ (pc' = "stop" => k' = 1)
<1> USE DEF AtFirst
<1>1. ASSUME NEW line \in CmdLines, Parse(line)
      PROVE  AtFirst' /\ pc' \in {"init", "died"}
  BY <1>1 DEF Parse
<1>2. CASE InitDrive \/ MapCtrl \/ MapFeedback \/ SetOpMode \/ StartDrive
  BY <1>2 DEF InitDrive, MapCtrl, MapFeedback, SetOpMode, StartDrive, NextDrive, GotoFail
<1>3. CASE CreateThread
  BY <1>3 DEF CreateThread
<1> QED BY <1>1, <1>2, <1>3 DEF SetUp

LEMMA SetUpExcepts ==
  ASSUME TypeOK, ReaderInv, NoneLate, StartedOnes, SetUp
  PROVE  NoneLate' /\ StartedOnes'
<1> USE DEF SetupPc, NoneLate, StartedOnes, Excepted, ReaderInv
<1>1. ASSUME NEW line \in CmdLines, Parse(line) PROVE NoneLate' /\ StartedOnes'
  BY <1>1 DEF Parse, power
<1>2. CASE InitDrive \/ MapCtrl \/ MapFeedback
  BY <1>2 DEF InitDrive, MapCtrl, MapFeedback, NextDrive, GotoFail, setup, power
<1>3. CASE SetOpMode
  <2>1. CASE NextDrive("op_mode", "start") /\ UNCHANGED late
    BY <1>3, <2>1, Round, NoneBeforeFirst DEF SetOpMode
  <2>2. CASE GotoFail("op_mode")
    BY <1>3, <2>2 DEF SetOpMode, GotoFail
  <2> QED BY <1>3, <2>1, <2>2 DEF SetOpMode
<1>4. CASE StartDrive
  <2>1. CASE quick' = quick \ {k} /\ NextDrive("start", "create") /\ UNCHANGED late
    <3>1. quick \subseteq Drive /\ late = {}
      BY <2>1, Round DEF TypeOK
    <3>2. \A d \in Drive : d < k \/ d = k => d \notin quick'
      BY <2>1, Round
    <3> QED BY <1>4, <2>1, <3>1, <3>2, Round DEF StartDrive
  <2>2. CASE GotoFail("start")
    BY <1>4, <2>2 DEF StartDrive, GotoFail
  <2> QED BY <1>4, <2>1, <2>2 DEF StartDrive
<1>5. CASE CreateThread
  BY <1>5 DEF CreateThread, setup, power
<1> QED BY <1>1, <1>2, <1>3, <1>4, <1>5 DEF SetUp

LEMMA StopDriveStep ==
  ASSUME TypeOK, StopInv, StopDrive
  PROVE  StopInv'
<1>1. Excepted' = Excepted /\ pc = "stop" /\ pc' \in {"stop", "exited"}
  BY DEF StopDrive, Excepted
<1>2. \A d \in Drive : d \in on' /\ (d < k \/ d = k) => d \in unstopped' \union Excepted
  BY DEF StopDrive, ShutOff, StopInv, Passed, Excepted
<1>3. AtFirst' /\ NoneLate' /\ StartedOnes'
  BY <1>1 DEF StopDrive, StopInv, AtFirst, NoneLate, StartedOnes, SetupPc
<1>4. Passed' /\ Exited'
  <2>1. CASE k < N
    <3>1. \A d \in Drive : d < k' => d < k \/ d = k
      BY <2>1, NAssumption DEF StopDrive, TypeOK, Drive
    <3>2. pc' = "stop"
      BY <2>1, <1>1 DEF StopDrive
    <3> QED BY <1>1, <1>2, <3>1, <3>2 DEF Passed, Exited
  <2>2. CASE ~(k < N)
    <3>1. \A d \in Drive : d < k \/ d = k
      BY <2>2, NAssumption DEF TypeOK, Drive
    <3>2. on' \subseteq Drive /\ pc' = "exited"
      BY <2>2 DEF StopDrive, TypeOK
    <3> QED BY <1>1, <1>2, <3>1, <3>2 DEF Passed, Exited
  <2> QED BY <2>1, <2>2
<1> QED BY <1>3, <1>4 DEF StopInv

LEMMA StopStep ==
  ASSUME TypeOK, ReaderInv, StopInv, [Next]_vars
  PROVE  StopInv'
<1>1. CASE SetUp
  <2>1. AtFirst' /\ pc' # "exited" /\ (pc' = "stop" => k' = 1)
    BY <1>1, SetUpEnds DEF StopInv
  <2>2. NoneLate' /\ StartedOnes'
    BY <1>1, SetUpExcepts DEF StopInv
  <2> QED BY <2>1, <2>2, NoneBeforeFirst DEF StopInv, Passed, Exited
<1>2. CASE RunStep
  <2>1. pc' = "stop" => k' = 1
    BY <1>2, RunLeavesSetup DEF StopInv, AtFirst
  <2>2. NoneLate' /\ StartedOnes'
    BY <1>2, RunLeavesSetup DEF StopInv, NoneLate, StartedOnes, Excepted, SetupPc, setup, power
  <2> QED BY <1>2, <2>1, <2>2, RunAtFirst, RunLeavesSetup, NoneBeforeFirst
          DEF StopInv, Passed, Exited, SetupPc
<1>3. CASE StopDrive
  BY <1>3, StopDriveStep
<1>4. CASE Fb
  <2>1. UNCHANGED <<pc, k, on, quick, late, unstopped>> /\ fb # "none"
    BY <1>4 DEF Fb, FbLoop, FbRecv, FbRecvOther, FbStorePos, FbStoreVel, main, setup, power
  <2> QED BY <2>1 DEF StopInv, AtFirst, NoneLate, StartedOnes, Passed, Exited, Excepted
<1>5. CASE Signal \/ Expire \/ UNCHANGED vars
  <2>1. UNCHANGED <<pc, k, on, quick, late, unstopped, fb>>
    BY <1>5 DEF Signal, Expire, vars, setup, power, feedback
  <2> QED BY <2>1 DEF StopInv, AtFirst, NoneLate, StartedOnes, Passed, Exited, Excepted
<1> QED BY <1>1, <1>2, <1>3, <1>4, <1>5, StepKinds

(***************************************************************************)
(* A daemon that has run and ends by way of stop leaves on only drives     *)
(* whose own stop returned an error (can402.c:393-395, 664-671); one whose *)
(* setup failed, also a drive found quick-stopped and not started, and the *)
(* one whose late answer stop may have taken for its own.                  *)
(***************************************************************************)
THEOREM PowerOffCorrect == Spec => []EndsPoweredOff
<1>1. Init => StopInv
  BY DEF Init, StopInv, AtFirst, NoneLate, StartedOnes, Passed, Exited
<1>2. TypeOK /\ ReaderInv /\ StopInv /\ [Next]_vars => StopInv'
  BY StopStep
<1>3. StopInv => EndsPoweredOff
  BY DEF StopInv, StartedOnes, Exited, Excepted, EndsPoweredOff
<1> QED BY <1>1, <1>2, <1>3, TypeCorrect, ReaderAlways, PTL DEF Spec
-----------------------------------------------------------------------------

(***************************************************************************)
(* The feedback.  The raw velocity is one frame behind the raw position    *)
(* only between the two stores; the main thread holds a position without   *)
(* its velocity only between the two loads.                                *)
(***************************************************************************)
RawPair ==
  \A d \in Drive :
    /\ rvel[d] <= rpos[d] /\ rpos[d] <= rvel[d] + 1
    /\ rpos[d] # rvel[d] => fb = "store_vel" /\ fbd = d

MainPair ==
  \A d \in Drive :
    /\ mpos[d] <= rpos[d]
    /\ mpos[d] <= mvel[d] + 1 \/ (pc = "load_vel" /\ d = k)

FeedbackInv == RawPair /\ MainPair

LEMMA FbStep ==
  ASSUME TypeOK, FeedbackInv, Fb
  PROVE  FeedbackInv'
<1>1. UNCHANGED <<pc, k, mpos, mvel>>
  BY DEF Fb, FbLoop, FbRecv, FbRecvOther, FbStorePos, FbStoreVel, main
<1>2. \A d \in Drive : rpos[d] \in Nat /\ rvel[d] \in Nat /\ mpos[d] \in Nat /\ mvel[d] \in Nat
  BY DEF TypeOK
<1>3. CASE FbStorePos
  <2>1. /\ rpos' = [rpos EXCEPT ![fbd] = rpos[fbd] + 1] /\ rvel' = rvel /\ fbd' = fbd
        /\ fb = "store_pos" /\ fb' = "store_vel"
    BY <1>3 DEF FbStorePos
  <2>2. \A d \in Drive : rpos'[d] = IF d = fbd THEN rpos[d] + 1 ELSE rpos[d]
    BY <2>1 DEF TypeOK
  <2> QED BY <1>1, <1>2, <2>1, <2>2 DEF FeedbackInv, RawPair, MainPair
<1>4. CASE FbStoreVel
  <2>1. rvel' = [rvel EXCEPT ![fbd] = rpos[fbd]] /\ rpos' = rpos
    BY <1>4 DEF FbStoreVel
  <2>2. \A d \in Drive : rvel'[d] = IF d = fbd THEN rpos[d] ELSE rvel[d]
    BY <2>1 DEF TypeOK
  <2> QED BY <1>1, <1>2, <2>1, <2>2 DEF FeedbackInv, RawPair, MainPair
<1>5. CASE FbLoop \/ (\E d \in Drive : FbRecv(d)) \/ FbRecvOther
  BY <1>1, <1>5 DEF FbLoop, FbRecv, FbRecvOther, FeedbackInv, RawPair, MainPair
<1> QED BY <1>3, <1>4, <1>5 DEF Fb

LEMMA LoadStep ==
  ASSUME TypeOK, FeedbackInv, LoadPos \/ LoadVel
  PROVE  FeedbackInv'
<1>1. UNCHANGED <<fb, fbd, rpos, rvel>>
  BY DEF LoadPos, LoadVel, feedback
<1>2. \A d \in Drive : rpos[d] \in Nat /\ rvel[d] \in Nat /\ mpos[d] \in Nat /\ mvel[d] \in Nat
  BY DEF TypeOK
<1>3. CASE LoadPos
  <2>1. \A d \in Drive : mpos'[d] = IF d = k THEN rpos[d] ELSE mpos[d]
    BY <1>3 DEF LoadPos, TypeOK
  <2> QED BY <1>1, <1>2, <1>3, <2>1 DEF LoadPos, FeedbackInv, RawPair, MainPair
<1>4. CASE LoadVel
  <2>1. \A d \in Drive : mvel'[d] = IF d = k THEN rvel[d] ELSE mvel[d]
    BY <1>4 DEF LoadVel, TypeOK
  <2> QED BY <1>1, <1>2, <1>4, <2>1 DEF LoadVel, FeedbackInv, RawPair, MainPair
<1> QED BY <1>3, <1>4

\* No other step writes the raw values or the ones computed from them; the thread is
\* created once, so that creating it does not take it away from between its stores.
KeepsFeedback == /\ UNCHANGED <<mpos, mvel, fbd, rpos, rvel>>
                 /\ fb = "store_vel" => UNCHANGED fb
                 /\ pc = "load_vel" => UNCHANGED <<pc, k>>

LEMMA OthersKeepFeedback ==
  ASSUME ReaderInv,
         SetUp \/ (RunStep /\ ~LoadPos /\ ~LoadVel) \/ StopDrive \/ Signal \/ Expire
           \/ UNCHANGED vars
  PROVE  KeepsFeedback
<1> USE DEF feedback, KeepsFeedback
<1>1. CASE SetUp
  <2>1. pc \in SetupPc /\ UNCHANGED loop
    BY <1>1 DEF SetUp, Parse, InitDrive, MapCtrl, MapFeedback, SetOpMode, StartDrive, CreateThread,
                NextDrive, GotoFail, SetupPc
  <2> QED BY <2>1 DEF loop, ReaderInv, SetupPc
<1>2. CASE Get
  BY <1>2 DEF Get, GetMessage, GetTimeout, GetNothing, GetFails, GetReturns
<1>3. CASE Head \/ Die \/ Post \/ Join
  BY <1>3 DEF Head, Die, Post, Join
<1>4. CASE TimeoutHalts \/ ActNothing \/ ProcessVelocity \/ ProcessUnhaltFails
  BY <1>4 DEF TimeoutHalts, ActNothing, ProcessVelocity, ProcessUnhaltFails, Process, Leave
<1>5. CASE StopDrive \/ Signal \/ Expire \/ UNCHANGED vars
  BY <1>5 DEF StopDrive, Signal, Expire, vars, loop
<1> QED BY <1>1, <1>2, <1>3, <1>4, <1>5 DEF RunStep

(***************************************************************************)
(* The velocity published with a position is at most one frame older, for  *)
(* any interleaving of the stores and the loads (can402.c:591-592,         *)
(* 653-654), any number of drives and of frames.                           *)
(***************************************************************************)
THEOREM FeedbackCorrect == Spec => []VelocityNotOlder
<1>1. Init => FeedbackInv
  BY DEF Init, FeedbackInv, RawPair, MainPair
<1>2. TypeOK /\ ReaderInv /\ FeedbackInv /\ [Next]_vars => FeedbackInv'
  <2> SUFFICES ASSUME TypeOK, ReaderInv, FeedbackInv, [Next]_vars PROVE FeedbackInv'
    OBVIOUS
  <2>1. CASE KeepsFeedback
    BY <2>1 DEF KeepsFeedback, FeedbackInv, RawPair, MainPair
  <2> QED BY <2>1, StepKinds, FbStep, LoadStep, OthersKeepFeedback
<1>3. FeedbackInv => VelocityNotOlder
  BY DEF FeedbackInv, MainPair, VelocityNotOlder
<1> QED BY <1>1, <1>2, <1>3, TypeCorrect, ReaderAlways, PTL DEF Spec
=============================================================================
