--------------------------- MODULE PdoRemapProofs ---------------------------
(***************************************************************************)
(* Theorems about PdoRemap, for every dictionary, mapping size, initial    *)
(* PDO, set of argument lists and number of calls and failures.            *)
(***************************************************************************)
EXTENDS PdoRemap, TLAPS

(***************************************************************************)
(* The inductive invariant: what has been done to the PDO when a step of   *)
(* the running call is reached.  The order of the accesses is what makes   *)
(* it true, and EnabledIsComplete follows because the PDO is enabled only  *)
(* by the last step.                                                       *)
(***************************************************************************)
Disabled == pc \in Step \ {"ul_comm", "disable"} => ~pdo.valid

Cleared == pc \in {"map", "inhibit", "timer", "number"} => pdo.number = 0

MappedUpTo(n) == \A k \in 1 .. n : pdo.map[k] = args.objs[k]

EntriesWritten ==
  /\ pc = "map" => i <= cnt + 1 /\ MappedUpTo(i - 1)
  /\ pc \in {"inhibit", "timer", "number", "enable"} => MappedUpTo(cnt)

OptionsWritten ==
  /\ pc \in {"inhibit", "timer", "number", "enable"} /\ args.trans >= 0 => pdo.trans = args.trans
  /\ pc \in {"number", "enable"} /\ args.timer >= 0 => pdo.timer = args.timer
  /\ pc = "enable" => pdo.number = cnt

Asked == pc # "idle" => args \in asked /\ ~BadParam(args)

IInv == /\ Disabled /\ Cleared /\ EntriesWritten /\ OptionsWritten /\ Asked
        /\ EnabledIsComplete /\ OkMeansRemapped
-----------------------------------------------------------------------------

LEMMA ArgFields ==
  ASSUME TypeOK
  PROVE  /\ args.trans \in Int /\ args.inhibit \in Int /\ args.timer \in Int
         /\ args.objs \in Seq(Obj)
         /\ cnt \in 0 .. MaxMap
         /\ MaxMap \in 0 .. 254
BY ArgsAssumption DEF TypeOK, ArgList, cnt

LEMMA CntRange ==
  ASSUME TypeOK
  PROVE  cnt \in Nat /\ cnt <= MaxMap /\ MaxMap \in Nat /\ MaxMap <= 254
<1>1. args.objs \in Seq(Obj) /\ Len(args.objs) <= MaxMap /\ MaxMap \in 0 .. 254
  BY ArgsAssumption DEF TypeOK, ArgList
<1>2. Len(args.objs) \in Nat
  BY <1>1
<1> QED BY <1>1, <1>2 DEF cnt

LEMMA PdoFields ==
  ASSUME TypeOK
  PROVE  /\ pdo.valid \in BOOLEAN /\ pdo.trans \in UInt8 /\ pdo.inhibit \in UInt16
         /\ pdo.timer \in UInt16 /\ pdo.number \in UInt8
         /\ pdo.map \in [1 .. MaxMap -> Obj]
BY DEF TypeOK, Pdo

\* The range checks and the cast make the values fit the objects.
LEMMA Ranges ==
  /\ 0 \in UInt8 /\ 0 \in UInt16
  /\ \A n \in Int : n >= 0 /\ ~(n > 255) => n \in UInt8
  /\ \A n \in Int : n >= 0 /\ ~(n > 65535) => n \in UInt16
  /\ \A n \in Int : ToByte(n) \in UInt16
BY DEF UInt8, UInt16, ToByte

(***************************************************************************)
(* What an access of the running call does, whichever way it ends.         *)
(***************************************************************************)
LEMMA DownloadEffect ==
  ASSUME NEW new, NEW next, Download(new, next)
  PROVE  /\ pdo' \in {pdo, new}
         /\ pc' \in {next, "idle"}
         /\ pc' # "idle" => pdo' = new /\ ret' = ret
         /\ pc' = "idle" => ret' = "ERR" \/ (next = "idle" /\ ret' = "OK" /\ pdo' = new)
<1>1. CASE pdo' = new /\ Proceed(next) /\ UNCHANGED faults
  BY <1>1 DEF Proceed, Return
<1>2. CASE pdo' \in {pdo, new} /\ Return("ERR")
  BY <1>2 DEF Return
<1> QED BY <1>1, <1>2 DEF Download

LEMMA OptionEffect ==
  ASSUME NEW arg \in Int, NEW new, NEW next, next # "idle", Option(arg, new, next)
  PROVE  /\ pdo' = pdo \/ (arg >= 0 /\ pdo' = new)
         /\ pc' \in {next, "idle"}
         /\ pc' # "idle" => (arg >= 0 => pdo' = new) /\ (arg < 0 => pdo' = pdo) /\ ret' = ret
         /\ pc' = "idle" => ret' = "ERR"
BY DownloadEffect DEF Option

LEMMA FaultsType ==
  ASSUME TypeOK, NEW arg, NEW new, NEW next, Option(arg, new, next) \/ Download(new, next)
  PROVE  faults' \in 0 .. MaxFaults
BY BoundsAssumption DEF TypeOK, Option, Download

(***************************************************************************)
(* The variables keep their types: the parameters written fit the node's   *)
(* objects because of the range checks and the cast of the inhibit time.   *)
(***************************************************************************)
LEMMA TypeStep ==
  ASSUME TypeOK, Asked, [Next]_vars
  PROVE  TypeOK'
<1>1. ASSUME NEW a \in Args, Call(a) PROVE TypeOK'
  BY <1>1, BoundsAssumption DEF Call, TypeOK, Return, Step
<1>2. CASE UploadComm
  BY <1>2, BoundsAssumption DEF UploadComm, AfterComm, TypeOK, Return, Step
<1>3. CASE Disable
  <2>1. [pdo EXCEPT !.valid = FALSE] \in Pdo
    BY DEF Pdo, TypeOK
  <2> QED BY <1>3, <2>1, DownloadEffect, FaultsType DEF Disable, TypeOK, Step
<1>4. CASE Clear
  <2>1. [pdo EXCEPT !.number = 0] \in Pdo
    BY Ranges DEF Pdo, TypeOK
  <2>2. i' \in 1 .. MaxMap + 1
    BY <1>4, CntRange DEF Clear
  <2>3. faults' \in 0 .. MaxFaults
    BY <1>4, FaultsType DEF Clear
  <2> QED BY <1>4, <2>1, <2>2, <2>3, DownloadEffect DEF Clear, TypeOK, Step
<1>5. CASE MapEntry
  <2>1. i \in 1 .. cnt /\ args.objs[i] \in Obj
    BY <1>5, ArgFields DEF MapEntry, TypeOK, cnt
  <2>2. CASE Return("ERR_PARAM") /\ UNCHANGED <<i, pdo, faults>>
    BY <1>5, <2>2 DEF MapEntry, TypeOK, Return
  <2>3. CASE Download([pdo EXCEPT !.map[i] = args.objs[i]], "map") /\ i' = i + 1
    <3>1. [pdo EXCEPT !.map[i] = args.objs[i]] \in Pdo
      BY <2>1 DEF Pdo, TypeOK
    <3>2. i' \in 1 .. MaxMap + 1
      BY <2>1, <2>3, CntRange
    <3>3. faults' \in 0 .. MaxFaults
      BY <2>3, FaultsType
    <3> DEFINE new == [pdo EXCEPT !.map[i] = args.objs[i]]
    <3>4. Download(new, "map") /\ new \in Pdo
      BY <2>3, <3>1
    <3> HIDE DEF new
    <3>5. pdo' \in Pdo /\ pc' \in Step \union {"idle"} /\ ret' \in {"NONE", "OK", "ERR", "ERR_PARAM"}
      BY <3>4, DownloadEffect DEF TypeOK, Step
    <3> QED BY <1>5, <3>2, <3>3, <3>5 DEF MapEntry, TypeOK
  <2> QED BY <1>5, <2>2, <2>3 DEF MapEntry
<1>6. CASE SetTrans
  <2>1. args.trans >= 0 => [pdo EXCEPT !.trans = args.trans] \in Pdo
    <3>1. args.trans >= 0 => args.trans \in UInt8
      BY <1>6, ArgFields, Ranges DEF SetTrans, Asked, BadParam
    <3> QED BY <3>1 DEF Pdo, TypeOK
  <2> QED BY <1>6, <2>1, ArgFields, OptionEffect, FaultsType DEF SetTrans, TypeOK, Step
<1>7. CASE SetInhibit
  <2>1. [pdo EXCEPT !.inhibit = ToByte(args.inhibit)] \in Pdo
    BY ArgFields, Ranges DEF Pdo, TypeOK
  <2> QED BY <1>7, <2>1, ArgFields, OptionEffect, FaultsType DEF SetInhibit, TypeOK, Step
<1>8. CASE SetTimer
  <2>1. args.timer >= 0 => [pdo EXCEPT !.timer = args.timer] \in Pdo
    <3>1. args.timer >= 0 => args.timer \in UInt16
      BY <1>8, ArgFields, Ranges DEF SetTimer, Asked, BadParam
    <3> QED BY <3>1 DEF Pdo, TypeOK
  <2> QED BY <1>8, <2>1, ArgFields, OptionEffect, FaultsType DEF SetTimer, TypeOK, Step
<1>9. CASE SetNumber
  <2>1. [pdo EXCEPT !.number = cnt] \in Pdo
    <3>1. cnt \in UInt8
      BY CntRange DEF UInt8
    <3> QED BY <3>1 DEF Pdo, TypeOK
  <2> QED BY <1>9, <2>1, DownloadEffect, FaultsType DEF SetNumber, TypeOK, Step
<1>10. CASE Enable
  <2>1. [pdo EXCEPT !.valid = TRUE] \in Pdo
    BY DEF Pdo, TypeOK
  <2> QED BY <1>10, <2>1, DownloadEffect, FaultsType DEF Enable, TypeOK, Step
<1>11. CASE UNCHANGED vars
  BY <1>11 DEF vars, TypeOK
<1> QED BY <1>1, <1>2, <1>3, <1>4, <1>5, <1>6, <1>7, <1>8, <1>9, <1>10, <1>11 DEF Next
-----------------------------------------------------------------------------

(***************************************************************************)
(* The steps that end a call without success leave the PDO disabled or as  *)
(* it was; the steps inside a call leave it disabled.                      *)
(***************************************************************************)
LEMMA GivingUp ==
  ASSUME TypeOK, IInv, pc' = "idle", ret' # "OK", asked \subseteq asked',
         pdo' = pdo \/ ~pdo'.valid
  PROVE  IInv'
<1>1. EnabledIsComplete'
  BY DEF IInv, EnabledIsComplete, Remapped
<1> QED BY <1>1 DEF IInv, Disabled, Cleared, EntriesWritten, OptionsWritten, Asked,
                    OkMeansRemapped, Step

LEMMA GoingOn ==
  ASSUME TypeOK, IInv, pc # "idle", pc' # "idle", ~pdo'.valid,
         UNCHANGED <<args, asked>>,
         Cleared', EntriesWritten', OptionsWritten'
  PROVE  IInv'
<1>1. Asked'
  BY DEF IInv, Asked, BadParam
<1> QED BY <1>1 DEF IInv, Disabled, EnabledIsComplete, OkMeansRemapped

(***************************************************************************)
(* Every step preserves the inductive invariant.                           *)
(***************************************************************************)
LEMMA InvStep ==
  ASSUME TypeOK, IInv, [Next]_vars
  PROVE  IInv'
<1>1. ASSUME NEW a \in Args, Call(a) PROVE IInv'
  <2>1. EnabledIsComplete'
    BY <1>1 DEF Call, IInv, EnabledIsComplete, Remapped
  <2>2. CASE BadParam(a)
    BY <1>1, <2>2, GivingUp DEF Call, Return
  <2>3. CASE ~BadParam(a)
    BY <1>1, <2>1, <2>3 DEF Call, IInv, Disabled, Cleared, EntriesWritten, OptionsWritten,
                            Asked, OkMeansRemapped, BadParam, Step
  <2> QED BY <2>2, <2>3
<1>2. CASE UploadComm
  <2>1. CASE Return("ERR")
    BY <1>2, <2>1, GivingUp DEF UploadComm, Return
  <2>2. CASE pc' = AfterComm /\ UNCHANGED <<ret, faults>>
    <3>1. pc = "ul_comm" /\ UNCHANGED <<args, pdo, asked>> /\ pc' \in {"disable", "clear"}
      BY <1>2, <2>2 DEF UploadComm, AfterComm
    <3>2. Disabled'
      BY <2>2, <3>1 DEF AfterComm, Disabled
    <3>3. EnabledIsComplete'
      BY <3>1 DEF IInv, EnabledIsComplete, Remapped
    <3> QED BY <3>1, <3>2, <3>3 DEF IInv, Cleared, EntriesWritten, OptionsWritten, Asked,
                                    OkMeansRemapped, BadParam
  <2> QED BY <1>2, <2>1, <2>2 DEF UploadComm
<1>3. CASE Disable
  <2> DEFINE new == [pdo EXCEPT !.valid = FALSE]
  <2>1. pc = "disable" /\ UNCHANGED <<args, asked>> /\ Download(new, "clear")
    BY <1>3 DEF Disable
  <2>2. ~new.valid
    BY DEF TypeOK, Pdo
  <2> HIDE DEF new
  <2>3. CASE pc' = "idle"
    BY <2>1, <2>2, <2>3, DownloadEffect, GivingUp
  <2>4. CASE pc' # "idle"
    <3>1. pc' = "clear" /\ ~pdo'.valid
      BY <2>1, <2>2, <2>4, DownloadEffect
    <3> QED BY <2>1, <3>1, GoingOn DEF Cleared, EntriesWritten, OptionsWritten
  <2> QED BY <2>3, <2>4
<1>4. CASE Clear
  <2> DEFINE new == [pdo EXCEPT !.number = 0]
  <2>1. pc = "clear" /\ UNCHANGED <<args, asked>> /\ Download(new, "map") /\ i' = 1 /\ ~pdo.valid
    BY <1>4 DEF Clear, IInv, Disabled, Step
  <2>2. ~new.valid /\ new.number = 0
    BY <2>1 DEF TypeOK, Pdo
  <2> HIDE DEF new
  <2>3. ~pdo'.valid
    BY <2>1, <2>2, DownloadEffect
  <2>4. CASE pc' = "idle"
    BY <2>1, <2>3, <2>4, DownloadEffect, GivingUp
  <2>5. CASE pc' # "idle"
    <3>1. pc' = "map" /\ pdo'.number = 0
      BY <2>1, <2>2, <2>5, DownloadEffect
    <3>2. EntriesWritten'
      BY <2>1, <3>1, CntRange DEF EntriesWritten, MappedUpTo, cnt
    <3> QED BY <2>1, <2>3, <3>1, <3>2, GoingOn DEF Cleared, OptionsWritten
  <2> QED BY <2>4, <2>5
<1>5. CASE MapEntry
  <2>1. CASE Return("ERR_PARAM") /\ UNCHANGED <<i, pdo, faults>>
    BY <1>5, <2>1, GivingUp DEF MapEntry, Return
  <2>2. CASE Download([pdo EXCEPT !.map[i] = args.objs[i]], "map") /\ i' = i + 1
    <3> DEFINE new == [pdo EXCEPT !.map[i] = args.objs[i]]
    <3>1. pc = "map" /\ i \in 1 .. cnt /\ UNCHANGED <<args, asked>> /\ ~pdo.valid
      BY <1>5 DEF MapEntry, TypeOK, IInv, Disabled, Step
    <3>2. i \in 1 .. MaxMap /\ i + 1 <= cnt + 1
      BY <3>1, CntRange
    <3>3. /\ ~new.valid
          /\ new.number = pdo.number
          /\ new.map = [pdo.map EXCEPT ![i] = args.objs[i]]
      BY <3>1, PdoFields DEF TypeOK, Pdo
    <3>4. Download(new, "map")
      BY <2>2
    <3> HIDE DEF new
    <3>5. ~pdo'.valid
      BY <3>1, <3>3, <3>4, DownloadEffect
    <3>6. CASE pc' = "idle"
      BY <3>1, <3>4, <3>5, <3>6, DownloadEffect, GivingUp
    <3>7. CASE pc' # "idle"
      <4>1. pc' = "map" /\ pdo' = new
        BY <3>4, <3>7, DownloadEffect
      <4>2. Cleared'
        BY <3>1, <3>3, <4>1 DEF IInv, Cleared
      <4>3. \A k \in 1 .. i : pdo'.map[k] = args.objs[k]
        <5> SUFFICES ASSUME NEW k \in 1 .. i PROVE pdo'.map[k] = args.objs[k]
          OBVIOUS
        <5>1. pdo'.map = [pdo.map EXCEPT ![i] = args.objs[i]]
          BY <3>3, <4>1
        <5>2. DOMAIN pdo.map = 1 .. MaxMap /\ i \in 1 .. MaxMap /\ i \in Nat /\ MaxMap \in Nat
          BY <3>1, <3>2, CntRange, PdoFields
        <5>3. k \in 1 .. MaxMap /\ (k = i \/ k \in 1 .. i - 1)
          BY <5>2
        <5>4. k # i => pdo.map[k] = args.objs[k]
          BY <3>1, <5>3 DEF IInv, EntriesWritten, MappedUpTo
        <5> QED BY <5>1, <5>2, <5>3, <5>4
      <4>4. EntriesWritten'
        BY <2>2, <3>1, <3>2, <4>1, <4>3 DEF EntriesWritten, MappedUpTo, cnt
      <4> QED BY <3>1, <3>5, <3>7, <4>1, <4>2, <4>4, GoingOn DEF OptionsWritten
    <3> QED BY <3>6, <3>7
  <2> QED BY <1>5, <2>1, <2>2 DEF MapEntry
<1>6. CASE SetTrans
  <2> DEFINE new == [pdo EXCEPT !.trans = args.trans]
  <2>1. /\ pc = "map"
        /\ UNCHANGED <<args, i, asked>>
        /\ Option(args.trans, new, "inhibit")
        /\ ~pdo.valid
    BY <1>6 DEF SetTrans, IInv, Disabled, Step
  <2>2. /\ pdo \in Pdo
        /\ ~new.valid
        /\ new.number = pdo.number
        /\ new.map = pdo.map
        /\ new.trans = args.trans
    BY <2>1, PdoFields DEF TypeOK, Pdo
  <2> HIDE DEF new
  <2>3. ~pdo'.valid
    BY <2>1, <2>2, ArgFields, OptionEffect
  <2>4. CASE pc' = "idle"
    BY <2>1, <2>3, <2>4, ArgFields, OptionEffect, GivingUp
  <2>5. CASE pc' # "idle"
    <3>1. pc' = "inhibit" /\ (args.trans >= 0 => pdo' = new) /\ (args.trans < 0 => pdo' = pdo)
      BY <2>1, <2>5, ArgFields, OptionEffect
    <3>2. pdo'.number = 0 /\ pdo'.map = pdo.map
      BY <2>1, <2>2, <3>1, ArgFields DEF IInv, Cleared
    <3>3. Cleared'
      BY <3>1, <3>2 DEF Cleared
    <3>6. i = cnt + 1 /\ MappedUpTo(cnt)
      BY <1>6, <2>1, CntRange DEF SetTrans, MapLoopEnds, TypeOK, IInv, EntriesWritten
    <3>4. EntriesWritten'
      BY <2>1, <3>1, <3>2, <3>6 DEF IInv, EntriesWritten, MappedUpTo, cnt
    <3>5. OptionsWritten'
      BY <2>1, <2>2, <3>1, ArgFields DEF IInv, OptionsWritten
    <3> QED BY <2>1, <2>3, <2>5, <3>3, <3>4, <3>5, GoingOn
  <2> QED BY <2>4, <2>5
<1>7. CASE SetInhibit
  <2> DEFINE new == [pdo EXCEPT !.inhibit = ToByte(args.inhibit)]
  <2>1. /\ pc = "inhibit"
        /\ UNCHANGED <<args, i, asked>>
        /\ Option(args.inhibit, new, "timer")
        /\ ~pdo.valid
    BY <1>7 DEF SetInhibit, IInv, Disabled, Step
  <2>2. /\ pdo \in Pdo
        /\ ~new.valid
        /\ new.number = pdo.number
        /\ new.map = pdo.map
        /\ new.trans = pdo.trans
    BY <2>1, PdoFields DEF TypeOK, Pdo
  <2> HIDE DEF new
  <2>3. ~pdo'.valid
    BY <2>1, <2>2, ArgFields, OptionEffect
  <2>4. CASE pc' = "idle"
    BY <2>1, <2>3, <2>4, ArgFields, OptionEffect, GivingUp
  <2>5. CASE pc' # "idle"
    <3>1. pc' = "timer" /\ (args.inhibit >= 0 => pdo' = new) /\ (args.inhibit < 0 => pdo' = pdo)
      BY <2>1, <2>5, ArgFields, OptionEffect
    <3>2. pdo'.number = 0 /\ pdo'.map = pdo.map
      BY <2>1, <2>2, <3>1, ArgFields DEF IInv, Cleared
    <3>3. Cleared'
      BY <3>1, <3>2 DEF Cleared
    <3>4. EntriesWritten'
      BY <2>1, <3>1, <3>2 DEF IInv, EntriesWritten, MappedUpTo, cnt
    <3>5. OptionsWritten'
      BY <2>1, <2>2, <3>1, ArgFields DEF IInv, OptionsWritten
    <3> QED BY <2>1, <2>3, <2>5, <3>3, <3>4, <3>5, GoingOn
  <2> QED BY <2>4, <2>5
<1>8. CASE SetTimer
  <2> DEFINE new == [pdo EXCEPT !.timer = args.timer]
  <2>1. /\ pc = "timer"
        /\ UNCHANGED <<args, i, asked>>
        /\ Option(args.timer, new, "number")
        /\ ~pdo.valid
    BY <1>8 DEF SetTimer, IInv, Disabled, Step
  <2>2. /\ pdo \in Pdo
        /\ ~new.valid
        /\ new.number = pdo.number
        /\ new.map = pdo.map
        /\ new.trans = pdo.trans
        /\ new.timer = args.timer
    BY <2>1, PdoFields DEF TypeOK, Pdo
  <2> HIDE DEF new
  <2>3. ~pdo'.valid
    BY <2>1, <2>2, ArgFields, OptionEffect
  <2>4. CASE pc' = "idle"
    BY <2>1, <2>3, <2>4, ArgFields, OptionEffect, GivingUp
  <2>5. CASE pc' # "idle"
    <3>1. pc' = "number" /\ (args.timer >= 0 => pdo' = new) /\ (args.timer < 0 => pdo' = pdo)
      BY <2>1, <2>5, ArgFields, OptionEffect
    <3>2. pdo'.number = 0 /\ pdo'.map = pdo.map
      BY <2>1, <2>2, <3>1, ArgFields DEF IInv, Cleared
    <3>3. Cleared'
      BY <3>1, <3>2 DEF Cleared
    <3>4. EntriesWritten'
      BY <2>1, <3>1, <3>2 DEF IInv, EntriesWritten, MappedUpTo, cnt
    <3>5. OptionsWritten'
      BY <2>1, <2>2, <3>1, ArgFields DEF IInv, OptionsWritten
    <3> QED BY <2>1, <2>3, <2>5, <3>3, <3>4, <3>5, GoingOn
  <2> QED BY <2>4, <2>5
<1>9. CASE SetNumber
  <2> DEFINE new == [pdo EXCEPT !.number = cnt]
  <2>1. pc = "number" /\ UNCHANGED <<args, i, asked>> /\ Download(new, "enable") /\ ~pdo.valid
    BY <1>9 DEF SetNumber, IInv, Disabled, Step
  <2>2. /\ ~new.valid
        /\ new.number = cnt
        /\ new.map = pdo.map
        /\ new.trans = pdo.trans
        /\ new.timer = pdo.timer
    BY <2>1 DEF TypeOK, Pdo
  <2> HIDE DEF new
  <2>3. ~pdo'.valid
    BY <2>1, <2>2, DownloadEffect
  <2>4. CASE pc' = "idle"
    BY <2>1, <2>3, <2>4, DownloadEffect, GivingUp
  <2>5. CASE pc' # "idle"
    <3>1. pc' = "enable" /\ pdo' = new
      BY <2>1, <2>5, DownloadEffect
    <3>2. EntriesWritten'
      BY <2>1, <2>2, <3>1 DEF IInv, EntriesWritten, MappedUpTo, cnt
    <3>3. OptionsWritten'
      BY <2>1, <2>2, <3>1 DEF IInv, OptionsWritten, cnt
    <3> QED BY <2>1, <2>3, <3>1, <3>2, <3>3, GoingOn DEF Cleared
  <2> QED BY <2>4, <2>5
<1>10. CASE Enable
  <2> DEFINE new == [pdo EXCEPT !.valid = TRUE]
  <2>1. pc = "enable" /\ UNCHANGED <<args, asked>> /\ Download(new, "idle")
    BY <1>10 DEF Enable
  <2>2. /\ new.valid
        /\ new.number = pdo.number
        /\ new.map = pdo.map
        /\ new.trans = pdo.trans
        /\ new.timer = pdo.timer
    BY <2>1 DEF TypeOK, Pdo
  <2>3. Remapped(args, new) /\ args \in asked
    BY <2>1, <2>2 DEF IInv, EntriesWritten, OptionsWritten, MappedUpTo, Asked, Remapped, cnt
  <2> HIDE DEF new
  <2>4. pc' = "idle" /\ pdo' \in {pdo, new} /\ (ret' = "ERR" \/ pdo' = new)
    BY <2>1, DownloadEffect
  <2>5. EnabledIsComplete'
    BY <2>1, <2>3, <2>4 DEF IInv, EnabledIsComplete, Remapped
  <2>6. OkMeansRemapped'
    BY <2>1, <2>2, <2>3, <2>4 DEF OkMeansRemapped, Remapped
  <2> QED BY <2>4, <2>5, <2>6 DEF IInv, Disabled, Cleared, EntriesWritten, OptionsWritten, Asked, Step
<1>11. CASE UNCHANGED vars
  BY <1>11 DEF vars, IInv, Disabled, Cleared, EntriesWritten, OptionsWritten, Asked, MappedUpTo,
               BadParam, EnabledIsComplete, OkMeansRemapped, Remapped, cnt
<1> QED BY <1>1, <1>2, <1>3, <1>4, <1>5, <1>6, <1>7, <1>8, <1>9, <1>10, <1>11 DEF Next
-----------------------------------------------------------------------------

LEMMA InitHolds == Init => TypeOK /\ IInv
<1>1. ASSUME Init PROVE TypeOK
  BY <1>1, InitPdoAssumption, ArgsAssumption, BoundsAssumption DEF Init, TypeOK, Step
<1>2. ASSUME Init PROVE IInv
  BY <1>2 DEF Init, IInv, Disabled, Cleared, EntriesWritten, OptionsWritten, Asked,
              EnabledIsComplete, OkMeansRemapped, Step
<1> QED BY <1>1, <1>2

(***************************************************************************)
(* The variables of canmat_pdo_remap and the parameters of the PDO keep    *)
(* their types: the range checks of pdo.c:60-65 are the ones needed.       *)
(***************************************************************************)
THEOREM TypeCorrect == Spec => []TypeOK
<1>1. Init => TypeOK /\ IInv
  BY InitHolds
<1>2. TypeOK /\ IInv /\ [Next]_vars => TypeOK' /\ IInv'
  BY TypeStep, InvStep DEF IInv
<1> QED BY <1>1, <1>2, PTL DEF Spec

(***************************************************************************)
(* Whichever accesses fail, in whatever sequence of calls: an enabled PDO  *)
(* is the untouched one or has a mapping that was asked for.               *)
(***************************************************************************)
THEOREM EnabledComplete == Spec => []EnabledIsComplete
<1>1. TypeOK /\ IInv => EnabledIsComplete
  BY DEF IInv
<1>2. Init => TypeOK /\ IInv
  BY InitHolds
<1>3. TypeOK /\ IInv /\ [Next]_vars => TypeOK' /\ IInv'
  BY TypeStep, InvStep DEF IInv
<1> QED BY <1>1, <1>2, <1>3, PTL DEF Spec

(***************************************************************************)
(* A call that returns OK has given the PDO its own mapping and options    *)
(* and has enabled it.                                                     *)
(***************************************************************************)
THEOREM OkCorrect == Spec => []OkMeansRemapped
<1>1. TypeOK /\ IInv => OkMeansRemapped
  BY DEF IInv
<1>2. Init => TypeOK /\ IInv
  BY InitHolds
<1>3. TypeOK /\ IInv /\ [Next]_vars => TypeOK' /\ IInv'
  BY TypeStep, InvStep DEF IInv
<1> QED BY <1>1, <1>2, <1>3, PTL DEF Spec

(***************************************************************************)
(* No step changes a parameter of an enabled PDO, or an entry of a mapping *)
(* whose number of entries is not 0.                                       *)
(***************************************************************************)
LEMMA ChangeStep ==
  ASSUME TypeOK, IInv, [Next]_vars
  PROVE  /\ Parameters(pdo') # Parameters(pdo) => ~pdo.valid /\ ~pdo'.valid
         /\ pdo'.map # pdo.map => pdo.number = 0
<1>1. CASE UNCHANGED pdo
  BY <1>1
<1>2. CASE Disable
  <2>1. Parameters([pdo EXCEPT !.valid = FALSE]) = Parameters(pdo)
    BY DEF Parameters, TypeOK, Pdo
  <2>2. pdo' \in {pdo, [pdo EXCEPT !.valid = FALSE]}
    BY <1>2, DownloadEffect DEF Disable
  <2> QED BY <2>1, <2>2 DEF Parameters
<1>3. CASE Enable
  <2>1. Parameters([pdo EXCEPT !.valid = TRUE]) = Parameters(pdo)
    BY DEF Parameters, TypeOK, Pdo
  <2>2. pdo' \in {pdo, [pdo EXCEPT !.valid = TRUE]}
    BY <1>3, DownloadEffect DEF Enable
  <2> QED BY <2>1, <2>2 DEF Parameters
<1>4. CASE MapEntry
  <2>1. ~pdo.valid /\ pdo.number = 0
    BY <1>4 DEF MapEntry, IInv, Disabled, Cleared, Step
  <2>2. pdo' = pdo \/ pdo' = [pdo EXCEPT !.map[i] = args.objs[i]]
    BY <1>4, DownloadEffect DEF MapEntry
  <2>3. ~[pdo EXCEPT !.map[i] = args.objs[i]].valid
    BY <2>1 DEF TypeOK, Pdo
  <2> QED BY <2>1, <2>2, <2>3
<1>5. CASE Clear \/ SetTrans \/ SetInhibit \/ SetTimer \/ SetNumber
  <2>1. ~pdo.valid
    BY <1>5 DEF Clear, SetTrans, SetInhibit, SetTimer, SetNumber, IInv, Disabled, Step
  <2>2. \/ pdo' = pdo
        \/ pdo' = [pdo EXCEPT !.number = 0]
        \/ pdo' = [pdo EXCEPT !.trans = args.trans]
        \/ pdo' = [pdo EXCEPT !.inhibit = ToByte(args.inhibit)]
        \/ pdo' = [pdo EXCEPT !.timer = args.timer]
        \/ pdo' = [pdo EXCEPT !.number = cnt]
    BY <1>5, ArgFields, DownloadEffect, OptionEffect
       DEF Clear, SetTrans, SetInhibit, SetTimer, SetNumber
  <2>3. ~pdo'.valid /\ pdo'.map = pdo.map
    BY <2>1, <2>2 DEF TypeOK, Pdo
  <2> QED BY <2>1, <2>3
<1> QED BY <1>1, <1>2, <1>3, <1>4, <1>5 DEF Next, Call, UploadComm, vars

THEOREM ChangesDisabled == Spec => ChangedOnlyWhileDisabled
<1>1. TypeOK /\ IInv /\ [Next]_vars
      => [ /\ Parameters(pdo') # Parameters(pdo) => ~pdo.valid /\ ~pdo'.valid
           /\ pdo'.map # pdo.map => pdo.number = 0 ]_vars
  BY ChangeStep
<1>2. Init => TypeOK /\ IInv
  BY InitHolds
<1>3. TypeOK /\ IInv /\ [Next]_vars => TypeOK' /\ IInv'
  BY TypeStep, InvStep DEF IInv
<1> QED BY <1>1, <1>2, <1>3, PTL DEF Spec, ChangedOnlyWhileDisabled
=============================================================================
