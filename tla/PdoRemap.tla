------------------------------ MODULE PdoRemap -------------------------------
(***************************************************************************)
(* canmat_pdo_remap (pdo.c): the sequence of SDO accesses that gives one   *)
(* PDO of a node a new mapping: disable the PDO, clear the number of       *)
(* entries, write the entries, the transmission options and the number,    *)
(* and enable the PDO again.  The function returns at the first access     *)
(* that fails and undoes nothing; its callers (can402 init,                *)
(* canmat_402_set_op_mode, canmat map-rpdo) give up, and a later run of    *)
(* the program remaps the same PDO from whatever state it finds.           *)
(*                                                                         *)
(* An SDO access has the outcomes SdoClient allows: it succeeds; it fails  *)
(* and the node did nothing (not sent, refused); it fails although the     *)
(* node did it (the answer was not received).                              *)
(***************************************************************************)
EXTENDS Integers, Sequences

CONSTANTS
  Obj,       \* objects of the dictionary
  BitSize,   \* canmat_obj_bitsize: 8, 16, 32, or -1 for every other type
  MaxMap,    \* mapping entries the node has
  Args,      \* the argument lists remap is called with
  InitPdo,   \* the PDO's parameters on the node before the first call
  MaxCalls,  \* bound: calls of canmat_pdo_remap
  MaxFaults  \* bound: SDO accesses that fail

VARIABLES
  pc,      \* the next access of canmat_pdo_remap, or "idle"
  args,    \* its arguments
  i,       \* the loop counter over the mapping entries
  ret,     \* what the last call returned
  pdo,     \* the PDO's communication and mapping parameters on the node
  asked,   \* all argument lists so far
  calls,   \* calls so far
  faults   \* failed accesses so far

vars == <<pc, args, i, ret, pdo, asked, calls, faults>>

Step == {"ul_comm", "disable", "clear", "map", "inhibit", "timer", "number", "enable"}

UInt8  == {n \in Nat : n <= 255}
UInt16 == {n \in Nat : n <= 65535}

\* CANopen parameters of the PDO: sub-indices of its COM and MAP objects.
Pdo == [valid   : BOOLEAN,                      \* COM sub 1, bit 31 clear
        trans   : UInt8,                        \* COM sub 2
        inhibit : UInt16,                       \* COM sub 3
        timer   : UInt16,                       \* COM sub 5
        number  : UInt8,                        \* MAP sub 0
        map     : [1 .. MaxMap -> Obj]]         \* MAP sub 1 ..

\* Arguments; a negative option is left as it is on the node.
ArgList == [trans : Int, inhibit : Int, timer : Int, objs : Seq(Obj)]

ASSUME BitSizeAssumption == BitSize \in [Obj -> {8, 16, 32, -1}]
ASSUME InitPdoAssumption == InitPdo \in Pdo
\* The loop counter is an uint8_t: a count of 255 would never end the loop.
ASSUME ArgsAssumption    == /\ MaxMap \in 0 .. 254
                            /\ \A a \in Args : a \in ArgList /\ Len(a.objs) <= MaxMap
ASSUME BoundsAssumption  == MaxCalls \in Nat /\ MaxFaults \in Nat

cnt == Len(args.objs)

\* Mutant: the transmission type's range is one too long.
BadParamOffByOne(a) == a.trans > 256 \/ a.inhibit > 65535 \/ a.timer > 65535

\* The range checks on entry.
BadParam(a) == a.trans > 255 \/ a.inhibit > 65535 \/ a.timer > 65535

\* (uint8_t)inhibit_time, although the access writes two bytes
ToByte(n) == n % 256

Init ==
  /\ pc = "idle"
  /\ args \in Args
  /\ i = 1
  /\ ret = "NONE"
  /\ pdo = InitPdo
  /\ asked = {}
  /\ calls = 0
  /\ faults = 0

Return(r) == pc' = "idle" /\ ret' = r

\* The call goes on with step "next", or is done.
Proceed(next) ==
  IF next = "idle" THEN Return("OK") ELSE pc' = next /\ UNCHANGED ret

\* One SDO download that makes the PDO "new" and is followed by step "next".
Download(new, next) ==
  \/ pdo' = new /\ Proceed(next) /\ UNCHANGED faults
  \/ /\ faults < MaxFaults
     /\ faults' = faults + 1
     /\ pdo' \in {pdo, new}
     /\ Return("ERR")

\* An option is written unless the argument is negative.
Option(arg, new, next) ==
  \/ arg >= 0 /\ Download(new, next)
  \/ arg < 0 /\ pc' = next /\ UNCHANGED <<pdo, ret, faults>>

Call(a) ==
  /\ pc = "idle"
  /\ calls < MaxCalls
  /\ calls' = calls + 1
  /\ args' = a
  /\ asked' = asked \union {a}
  /\ IF BadParam(a) THEN Return("ERR_PARAM") ELSE pc' = "ul_comm" /\ ret' = "NONE"
  /\ UNCHANGED <<i, pdo, faults>>

\* Mutant: the PDO is disabled only when it is not.
AfterCommSwapped == IF pdo.valid THEN "clear" ELSE "disable"

AfterComm == IF pdo.valid THEN "disable" ELSE "clear"

UploadComm ==
  /\ pc = "ul_comm"
  /\ \/ pc' = AfterComm /\ UNCHANGED <<ret, faults>>
     \/ faults < MaxFaults /\ faults' = faults + 1 /\ Return("ERR")
  /\ UNCHANGED <<args, i, pdo, asked, calls>>

Disable ==
  /\ pc = "disable"
  /\ Download([pdo EXCEPT !.valid = FALSE], "clear")
  /\ UNCHANGED <<args, i, asked, calls>>

Clear ==
  /\ pc = "clear"
  /\ Download([pdo EXCEPT !.number = 0], "map")
  /\ i' = 1
  /\ UNCHANGED <<args, asked, calls>>

\* Mutant: a failed access to an entry does not end the call.
MapEntryGoesOn ==
  /\ pc = "map"
  /\ i <= cnt
  /\ \/ pdo' = [pdo EXCEPT !.map[i] = args.objs[i]] /\ UNCHANGED faults
     \/ faults < MaxFaults /\ faults' = faults + 1 /\ UNCHANGED pdo
  /\ i' = i + 1
  /\ UNCHANGED <<pc, ret, args, asked, calls>>

\* An object whose size is not a number of bytes ends the call half-way.
MapEntry ==
  /\ pc = "map"
  /\ i <= cnt
  /\ LET obj == args.objs[i] IN
       IF BitSize[obj] < 1 \/ BitSize[obj] % 8 # 0
         THEN Return("ERR_PARAM") /\ UNCHANGED <<i, pdo, faults>>
         ELSE Download([pdo EXCEPT !.map[i] = obj], "map") /\ i' = i + 1
  /\ UNCHANGED <<args, asked, calls>>

\* Mutant: the last entry is not written.
MapLoopEndsEarly == i >= cnt

MapLoopEnds == i > cnt

SetTrans ==
  /\ pc = "map"
  /\ MapLoopEnds
  /\ Option(args.trans, [pdo EXCEPT !.trans = args.trans], "inhibit")
  /\ UNCHANGED <<args, i, asked, calls>>

SetInhibit ==
  /\ pc = "inhibit"
  /\ Option(args.inhibit, [pdo EXCEPT !.inhibit = ToByte(args.inhibit)], "timer")
  /\ UNCHANGED <<args, i, asked, calls>>

SetTimer ==
  /\ pc = "timer"
  /\ Option(args.timer, [pdo EXCEPT !.timer = args.timer], "number")
  /\ UNCHANGED <<args, i, asked, calls>>

SetNumber ==
  /\ pc = "number"
  /\ Download([pdo EXCEPT !.number = cnt], "enable")
  /\ UNCHANGED <<args, i, asked, calls>>

Enable ==
  /\ pc = "enable"
  /\ Download([pdo EXCEPT !.valid = TRUE], "idle")
  /\ UNCHANGED <<args, i, asked, calls>>

Next ==
  \/ \E a \in Args : Call(a)
  \/ UploadComm \/ Disable \/ Clear \/ MapEntry
  \/ SetTrans \/ SetInhibit \/ SetTimer \/ SetNumber \/ Enable

Spec == Init /\ [][Next]_vars

-----------------------------------------------------------------------------

\* The types of the variables.
TypeOK ==
  /\ pc \in Step \union {"idle"}
  /\ args \in Args
  /\ i \in 1 .. MaxMap + 1
  /\ ret \in {"NONE", "OK", "ERR", "ERR_PARAM"}
  /\ pdo \in Pdo
  /\ asked \subseteq Args
  /\ calls \in 0 .. MaxCalls
  /\ faults \in 0 .. MaxFaults

\* The PDO p has the mapping and the options the argument list a asks for.
Remapped(a, p) ==
  /\ p.number = Len(a.objs)
  /\ \A k \in 1 .. Len(a.objs) : p.map[k] = a.objs[k]
  /\ a.trans >= 0 => p.trans = a.trans
  /\ a.timer >= 0 => p.timer = a.timer

(***************************************************************************)
(* Whatever access of whatever call fails, an enabled PDO is never half    *)
(* remapped: it is the untouched one or has exactly a mapping that was     *)
(* asked for (pdo.c:87-136, every early return in between).                *)
(***************************************************************************)
EnabledIsComplete ==
  pdo.valid => pdo = InitPdo \/ \E a \in asked : Remapped(a, pdo)

(***************************************************************************)
(* A call that returns OK has enabled the PDO with its own mapping and     *)
(* options, whatever earlier calls left behind (pdo.c:138).                *)
(***************************************************************************)
OkMeansRemapped ==
  pc = "idle" /\ ret = "OK" => pdo.valid /\ Remapped(args, pdo)

(***************************************************************************)
(* The order CANopen asks for: no parameter but the valid bit changes      *)
(* while the PDO is enabled, and no entry of the mapping changes while     *)
(* the number of entries is not 0 (pdo.c:87-96).                           *)
(***************************************************************************)
Parameters(p) == <<p.trans, p.inhibit, p.timer, p.number, p.map>>

ChangedOnlyWhileDisabled ==
  [][ /\ Parameters(pdo') # Parameters(pdo) => ~pdo.valid /\ ~pdo'.valid
      /\ pdo'.map # pdo.map => pdo.number = 0 ]_vars
=============================================================================
