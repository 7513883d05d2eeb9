------------------------------ MODULE NtcanOpen ------------------------------
(***************************************************************************)
(* The older SDO client over esd's API (ntcanopen.c, ntcanopen.h): one     *)
(* thread with one handle makes typed downloads and uploads, each with a   *)
(* variant for AMC boards, which take only frames of eight bytes.          *)
(*                                                                         *)
(* What a call reads from its stack before anything was written there is   *)
(* any value.  A failed assert ends the process.                           *)
(*                                                                         *)
(* The nodes (SDO servers) and the driver's receive queue are external.    *)
(***************************************************************************)
EXTENDS SdoCodec, Sequences, FiniteSets

CONSTANTS
  Node,      \* the nodes on the bus
  Amc,       \* those of them that are AMC boards
  Short,     \* nodes whose answers are no longer than their data
  ObjType,   \* ObjType[o]: the type of an object
  Initial,   \* Initial[n][o]: what the objects of the nodes begin with
  Calls,     \* the calls the user of the library makes
  MaxCalls,  \* bound: calls
  MaxFails   \* bound: canRead and canWrite that fail

\* The types of canOpenSDOWriteWait_dl_* and canOpenSDOWriteWait_ul_*.
ASSUME CallsAssumption ==
  Calls \subseteq [op : {"dl", "ul"}, node : Node, type : {"u8", "u16", "u32", "i32"},
                   obj : DOMAIN ObjType, value : Int, amc : BOOLEAN]
ASSUME ObjectAssumption ==
  /\ \A o \in DOMAIN ObjType : ObjType[o] \in DOMAIN Width
  /\ \A n \in Node : /\ DOMAIN Initial[n] \subseteq DOMAIN ObjType
                      /\ \A o \in DOMAIN Initial[n] : Initial[n][o] \in Int
ASSUME BoundAssumption == MaxCalls \in Nat /\ MaxFails \in Nat
ASSUME AmcAssumption == Amc \subseteq Node /\ Short \subseteq Node \ Amc

VARIABLES
  pc,     \* "idle", "write", "wait", "dead"
  call,   \* the current call
  msg,    \* its frame
  ret,    \* what the last call returned: the result, the command, the value
  ids,    \* the nodes whose response ID the handle has enabled
  rxq,    \* the handle's queue
  net,    \* net[n]: requests on their way to node n
  od,     \* od[n][o]: the objects of the nodes
  late,   \* nodes that may owe an answer to a call that has failed (history)
  calls, fails

vars == <<pc, call, msg, ret, ids, rxq, net, od, late, calls, fails>>

MAX_SDO_DATA_LENGTH == 4

None == [ok |-> FALSE, rcmd |-> 0, value |-> Junk]

(***************************************************************************)
(* Messages.                                                               *)
(***************************************************************************)
\* canOpenPut_uint8, _uint16, _uint32; canOpenPut_int32 says that two bytes are set
PutLength(t) == IF t = "i32" THEN 2 ELSE Width[t]

\* Mutant: more bytes are asserted than are read.
GetAssertsMore(t, length) == length > (IF t = "u8" THEN 1 ELSE 2)

\* canOpenGet_uint8 asserts one byte, all others two.
GetAsserts(t, length) == length >= (IF t = "u8" THEN 1 ELSE 2)

\* What they make of data whose bytes after length are zero.
Get(t, bytes, length) == Value(t, Low(bytes, length))

\* The length put_sdo_dl_args finds: canOpenSDOWriteWait_dl_u8_AMC has put the value
\* first, the others put it afterwards.  One byte; 5 stands for all above 4.
LengthsFound(c) == IF c.type = "u8" THEN {1} ELSE 0 .. 5

\* canOpenSDOWriteWait_ul_u8 has no is_amc and never sets it.
AmcFound(c) == IF c.op = "ul" /\ c.type = "u8" THEN BOOLEAN ELSE {c.amc}

\* put_sdo_dl_args: its assert, then canOpenCommand's
DlAsserts(amc, length) ==
  amc \/ (length <= MAX_SDO_DATA_LENGTH /\ MAX_SDO_DATA_LENGTH - length <= 3)

\* Mutant: the bytes without data are as many as those with data.
DlArgsSwapped(amc, length) ==
  IF amc THEN [cs |-> CcsExDl, n |-> 0, s |-> 0]
  ELSE [cs |-> CcsExDl, n |-> length % 4, s |-> 1]

DlArgs(amc, length) ==
  IF amc THEN [cs |-> CcsExDl, n |-> 0, s |-> 0]
  ELSE [cs |-> CcsExDl, n |-> MAX_SDO_DATA_LENGTH - length, s |-> 1]

UlArgs == [cs |-> CcsExUl, n |-> 0, s |-> 0]

\* canOpenTranslateSDO, and the length canOpenWriteSDO then sets for AMC boards
TranslateSDO(c, args, amc) ==
  LET length == IF c.op = "dl" THEN PutLength(c.type) ELSE 0
  IN [id |-> "request", node |-> c.node, len |-> IF amc THEN 8 ELSE 4 + length,
      cs |-> args.cs, n |-> args.n, s |-> args.s, obj |-> c.obj,
      bytes |-> IF c.op = "dl" THEN Low(c.value, length) ELSE 0]

(***************************************************************************)
(* canOpenSDOWriteWait_dl_* and canOpenSDOWriteWait_ul_*.                  *)
(***************************************************************************)
\* The handle must be set to receive the node's responses (ntcanopen.h).
Begin(c) ==
  /\ pc = "idle" /\ calls < MaxCalls /\ c.node \in ids
  /\ calls' = calls + 1 /\ call' = c
  /\ \/ /\ c.op = "dl"
        /\ \E length \in LengthsFound(c) :
             IF DlAsserts(c.amc, length)
             THEN pc' = "write" /\ msg' = TranslateSDO(c, DlArgs(c.amc, length), c.amc)
             ELSE pc' = "dead" /\ UNCHANGED msg
     \/ /\ c.op = "ul"
        /\ pc' = "write"
        /\ \E amc \in AmcFound(c) : msg' = TranslateSDO(c, UlArgs, amc)
  /\ UNCHANGED <<ret, ids, rxq, net, od, late, fails>>

\* canOpenWriteSDO
Write ==
  /\ pc = "write" /\ pc' = "wait"
  /\ net' = [net EXCEPT ![msg.node] = Append(@, msg)]
  /\ UNCHANGED <<call, msg, ret, ids, rxq, od, late, calls, fails>>

\* A call returns an error.  An upload still looks into the response, which
\* nobody wrote, and its assert may fail.
Fail ==
  /\ fails < MaxFails /\ fails' = fails + 1
  /\ pc' \in IF call.op = "ul" THEN {"idle", "dead"} ELSE {"idle"}
  /\ ret' = None

WriteFails ==
  /\ pc = "write" /\ Fail
  /\ UNCHANGED <<call, msg, ids, rxq, net, od, late, calls>>

\* canRead: an error, or its timeout
ReadFails ==
  /\ pc = "wait" /\ Fail
  /\ late' = late \union {call.node}
  /\ UNCHANGED <<call, msg, ids, rxq, net, od, calls>>

\* Mutant: the ID of a request is waited for.
IsResponseToRequest(f, node) == f.id = "request" /\ f.node = node

\* The frames that end the loop of canOpenWaitSDO.
IsResponse(f, node) == f.id = "response" /\ f.node = node

Discard ==
  /\ pc = "wait" /\ rxq # <<>>
  /\ ~IsResponse(Head(rxq), call.node)
  /\ rxq' = Tail(rxq)
  /\ UNCHANGED <<pc, call, msg, ret, ids, net, od, late, calls, fails>>

\* canOpenTranslateCAN looks neither at the object nor at the command.
Receive ==
  /\ pc = "wait" /\ rxq # <<>>
  /\ rxq' = Tail(rxq)
  /\ LET f == Head(rxq)
         length == f.len - 4
     IN /\ IsResponse(f, call.node)
        /\ IF call.op = "ul" /\ ~GetAsserts(call.type, length)
           THEN pc' = "dead" /\ UNCHANGED ret
           ELSE /\ pc' = "idle"
                /\ ret' = [ok |-> TRUE, rcmd |-> f.cs,
                           value |-> IF call.op = "ul" THEN Get(call.type, f.bytes, length)
                                     ELSE Junk]
  /\ UNCHANGED <<call, msg, ids, net, od, late, calls, fails>>

\* canOpenIdAddSDOResponse
IdAdd(n) ==
  /\ pc = "idle" /\ n \notin ids
  /\ ids' = ids \union {n}
  /\ UNCHANGED <<pc, call, msg, ret, rxq, net, od, late, calls, fails>>

\* canOpenIdDeleteSDOResponse; what is in the queue stays there
IdDelete(n) ==
  /\ pc = "idle" /\ n \in ids
  /\ ids' = ids \ {n}
  /\ UNCHANGED <<pc, call, msg, ret, rxq, net, od, late, calls, fails>>

(***************************************************************************)
(* A node (external).  An AMC board takes only frames of eight bytes; the  *)
(* others take a stated length if it is that of the object and the frame   *)
(* has as many bytes, or data of the object's length if none is stated.    *)
(***************************************************************************)
Takes(n, f) ==
  LET width == Width[ObjType[f.obj]]
  IN /\ f.obj \in DOMAIN od[n]
     /\ n \in Amc => f.len = 8
     /\ f.cs = CcsExDl => f.len >= 4 + width /\ (f.s = 1 => 4 - f.n = width)

Response(n, f, cs, w, width) ==
  [id |-> "response", node |-> n, cs |-> cs, n |-> 0, s |-> 0, obj |-> f.obj, bytes |-> w,
   len |-> IF n \in Short THEN 4 + width ELSE 8]

Serve(n) ==
  /\ net[n] # <<>>
  /\ net' = [net EXCEPT ![n] = Tail(@)]
  /\ LET f == Head(net[n])
         width == Width[ObjType[f.obj]]
         answer == IF ~Takes(n, f) THEN Response(n, f, CsAbort, 0, 4)
                   ELSE IF f.cs = CcsExDl THEN Response(n, f, ScsExDl, 0, 0)
                   ELSE Response(n, f, ScsExUl, od[n][f.obj], width)
     IN /\ od' = IF Takes(n, f) /\ f.cs = CcsExDl
                 THEN [od EXCEPT ![n][f.obj] = Low(f.bytes, width)] ELSE od
        /\ rxq' = IF n \in ids /\ pc # "dead" THEN Append(rxq, answer) ELSE rxq
  /\ UNCHANGED <<pc, call, msg, ret, ids, late, calls, fails>>

\* Frames of an enabled ID that no call of this process asked for.
OtherFrame(n) ==
  /\ n \in ids /\ n \notin late /\ call.node # n /\ pc = "wait" /\ Len(rxq) < 2
  /\ late' = late \union {n}
  /\ rxq' = Append(rxq, Response(n, msg, ScsExUl, 0, 4))
  /\ UNCHANGED <<pc, call, msg, ret, ids, net, od, calls, fails>>

(***************************************************************************)
(* The specification.                                                      *)
(***************************************************************************)
Init ==
  /\ pc = "idle" /\ ret = None
  /\ call \in Calls /\ msg = TranslateSDO(call, UlArgs, FALSE)
  /\ ids = Node /\ rxq = <<>> /\ late = {}
  /\ net = [n \in Node |-> <<>>]
  /\ od = [n \in Node |-> [o \in DOMAIN Initial[n] |-> Low(Initial[n][o], Width[ObjType[o]])]]
  /\ calls = 0 /\ fails = 0

Next ==
  \/ \E c \in Calls : Begin(c)
  \/ Write \/ WriteFails \/ ReadFails \/ Discard \/ Receive
  \/ \E n \in Node : IdAdd(n) \/ IdDelete(n) \/ Serve(n) \/ OtherFrame(n)

Spec == Init /\ [][Next]_vars

\* The thread runs, and a node answers.
FairSpec ==
  /\ Spec
  /\ WF_vars(Write) /\ WF_vars(Discard) /\ WF_vars(Receive)
  /\ \A n \in Node : WF_vars(Serve(n))

(***************************************************************************)
(* Properties.                                                             *)
(***************************************************************************)
\* The call just got its response, from a node that owes nothing else, for an object
\* of the type that was called for.
Answered ==
  /\ Receive /\ call.node \notin late
  /\ call.obj \in DOMAIN od[call.node] => ObjType[call.obj] = call.type

\* An upload whose command says "upload response" has the object's value, for every
\* type, for short and for full answers; it fails only when the node has no such
\* object or was sent a frame it does not take (canOpenSDOWriteWait_ul_*).
UploadExact ==
  [][Answered /\ call.op = "ul" =>
       /\ pc' = "idle"
       /\ ret'.rcmd = IF Takes(call.node, msg) THEN ScsExUl ELSE CsAbort
       /\ ret'.rcmd = ScsExUl => ret'.value = Value(call.type, od[call.node][call.obj])]_vars

\* A download whose command says "download response" has stored its value, whatever
\* length was found on the stack; and where the length is known - an uint8_t, or an
\* AMC variant - the download of an object the node has is never refused
\* (canOpenSDOWriteWait_dl_*; not canOpenPut_int32, which cuts the value).
DownloadExact ==
  [][Answered /\ call.op = "dl" /\ call.type # "i32" =>
       /\ ret'.rcmd = ScsExDl => od[call.node][call.obj] = Low(call.value, Width[call.type])
       /\ (call.type = "u8" \/ call.amc) /\ (call.node \in Amc => call.amc)
          /\ call.obj \in DOMAIN od[call.node] => ret'.rcmd = ScsExDl]_vars

\* Every call returns or fails an assert, as long as nodes answer: frames of other
\* nodes, left over or unasked for, do not keep canOpenWaitSDO waiting.
CallEnds == pc = "wait" ~> pc \in {"idle", "dead"}
=============================================================================
