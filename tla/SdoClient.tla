------------------------------ MODULE SdoClient ------------------------------
(***************************************************************************)
(* The SDO client of libsocanmatic: one thread that calls the typed        *)
(* accessors canmat_sdo_ul_T / canmat_sdo_dl_T (sdo.h) or the dictionary   *)
(* accessors canmat_obj_ul / canmat_obj_dl (dict.c).  All of them end in   *)
(* canmat_sdo_query (sdo.c), which sends one expedited request and reads   *)
(* the socket until a frame with the response COB-ID of the node arrives.  *)
(* Nothing in that loop compares the index, the subindex or the command    *)
(* of the response with the request, and nothing bounds the wait.          *)
(*                                                                         *)
(* The nodes are SDO servers on the other side of the bus (external).      *)
(* Requests to a node and frames in the client's socket are FIFO.          *)
(***************************************************************************)
EXTENDS Naturals, Sequences, FiniteSets

CONSTANTS
  Node,       \* the nodes that hold an SDO server
  Obj,        \* the (index, subindex) pairs the client accesses
  Val,        \* the values an object can hold
  Size,       \* Size[o]: the bytes of o's data type, 1, 2 or 4
  Garbage,    \* the content of memory nobody has initialised
  NotSdo,     \* stands for every COB-ID that is not an SDO response
  NoCall,     \* before the first call
  InitialOd,  \* the object dictionaries before the first call
  MaxCalls,   \* bound: calls made by the client
  MaxFaults,  \* bound: failed send or recv calls of the interface
  MaxTraffic  \* bound: frames on the bus the client did not ask for

ASSUME SizeAssumption   == Size \in [Obj -> {1, 2, 4}]
ASSUME OdAssumption     == InitialOd \in [Node -> [Obj -> Val]]
ASSUME NamesAssumption  == /\ Garbage \notin Val \union Obj
                           /\ NotSdo \notin Node
ASSUME BoundsAssumption == /\ MaxCalls \in Nat
                           /\ MaxFaults \in Nat
                           /\ MaxTraffic \in Nat

VARIABLES
  pc,       \* "idle": no call; "recv": in canmat_iface_recv; "aborted": assert()
  call,     \* the request of the current or last call (canmat_sdo_msg_t)
  out,      \* what the last call returned: status, *val
  net,      \* net[n]: requests on their way to node n
  rxq,      \* frames in the socket's receive queue
  od,       \* od[n][o]: the object dictionary of node n
  calls,    \* calls made so far; the number of a call tags its frames
  faults,   \* failed send and recv calls so far
  traffic,  \* unasked frames so far
  tainted   \* nodes that may have sent a response that is not the awaited one

vars == <<pc, call, out, net, rxq, od, calls, faults, traffic, tainted>>

(***************************************************************************)
(* Frames.  "tag" is not on the wire: it records which call a frame        *)
(* belongs to, 0 when it belongs to another SDO master.                    *)
(***************************************************************************)
Upload   == [node : Node, cs : {"UL"}, obj : Obj, val : {Garbage},
             api : {"typed", "obj"}]
Download == [node : Node, cs : {"DL"}, obj : Obj, val : Val, api : {"typed"}]
Call     == Upload \union Download

Request == [cs : {"UL"}, obj : Obj, val : {Garbage}, tag : 0 .. MaxCalls]
           \union [cs : {"DL"}, obj : Obj, val : Val, tag : 0 .. MaxCalls]

Frame == [id  : Node \union {NotSdo},
          scs : {"EX_UL", "EX_DL", "ABORT", "PDO"},
          obj : Obj \union {Garbage},
          val : Val \union {Garbage},
          len : {0, 1, 2, 4},
          tag : 0 .. MaxCalls]

\* Mutant: the query is passed req instead of req1, whose cmd_spec is set.
sdo2canUnset(c, tag) == [cs |-> Garbage, obj |-> c.obj, val |-> c.val, tag |-> tag]

\* canmat_sdo2can( &can, req, 0 ): the request frame of a call
sdo2can(c, tag) == [cs |-> c.cs, obj |-> c.obj, val |-> c.val, tag |-> tag]

UploadResponse(n, o, tag) ==
  [id |-> n, scs |-> "EX_UL", obj |-> o, val |-> od[n][o],
   len |-> Size[o], tag |-> tag]

DownloadResponse(n, o, tag) ==
  [id |-> n, scs |-> "EX_DL", obj |-> o, val |-> Garbage, len |-> 0, tag |-> tag]

AbortResponse(n, o, tag) ==
  [id |-> n, scs |-> "ABORT", obj |-> o, val |-> Garbage, len |-> 4, tag |-> tag]

OtherFrame ==
  [id |-> NotSdo, scs |-> "PDO", obj |-> Garbage, val |-> Garbage,
   len |-> 0, tag |-> 0]

\* Mutant: an abort is not told from an acknowledgement.
can2sdoNoAbort(f, size) ==
  IF f.scs # "EX_UL" \/ f.len = size THEN "OK" ELSE "ERR_PROTO"

(***************************************************************************)
(* canmat_can2sdo: the status it returns for a response to a request of    *)
(* data type of "size" bytes.  An acknowledgement of a download is VOID    *)
(* whatever the request was, and only an upload's length is checked.       *)
(***************************************************************************)
can2sdo(f, size) ==
  CASE f.scs = "ABORT" -> "ERR_ABORT"
    [] f.scs = "EX_DL" -> "OK"
    [] f.scs = "EX_UL" -> IF f.len = size THEN "OK" ELSE "ERR_PROTO"
    [] OTHER           -> "ERR_PROTO"

Status == {"OK", "ERR_OS", "ERR_PROTO", "ERR_ABORT"}

(***************************************************************************)
(* What canmat_sdo_ul_T stores in *val: resp.data when the query was OK,   *)
(* and a VOID response leaves resp.data, a local, uninitialised.           *)
(***************************************************************************)
ReturnedVal(c, f) ==
  IF c.cs = "UL" /\ f.scs = "EX_UL" /\ can2sdo(f, Size[c.obj]) = "OK"
    THEN f.val ELSE Garbage

Init ==
  /\ pc = "idle"
  /\ call = NoCall
  /\ out = [status |-> "OK", val |-> Garbage, tag |-> 0]
  /\ net = [n \in Node |-> <<>>]
  /\ rxq = <<>>
  /\ od = InitialOd
  /\ calls = 0
  /\ faults = 0
  /\ traffic = 0
  /\ tainted = {}

\* Mutant: any SDO response ends the loop, whichever node sent it.
AcceptsAnyNode(f) == f.id # NotSdo

\* Mutant: an abort is not a response.
AcceptsNoAbort(f) == f.id = call.node /\ f.scs # "ABORT"

\* The condition that ends the receive loop.
Accepts(f) == f.id = call.node

(***************************************************************************)
(* The error return of the interface.  canmat_obj_ul asserts on            *)
(* resp.length before it looks at the status, and resp was never written:  *)
(* the assertion may hold or abort the program.                            *)
(***************************************************************************)
ReturnOsError(c) ==
  /\ out' = [status |-> "ERR_OS", val |-> Garbage, tag |-> 0]
  /\ \/ pc' = "idle"
     \/ c.api = "obj" /\ pc' = "aborted"

\* Mutant: the request is sent twice.
SendTwice(c) ==
  /\ pc = "idle"
  /\ calls < MaxCalls
  /\ calls' = calls + 1
  /\ call' = c
  /\ net' = [net EXCEPT ![c.node] = @ \o <<sdo2can(c, calls + 1), sdo2can(c, calls + 1)>>]
  /\ pc' = "recv"
  /\ UNCHANGED <<out, rxq, od, faults, traffic, tainted>>

\* canmat_sdo_query up to a successful canmat_iface_send
Send(c) ==
  /\ pc = "idle"
  /\ calls < MaxCalls
  /\ calls' = calls + 1
  /\ call' = c
  /\ net' = [net EXCEPT ![c.node] = Append(@, sdo2can(c, calls + 1))]
  /\ pc' = "recv"
  /\ UNCHANGED <<out, rxq, od, faults, traffic, tainted>>

\* canmat_iface_send fails: the query returns at once, nothing was sent
SendFails(c) ==
  /\ pc = "idle"
  /\ calls < MaxCalls
  /\ faults < MaxFaults
  /\ calls' = calls + 1
  /\ faults' = faults + 1
  /\ call' = c
  /\ ReturnOsError(c)
  /\ UNCHANGED <<net, rxq, od, traffic, tainted>>

\* the receive loop discards a frame that does not have the node's response id
RecvOther ==
  /\ pc = "recv"
  /\ rxq # <<>>
  /\ ~Accepts(Head(rxq))
  /\ rxq' = Tail(rxq)
  /\ UNCHANGED <<pc, call, out, net, od, calls, faults, traffic, tainted>>

\* the receive loop ends with the first frame that has the node's response id
RecvResponse ==
  /\ pc = "recv"
  /\ rxq # <<>>
  /\ LET f == Head(rxq) IN
       /\ Accepts(f)
       /\ out' = [status |-> can2sdo(f, Size[call.obj]),
                  val    |-> ReturnedVal(call, f),
                  tag    |-> f.tag]
  /\ rxq' = Tail(rxq)
  /\ pc' = "idle"
  /\ UNCHANGED <<call, net, od, calls, faults, traffic, tainted>>

\* Mutant: when a receive fails, the request is sent again and waited for.
RecvFailsResends ==
  /\ pc = "recv"
  /\ faults < MaxFaults
  /\ faults' = faults + 1
  /\ net' = [net EXCEPT ![call.node] = Append(@, sdo2can(call, calls))]
  /\ tainted' = tainted \union {call.node}
  /\ UNCHANGED <<pc, call, out, rxq, od, calls, traffic>>

\* canmat_iface_recv fails (EINTR is not retried): the answer is still to come
RecvFails ==
  /\ pc = "recv"
  /\ faults < MaxFaults
  /\ faults' = faults + 1
  /\ ReturnOsError(call)
  /\ tainted' = tainted \union {call.node}
  /\ UNCHANGED <<call, net, rxq, od, calls, traffic>>

\* A node serves its oldest request, or refuses it with an abort (external).
Serve(n) ==
  /\ net[n] # <<>>
  /\ net' = [net EXCEPT ![n] = Tail(@)]
  /\ LET r == Head(net[n]) IN
       \/ /\ r.cs = "UL"
          /\ rxq' = Append(rxq, UploadResponse(n, r.obj, r.tag))
          /\ UNCHANGED od
       \/ /\ r.cs = "DL"
          /\ od' = [od EXCEPT ![n][r.obj] = r.val]
          /\ rxq' = Append(rxq, DownloadResponse(n, r.obj, r.tag))
       \/ /\ rxq' = Append(rxq, AbortResponse(n, r.obj, r.tag))
          /\ UNCHANGED od
  /\ UNCHANGED <<pc, call, out, calls, faults, traffic, tainted>>

\* Frames that are no SDO response: PDOs, NMT, emergencies (external).
Traffic ==
  /\ traffic < MaxTraffic
  /\ traffic' = traffic + 1
  /\ rxq' = Append(rxq, OtherFrame)
  /\ UNCHANGED <<pc, call, out, net, od, calls, faults, tainted>>

\* A node answers another SDO master, whose responses all sockets see (external).
OtherMaster(n) ==
  /\ traffic < MaxTraffic
  /\ traffic' = traffic + 1
  /\ \E o \in Obj :
       \/ /\ rxq' = Append(rxq, UploadResponse(n, o, 0))
          /\ UNCHANGED od
       \/ /\ \E v \in Val : od' = [od EXCEPT ![n][o] = v]
          /\ rxq' = Append(rxq, DownloadResponse(n, o, 0))
       \/ /\ rxq' = Append(rxq, AbortResponse(n, o, 0))
          /\ UNCHANGED od
  /\ tainted' = tainted \union {n}
  /\ UNCHANGED <<pc, call, out, net, calls, faults>>

Next ==
  \/ \E c \in Call : Send(c)
  \/ \E c \in Call : SendFails(c)
  \/ RecvOther
  \/ RecvResponse
  \/ RecvFails
  \/ \E n \in Node : Serve(n)
  \/ Traffic
  \/ \E n \in Node : OtherMaster(n)

Spec == Init /\ [][Next]_vars

\* Every node answers its requests, and a thread in recv() is given the frame.
Fairness ==
  /\ WF_vars(RecvOther)
  /\ WF_vars(RecvResponse)
  /\ \A n \in Node : WF_vars(Serve(n))

FairSpec == Spec /\ Fairness

-----------------------------------------------------------------------------

\* The types of the variables, and the pc at which there is a call.
TypeOK ==
  /\ pc \in {"idle", "recv", "aborted"}
  /\ call \in Call \union {NoCall}
  /\ pc = "recv" => call \in Call
  /\ out \in [status : Status, val : Val \union {Garbage}, tag : 0 .. MaxCalls]
  /\ net \in [Node -> Seq(Request)]
  /\ rxq \in Seq(Frame)
  /\ od \in [Node -> [Obj -> Val]]
  /\ calls \in 0 .. MaxCalls
  /\ faults \in 0 .. MaxFaults
  /\ traffic \in 0 .. MaxTraffic
  /\ tainted \subseteq Node

\* A call has returned OK and no other response could have been taken for its own.
CleanReturn(cs) ==
  /\ pc = "idle"
  /\ call # NoCall
  /\ call.cs = cs
  /\ call.node \notin tainted
  /\ out.status = "OK"

(***************************************************************************)
(* An upload that returns OK has stored the object's value in *val, as     *)
(* long as no receive failed and no other master used the node: neither    *)
(* another object's value, nor an old one, nor uninitialised memory        *)
(* (sdo.c canmat_sdo_query, sdo.h canmat_sdo_ul_T).                        *)
(***************************************************************************)
UploadReturnsObject ==
  CleanReturn("UL") => out.val = od[call.node][call.obj]

(***************************************************************************)
(* A download that returns OK has changed the object, under the same       *)
(* condition: the acknowledgement is the one of this download.             *)
(***************************************************************************)
DownloadTookEffect ==
  CleanReturn("DL") => od[call.node][call.obj] = call.val

(***************************************************************************)
(* Late answers do not pile up by themselves: what a node still owes or    *)
(* has sent and nobody has read is one answer per failed receive, one per  *)
(* unasked frame, and one for the call that waits (sdo.c:223-226).         *)
(***************************************************************************)
Unread(n) == {i \in DOMAIN rxq : rxq[i].id = n}

Backlog(n) == Len(net[n]) + Cardinality(Unread(n))

BacklogBounded ==
  \A n \in Node :
    Backlog(n) <= faults + traffic + (IF pc = "recv" /\ call.node = n THEN 1 ELSE 0)

(***************************************************************************)
(* A call returns: with a live node the receive loop ends, whatever other  *)
(* frames arrive in between.  There is no timeout, so this needs the       *)
(* node's fairness.                                                        *)
(***************************************************************************)
CallReturns == pc = "recv" ~> pc # "recv"

(***************************************************************************)
(* "Send and SDO request and wait for the response" (sdo.c:208): the       *)
(* response a query returns is the one to its own request.                 *)
(***************************************************************************)
QueryReturnsItsResponse ==
  pc = "idle" /\ call # NoCall /\ out.status # "ERR_OS" => out.tag = calls
=============================================================================
