-------------------------- MODULE SdoClientProofs ---------------------------
(***************************************************************************)
(* Theorems about SdoClient, for every set of nodes, objects and values    *)
(* and every bound: its invariants and action properties, and, in the      *)
(* second half, that it implements SdoAccess.                              *)
(***************************************************************************)
EXTENDS SdoRefinement, SequenceTheorems, FiniteSetTheorems, TLAPS

(***************************************************************************)
(* The inductive invariant.  A node that is not tainted has sent nothing   *)
(* that is still unread and owes nothing, except to the call that waits    *)
(* for it: then either the request is on its way, or its answer, and only  *)
(* its answer, is in the receive queue.  "Only" is what UploadReturnsObject*)
(* lacks to be inductive.                                                  *)
(***************************************************************************)
NoFrameFrom(n) == \A i \in 1 .. Len(rxq) : rxq[i].id # n

\* f answers the request c, d being the object dictionary of c's node
Answers(f, c, d) ==
  \/ f.scs = "ABORT"
  \/ /\ c.cs = "UL"
     /\ f.scs = "EX_UL"
     /\ f.val = d[c.obj]
  \/ /\ c.cs = "DL"
     /\ f.scs = "EX_DL"
     /\ d[c.obj] = c.val

Waiting(n) == pc = "recv" /\ call.node = n

RequestOnItsWay(n) ==
  /\ Len(net[n]) = 1
  /\ net[n][1].cs = call.cs
  /\ net[n][1].obj = call.obj
  /\ net[n][1].val = call.val
  /\ NoFrameFrom(n)

AnswerInQueue(n) ==
  /\ net[n] = <<>>
  /\ \A i \in 1 .. Len(rxq) : rxq[i].id = n => Answers(rxq[i], call, od[n])
  /\ \A i, j \in 1 .. Len(rxq) : rxq[i].id = n /\ rxq[j].id = n => i = j

OwesNothing(n) == net[n] = <<>> /\ NoFrameFrom(n)

CleanNode(n) ==
  IF Waiting(n) THEN RequestOnItsWay(n) \/ AnswerInQueue(n) ELSE OwesNothing(n)

CleanNodes == \A n \in Node \ tainted : CleanNode(n)

IInv == CleanNodes /\ UploadReturnsObject /\ DownloadTookEffect
-----------------------------------------------------------------------------

\* Every frame and request the model builds has the type of one.
LEMMA FrameTypes ==
  ASSUME TypeOK, NEW n \in Node, NEW o \in Obj, NEW t \in 0 .. MaxCalls
  PROVE  /\ UploadResponse(n, o, t) \in Frame
         /\ DownloadResponse(n, o, t) \in Frame
         /\ AbortResponse(n, o, t) \in Frame
BY SizeAssumption DEF TypeOK, Frame, UploadResponse, DownloadResponse, AbortResponse

LEMMA FrameIds ==
  ASSUME NEW n, NEW o, NEW t
  PROVE  /\ UploadResponse(n, o, t).id = n
         /\ DownloadResponse(n, o, t).id = n
         /\ AbortResponse(n, o, t).id = n
BY DEF UploadResponse, DownloadResponse, AbortResponse

LEMMA OtherFrameType == OtherFrame \in Frame
BY BoundsAssumption DEF OtherFrame, Frame

LEMMA CallFields ==
  ASSUME NEW c \in Call
  PROVE  /\ c.node \in Node
         /\ c.cs \in {"UL", "DL"}
         /\ c.obj \in Obj
         /\ IF c.cs = "DL" THEN c.val \in Val ELSE c.val = Garbage
BY DEF Call, Upload, Download

LEMMA RequestFields ==
  ASSUME NEW r \in Request
  PROVE  /\ r.obj \in Obj
         /\ r.tag \in 0 .. MaxCalls
         /\ r.cs = "DL" => r.val \in Val
BY DEF Request

(***************************************************************************)
(* The variables keep their types: in particular a response is looked at   *)
(* only while there is a call to compare it with.                          *)
(***************************************************************************)
THEOREM TypeCorrect == Spec => []TypeOK
<1>1. Init => TypeOK
  BY BoundsAssumption, OdAssumption DEF Init, TypeOK, Status
<1>2. TypeOK /\ [Next]_vars => TypeOK'
  <2> SUFFICES ASSUME TypeOK, [Next]_vars PROVE TypeOK'
    OBVIOUS
  <2>1. ASSUME NEW c \in Call, Send(c) PROVE TypeOK'
    <3>1. sdo2can(c, calls + 1) \in Request
      BY <2>1, CallFields, BoundsAssumption DEF Send, TypeOK, sdo2can, Request
    <3>2. net' \in [Node -> Seq(Request)]
      BY <2>1, <3>1, CallFields DEF Send, TypeOK
    <3> QED BY <2>1, <3>2, BoundsAssumption DEF Send, TypeOK
  <2>2. ASSUME NEW c \in Call, SendFails(c) PROVE TypeOK'
    BY <2>2, BoundsAssumption DEF SendFails, ReturnOsError, TypeOK, Status
  <2>3. CASE RecvOther
    BY <2>3 DEF RecvOther, TypeOK
  <2>4. CASE RecvResponse
    <3>1. Head(rxq) \in Frame /\ Tail(rxq) \in Seq(Frame)
      BY <2>4 DEF RecvResponse, TypeOK
    <3>2. out' \in [status : Status, val : Val \union {Garbage}, tag : 0 .. MaxCalls]
      BY <2>4, <3>1 DEF RecvResponse, can2sdo, ReturnedVal, Status, Frame
    <3> QED BY <2>4, <3>1, <3>2 DEF RecvResponse, TypeOK
  <2>5. CASE RecvFails
    BY <2>5, BoundsAssumption, CallFields DEF RecvFails, ReturnOsError, TypeOK, Status
  <2>6. ASSUME NEW n \in Node, Serve(n) PROVE TypeOK'
    <3> DEFINE r == Head(net[n])
    <3>1. r \in Request /\ Tail(net[n]) \in Seq(Request)
      BY <2>6 DEF Serve, TypeOK
    <3>2. net' \in [Node -> Seq(Request)]
      BY <2>6, <3>1 DEF Serve, TypeOK
    <3>3. rxq' \in Seq(Frame)
      <4>1. r.obj \in Obj /\ r.tag \in 0 .. MaxCalls
        BY <3>1, RequestFields
      <4>2. /\ UploadResponse(n, r.obj, r.tag) \in Frame
            /\ DownloadResponse(n, r.obj, r.tag) \in Frame
            /\ AbortResponse(n, r.obj, r.tag) \in Frame
        BY <4>1, FrameTypes
      <4>3. PICK f \in Frame : rxq' = Append(rxq, f)
        BY <2>6, <4>2, Zenon DEF Serve
      <4> QED BY <4>3 DEF TypeOK
    <3>4. od' \in [Node -> [Obj -> Val]]
      <4>1. CASE od' = od
        BY <4>1 DEF TypeOK
      <4>2. CASE r.cs = "DL" /\ od' = [od EXCEPT ![n][r.obj] = r.val]
        BY <4>2, <3>1, RequestFields DEF TypeOK
      <4> QED BY <2>6, <4>1, <4>2, Zenon DEF Serve
    <3> QED BY <2>6, <3>2, <3>3, <3>4 DEF Serve, TypeOK
  <2>7. CASE Traffic
    BY <2>7, OtherFrameType, BoundsAssumption DEF Traffic, TypeOK
  <2>8. ASSUME NEW n \in Node, OtherMaster(n) PROVE TypeOK'
    <3>1. 0 \in 0 .. MaxCalls
      BY BoundsAssumption
    <3>2. PICK f \in Frame : rxq' = Append(rxq, f)
      BY <2>8, <3>1, FrameTypes, Zenon DEF OtherMaster
    <3>3. rxq' \in Seq(Frame)
      BY <3>2 DEF TypeOK
    <3>4. od' \in [Node -> [Obj -> Val]]
      <4>1. CASE od' = od
        BY <4>1 DEF TypeOK
      <4>2. ASSUME NEW o \in Obj, NEW v \in Val, od' = [od EXCEPT ![n][o] = v]
            PROVE  od' \in [Node -> [Obj -> Val]]
        BY <4>2 DEF TypeOK
      <4> QED BY <2>8, <4>1, <4>2, Zenon DEF OtherMaster
    <3> QED BY <2>8, <3>3, <3>4, BoundsAssumption DEF OtherMaster, TypeOK
  <2>9. CASE UNCHANGED vars
    BY <2>9 DEF vars, TypeOK
  <2> QED BY <2>1, <2>2, <2>3, <2>4, <2>5, <2>6, <2>7, <2>8, <2>9 DEF Next
<1> QED BY <1>1, <1>2, PTL DEF Spec

-----------------------------------------------------------------------------
(***************************************************************************)
(* How the receive queue changes: a frame that is not from n arrives, or   *)
(* the oldest frame is read and it is not from n.                          *)
(***************************************************************************)
LEMMA ArrivalKeepsClean ==
  ASSUME TypeOK, NEW n \in Node, CleanNode(n), NEW f, f.id # n,
         rxq' = Append(rxq, f), od'[n] = od[n], net'[n] = net[n],
         UNCHANGED <<pc, call>>
  PROVE  CleanNode(n)'
<1>1. /\ Len(rxq') = Len(rxq) + 1
      /\ Len(rxq) \in Nat
      /\ \A i \in 1 .. Len(rxq) : rxq'[i] = rxq[i]
      /\ rxq'[Len(rxq) + 1] = f
  BY DEF TypeOK
<1>2. \A i \in 1 .. Len(rxq') : rxq'[i].id = n => i \in 1 .. Len(rxq) /\ rxq'[i] = rxq[i]
  BY <1>1
<1>3. NoFrameFrom(n) => NoFrameFrom(n)'
  BY <1>1, <1>2 DEF NoFrameFrom
<1>4. CASE Waiting(n)
  <2>1. Waiting(n)'
    BY <1>4 DEF Waiting
  <2>3. AnswerInQueue(n) => AnswerInQueue(n)'
    BY <1>1, <1>2 DEF AnswerInQueue
  <2>4. RequestOnItsWay(n) => RequestOnItsWay(n)'
    BY <1>3 DEF RequestOnItsWay
  <2> QED BY <1>4, <2>1, <2>3, <2>4 DEF CleanNode
<1>5. CASE ~Waiting(n)
  BY <1>3, <1>5 DEF CleanNode, OwesNothing, Waiting
<1> QED BY <1>4, <1>5

LEMMA ReadKeepsClean ==
  ASSUME TypeOK, NEW n \in Node, CleanNode(n), rxq # <<>>, Head(rxq).id # n,
         rxq' = Tail(rxq), UNCHANGED <<net, od, call>>, Waiting(n)' = Waiting(n)
  PROVE  CleanNode(n)'
<1>1. /\ Len(rxq) \in Nat /\ Len(rxq) > 0
      /\ Len(rxq') = Len(rxq) - 1
      /\ \A i \in 1 .. Len(rxq') : rxq'[i] = rxq[i + 1] /\ i + 1 \in 1 .. Len(rxq)
  BY DEF TypeOK
<1>2. NoFrameFrom(n) => NoFrameFrom(n)'
  BY <1>1 DEF NoFrameFrom
<1>4. AnswerInQueue(n) => AnswerInQueue(n)'
  <2> SUFFICES ASSUME AnswerInQueue(n) PROVE AnswerInQueue(n)'
    OBVIOUS
  <2>1. \A i \in 1 .. Len(rxq') : rxq'[i].id = n => Answers(rxq'[i], call, od[n])
    BY <1>1 DEF AnswerInQueue
  <2>2. ASSUME NEW i \in 1 .. Len(rxq'), NEW j \in 1 .. Len(rxq'),
               rxq'[i].id = n, rxq'[j].id = n
        PROVE  i = j
    BY <1>1, <2>2 DEF AnswerInQueue
  <2> QED BY <2>1, <2>2 DEF AnswerInQueue
<1>5. RequestOnItsWay(n) => RequestOnItsWay(n)'
  BY <1>2 DEF RequestOnItsWay
<1>6. OwesNothing(n) => OwesNothing(n)'
  BY <1>2 DEF OwesNothing
<1> QED BY <1>4, <1>5, <1>6 DEF CleanNode

\* The answer of a node to the request of the waiting call answers that call.
LEMMA ServeAnswers ==
  ASSUME TypeOK, NEW n \in Node, Waiting(n), RequestOnItsWay(n), Serve(n)
  PROVE  AnswerInQueue(n)'
<1>1. /\ net'[n] = <<>>
      /\ UNCHANGED <<pc, call>>
  <2>1. net[n] \in Seq(Request) /\ Len(net[n]) = 1
    BY DEF RequestOnItsWay, TypeOK
  <2>2. Tail(net[n]) = <<>>
    <3>1. Tail(net[n]) \in Seq(Request) /\ Len(Tail(net[n])) = 0
      BY <2>1
    <3> QED BY <3>1, EmptySeq
  <2> QED BY <2>2 DEF Serve, TypeOK
<1>2. PICK f : /\ rxq' = Append(rxq, f)
               /\ f.id = n
               /\ Answers(f, call, od'[n])
  <2> DEFINE r == Head(net[n])
  <2>1. r = net[n][1] /\ r \in Request
    <3>1. net[n] \in Seq(Request) /\ Len(net[n]) = 1
      BY DEF RequestOnItsWay, TypeOK
    <3> QED BY <3>1
  <2>2. /\ r.cs = call.cs /\ r.obj = call.obj /\ r.val = call.val /\ call.node = n
        /\ call.obj \in Obj
    BY <2>1, RequestFields DEF RequestOnItsWay, Waiting
  <2>3. CASE r.cs = "UL" /\ rxq' = Append(rxq, UploadResponse(n, r.obj, r.tag))
             /\ UNCHANGED od
    BY <2>2, <2>3, <1>1 DEF UploadResponse, Answers
  <2>4. CASE /\ r.cs = "DL"
             /\ od' = [od EXCEPT ![n][r.obj] = r.val]
             /\ rxq' = Append(rxq, DownloadResponse(n, r.obj, r.tag))
    <3>1. od'[n][r.obj] = r.val
      BY <2>2, <2>4 DEF TypeOK
    <3> QED BY <2>2, <2>4, <3>1, <1>1 DEF DownloadResponse, Answers
  <2>5. CASE rxq' = Append(rxq, AbortResponse(n, r.obj, r.tag)) /\ UNCHANGED od
    BY <2>5, <1>1 DEF AbortResponse, Answers
  <2> QED BY <2>3, <2>4, <2>5, Zenon DEF Serve
<1>3. /\ Len(rxq') = Len(rxq) + 1
      /\ Len(rxq) \in Nat
      /\ \A i \in 1 .. Len(rxq) : rxq'[i] = rxq[i] /\ rxq[i].id # n
      /\ rxq'[Len(rxq) + 1] = f
  BY <1>2 DEF TypeOK, RequestOnItsWay, NoFrameFrom
<1>4. ASSUME NEW i \in 1 .. Len(rxq'), rxq'[i].id = n
      PROVE  i = Len(rxq) + 1 /\ rxq'[i] = f
  <2>1. rxq'[i] = rxq[i] \/ i = Len(rxq) + 1
    BY <1>2, <1>3 DEF TypeOK
  <2> QED BY <1>3, <1>4, <2>1
<1>5. \A i \in 1 .. Len(rxq') : rxq'[i].id = n => Answers(rxq'[i], call', od'[n])
  BY <1>1, <1>2, <1>4
<1> QED BY <1>1, <1>4, <1>5 DEF AnswerInQueue

\* The response a clean node's call accepts is its answer, and the last frame.
LEMMA AcceptedAnswers ==
  ASSUME TypeOK, RecvResponse, CleanNode(call.node)
  PROVE  Answers(Head(rxq), call, od[call.node]) /\ OwesNothing(call.node)'
<1> DEFINE n == call.node
<1>1. /\ Len(rxq) \in Nat /\ 1 \in 1 .. Len(rxq)
      /\ Head(rxq) = rxq[1]
      /\ rxq[1].id = n
      /\ Len(rxq') = Len(rxq) - 1
      /\ \A i \in 1 .. Len(rxq') : rxq'[i] = rxq[i + 1] /\ i + 1 \in 1 .. Len(rxq)
  BY DEF RecvResponse, Accepts, TypeOK
<1>2. Waiting(n) /\ ~NoFrameFrom(n)
  BY <1>1 DEF NoFrameFrom, Waiting, RecvResponse
<1>3. AnswerInQueue(n)
  BY <1>2 DEF CleanNode, RequestOnItsWay
<1>4. NoFrameFrom(n)'
  BY <1>1, <1>3 DEF AnswerInQueue, NoFrameFrom, RecvResponse
<1> QED BY <1>1, <1>3, <1>4 DEF AnswerInQueue, OwesNothing, RecvResponse

-----------------------------------------------------------------------------
LEMMA CleanNodesStep ==
  ASSUME TypeOK, CleanNodes, [Next]_vars
  PROVE  CleanNodes'
<1> SUFFICES ASSUME NEW n \in Node, n \notin tainted'
             PROVE  CleanNode(n)'
  BY DEF CleanNodes
<1>0. n \notin tainted /\ CleanNode(n)
  <2>1. tainted \subseteq tainted'
    BY DEF Next, vars, Send, SendFails, RecvOther, RecvResponse, RecvFails, Serve,
           Traffic, OtherMaster
  <2> QED BY <2>1 DEF CleanNodes
<1>1. ASSUME NEW c \in Call, Send(c) PROVE CleanNode(n)'
  <2>1. OwesNothing(n) /\ UNCHANGED rxq
    BY <1>0, <1>1 DEF CleanNode, Waiting, Send
  <2>2. CASE c.node = n
    <3>1. net'[n] = Append(<<>>, sdo2can(c, calls + 1))
      BY <1>1, <2>1, <2>2 DEF Send, OwesNothing, TypeOK
    <3>2. Len(net'[n]) = 1 /\ net'[n][1] = sdo2can(c, calls + 1)
      BY <3>1
    <3>3. RequestOnItsWay(n)'
      BY <1>1, <2>1, <3>2 DEF RequestOnItsWay, OwesNothing, NoFrameFrom, sdo2can, Send
    <3> QED BY <1>1, <2>2, <3>3 DEF CleanNode, Waiting, Send
  <2>3. CASE c.node # n
    BY <1>1, <2>1, <2>3 DEF CleanNode, Waiting, OwesNothing, NoFrameFrom, Send, TypeOK
  <2> QED BY <2>2, <2>3
<1>2. ASSUME NEW c \in Call, SendFails(c) PROVE CleanNode(n)'
  BY <1>0, <1>2 DEF SendFails, ReturnOsError, CleanNode, Waiting, OwesNothing, NoFrameFrom
<1>3. CASE RecvOther
  <2>1. CASE Head(rxq).id # n
    BY <1>0, <1>3, <2>1, ReadKeepsClean DEF RecvOther, Waiting
  <2>2. CASE Head(rxq).id = n
    <3>1. ~Waiting(n) /\ ~NoFrameFrom(n)
      BY <1>3, <2>2 DEF RecvOther, Accepts, Waiting, NoFrameFrom, TypeOK
    <3> QED BY <1>0, <3>1 DEF CleanNode, OwesNothing
  <2> QED BY <2>1, <2>2
<1>4. CASE RecvResponse
  <2>1. CASE call.node = n
    BY <1>0, <1>4, <2>1, AcceptedAnswers DEF RecvResponse, CleanNode, Waiting
  <2>2. CASE call.node # n
    <3>1. Waiting(n)' = Waiting(n) /\ Head(rxq).id # n
      BY <1>4, <2>2 DEF RecvResponse, Waiting, Accepts
    <3> QED BY <1>0, <1>4, <3>1, ReadKeepsClean DEF RecvResponse
  <2> QED BY <2>1, <2>2
<1>5. CASE RecvFails
  BY <1>0, <1>5 DEF RecvFails, ReturnOsError, CleanNode, Waiting, OwesNothing, NoFrameFrom
<1>6. ASSUME NEW m \in Node, Serve(m) PROVE CleanNode(n)'
  <2>1. CASE m = n
    <3>1. net[n] # <<>>
      BY <1>6, <2>1 DEF Serve
    <3>2. Waiting(n) /\ RequestOnItsWay(n)
      BY <1>0, <3>1 DEF CleanNode, OwesNothing, AnswerInQueue
    <3>3. AnswerInQueue(n)'
      BY <1>6, <2>1, <3>2, ServeAnswers
    <3> QED BY <1>6, <3>2, <3>3 DEF CleanNode, Waiting, Serve
  <2>2. CASE m # n
    <3>1. PICK f : rxq' = Append(rxq, f) /\ f.id = m
      <4>1. PICK o, t : \/ rxq' = Append(rxq, UploadResponse(m, o, t))
                      \/ rxq' = Append(rxq, DownloadResponse(m, o, t))
                      \/ rxq' = Append(rxq, AbortResponse(m, o, t))
        BY <1>6 DEF Serve
      <4> QED BY <4>1, FrameIds
    <3>2. od'[n] = od[n] /\ net'[n] = net[n] /\ UNCHANGED <<pc, call>>
      BY <1>6, <2>2 DEF Serve, TypeOK
    <3> QED BY <1>0, <2>2, <3>1, <3>2, ArrivalKeepsClean
  <2> QED BY <2>1, <2>2
<1>7. CASE Traffic
  <2>1. rxq' = Append(rxq, OtherFrame) /\ OtherFrame.id # n
    BY <1>7, NamesAssumption DEF Traffic, OtherFrame
  <2> QED BY <1>0, <1>7, <2>1, ArrivalKeepsClean DEF Traffic
<1>8. ASSUME NEW m \in Node, OtherMaster(m) PROVE CleanNode(n)'
  <2>1. m # n
    BY <1>8 DEF OtherMaster
  <2>2. PICK f : rxq' = Append(rxq, f) /\ f.id = m
    <3>1. PICK o, t : \/ rxq' = Append(rxq, UploadResponse(m, o, t))
                    \/ rxq' = Append(rxq, DownloadResponse(m, o, t))
                    \/ rxq' = Append(rxq, AbortResponse(m, o, t))
      BY <1>8 DEF OtherMaster
    <3> QED BY <3>1, FrameIds
  <2>3. od'[n] = od[n] /\ net'[n] = net[n] /\ UNCHANGED <<pc, call>>
    BY <1>8, <2>1 DEF OtherMaster, TypeOK
  <2> QED BY <1>0, <2>1, <2>2, <2>3, ArrivalKeepsClean
<1>9. CASE UNCHANGED vars
  BY <1>0, <1>9 DEF vars, CleanNode, Waiting, RequestOnItsWay, AnswerInQueue,
                    OwesNothing, NoFrameFrom
<1> QED BY <1>1, <1>2, <1>3, <1>4, <1>5, <1>6, <1>7, <1>8, <1>9 DEF Next

(***************************************************************************)
(* A step that accepts no response keeps what the last call returned true: *)
(* the dictionary of a clean node with no call waiting does not change.    *)
(***************************************************************************)
LEMMA ReturnsStep ==
  ASSUME TypeOK, CleanNodes, UploadReturnsObject, DownloadTookEffect, [Next]_vars
  PROVE  UploadReturnsObject' /\ DownloadTookEffect'
<1> DEFINE Kept == UploadReturnsObject' /\ DownloadTookEffect'
<1>1. ASSUME NEW c \in Call, Send(c) PROVE Kept
  BY <1>1 DEF Send, UploadReturnsObject, DownloadTookEffect, CleanReturn
<1>2. ASSUME NEW c \in Call, SendFails(c) PROVE Kept
  BY <1>2 DEF SendFails, ReturnOsError, UploadReturnsObject, DownloadTookEffect, CleanReturn
<1>3. CASE RecvOther
  BY <1>3 DEF RecvOther, UploadReturnsObject, DownloadTookEffect, CleanReturn
<1>4. CASE RecvResponse
  <2>1. CASE call.node \in tainted
    BY <1>4, <2>1 DEF RecvResponse, UploadReturnsObject, DownloadTookEffect, CleanReturn
  <2>2. CASE call.node \notin tainted
    <3>1. Answers(Head(rxq), call, od[call.node])
      BY <1>4, <2>2, AcceptedAnswers, CallFields DEF CleanNodes, RecvResponse, TypeOK
    <3>2. out'.status = "OK" /\ call.cs = "UL" => out'.val = od[call.node][call.obj]
      BY <1>4, <3>1 DEF RecvResponse, Answers, can2sdo, ReturnedVal
    <3>3. out'.status = "OK" /\ call.cs = "DL" => od[call.node][call.obj] = call.val
      BY <1>4, <3>1 DEF RecvResponse, Answers, can2sdo
    <3> QED BY <1>4, <3>2, <3>3 DEF RecvResponse, UploadReturnsObject, DownloadTookEffect,
                                    CleanReturn
  <2> QED BY <2>1, <2>2
<1>5. CASE RecvFails
  BY <1>5 DEF RecvFails, ReturnOsError, UploadReturnsObject, DownloadTookEffect, CleanReturn
<1>6. ASSUME NEW m \in Node, Serve(m) PROVE Kept
  <2>1. ASSUME pc = "idle", call # NoCall, call.node \notin tainted
        PROVE  od'[call.node] = od[call.node]
    <3>1. call.node \in Node
      BY <2>1, CallFields DEF TypeOK
    <3>2. net[call.node] = <<>>
      BY <2>1, <3>1 DEF CleanNodes, CleanNode, Waiting, OwesNothing
    <3> QED BY <1>6, <3>1, <3>2 DEF Serve, TypeOK
  <2> QED BY <1>6, <2>1 DEF Serve, UploadReturnsObject, DownloadTookEffect, CleanReturn
<1>7. CASE Traffic
  BY <1>7 DEF Traffic, UploadReturnsObject, DownloadTookEffect, CleanReturn
<1>8. ASSUME NEW m \in Node, OtherMaster(m) PROVE Kept
  <2>1. call.node # m => od'[call.node] = od[call.node] \/ call.node \notin Node
    BY <1>8 DEF OtherMaster, TypeOK
  <2>2. pc = "idle" /\ call # NoCall => call.node \in Node
    BY CallFields DEF TypeOK
  <2> QED BY <1>8, <2>1, <2>2 DEF OtherMaster, UploadReturnsObject, DownloadTookEffect,
                                  CleanReturn
<1>9. CASE UNCHANGED vars
  BY <1>9 DEF vars, UploadReturnsObject, DownloadTookEffect, CleanReturn
<1> QED BY <1>1, <1>2, <1>3, <1>4, <1>5, <1>6, <1>7, <1>8, <1>9 DEF Next

LEMMA InvariantCorrect == Spec => []IInv
<1>1. Init => IInv
  BY DEF Init, IInv, CleanNodes, CleanNode, Waiting, OwesNothing, NoFrameFrom,
         UploadReturnsObject, DownloadTookEffect, CleanReturn
<1>2. TypeOK /\ IInv /\ [Next]_vars => IInv'
  BY CleanNodesStep, ReturnsStep DEF IInv
<1> QED BY <1>1, <1>2, TypeCorrect, PTL DEF Spec

(***************************************************************************)
(* On a node whose calls were never interrupted and that serves no other   *)
(* master, an upload that returns OK returns the object's value.           *)
(***************************************************************************)
THEOREM UploadCorrect == Spec => []UploadReturnsObject
<1>1. IInv => UploadReturnsObject
  BY DEF IInv
<1> QED BY <1>1, InvariantCorrect, PTL

(***************************************************************************)
(* On such a node a download that returns OK has changed the object.       *)
(***************************************************************************)
THEOREM DownloadCorrect == Spec => []DownloadTookEffect
<1>1. IInv => DownloadTookEffect
  BY DEF IInv
<1> QED BY <1>1, InvariantCorrect, PTL

-----------------------------------------------------------------------------
(***************************************************************************)
(* How many unread frames of a node an arriving or a read frame makes.     *)
(***************************************************************************)
LEMMA FramesFinite ==
  ASSUME NEW q \in Seq(Frame), NEW n
  PROVE  /\ IsFiniteSet({i \in DOMAIN q : q[i].id = n})
         /\ Cardinality({i \in DOMAIN q : q[i].id = n}) \in Nat
<1> DEFINE from == {i \in DOMAIN q : q[i].id = n}
<1>1. from \subseteq 1 .. Len(q) /\ Len(q) \in Nat
  OBVIOUS
<1>2. IsFiniteSet(1 .. Len(q))
  BY <1>1, FS_Interval
<1> HIDE DEF from
<1>3. IsFiniteSet(from)
  BY <1>1, <1>2, FS_Subset
<1>4. Cardinality(from) \in Nat
  BY <1>3, FS_CardinalityType
<1> QED BY <1>3, <1>4 DEF from

LEMMA UnreadFinite ==
  ASSUME TypeOK, NEW n \in Node
  PROVE  IsFiniteSet(Unread(n)) /\ Cardinality(Unread(n)) \in Nat
BY FramesFinite DEF Unread, TypeOK

LEMMA UnreadFiniteNext ==
  ASSUME TypeOK', NEW n \in Node
  PROVE  Cardinality(Unread(n)') \in Nat
BY FramesFinite DEF Unread, TypeOK

LEMMA UnreadArrival ==
  ASSUME TypeOK, NEW n \in Node, NEW f, rxq' = Append(rxq, f)
  PROVE  Cardinality(Unread(n)') = Cardinality(Unread(n)) + (IF f.id = n THEN 1 ELSE 0)
<1>1. /\ DOMAIN rxq' = 1 .. Len(rxq) + 1
      /\ DOMAIN rxq = 1 .. Len(rxq)
      /\ Len(rxq) \in Nat
      /\ \A i \in 1 .. Len(rxq) : rxq'[i] = rxq[i]
      /\ rxq'[Len(rxq) + 1] = f
  BY DEF TypeOK
<1>2. \A i : i \in Unread(n)' <=> \/ i \in Unread(n)
                                  \/ i = Len(rxq) + 1 /\ f.id = n
  BY <1>1 DEF Unread
<1>3. CASE f.id = n
  <2>1. Unread(n)' = Unread(n) \union {Len(rxq) + 1}
    BY <1>2, <1>3
  <2>2. Len(rxq) + 1 \notin Unread(n)
    BY <1>1 DEF Unread
  <2> QED BY <1>3, <2>1, <2>2, UnreadFinite, FS_AddElement
<1>4. CASE f.id # n
  <2>1. Unread(n)' = Unread(n)
    BY <1>2, <1>4
  <2> QED BY <1>4, <2>1, UnreadFinite
<1> QED BY <1>3, <1>4

LEMMA UnreadRead ==
  ASSUME TypeOK, NEW n \in Node, rxq # <<>>, rxq' = Tail(rxq)
  PROVE  Cardinality(Unread(n)) = Cardinality(Unread(n)') + (IF Head(rxq).id = n THEN 1 ELSE 0)
<1>1. /\ Len(rxq) \in Nat /\ Len(rxq) > 0
      /\ DOMAIN rxq = 1 .. Len(rxq)
      /\ DOMAIN rxq' = 1 .. Len(rxq) - 1
      /\ \A i \in 1 .. Len(rxq) - 1 : rxq'[i] = rxq[i + 1]
      /\ Head(rxq) = rxq[1]
  BY DEF TypeOK
<1> DEFINE Rest == Unread(n) \ {1}
           Moved == [i \in Rest |-> i - 1]
<1>2. \A i \in Rest : i \in 2 .. Len(rxq)
  BY <1>1 DEF Unread
<1>3. Moved \in Bijection(Rest, Unread(n)')
  <2>1. ASSUME NEW i \in Rest PROVE Moved[i] \in Unread(n)'
    <3>1. i \in 2 .. Len(rxq) /\ rxq[i].id = n
      BY <1>2 DEF Unread
    <3>2. i - 1 \in 1 .. Len(rxq) - 1 /\ (i - 1) + 1 = i
      BY <1>1, <3>1
    <3> QED BY <1>1, <3>1, <3>2 DEF Unread
  <2>2. ASSUME NEW i \in Rest, NEW j \in Rest, Moved[i] = Moved[j] PROVE i = j
    BY <1>1, <1>2, <2>2
  <2>3. ASSUME NEW k \in Unread(n)' PROVE \E i \in Rest : Moved[i] = k
    <3>1. k \in 1 .. Len(rxq) - 1 /\ rxq'[k].id = n
      BY <1>1, <2>3 DEF Unread
    <3>2. k + 1 \in Rest
      BY <1>1, <3>1 DEF Unread
    <3>3. Moved[k + 1] = k
      BY <1>1, <3>1, <3>2
    <3> QED BY <3>2, <3>3
  <2>4. Moved \in [Rest -> Unread(n)']
    BY <2>1
  <2>5. IsInjective(Moved)
    BY <2>2 DEF IsInjective
  <2> HIDE DEF Moved, Rest
  <2> QED BY <2>3, <2>4, <2>5 DEF Bijection, Injection, Surjection
<1>4. IsFiniteSet(Rest)
  BY UnreadFinite, FS_Subset
<1>5. Cardinality(Rest) = Cardinality(Unread(n)')
  <2> HIDE DEF Moved, Rest
  <2> QED BY <1>3, <1>4, FS_Bijection DEF ExistsBijection
<1>6. CASE Head(rxq).id = n
  <2>1. 1 \in Unread(n)
    BY <1>1, <1>6 DEF Unread
  <2>2. Cardinality(Rest) = Cardinality(Unread(n)) - 1
    BY <2>1, UnreadFinite, FS_RemoveElement
  <2> QED BY <1>5, <1>6, <2>2, UnreadFinite
<1>7. CASE Head(rxq).id # n
  <2>1. Rest = Unread(n)
    BY <1>1, <1>7 DEF Unread
  <2>2. Cardinality(Unread(n)') \in Nat /\ Cardinality(Unread(n)) = Cardinality(Unread(n)')
    BY <1>5, <2>1, UnreadFinite
  <2> QED BY <1>7, <2>2
<1> QED BY <1>6, <1>7

(***************************************************************************)
(* The balance of one node: every step that adds to what it owes or has    *)
(* sent uses up a failure, an unasked frame or the start of a call.        *)
(***************************************************************************)
Due(n) == faults + traffic + (IF Waiting(n) THEN 1 ELSE 0)

LEMMA BalanceStep ==
  ASSUME TypeOK, TypeOK', NEW n \in Node, Backlog(n) <= Due(n), [Next]_vars
  PROVE  Backlog(n)' <= Due(n)'
<1>0. /\ Len(net[n]) \in Nat /\ Cardinality(Unread(n)) \in Nat
      /\ Len(net'[n]) \in Nat
      /\ faults \in Nat /\ traffic \in Nat
  BY UnreadFinite, BoundsAssumption DEF TypeOK
<1>1. ASSUME NEW c \in Call, Send(c) PROVE Backlog(n)' <= Due(n)'
  <2>1. ~Waiting(n) /\ (Waiting(n)' <=> n = c.node) /\ Unread(n)' = Unread(n)
    BY <1>1 DEF Send, Waiting, Unread
  <2>2. Len(net'[n]) = Len(net[n]) + (IF n = c.node THEN 1 ELSE 0)
    BY <1>1, CallFields DEF Send, TypeOK
  <2> QED BY <1>0, <1>1, <2>1, <2>2 DEF Send, Backlog, Due
<1>2. ASSUME NEW c \in Call, SendFails(c) PROVE Backlog(n)' <= Due(n)'
  <2>1. ~Waiting(n) /\ ~Waiting(n)' /\ Unread(n)' = Unread(n)
    BY <1>2 DEF SendFails, ReturnOsError, Waiting, Unread
  <2> QED BY <1>0, <1>2, <2>1 DEF SendFails, Backlog, Due
<1>3. CASE RecvOther
  <2>1. (Waiting(n)' <=> Waiting(n)) /\ net' = net
    BY <1>3 DEF RecvOther, Waiting
  <2>2. Cardinality(Unread(n)') \in Nat /\ Cardinality(Unread(n)') <= Cardinality(Unread(n))
    BY <1>0, <1>3, UnreadRead, UnreadFiniteNext DEF RecvOther
  <2> QED BY <1>0, <1>3, <2>1, <2>2 DEF RecvOther, Backlog, Due
<1>4. CASE RecvResponse
  <2>1. ~Waiting(n)' /\ net' = net /\ (Waiting(n) <=> Head(rxq).id = n)
    BY <1>4 DEF RecvResponse, Waiting, Accepts
  <2>2. Cardinality(Unread(n)) = Cardinality(Unread(n)') + (IF Waiting(n) THEN 1 ELSE 0)
    BY <1>4, <2>1, UnreadRead DEF RecvResponse
  <2>3. Cardinality(Unread(n)') \in Nat
    BY UnreadFiniteNext
  <2> QED BY <1>0, <1>4, <2>1, <2>2, <2>3 DEF RecvResponse, Backlog, Due
<1>5. CASE RecvFails
  <2>1. ~Waiting(n)' /\ Unread(n)' = Unread(n)
    BY <1>5 DEF RecvFails, ReturnOsError, Waiting, Unread
  <2> QED BY <1>0, <1>5, <2>1 DEF RecvFails, Backlog, Due
<1>6. ASSUME NEW m \in Node, Serve(m) PROVE Backlog(n)' <= Due(n)'
  <2>1. PICK f : rxq' = Append(rxq, f) /\ f.id = m
    BY <1>6, FrameIds DEF Serve
  <2>2. Len(net'[n]) = Len(net[n]) - (IF n = m THEN 1 ELSE 0)
    <3>1. net[m] \in Seq(Request) /\ net[m] # <<>>
      BY <1>6 DEF Serve, TypeOK
    <3>2. Len(Tail(net[m])) = Len(net[m]) - 1
      BY <3>1
    <3> QED BY <1>0, <1>6, <3>2 DEF Serve, TypeOK
  <2>3. Cardinality(Unread(n)') = Cardinality(Unread(n)) + (IF n = m THEN 1 ELSE 0)
    BY <2>1, UnreadArrival
  <2>4. (Waiting(n)' <=> Waiting(n)) /\ UNCHANGED <<faults, traffic>>
    BY <1>6 DEF Serve, Waiting
  <2>5. Due(n)' = Due(n)
    BY <2>4 DEF Due
  <2>6. Len(net'[n]) + Cardinality(Unread(n)') = Len(net[n]) + Cardinality(Unread(n))
    <3>1. CASE n = m
      BY <1>0, <2>2, <2>3, <3>1
    <3>2. CASE n # m
      BY <1>0, <2>2, <2>3, <3>2
    <3> QED BY <3>1, <3>2
  <2> QED BY <2>5, <2>6 DEF Backlog
<1>7. CASE Traffic
  <2>1. Cardinality(Unread(n)') \in {Cardinality(Unread(n)), Cardinality(Unread(n)) + 1}
    BY <1>0, <1>7, UnreadArrival DEF Traffic
  <2>2. (Waiting(n)' <=> Waiting(n)) /\ net' = net
    BY <1>7 DEF Traffic, Waiting
  <2> QED BY <1>0, <1>7, <2>1, <2>2 DEF Traffic, Backlog, Due
<1>8. ASSUME NEW m \in Node, OtherMaster(m) PROVE Backlog(n)' <= Due(n)'
  <2>0. PICK f : rxq' = Append(rxq, f)
    BY <1>8 DEF OtherMaster
  <2>1. Cardinality(Unread(n)') \in {Cardinality(Unread(n)), Cardinality(Unread(n)) + 1}
    BY <1>0, <2>0, UnreadArrival
  <2>2. (Waiting(n)' <=> Waiting(n)) /\ net' = net
    BY <1>8 DEF OtherMaster, Waiting
  <2> QED BY <1>0, <1>8, <2>1, <2>2 DEF OtherMaster, Backlog, Due
<1>9. CASE UNCHANGED vars
  BY <1>9 DEF vars, Backlog, Due, Waiting, Unread
<1> QED BY <1>1, <1>2, <1>3, <1>4, <1>5, <1>6, <1>7, <1>8, <1>9 DEF Next

(***************************************************************************)
(* A node owes or has sent unread at most one answer per failed receive,   *)
(* one per unasked frame, and the one that is waited for (sdo.c:223-226).  *)
(***************************************************************************)
THEOREM BacklogCorrect == Spec => []BacklogBounded
<1>1. BacklogBounded <=> \A n \in Node : Backlog(n) <= Due(n)
  BY DEF BacklogBounded, Due, Waiting
<1>2. Init => BacklogBounded
  <2> SUFFICES ASSUME Init, NEW n \in Node PROVE Backlog(n) <= Due(n)
    BY <1>1
  <2>1. Unread(n) = {}
    BY DEF Init, Unread
  <2>2. Len(net[n]) = 0 /\ Cardinality(Unread(n)) = 0
    BY <2>1, FS_EmptySet DEF Init
  <2> QED BY <2>2 DEF Init, Backlog, Due
<1>3. BacklogBounded /\ TypeOK /\ TypeOK' /\ [Next]_vars => BacklogBounded'
  <2> SUFFICES ASSUME BacklogBounded, TypeOK, TypeOK', [Next]_vars, NEW n \in Node
               PROVE  Backlog(n)' <= Due(n)'
    BY <1>1 DEF BacklogBounded, Due, Waiting
  <2> QED BY <1>1, BalanceStep
<1> QED BY <1>2, <1>3, TypeCorrect, PTL DEF Spec
-----------------------------------------------------------------------------

(***************************************************************************)
(* The client implements SdoAccess.                                        *)
(*                                                                         *)
(* What relates the frames to the open call.  Every frame carries the      *)
(* number of a call already made; the request of the open call is the last *)
(* on its way to the node; its answer is of the kind it asked for; and     *)
(* there is either the request or the answer, never both and never neither.*)
(***************************************************************************)
TagsPast ==
  /\ \A n \in Node : \A i \in 1 .. Len(net[n]) : net[n][i].tag <= calls
  /\ \A i \in 1 .. Len(rxq) : rxq[i].tag <= calls
  /\ pc = "recv" => calls > 0

OwnRequestLast ==
  \A n \in Node : \A i \in 1 .. Len(net[n]) :
    Own(net[n][i]) => n = call.node /\ i = Len(net[n]) /\ net[n][i] = sdo2can(call, calls)

\* f is an answer of the kind the request c asks for
FitsCall(f, c) ==
  /\ f.id = c.node
  /\ \/ f.scs = "ABORT"
     \/ c.cs = "UL" /\ f.scs = "EX_UL" /\ f.len = Size[c.obj]
     \/ c.cs = "DL" /\ f.scs = "EX_DL"

OwnAnswersFit == \A i \in 1 .. Len(rxq) : Own(rxq[i]) => FitsCall(rxq[i], call)

Answered == \E i \in 1 .. Len(rxq) : Own(rxq[i])

RequestOrAnswer == pc = "recv" => (RequestPending(call.node) <=> ~Answered)

OwnInv == TagsPast /\ OwnRequestLast /\ OwnAnswersFit /\ RequestOrAnswer
-----------------------------------------------------------------------------

(***************************************************************************)
(* How the queues change.                                                  *)
(***************************************************************************)
LEMMA Arrival ==
  ASSUME TypeOK, NEW f, rxq' = Append(rxq, f)
  PROVE  /\ Len(rxq) \in Nat
         /\ Len(rxq') = Len(rxq) + 1
         /\ DOMAIN rxq = 1 .. Len(rxq) /\ DOMAIN rxq' = 1 .. Len(rxq')
         /\ \A i \in 1 .. Len(rxq) : rxq'[i] = rxq[i] /\ i \in 1 .. Len(rxq')
         /\ rxq'[Len(rxq')] = f
         /\ \A i \in 1 .. Len(rxq') : i \in 1 .. Len(rxq) \/ i = Len(rxq')
BY DEF TypeOK

LEMMA Reading ==
  ASSUME TypeOK, rxq # <<>>, rxq' = Tail(rxq)
  PROVE  /\ Len(rxq) \in Nat \ {0}
         /\ Len(rxq') = Len(rxq) - 1
         /\ DOMAIN rxq = 1 .. Len(rxq) /\ DOMAIN rxq' = 1 .. Len(rxq')
         /\ \A i \in 1 .. Len(rxq') : rxq'[i] = rxq[i + 1] /\ i + 1 \in 1 .. Len(rxq)
         /\ \A i \in 1 .. Len(rxq) : i = 1 \/ (i - 1 \in 1 .. Len(rxq') /\ rxq[i] = rxq'[i - 1])
         /\ Head(rxq) = rxq[1] /\ 1 \in 1 .. Len(rxq)
<1>1. Len(rxq) \in Nat \ {0} /\ Len(rxq') = Len(rxq) - 1 /\ Head(rxq) = rxq[1]
  BY DEF TypeOK
<1>2. DOMAIN rxq = 1 .. Len(rxq) /\ DOMAIN rxq' = 1 .. Len(rxq')
  BY DEF TypeOK
<1>3. \A i \in 1 .. Len(rxq') : rxq'[i] = rxq[i + 1] /\ i + 1 \in 1 .. Len(rxq)
  BY <1>1 DEF TypeOK
<1>4. ASSUME NEW i \in 1 .. Len(rxq), i # 1
      PROVE  i - 1 \in 1 .. Len(rxq') /\ rxq[i] = rxq'[i - 1]
  <2>1. i - 1 \in 1 .. Len(rxq') /\ (i - 1) + 1 = i
    BY <1>1, <1>4
  <2> QED BY <1>3, <2>1
<1> QED BY <1>1, <1>2, <1>3, <1>4

LEMMA Serving ==
  ASSUME TypeOK, NEW n \in Node, net[n] # <<>>, net' = [net EXCEPT ![n] = Tail(@)]
  PROVE  /\ Len(net[n]) \in Nat \ {0}
         /\ Head(net[n]) = net[n][1] /\ Head(net[n]) \in Request
         /\ Len(net'[n]) = Len(net[n]) - 1
         /\ \A i \in 1 .. Len(net'[n]) : net'[n][i] = net[n][i + 1] /\ i + 1 \in 1 .. Len(net[n])
         /\ \A m \in Node \ {n} : net'[m] = net[m]
<1>1. net[n] \in Seq(Request) /\ net'[n] = Tail(net[n])
  BY DEF TypeOK
<1>2. \A m \in Node \ {n} : net'[m] = net[m]
  BY DEF TypeOK
<1>3. Len(net[n]) \in Nat \ {0}
  BY <1>1, EmptySeq
<1>4. Head(net[n]) = net[n][1] /\ net[n][1] \in Request
  BY <1>1, <1>3
<1>5. Len(net'[n]) = Len(net[n]) - 1
  <2>1. Len(Tail(net[n])) = Len(net[n]) - 1
    BY <1>1
  <2> QED BY <1>1, <2>1
<1>6. \A i \in 1 .. Len(net'[n]) : net'[n][i] = net[n][i + 1] /\ i + 1 \in 1 .. Len(net[n])
  BY <1>1, <1>3, <1>5
<1> QED BY <1>2, <1>3, <1>4, <1>5, <1>6

LEMMA Sending ==
  ASSUME TypeOK, NEW n \in Node, NEW r, net' = [net EXCEPT ![n] = Append(@, r)]
  PROVE  /\ Len(net[n]) \in Nat
         /\ Len(net'[n]) = Len(net[n]) + 1
         /\ \A i \in 1 .. Len(net[n]) : net'[n][i] = net[n][i]
         /\ net'[n][Len(net[n]) + 1] = r
         /\ \A m \in Node \ {n} : net'[m] = net[m]
<1>1. net[n] \in Seq(Request) /\ net'[n] = Append(net[n], r)
  BY DEF TypeOK
<1>2. \A m \in Node \ {n} : net'[m] = net[m]
  BY DEF TypeOK
<1> QED BY <1>1, <1>2

\* A request is pending at the end of a queue that is not empty.
LEMMA PendingLast ==
  ASSUME TypeOK, NEW n \in Node
  PROVE  /\ Len(net[n]) \in Nat
         /\ net[n] # <<>> <=> Len(net[n]) > 0
         /\ RequestPending(n) <=> Len(net[n]) > 0 /\ Own(net[n][Len(net[n])])
<1>1. net[n] \in Seq(Request)
  BY DEF TypeOK
<1>2. net[n] # <<>> <=> Len(net[n]) > 0
  BY <1>1, EmptySeq
<1> QED BY <1>1, <1>2 DEF RequestPending

(***************************************************************************)
(* A frame of no open call that arrives, or is read, leaves the answer of  *)
(* the open call where it was.                                             *)
(***************************************************************************)
LEMMA OtherArrives ==
  ASSUME TypeOK, OwnInv, NEW f, rxq' = Append(rxq, f), ~Own(f), f.tag <= calls,
         UNCHANGED <<pc, call, calls>>
  PROVE  /\ OwnAnswersFit'
         /\ Answered' <=> Answered
         /\ Effect' = Effect
         /\ \A i \in 1 .. Len(rxq') : rxq'[i].tag <= calls
<1>2. \A i \in 1 .. Len(rxq') : (i \in 1 .. Len(rxq) /\ rxq'[i] = rxq[i]) \/ rxq'[i] = f
  BY Arrival
<1>3. pc' = pc /\ calls' = calls /\ call' = call
  OBVIOUS
<1>4. OwnAnswersFit'
  BY <1>2, <1>3 DEF OwnAnswersFit, OwnInv, Own
<1>5. Answered' <=> Answered
  BY <1>2, <1>3, Arrival DEF Answered, Own
<1>6. (\E i \in DOMAIN rxq' : (pc' = "recv" /\ rxq'[i].tag = calls') /\ rxq'[i].scs = "ABORT")
        <=> \E i \in DOMAIN rxq : Own(rxq[i]) /\ rxq[i].scs = "ABORT"
  BY <1>2, <1>3, Arrival DEF Own
<1>7. (\E i \in DOMAIN rxq' : pc' = "recv" /\ rxq'[i].tag = calls')
        <=> \E i \in DOMAIN rxq : Own(rxq[i])
  BY <1>2, <1>3, Arrival DEF Own
<1>8. Effect' = Effect
  BY <1>6, <1>7 DEF Effect, Own
<1>9. \A i \in 1 .. Len(rxq') : rxq'[i].tag <= calls
  BY <1>2 DEF OwnInv, TagsPast
<1> QED BY <1>4, <1>5, <1>8, <1>9

LEMMA OtherRead ==
  ASSUME TypeOK, OwnInv, RecvOther
  PROVE  /\ OwnAnswersFit'
         /\ Answered' <=> Answered
         /\ Effect' = Effect
         /\ \A i \in 1 .. Len(rxq') : rxq'[i].tag <= calls
<1>1. pc' = pc /\ calls' = calls /\ call' = call /\ rxq # <<>> /\ rxq' = Tail(rxq)
  BY DEF RecvOther
<1>2. ~Own(rxq[1])
  BY <1>1, Reading DEF RecvOther, Accepts, OwnInv, OwnAnswersFit, FitsCall
<1>3. OwnAnswersFit'
  BY <1>1, Reading DEF OwnAnswersFit, OwnInv, Own
<1>5. Answered' <=> Answered
  BY <1>1, <1>2, Reading DEF Answered, Own
<1>6. ASSUME NEW i \in 1 .. Len(rxq), Own(rxq[i])
      PROVE  i - 1 \in 1 .. Len(rxq') /\ rxq'[i - 1] = rxq[i]
  BY <1>1, <1>2, <1>6, Reading
<1>7. \A i \in 1 .. Len(rxq') : i + 1 \in 1 .. Len(rxq) /\ rxq'[i] = rxq[i + 1]
  BY <1>1, Reading
<1>8. Effect' = Effect
  <2> DEFINE Refused == \E i \in 1 .. Len(rxq) : Own(rxq[i]) /\ rxq[i].scs = "ABORT"
  <2>1. Effect = IF Refused THEN "refused" ELSE IF Answered THEN "done" ELSE "none"
    BY <1>1, Reading DEF Effect, Answered
  <2>2. Effect' = IF Refused' THEN "refused" ELSE IF Answered' THEN "done" ELSE "none"
    BY <1>1, Reading DEF Effect, Answered
  <2>3. Refused => Refused'
    BY <1>1, <1>6 DEF Own
  <2>4. Refused' => Refused
    BY <1>1, <1>7 DEF Own
  <2> HIDE DEF Refused
  <2> QED BY <1>5, <2>1, <2>2, <2>3, <2>4
<1>9. \A i \in 1 .. Len(rxq') : rxq'[i].tag <= calls
  BY <1>1, Reading DEF OwnInv, TagsPast
<1> QED BY <1>3, <1>5, <1>8, <1>9

\* Without an open call no frame is one of it.
LEMMA NoOpenCall ==
  ASSUME pc # "recv"
  PROVE  /\ \A f : ~Own(f)
         /\ OwnRequestLast /\ OwnAnswersFit /\ RequestOrAnswer
         /\ Effect = "none"
         /\ \A n \in Node : ~RequestPending(n)
BY DEF Own, OwnRequestLast, OwnAnswersFit, RequestOrAnswer, Effect, RequestPending

(***************************************************************************)
(* Each step keeps the bookkeeping of the open call's request and answer.  *)
(***************************************************************************)
LEMMA SendKeepsOwn ==
  ASSUME TypeOK, OwnInv, NEW c \in Call, Send(c)
  PROVE  OwnInv' /\ RequestPending(c.node)'
<1>1. /\ c.node \in Node /\ calls \in Nat
      /\ pc' = "recv" /\ call' = c /\ calls' = calls + 1 /\ rxq' = rxq
      /\ net' = [net EXCEPT ![c.node] = Append(@, sdo2can(c, calls + 1))]
  BY CallFields, BoundsAssumption DEF Send, TypeOK
<1>2. /\ Len(net[c.node]) \in Nat
      /\ Len(net'[c.node]) = Len(net[c.node]) + 1
      /\ \A i \in 1 .. Len(net[c.node]) : net'[c.node][i] = net[c.node][i]
      /\ net'[c.node][Len(net[c.node]) + 1] = sdo2can(c, calls + 1)
      /\ \A m \in Node \ {c.node} : net'[m] = net[m]
  BY <1>1, Sending
<1>3. sdo2can(c, calls + 1).tag = calls + 1
  BY DEF sdo2can
<1>4. /\ \A n \in Node : \A i \in 1 .. Len(net[n]) : net[n][i].tag \in Nat /\ net[n][i].tag <= calls
      /\ \A i \in 1 .. Len(rxq) : rxq[i].tag \in Nat /\ rxq[i].tag <= calls
  <2>1. \A n \in Node : \A i \in 1 .. Len(net[n]) : net[n][i] \in Request
    BY DEF TypeOK
  <2>2. \A i \in 1 .. Len(rxq) : rxq[i] \in Frame
    BY DEF TypeOK
  <2>3. \A i \in 1 .. Len(rxq) : rxq[i].tag \in 0 .. MaxCalls
    BY <2>2 DEF Frame
  <2> QED BY <2>1, <2>3, RequestFields, BoundsAssumption DEF OwnInv, TagsPast
<1>5. ASSUME NEW n \in Node, NEW i \in 1 .. Len(net'[n])
      PROVE  \/ net'[n][i].tag \in Nat /\ net'[n][i].tag <= calls
             \/ n = c.node /\ i = Len(net'[n]) /\ net'[n][i] = sdo2can(c, calls + 1)
  <2>1. CASE n = c.node
    <3>1. i \in 1 .. Len(net[n]) \/ i = Len(net[n]) + 1
      BY <1>2, <2>1
    <3> QED BY <1>2, <1>4, <2>1, <3>1
  <2>2. CASE n # c.node
    BY <1>2, <1>4, <2>2
  <2> QED BY <2>1, <2>2
<1>6. TagsPast'
  <2>1. \A n \in Node : \A i \in 1 .. Len(net'[n]) : net'[n][i].tag <= calls'
    BY <1>1, <1>3, <1>5
  <2> QED BY <1>1, <1>4, <2>1 DEF TagsPast
<1>7. OwnRequestLast'
  BY <1>1, <1>5 DEF OwnRequestLast, Own
<1>8. ~Answered' /\ OwnAnswersFit'
  BY <1>1, <1>4 DEF Answered, OwnAnswersFit, Own
<1>9. RequestPending(c.node)'
  <2>1. net'[c.node] # <<>>
    BY <1>2
  <2> QED BY <1>1, <1>2, <1>3, <2>1 DEF RequestPending, Own
<1> QED BY <1>1, <1>6, <1>7, <1>8, <1>9 DEF OwnInv, RequestOrAnswer

LEMMA EndKeepsOwn ==
  ASSUME TypeOK, OwnInv, pc' # "recv", calls' \in {calls, calls + 1}, net' = net,
         rxq' = rxq \/ (rxq # <<>> /\ rxq' = Tail(rxq))
  PROVE  OwnInv'
<1>1. calls \in Nat
  BY BoundsAssumption DEF TypeOK
<1>2. \A i \in 1 .. Len(rxq') : \E j \in 1 .. Len(rxq) : rxq'[i] = rxq[j]
  BY Reading
<1>3. \A i \in 1 .. Len(rxq) : rxq[i].tag \in Nat
  <2>1. \A i \in 1 .. Len(rxq) : rxq[i] \in Frame
    BY DEF TypeOK
  <2> QED BY <2>1, BoundsAssumption DEF Frame
<1>4. \A n \in Node : \A i \in 1 .. Len(net[n]) : net[n][i].tag \in Nat
  <2>1. \A n \in Node : \A i \in 1 .. Len(net[n]) : net[n][i] \in Request
    BY DEF TypeOK
  <2> QED BY <2>1, RequestFields, BoundsAssumption
<1>5. TagsPast'
  BY <1>1, <1>2, <1>3, <1>4 DEF OwnInv, TagsPast
<1> QED BY <1>5 DEF OwnInv, Own, OwnRequestLast, OwnAnswersFit, RequestOrAnswer

LEMMA OtherKeepsOwn ==
  ASSUME TypeOK, OwnInv, UNCHANGED <<pc, call, calls, net>>,
         OwnAnswersFit', Answered' <=> Answered, \A i \in 1 .. Len(rxq') : rxq'[i].tag <= calls
  PROVE  OwnInv'
<1>1. TagsPast' /\ OwnRequestLast'
  BY DEF OwnInv, TagsPast, OwnRequestLast, Own
<1>2. \A n \in Node : RequestPending(n)' <=> RequestPending(n)
  BY DEF RequestPending, Own
<1>3. RequestOrAnswer'
  <2>1. CASE pc = "recv"
    <3>1. call.node \in Node
      BY <2>1, CallFields DEF TypeOK
    <3> QED BY <1>2, <3>1 DEF OwnInv, RequestOrAnswer
  <2>2. CASE pc # "recv"
    BY <2>2 DEF RequestOrAnswer
  <2> QED BY <2>1, <2>2
<1> QED BY <1>1, <1>3 DEF OwnInv

\* The answer of a node to request r: the frame, and what becomes of the objects
AnswersRequest(f, n, r) ==
  /\ f.id = n /\ f.tag = r.tag
  /\ \/ r.cs = "UL" /\ f.scs = "EX_UL" /\ f.len = Size[r.obj] /\ od' = od
     \/ r.cs = "DL" /\ f.scs = "EX_DL" /\ od' = [od EXCEPT ![n][r.obj] = r.val]
     \/ f.scs = "ABORT" /\ od' = od

LEMMA ServeFrame ==
  ASSUME NEW n \in Node, Serve(n)
  PROVE  \E f : rxq' = Append(rxq, f) /\ AnswersRequest(f, n, Head(net[n]))
<1> DEFINE r == Head(net[n])
<1>1. AnswersRequest(UploadResponse(n, r.obj, r.tag), n, r) <=> r.cs = "UL" /\ od' = od
  BY DEF AnswersRequest, UploadResponse
<1>2. AnswersRequest(DownloadResponse(n, r.obj, r.tag), n, r)
        <=> r.cs = "DL" /\ od' = [od EXCEPT ![n][r.obj] = r.val]
  BY DEF AnswersRequest, DownloadResponse
<1>3. AnswersRequest(AbortResponse(n, r.obj, r.tag), n, r) <=> od' = od
  BY DEF AnswersRequest, AbortResponse
<1> QED BY <1>1, <1>2, <1>3, Zenon DEF Serve

\* A node that serves the open call has nothing else to do.
LEMMA ServesOpenCall ==
  ASSUME TypeOK, OwnInv, NEW n \in Node, Serve(n), Own(Head(net[n]))
  PROVE  /\ pc = "recv" /\ n = call.node
         /\ Head(net[n]) = sdo2can(call, calls)
         /\ Len(net[n]) = 1 /\ Len(net'[n]) = 0
         /\ RequestPending(n) /\ ~RequestPending(n)' /\ ~Answered
<1>1. net[n] # <<>> /\ net' = [net EXCEPT ![n] = Tail(@)] /\ UNCHANGED <<pc, call, calls>>
  BY DEF Serve
<1>2. /\ Len(net[n]) \in Nat \ {0}
      /\ Head(net[n]) = net[n][1]
      /\ Len(net'[n]) = Len(net[n]) - 1
  BY <1>1, Serving
<1>3. n = call.node /\ 1 = Len(net[n]) /\ net[n][1] = sdo2can(call, calls)
  <2>1. 1 \in 1 .. Len(net[n])
    BY <1>2
  <2> QED BY <1>2, <2>1 DEF OwnInv, OwnRequestLast
<1>4. pc = "recv"
  BY DEF Own
<1>5. RequestPending(n)
  BY <1>1, <1>2, <1>3 DEF RequestPending
<1>6. ~RequestPending(n)'
  <2>1. net'[n] = <<>>
    <3>1. net'[n] \in Seq(Request)
      BY <1>1 DEF TypeOK
    <3>2. Len(net'[n]) = 0
      BY <1>2, <1>3
    <3> QED BY <3>1, <3>2, EmptySeq
  <2> QED BY <2>1 DEF RequestPending
<1> QED BY <1>2, <1>3, <1>4, <1>5, <1>6 DEF OwnInv, RequestOrAnswer

\* Serving an earlier request leaves the open call's where it is.
LEMMA ServesEarlier ==
  ASSUME TypeOK, OwnInv, NEW n \in Node, Serve(n), ~Own(Head(net[n]))
  PROVE  /\ \A m \in Node : RequestPending(m)' <=> RequestPending(m)
         /\ RequestPending(n) => Len(net[n]) > 1
<1>1. /\ net[n] # <<>> /\ net' = [net EXCEPT ![n] = Tail(@)]
      /\ pc' = pc /\ calls' = calls
  BY DEF Serve
<1>2. /\ Len(net[n]) \in Nat \ {0}
      /\ Head(net[n]) = net[n][1]
      /\ Len(net'[n]) = Len(net[n]) - 1
      /\ \A i \in 1 .. Len(net'[n]) : net'[n][i] = net[n][i + 1]
      /\ \A m \in Node \ {n} : net'[m] = net[m]
  BY <1>1, Serving
<1>3. \A m \in Node \ {n} : RequestPending(m)' <=> RequestPending(m)
  BY <1>1, <1>2 DEF RequestPending, Own
<1>4. net'[n] # <<>> <=> Len(net'[n]) > 0
  <2>1. net'[n] \in Seq(Request)
    BY <1>1 DEF TypeOK
  <2> QED BY <2>1, EmptySeq
<1>5. CASE Len(net[n]) = 1
  <2>1. ~RequestPending(n)'
    BY <1>2, <1>4, <1>5 DEF RequestPending
  <2>2. ~RequestPending(n)
    BY <1>2, <1>5 DEF RequestPending
  <2>3. RequestPending(n)' <=> RequestPending(n)
    BY <2>1, <2>2
  <2>4. \A m \in Node : RequestPending(m)' <=> RequestPending(m)
    BY <1>3, <2>3
  <2> QED BY <2>2, <2>4
<1>6. CASE Len(net[n]) > 1
  <2>1. net'[n][Len(net'[n])] = net[n][Len(net[n])] /\ Len(net'[n]) > 0
    BY <1>2, <1>6
  <2>2. RequestPending(n)' <=> RequestPending(n)
    BY <1>1, <1>4, <2>1 DEF RequestPending, Own
  <2> QED BY <1>3, <1>6, <2>2
<1>7. Len(net[n]) = 1 \/ Len(net[n]) > 1
  <2>1. Len(net[n]) \in Nat \ {0}
    BY <1>2
  <2>2. \A k \in Nat \ {0} : k = 1 \/ k > 1
    OBVIOUS
  <2> QED BY <2>1, <2>2
<1> QED BY <1>5, <1>6, <1>7

LEMMA ServeKeepsOwn ==
  ASSUME TypeOK, OwnInv, NEW n \in Node, Serve(n)
  PROVE  OwnInv'
<1> DEFINE r == Head(net[n])
<1>1. /\ net[n] # <<>> /\ net' = [net EXCEPT ![n] = Tail(@)]
      /\ pc' = pc /\ call' = call /\ calls' = calls
  BY DEF Serve
<1>2. PICK f : rxq' = Append(rxq, f) /\ AnswersRequest(f, n, r)
  BY ServeFrame
<1>3. /\ Len(net[n]) \in Nat \ {0}
      /\ r = net[n][1]
      /\ Len(net'[n]) = Len(net[n]) - 1
      /\ \A i \in 1 .. Len(net'[n]) : net'[n][i] = net[n][i + 1] /\ i + 1 \in 1 .. Len(net[n])
      /\ \A m \in Node \ {n} : net'[m] = net[m]
  BY <1>1, Serving
<1>4. f.id = n /\ f.tag = r.tag /\ r.tag <= calls
  <2>1. 1 \in 1 .. Len(net[n])
    BY <1>3
  <2> QED BY <1>2, <1>3, <2>1 DEF AnswersRequest, OwnInv, TagsPast
<1>5. TagsPast'
  <2>1. \A i \in 1 .. Len(rxq') : rxq'[i].tag <= calls
    <3>1. \A i \in 1 .. Len(rxq') : (i \in 1 .. Len(rxq) /\ rxq'[i] = rxq[i]) \/ rxq'[i] = f
      BY <1>2, Arrival
    <3> QED BY <1>4, <3>1 DEF OwnInv, TagsPast
  <2>2. ASSUME NEW m \in Node, NEW i \in 1 .. Len(net'[m]) PROVE net'[m][i].tag <= calls
    <3>1. CASE m = n
      BY <1>3, <3>1 DEF OwnInv, TagsPast
    <3>2. CASE m # n
      BY <1>3, <3>2 DEF OwnInv, TagsPast
    <3> QED BY <3>1, <3>2
  <2> QED BY <1>1, <2>1, <2>2 DEF OwnInv, TagsPast
<1>6. OwnRequestLast'
  <2> SUFFICES ASSUME NEW m \in Node, NEW i \in 1 .. Len(net'[m]), Own(net'[m][i])
               PROVE  m = call.node /\ i = Len(net'[m]) /\ net'[m][i] = sdo2can(call, calls)
    BY <1>1 DEF OwnRequestLast, Own
  <2>1. CASE m = n
    <3>1. Own(net[n][i + 1]) /\ i + 1 \in 1 .. Len(net[n]) /\ net'[n][i] = net[n][i + 1]
      BY <1>3, <2>1
    <3>2. n = call.node /\ i + 1 = Len(net[n]) /\ net[n][i + 1] = sdo2can(call, calls)
      BY <3>1 DEF OwnInv, OwnRequestLast
    <3> QED BY <1>3, <2>1, <3>1, <3>2
  <2>2. CASE m # n
    BY <1>3, <2>2 DEF OwnInv, OwnRequestLast
  <2> QED BY <2>1, <2>2
<1>7. CASE Own(r)
  <2>1. /\ pc = "recv" /\ n = call.node /\ r = sdo2can(call, calls)
        /\ ~RequestPending(n)' /\ ~Answered
    BY <1>7, ServesOpenCall
  <2>2. FitsCall(f, call)
    BY <1>2, <2>1 DEF AnswersRequest, FitsCall, sdo2can
  <2>3. \A i \in 1 .. Len(rxq') : (i \in 1 .. Len(rxq) /\ rxq'[i] = rxq[i]) \/ rxq'[i] = f
    BY <1>2, Arrival
  <2>4. OwnAnswersFit'
    BY <1>1, <2>1, <2>2, <2>3 DEF OwnAnswersFit, Answered, Own
  <2>5. Answered'
    <3>1. Len(rxq') \in 1 .. Len(rxq') /\ rxq'[Len(rxq')] = f
      BY <1>2, Arrival
    <3>2. pc' = "recv" /\ f.tag = calls'
      BY <1>1, <1>4, <1>7, <2>1 DEF Own
    <3> QED BY <3>1, <3>2 DEF Answered, Own
  <2> QED BY <1>1, <1>5, <1>6, <2>1, <2>4, <2>5 DEF OwnInv, RequestOrAnswer
<1>8. CASE ~Own(r)
  <2>1. ~Own(f) /\ f.tag <= calls
    BY <1>4, <1>8 DEF Own
  <2>2. OwnAnswersFit' /\ (Answered' <=> Answered)
    BY <1>1, <1>2, <2>1, OtherArrives
  <2>3. \A m \in Node : RequestPending(m)' <=> RequestPending(m)
    BY <1>8, ServesEarlier
  <2>4. RequestOrAnswer'
    <3>1. CASE pc = "recv"
      <4>1. call.node \in Node
        BY <3>1, CallFields DEF TypeOK
      <4> QED BY <1>1, <2>2, <2>3, <4>1 DEF OwnInv, RequestOrAnswer
    <3>2. CASE pc # "recv"
      BY <1>1, <3>2 DEF RequestOrAnswer
    <3> QED BY <3>1, <3>2
  <2> QED BY <1>5, <1>6, <2>2, <2>4 DEF OwnInv
<1> QED BY <1>7, <1>8

LEMMA OwnInvStep ==
  ASSUME TypeOK, OwnInv, [Next]_vars
  PROVE  OwnInv'
<1>0. calls \in Nat
  BY BoundsAssumption DEF TypeOK
<1>1. ASSUME NEW c \in Call, Send(c) PROVE OwnInv'
  BY <1>1, SendKeepsOwn
<1>2. ASSUME NEW c \in Call, SendFails(c) PROVE OwnInv'
  <2>1. pc' # "recv" /\ calls' \in {calls, calls + 1} /\ net' = net
    BY <1>2 DEF SendFails, ReturnOsError
  <2>2. rxq' = rxq \/ (rxq # <<>> /\ rxq' = Tail(rxq))
    BY <1>2 DEF SendFails
  <2> QED BY <2>1, <2>2, EndKeepsOwn
<1>3. CASE RecvOther
  <2>1. UNCHANGED <<pc, call, calls, net>>
    BY <1>3 DEF RecvOther
  <2> QED BY <1>3, <2>1, OtherRead, OtherKeepsOwn
<1>4. CASE RecvResponse
  <2>1. pc' # "recv" /\ calls' = calls /\ net' = net /\ rxq # <<>> /\ rxq' = Tail(rxq)
    BY <1>4 DEF RecvResponse
  <2> QED BY <2>1, EndKeepsOwn
<1>5. CASE RecvFails
  <2>1. pc' # "recv" /\ calls' \in {calls, calls + 1} /\ net' = net
    BY <1>5 DEF RecvFails, ReturnOsError
  <2>2. rxq' = rxq \/ (rxq # <<>> /\ rxq' = Tail(rxq))
    BY <1>5 DEF RecvFails
  <2> QED BY <2>1, <2>2, EndKeepsOwn
<1>6. ASSUME NEW n \in Node, Serve(n) PROVE OwnInv'
  BY <1>6, ServeKeepsOwn
<1>7. CASE Traffic
  <2>0. UNCHANGED <<pc, call, calls, net>>
    BY <1>7 DEF Traffic
  <2>1. rxq' = Append(rxq, OtherFrame)
    BY <1>7 DEF Traffic
  <2>2. OtherFrame.tag <= calls /\ ~Own(OtherFrame)
    BY <1>0 DEF OtherFrame, Own, OwnInv, TagsPast
  <2>3. OwnAnswersFit' /\ (Answered' <=> Answered) /\ \A i \in 1 .. Len(rxq') : rxq'[i].tag <= calls
    BY <2>0, <2>1, <2>2, OtherArrives
  <2> QED BY <2>0, <2>3, OtherKeepsOwn
<1>8. ASSUME NEW n \in Node, OtherMaster(n) PROVE OwnInv'
  <2>1. PICK f : rxq' = Append(rxq, f) /\ f.tag = 0
    BY <1>8 DEF OtherMaster, UploadResponse, DownloadResponse, AbortResponse
  <2>2. UNCHANGED <<pc, call, calls, net>>
    BY <1>8 DEF OtherMaster
  <2>3. f.tag <= calls /\ ~Own(f)
    BY <1>0, <2>1 DEF Own, OwnInv, TagsPast
  <2>4. OwnAnswersFit' /\ (Answered' <=> Answered) /\ \A i \in 1 .. Len(rxq') : rxq'[i].tag <= calls
    BY <2>1, <2>2, <2>3, OtherArrives
  <2> QED BY <2>2, <2>4, OtherKeepsOwn
<1>9. CASE UNCHANGED vars
  BY <1>9 DEF vars, OwnInv, TagsPast, OwnRequestLast, OwnAnswersFit, RequestOrAnswer,
              Answered, RequestPending, Own
<1> QED BY <1>1, <1>2, <1>3, <1>4, <1>5, <1>6, <1>7, <1>8, <1>9 DEF Next

LEMMA OwnInvAlways == Spec => []OwnInv
<1>1. Init => OwnInv
  BY DEF Init, OwnInv, TagsPast, OwnRequestLast, OwnAnswersFit, RequestOrAnswer, Own
<1>2. OwnInv /\ TypeOK /\ [Next]_vars => OwnInv'
  BY OwnInvStep
<1> QED BY <1>1, <1>2, TypeCorrect, PTL DEF Spec

-----------------------------------------------------------------------------
(***************************************************************************)
(* The accesses that were given up, as a sequence.                         *)
(***************************************************************************)
Given == [cs : {"UL", "DL"}, obj : Obj, val : Val \union {Garbage}]

LEMMA UntaggedType ==
  ASSUME NEW q \in Seq(Request), NEW k \in 0 .. Len(q)
  PROVE  /\ [i \in 1 .. k |-> Untagged(q[i])] \in Seq(Given)
         /\ Len([i \in 1 .. k |-> Untagged(q[i])]) = k
<1>1. \A i \in 1 .. k : q[i] \in Request
  OBVIOUS
<1>2. \A i \in 1 .. k : Untagged(q[i]) \in Given
  BY <1>1 DEF Untagged, Given, Request
<1>3. k \in Nat
  OBVIOUS
<1> QED BY <1>2, <1>3

LEMMA LateType ==
  ASSUME TypeOK, NEW n \in Node
  PROVE  /\ RequestPending(n) => Len(net[n]) > 0
         /\ Late(n) \in Seq(Given)
         /\ Len(Late(n)) = Len(net[n]) - (IF RequestPending(n) THEN 1 ELSE 0)
         /\ \A i \in 1 .. Len(Late(n)) : Late(n)[i] = Untagged(net[n][i])
<1> DEFINE k == Len(net[n]) - (IF RequestPending(n) THEN 1 ELSE 0)
<1>1. net[n] \in Seq(Request)
  BY DEF TypeOK
<1>2. RequestPending(n) => Len(net[n]) > 0
  BY PendingLast
<1>3. k \in 0 .. Len(net[n])
  <2>1. Len(net[n]) \in Nat
    BY <1>1
  <2>2. CASE RequestPending(n)
    BY <1>2, <2>1, <2>2
  <2>3. CASE ~RequestPending(n)
    BY <2>1, <2>3
  <2> QED BY <2>2, <2>3
<1>4. Late(n) = [i \in 1 .. k |-> Untagged(net[n][i])]
  BY DEF Late
<1> HIDE DEF k
<1>5. Late(n) \in Seq(Given) /\ Len(Late(n)) = k
  BY <1>1, <1>3, <1>4, UntaggedType
<1>6. \A i \in 1 .. k : Late(n)[i] = Untagged(net[n][i])
  BY <1>4
<1> QED BY <1>2, <1>5, <1>6 DEF k

LEMMA LateTypeNext ==
  ASSUME TypeOK', NEW n \in Node
  PROVE  /\ RequestPending(n)' => Len(net'[n]) > 0
         /\ Late(n)' \in Seq(Given)
         /\ Len(Late(n)') = Len(net'[n]) - (IF RequestPending(n)' THEN 1 ELSE 0)
         /\ \A i \in 1 .. Len(Late(n)') : Late(n)'[i] = Untagged(net'[n][i])
<1> DEFINE k == Len(net'[n]) - (IF RequestPending(n)' THEN 1 ELSE 0)
<1>1. net'[n] \in Seq(Request)
  BY DEF TypeOK
<1>2. RequestPending(n)' => Len(net'[n]) > 0
  BY <1>1, EmptySeq DEF RequestPending
<1>3. k \in 0 .. Len(net'[n])
  <2>1. Len(net'[n]) \in Nat
    BY <1>1
  <2>2. CASE RequestPending(n)'
    BY <1>2, <2>1, <2>2
  <2>3. CASE ~RequestPending(n)'
    BY <2>1, <2>3
  <2> QED BY <2>2, <2>3
<1>4. Late(n)' = [i \in 1 .. k |-> Untagged(net'[n][i])]
  BY DEF Late, Untagged
<1> HIDE DEF k
<1>5. Late(n)' \in Seq(Given) /\ Len(Late(n)') = k
  BY <1>1, <1>3, <1>4, UntaggedType
<1>6. \A i \in 1 .. k : Late(n)'[i] = Untagged(net'[n][i])
  BY <1>4
<1> QED BY <1>2, <1>5, <1>6 DEF k

\* Whether the node has done the open call can be told from the frames.
LEMMA EffectPending ==
  ASSUME TypeOK, OwnInv
  PROVE  /\ Effect = "none" <=> ~Answered
         /\ pc = "recv" => (Effect = "none" <=> RequestPending(call.node))
<1>1. DOMAIN rxq = 1 .. Len(rxq)
  BY DEF TypeOK
<1>2. Effect = "none" <=> ~Answered
  BY <1>1 DEF Effect, Answered
<1> QED BY <1>2 DEF OwnInv, RequestOrAnswer

\* What is left of the call that ends: its request, if the node has not done it
LEMMA EndLeavesOver ==
  ASSUME TypeOK, TypeOK', OwnInv, pc = "recv", pc' # "recv", net' = net, UNCHANGED call
  PROVE  Access!LeftOver
<1> DEFINE a == Untagged(call)
<1>0. call \in Call /\ call.node \in Node
  BY CallFields DEF TypeOK
<1>1. Effect = "none" <=> RequestPending(call.node)
  BY EffectPending
<1>2. \A n \in Node : ~RequestPending(n)'
  BY DEF RequestPending, Own
<1>3. \A n \in Node \ {call.node} : ~RequestPending(n)
  <2> SUFFICES ASSUME NEW n \in Node, RequestPending(n) PROVE n = call.node
    OBVIOUS
  <2>1. Len(net[n]) \in Nat \ {0} /\ Own(net[n][Len(net[n])])
    BY PendingLast
  <2>2. Len(net[n]) \in 1 .. Len(net[n])
    BY <2>1
  <2> QED BY <2>1, <2>2 DEF OwnInv, OwnRequestLast
<1>4. ASSUME NEW n \in Node, ~RequestPending(n) PROVE Late(n)' = Late(n)
  BY <1>2, <1>4 DEF Late
<1>5. ASSUME RequestPending(call.node)
      PROVE  Late(call.node)' = Append(Late(call.node), a)
  <2> DEFINE n == call.node
  <2>1. /\ Late(n) \in Seq(Given) /\ Late(n)' \in Seq(Given)
        /\ Len(net[n]) > 0
        /\ Len(Late(n)) = Len(net[n]) - 1 /\ Len(Late(n)') = Len(net[n])
        /\ \A i \in 1 .. Len(Late(n)) : Late(n)[i] = Untagged(net[n][i])
        /\ \A i \in 1 .. Len(Late(n)') : Late(n)'[i] = Untagged(net[n][i])
    BY <1>0, <1>2, <1>5, LateType, LateTypeNext
  <2>2. Len(net[n]) \in Nat
    BY <1>0, PendingLast
  <2>3. net[n][Len(net[n])] = sdo2can(call, calls)
    <3>1. Len(net[n]) \in 1 .. Len(net[n])
      BY <2>1, <2>2
    <3> QED BY <1>0, <1>5, <3>1 DEF RequestPending, OwnInv, OwnRequestLast
  <2>4. Untagged(net[n][Len(net[n])]) = a
    BY <2>3 DEF Untagged, sdo2can
  <2>5. a \in Given
    BY <1>0, CallFields DEF Untagged, Given, Call, Upload, Download
  <2> DEFINE s == Late(n)'  t == Append(Late(n), a)
  <2>6. t \in Seq(Given) /\ Len(t) = Len(net[n])
    BY <2>1, <2>2, <2>5
  <2>7. ASSUME NEW i \in 1 .. Len(net[n]) PROVE s[i] = t[i]
    <3>1. CASE i = Len(net[n])
      <4>1. t[i] = a
        BY <2>1, <2>2, <3>1
      <4> QED BY <2>1, <2>4, <3>1, <4>1
    <3>2. CASE i # Len(net[n])
      <4>1. i \in 1 .. Len(Late(n))
        BY <2>1, <2>2, <3>2
      <4>2. t[i] = Late(n)[i]
        BY <2>1, <4>1
      <4> QED BY <2>1, <4>1, <4>2
    <3> QED BY <3>1, <3>2
  <2> HIDE DEF s, t
  <2>8. s = t
    <3>1. s \in Seq(Given) /\ Len(s) = Len(t)
      BY <2>1, <2>6 DEF s
    <3>2. \A i \in 1 .. Len(s) : s[i] = t[i]
      BY <2>6, <2>7, <3>1
    <3> QED BY <2>6, <3>1, <3>2, SeqEqual
  <2> QED BY <2>8 DEF s, t
<1>6. a = [cs |-> call.cs, obj |-> call.obj, val |-> call.val]
  BY DEF Untagged
<1> HIDE DEF a
<1>7. CASE RequestPending(call.node)
  <2>1. [n \in Node |-> Late(n)']
          = [[n \in Node |-> Late(n)] EXCEPT ![call.node] = Append(@, a)]
    BY <1>0, <1>3, <1>4, <1>5, <1>7
  <2> QED BY <1>1, <1>6, <1>7, <2>1 DEF Access!LeftOver
<1>8. CASE ~RequestPending(call.node)
  <2>1. [n \in Node |-> Late(n)'] = [n \in Node |-> Late(n)]
    BY <1>3, <1>4, <1>8
  <2> QED BY <1>1, <1>8, <2>1 DEF Access!LeftOver
<1> QED BY <1>7, <1>8
-----------------------------------------------------------------------------

(***************************************************************************)
(* Each step of the client is one of SdoAccess, or leaves it as it is.     *)
(***************************************************************************)
LEMMA SameLate ==
  ASSUME UNCHANGED <<pc, calls, net>>
  PROVE  \A n \in Node : Late(n)' = Late(n)
BY DEF Late, RequestPending, Own, Untagged

LEMMA SendOpens ==
  ASSUME TypeOK, TypeOK', OwnInv, NEW c \in Call, Send(c)
  PROVE  Access!Open(c)
<1>1. /\ pc = "idle" /\ pc' = "recv" /\ call' = c /\ c.node \in Node
      /\ UNCHANGED <<out, rxq, od, tainted>>
  BY CallFields DEF Send
<1>2. OwnInv' /\ RequestPending(c.node)'
  BY SendKeepsOwn
<1>3. Phase \in {"none", "ended"} /\ Phase' = "open"
  BY <1>1 DEF Phase
<1>4. Effect = "none" /\ \A n \in Node : ~RequestPending(n)
  BY <1>1, NoOpenCall
<1>5. Effect' = "none"
  <2>1. ~Answered'
    BY <1>1, <1>2 DEF OwnInv, RequestOrAnswer
  <2>2. DOMAIN rxq' = 1 .. Len(rxq')
    BY DEF TypeOK
  <2> QED BY <2>1, <2>2 DEF Effect, Answered
<1>6. ASSUME NEW n \in Node PROVE Late(n)' = Late(n)
  <2>0. net' = [net EXCEPT ![c.node] = Append(@, sdo2can(c, calls + 1))]
    BY DEF Send
  <2>1. CASE n = c.node
    <3>1. /\ Len(net[n]) \in Nat /\ Len(net'[n]) = Len(net[n]) + 1
          /\ \A i \in 1 .. Len(net[n]) : net'[n][i] = net[n][i]
      BY <1>1, <2>0, <2>1, Sending
    <3>2. Len(net'[n]) - 1 = Len(net[n])
      BY <3>1
    <3>3. Late(n) = [i \in 1 .. Len(net[n]) |-> Untagged(net[n][i])]
      <4>1. Len(net[n]) - 0 = Len(net[n])
        BY <3>1
      <4> QED BY <1>4, <4>1 DEF Late
    <3>4. Late(n)' = [i \in 1 .. Len(net[n]) |-> Untagged(net'[n][i])]
      BY <1>2, <2>1, <3>2 DEF Late, Untagged
    <3> QED BY <3>1, <3>3, <3>4
  <2>2. CASE n # c.node
    <3>1. net'[n] = net[n]
      BY <1>1, <2>0, <2>2, Sending
    <3>2. ~RequestPending(n)'
      <4> SUFFICES ASSUME RequestPending(n)' PROVE FALSE
        OBVIOUS
      <4>1. Len(net'[n]) > 0
        BY LateTypeNext
      <4>2. Len(net'[n]) \in Nat
        BY DEF TypeOK
      <4>3. Len(net'[n]) \in 1 .. Len(net'[n])
        BY <4>1, <4>2
      <4>4. Own(net[n][Len(net[n])])'
        BY DEF RequestPending
      <4>5. \A i \in 1 .. Len(net'[n]) : Own(net[n][i])' => n = call'.node
        BY <1>2 DEF OwnInv, OwnRequestLast
      <4> QED BY <1>1, <2>2, <4>3, <4>4, <4>5 DEF Own
    <3> QED BY <1>4, <3>1, <3>2 DEF Late, Untagged
  <2> QED BY <2>1, <2>2
<1>7. [n \in Node |-> Late(n)'] = [n \in Node |-> Late(n)]
  BY <1>6
<1> QED BY <1>1, <1>3, <1>4, <1>5, <1>7 DEF Access!Open

LEMMA SendFailsOpens ==
  ASSUME TypeOK, OwnInv, NEW c \in Call, SendFails(c)
  PROVE  Access!OpenFails(c)
<1>1. /\ pc = "idle" /\ pc' \in {"idle", "aborted"} /\ call' = c
      /\ out' = [status |-> "ERR_OS", val |-> Garbage, tag |-> 0]
      /\ UNCHANGED <<net, rxq, od, tainted>>
      /\ calls \in Nat /\ calls' = calls + 1
  BY BoundsAssumption DEF SendFails, ReturnOsError, TypeOK
<1>2. Phase \in {"none", "ended"} /\ Phase' \in {"ended", "crashed"}
  BY <1>1 DEF Phase
<1>3. Effect = "none" /\ Effect' = "none"
  BY <1>1 DEF Effect, Own
<1>4. \A n \in Node : Late(n)' = Late(n)
  BY <1>1 DEF Late, RequestPending, Own, Untagged
<1>5. [n \in Node |-> Late(n)'] = [n \in Node |-> Late(n)]
  BY <1>4
<1> QED BY <1>1, <1>2, <1>3, <1>5 DEF Access!OpenFails, Access!Failed

LEMMA FailureGivesUp ==
  ASSUME TypeOK, TypeOK', OwnInv, RecvFails
  PROVE  Access!GiveUp
<1>1. /\ pc = "recv" /\ pc' \in {"idle", "aborted"} /\ call' = call /\ calls' = calls
      /\ out' = [status |-> "ERR_OS", val |-> Garbage, tag |-> 0]
      /\ UNCHANGED <<net, rxq, od>> /\ tainted' = tainted \union {call.node}
      /\ calls > 0
  BY DEF RecvFails, ReturnOsError, OwnInv, TagsPast
<1>2. Phase = "open" /\ Phase' \in {"ended", "crashed"}
  BY <1>1 DEF Phase
<1>3. Effect' = "none"
  BY <1>1 DEF Effect, Own
<1>4. Access!LeftOver
  BY <1>1, EndLeavesOver
<1>5. Node \ tainted' = (Node \ tainted) \ {call.node}
  BY <1>1
<1> QED BY <1>1, <1>2, <1>3, <1>4, <1>5 DEF Access!GiveUp, Access!Failed

LEMMA OtherReadStutters ==
  ASSUME TypeOK, OwnInv, RecvOther
  PROVE  UNCHANGED Access!vars
<1>1. UNCHANGED <<pc, call, calls, net, out, od, tainted>>
  BY DEF RecvOther
<1>2. Effect' = Effect
  BY OtherRead
<1>3. Phase' = Phase
  BY <1>1 DEF Phase
<1>4. [n \in Node |-> Late(n)'] = [n \in Node |-> Late(n)]
  BY <1>1, SameLate
<1> QED BY <1>1, <1>2, <1>3, <1>4 DEF Access!vars

LEMMA TrafficStutters ==
  ASSUME TypeOK, OwnInv, Traffic
  PROVE  UNCHANGED Access!vars
<1>1. UNCHANGED <<pc, call, calls, net, out, od, tainted>>
  BY DEF Traffic
<1>2. Effect' = Effect
  <2>1. rxq' = Append(rxq, OtherFrame)
    BY DEF Traffic
  <2>2. OtherFrame.tag <= calls /\ ~Own(OtherFrame)
    BY BoundsAssumption DEF OtherFrame, Own, OwnInv, TagsPast, TypeOK
  <2> QED BY <1>1, <2>1, <2>2, OtherArrives
<1>3. Phase' = Phase
  BY <1>1 DEF Phase
<1>4. [n \in Node |-> Late(n)'] = [n \in Node |-> Late(n)]
  BY <1>1, SameLate
<1> QED BY <1>1, <1>2, <1>3, <1>4 DEF Access!vars

LEMMA OtherMasterInterferes ==
  ASSUME TypeOK, OwnInv, NEW n \in Node, OtherMaster(n)
  PROVE  Access!Interfere(n)
<1>1. /\ UNCHANGED <<pc, call, calls, net, out>>
      /\ tainted' = tainted \union {n}
      /\ (\E o \in Obj, v \in Val : od' = [od EXCEPT ![n][o] = v]) \/ od' = od
  BY DEF OtherMaster
<1>2. Effect' = Effect
  <2>1. PICK f : rxq' = Append(rxq, f) /\ f.tag = 0
    BY DEF OtherMaster, UploadResponse, DownloadResponse, AbortResponse
  <2>2. f.tag <= calls /\ ~Own(f)
    BY <2>1, BoundsAssumption DEF Own, OwnInv, TagsPast, TypeOK
  <2> QED BY <1>1, <2>1, <2>2, OtherArrives
<1>3. Phase' = Phase
  BY <1>1 DEF Phase
<1>4. [m \in Node |-> Late(m)'] = [m \in Node |-> Late(m)]
  BY <1>1, SameLate
<1>5. Node \ tainted' = (Node \ tainted) \ {n}
  BY <1>1
<1> QED BY <1>1, <1>2, <1>3, <1>4, <1>5 DEF Access!Interfere

\* The response that ends a call to a clean node is the answer to its request.
LEMMA ResponseOwn ==
  ASSUME TypeOK, OwnInv, RecvResponse, CleanNode(call.node)
  PROVE  /\ Answered /\ FitsCall(Head(rxq), call)
         /\ Effect = IF Head(rxq).scs = "ABORT" THEN "refused" ELSE "done"
<1> DEFINE n == call.node  f == rxq[1]
<1>1. /\ pc = "recv" /\ rxq # <<>> /\ rxq' = Tail(rxq) /\ Accepts(Head(rxq))
  BY DEF RecvResponse
<1>2. Head(rxq) = f /\ 1 \in 1 .. Len(rxq) /\ f.id = n /\ DOMAIN rxq = 1 .. Len(rxq)
  BY <1>1, Reading DEF Accepts
<1>3. Waiting(n) /\ ~NoFrameFrom(n)
  BY <1>1, <1>2 DEF Waiting, NoFrameFrom
<1>4. AnswerInQueue(n)
  BY <1>3 DEF CleanNode, RequestOnItsWay
<1>5. Answered
  BY <1>1, <1>4 DEF AnswerInQueue, OwnInv, RequestOrAnswer, RequestPending
<1>6. \A i \in 1 .. Len(rxq) : Own(rxq[i]) <=> i = 1
  <2>1. ASSUME NEW i \in 1 .. Len(rxq), Own(rxq[i]) PROVE i = 1
    <3>1. rxq[i].id = n
      BY <2>1 DEF OwnInv, OwnAnswersFit, FitsCall
    <3> QED BY <1>2, <1>4, <3>1 DEF AnswerInQueue
  <2> QED BY <1>5, <2>1 DEF Answered
<1>7. FitsCall(f, call)
  BY <1>2, <1>6 DEF OwnInv, OwnAnswersFit
<1>8. Effect = IF f.scs = "ABORT" THEN "refused" ELSE "done"
  BY <1>2, <1>6 DEF Effect
<1> QED BY <1>2, <1>5, <1>7, <1>8

LEMMA ResponseCloses ==
  ASSUME TypeOK, TypeOK', OwnInv, CleanNodes, RecvResponse
  PROVE  Access!Close \/ Access!CloseUntrusted
<1> DEFINE f == Head(rxq)
<1>1. /\ pc = "recv" /\ pc' = "idle" /\ call' = call /\ calls' = calls
      /\ out' = [status |-> can2sdo(f, Size[call.obj]), val |-> ReturnedVal(call, f), tag |-> f.tag]
      /\ UNCHANGED <<net, od, tainted>>
      /\ calls > 0
      /\ rxq # <<>>
  BY DEF RecvResponse, OwnInv, TagsPast
<1>2. call \in Call /\ call.node \in Node /\ call.cs \in {"UL", "DL"} /\ f \in Frame
  BY <1>1, CallFields DEF TypeOK
<1>3. Phase = "open" /\ Phase' = "ended"
  BY <1>1 DEF Phase
<1>4. Effect' = "none"
  BY <1>1 DEF Effect, Own
<1>5. Access!LeftOver
  BY <1>1, EndLeavesOver
<1>6. CASE call.node \notin tainted
  <2>1. CleanNode(call.node)
    BY <1>2, <1>6 DEF CleanNodes
  <2>2. /\ Answered /\ FitsCall(f, call)
        /\ Effect = IF f.scs = "ABORT" THEN "refused" ELSE "done"
    BY <2>1, ResponseOwn
  <2>3. Answers(f, call, od[call.node])
    BY <2>1, AcceptedAnswers
  <2>4. [n \in Node |-> Late(n)'] = [n \in Node |-> Late(n)]
    BY <1>5, <2>2 DEF Access!LeftOver
  <2>5. CASE f.scs = "ABORT"
    <3>1. can2sdo(f, Size[call.obj]) = "ERR_ABORT" /\ ReturnedVal(call, f) = Garbage
      BY <2>5 DEF can2sdo, ReturnedVal
    <3>2. Effect = "refused"
      BY <2>2, <2>5
    <3> QED BY <1>1, <1>2, <1>3, <1>4, <1>6, <2>4, <3>1, <3>2 DEF Access!Close
  <2>6. CASE f.scs # "ABORT"
    <3>1. Effect = "done"
      BY <2>2, <2>6
    <3>2. can2sdo(f, Size[call.obj]) = "OK"
      BY <2>2, <2>6 DEF FitsCall, can2sdo
    <3>3. ReturnedVal(call, f) = IF call.cs = "UL" THEN od[call.node][call.obj] ELSE Garbage
      BY <1>2, <2>3, <2>6, <3>2 DEF Answers, ReturnedVal
    <3> QED BY <1>1, <1>2, <1>3, <1>4, <1>6, <2>4, <3>1, <3>2, <3>3 DEF Access!Close
  <2> QED BY <2>5, <2>6
<1>7. CASE call.node \in tainted
  <2>1. can2sdo(f, Size[call.obj]) \in {"OK", "ERR_PROTO", "ERR_ABORT"}
    BY DEF can2sdo
  <2>2. ReturnedVal(call, f) \in Val \union {Garbage}
    BY <1>2 DEF ReturnedVal, Frame
  <2>3. call.node \notin Node \ tainted
    BY <1>7
  <2> QED BY <1>1, <1>3, <1>4, <1>5, <2>1, <2>2, <2>3 DEF Access!CloseUntrusted
<1> QED BY <1>6, <1>7

LEMMA ServeActs ==
  ASSUME TypeOK, TypeOK', OwnInv, NEW n \in Node, Serve(n), Own(Head(net[n]))
  PROVE  Access!Act
<1> DEFINE r == Head(net[n])
<1>1. UNCHANGED <<pc, call, calls, out, tainted>> /\ net[n] # <<>> /\ net' = [net EXCEPT ![n] = Tail(@)]
  BY DEF Serve
<1>2. /\ pc = "recv" /\ n = call.node /\ r = sdo2can(call, calls)
      /\ Len(net[n]) = 1 /\ Len(net'[n]) = 0
      /\ RequestPending(n) /\ ~RequestPending(n)' /\ ~Answered
  BY ServesOpenCall
<1>3. PICK f : rxq' = Append(rxq, f) /\ AnswersRequest(f, n, r)
  BY ServeFrame
<1>4. Phase = "open" /\ Phase' = "open"
  BY <1>1, <1>2 DEF Phase
<1>5. Effect = "none"
  BY <1>2, EffectPending
<1>6. Effect' = IF f.scs = "ABORT" THEN "refused" ELSE "done"
  <2>1. /\ DOMAIN rxq' = 1 .. Len(rxq') /\ Len(rxq') \in 1 .. Len(rxq')
        /\ rxq'[Len(rxq')] = f
        /\ \A i \in 1 .. Len(rxq') : (i \in 1 .. Len(rxq) /\ rxq'[i] = rxq[i]) \/ i = Len(rxq')
    BY <1>3, Arrival
  <2>2. \A i \in 1 .. Len(rxq') : Own(rxq'[i]) => i = Len(rxq')
    BY <1>2, <2>1 DEF Answered
  <2>3. Own(f)
    BY <1>3 DEF AnswersRequest, Own
  <2>4. \A i \in 1 .. Len(rxq') : (pc' = "recv" /\ rxq'[i].tag = calls') <=> i = Len(rxq')
    BY <1>1, <2>1, <2>2, <2>3 DEF Own
  <2> QED BY <2>1, <2>4 DEF Effect, Own
<1>7. Late(n) = <<>> /\ Late(n)' = <<>>
  <2>1. Late(n) \in Seq(Given) /\ Len(Late(n)) = 0
    <3>1. Late(n) \in Seq(Given) /\ Len(Late(n)) = Len(net[n]) - (IF RequestPending(n) THEN 1 ELSE 0)
      BY LateType
    <3> QED BY <1>2, <3>1
  <2>2. Late(n)' \in Seq(Given) /\ Len(Late(n)') = 0
    BY <1>2, LateTypeNext
  <2> QED BY <2>1, <2>2, EmptySeq
<1>8. ASSUME NEW m \in Node, m # n PROVE Late(m)' = Late(m)
  <2>1. net'[m] = net[m]
    BY <1>1, <1>8, Serving
  <2> QED BY <1>1, <2>1 DEF Late, RequestPending, Own, Untagged
<1>9. [m \in Node |-> Late(m)'] = [m \in Node |-> Late(m)]
  BY <1>7, <1>8
<1>10. r.cs = call.cs /\ r.obj = call.obj /\ r.val = call.val /\ call.cs \in {"UL", "DL"}
  BY <1>2, CallFields DEF sdo2can, TypeOK
<1>11. CASE f.scs = "ABORT"
  <2>1. od' = od
    BY <1>3, <1>11 DEF AnswersRequest
  <2> QED BY <1>1, <1>2, <1>4, <1>5, <1>6, <1>7, <1>9, <1>11, <2>1 DEF Access!Act
<1>12. CASE f.scs # "ABORT"
  <2>1. od' = IF call.cs = "DL" THEN [od EXCEPT ![n][call.obj] = call.val] ELSE od
    BY <1>3, <1>10, <1>12 DEF AnswersRequest
  <2> QED BY <1>1, <1>2, <1>4, <1>5, <1>6, <1>7, <1>9, <1>12, <2>1 DEF Access!Act, Access!Done
<1> QED BY <1>11, <1>12

LEMMA ServeActsLate ==
  ASSUME TypeOK, TypeOK', OwnInv, NEW n \in Node, Serve(n), ~Own(Head(net[n]))
  PROVE  Access!ActLate(n)
<1> DEFINE r == Head(net[n])
<1>1. UNCHANGED <<pc, call, calls, out, tainted>> /\ net[n] # <<>> /\ net' = [net EXCEPT ![n] = Tail(@)]
  BY DEF Serve
<1>2. /\ Len(net[n]) \in Nat \ {0} /\ r = net[n][1] /\ r \in Request
      /\ Len(net'[n]) = Len(net[n]) - 1
      /\ \A i \in 1 .. Len(net'[n]) : net'[n][i] = net[n][i + 1]
      /\ \A m \in Node \ {n} : net'[m] = net[m]
  BY <1>1, Serving
<1>3. (RequestPending(n)' <=> RequestPending(n)) /\ (RequestPending(n) => Len(net[n]) > 1)
  BY ServesEarlier
<1>4. PICK f : rxq' = Append(rxq, f) /\ AnswersRequest(f, n, r)
  BY ServeFrame
<1>5. Effect' = Effect
  <2>1. r.tag <= calls
    <3>1. 1 \in 1 .. Len(net[n])
      BY <1>2
    <3> QED BY <1>2, <3>1 DEF OwnInv, TagsPast
  <2>2. ~Own(f) /\ f.tag <= calls
    BY <1>4, <2>1 DEF AnswersRequest, Own
  <2> QED BY <1>1, <1>4, <2>2, OtherArrives
<1>6. Phase' = Phase
  BY <1>1 DEF Phase
<1> DEFINE s == Late(n)  t == Late(n)'
<1>7. /\ s \in Seq(Given) /\ t \in Seq(Given)
      /\ Len(s) > 0 /\ Len(t) = Len(s) - 1
      /\ \A i \in 1 .. Len(s) : s[i] = Untagged(net[n][i])
      /\ \A i \in 1 .. Len(t) : t[i] = Untagged(net'[n][i]) /\ i \in 1 .. Len(net'[n])
  <2>1. /\ s \in Seq(Given) /\ Len(s) = Len(net[n]) - (IF RequestPending(n) THEN 1 ELSE 0)
        /\ \A i \in 1 .. Len(s) : s[i] = Untagged(net[n][i])
    BY LateType
  <2>2. /\ t \in Seq(Given) /\ Len(t) = Len(net'[n]) - (IF RequestPending(n)' THEN 1 ELSE 0)
        /\ \A i \in 1 .. Len(t) : t[i] = Untagged(net'[n][i])
    BY LateTypeNext
  <2> DEFINE k == IF RequestPending(n) THEN 1 ELSE 0
  <2>3. k \in {0, 1} /\ k < Len(net[n]) /\ (IF RequestPending(n)' THEN 1 ELSE 0) = k
    BY <1>2, <1>3
  <2> HIDE DEF s, t, k
  <2>4. Len(s) = Len(net[n]) - k /\ Len(t) = Len(net'[n]) - k
    BY <2>1, <2>2, <2>3 DEF k
  <2>5. Len(s) > 0 /\ Len(t) = Len(s) - 1 /\ Len(t) \in Nat /\ Len(net'[n]) \in Nat /\ Len(t) <= Len(net'[n])
    BY <1>2, <2>3, <2>4
  <2>6. \A i \in 1 .. Len(t) : i \in 1 .. Len(net'[n])
    BY <2>5
  <2> QED BY <2>1, <2>2, <2>5, <2>6
<1>8. s # <<>> /\ Head(s) = Untagged(r) /\ t = Tail(s)
  <2>1. Len(s) \in Nat /\ 1 \in 1 .. Len(s)
    BY <1>7
  <2>2. s # <<>>
    BY <2>1
  <2>3. Head(s) = s[1] /\ s[1] = Untagged(r)
    BY <1>2, <1>7, <2>1, <2>2
  <2>4. Tail(s) \in Seq(Given) /\ Len(Tail(s)) = Len(s) - 1
    BY <1>7, <2>2, HeadTailProperties
  <2>5. ASSUME NEW i \in 1 .. Len(t) PROVE t[i] = Tail(s)[i]
    <3>1. t[i] = Untagged(net[n][i + 1])
      BY <1>2, <1>7
    <3>2. i + 1 \in 1 .. Len(s)
      BY <1>7, <2>1
    <3>3. Tail(s)[i] = s[i + 1]
      BY <1>7, <2>2, <2>4, HeadTailProperties
    <3> QED BY <1>7, <3>1, <3>2, <3>3
  <2> HIDE DEF s, t
  <2>6. t = Tail(s)
    BY <1>7, <2>4, <2>5, SeqEqual
  <2> QED BY <2>2, <2>3, <2>6
<1>9. ASSUME NEW m \in Node, m # n PROVE Late(m)' = Late(m)
  <2>1. net'[m] = net[m]
    BY <1>2, <1>9
  <2> QED BY <1>1, <2>1 DEF Late, RequestPending, Own, Untagged
<1>10. [m \in Node |-> Late(m)'] = [[m \in Node |-> Late(m)] EXCEPT ![n] = Tail(@)]
  BY <1>8, <1>9
<1>11. \/ od' = IF r.cs = "DL" THEN [od EXCEPT ![n][r.obj] = r.val] ELSE od
       \/ od' = od
  BY <1>4 DEF AnswersRequest
<1>12. Access!Done(n, Untagged(r)) \/ od' = od
  BY <1>11 DEF Access!Done, Untagged
<1> QED BY <1>1, <1>5, <1>6, <1>8, <1>10, <1>12 DEF Access!ActLate
-----------------------------------------------------------------------------

LEMMA StepCorrect ==
  ASSUME TypeOK, TypeOK', OwnInv, CleanNodes, [Next]_vars
  PROVE  [Access!Next]_(Access!vars)
<1>1. ASSUME NEW c \in Call, Send(c) PROVE Access!Next
  BY <1>1, SendOpens DEF Access!Next
<1>2. ASSUME NEW c \in Call, SendFails(c) PROVE Access!Next
  BY <1>2, SendFailsOpens DEF Access!Next
<1>3. CASE RecvOther
  BY <1>3, OtherReadStutters
<1>4. CASE RecvResponse
  BY <1>4, ResponseCloses DEF Access!Next
<1>5. CASE RecvFails
  BY <1>5, FailureGivesUp DEF Access!Next
<1>6. ASSUME NEW n \in Node, Serve(n) PROVE Access!Next
  BY <1>6, ServeActs, ServeActsLate DEF Access!Next
<1>7. CASE Traffic
  BY <1>7, TrafficStutters
<1>8. ASSUME NEW n \in Node, OtherMaster(n) PROVE Access!Next
  BY <1>8, OtherMasterInterferes DEF Access!Next
<1>9. CASE UNCHANGED vars
  <2>1. UNCHANGED <<pc, call, calls, net, rxq, out, od, tainted>>
    BY <1>9 DEF vars
  <2>2. Phase' = Phase /\ Effect' = Effect
    BY <2>1 DEF Phase, Effect, Own
  <2>3. [n \in Node |-> Late(n)'] = [n \in Node |-> Late(n)]
    BY <2>1, SameLate
  <2> QED BY <2>1, <2>2, <2>3 DEF Access!vars
<1> QED BY <1>1, <1>2, <1>3, <1>4, <1>5, <1>6, <1>7, <1>8, <1>9 DEF Next

(***************************************************************************)
(* The client implements SdoAccess: an accessor of sdo.h ends with OK only *)
(* after the node has done this access and with an abort only if it has    *)
(* not, a failed one is done at most once, and nothing else the client     *)
(* does touches an object (sdo.c:210-239).                                 *)
(***************************************************************************)
THEOREM RefinementCorrect == Spec => ImplementsAccess
<1>1. Init => Access!Init
  <2> SUFFICES ASSUME Init PROVE Access!Init
    OBVIOUS
  <2>1. Phase = "none" /\ Effect = "none"
    BY DEF Init, Phase, Effect, Own
  <2>2. ASSUME NEW n \in Node PROVE Late(n) = <<>>
    <3>1. net[n] = <<>>
      BY DEF Init
    <3>2. Late(n) = [i \in 1 .. 0 |-> Untagged(net[n][i])]
      BY <3>1 DEF Late, RequestPending
    <3>3. Late(n) \in Seq(Given) /\ Len(Late(n)) = 0
      BY <3>1, <3>2, UntaggedType
    <3> QED BY <3>3, EmptySeq
  <2>3. [n \in Node |-> Late(n)] = [n \in Node |-> <<>>]
    BY <2>2
  <2> QED BY <2>1, <2>3 DEF Init, Access!Init
<1>2. TypeOK /\ TypeOK' /\ OwnInv /\ CleanNodes /\ [Next]_vars => [Access!Next]_(Access!vars)
  BY StepCorrect
<1>3. IInv => CleanNodes
  BY DEF IInv
<1>4. Spec => Access!Spec
  BY <1>1, <1>2, <1>3, TypeCorrect, OwnInvAlways, InvariantCorrect, PTL DEF Spec, Access!Spec
<1> QED BY <1>4 DEF ImplementsAccess
=============================================================================
