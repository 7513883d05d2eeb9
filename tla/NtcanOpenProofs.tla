--------------------------- MODULE NtcanOpenProofs ---------------------------
(***************************************************************************)
(* The older SDO client: what an answered call says and does, for all      *)
(* nodes, objects, calls and bounds, and any number of values in a byte.   *)
(***************************************************************************)
EXTENDS NtcanOpen, SequenceTheorems, TLAPS

(***************************************************************************)
(* The low bytes of a word.                                                *)
(***************************************************************************)
Widths == {0, 1, 2, 4}

LEMMA Powers ==
  /\ \A n \in Widths : Byte^n \in Nat /\ Byte^n >= 1
  /\ \A m, n \in Widths : m <= n => Byte^m <= Byte^n
<1>1. Byte \in Nat /\ Byte >= 2 BY ByteAssumption
<1>. DEFINE P(n) == Byte^n
<1>2. P(0) = 1 BY PowerAssumption
<1>3. \A n \in 0 .. 7 : P(n + 1) = Byte * P(n) BY PowerAssumption
<1>. HIDE DEF P
<1>4. P(1) = Byte * P(0) /\ P(2) = Byte * P(1) /\ P(3) = Byte * P(2) /\ P(4) = Byte * P(3)
  <2>1. P(0 + 1) = Byte * P(0) BY <1>3
  <2>2. P(1 + 1) = Byte * P(1) BY <1>3
  <2>3. P(2 + 1) = Byte * P(2) BY <1>3
  <2>4. P(3 + 1) = Byte * P(3) BY <1>3
  <2>. QED BY <2>1, <2>2, <2>3, <2>4
<1>5. ASSUME NEW x \in Nat, x >= 1 PROVE Byte * x \in Nat /\ Byte * x >= x
  BY <1>1, <1>5
<1>6. P(0) \in Nat /\ P(0) >= 1 BY <1>2
<1>7. P(1) \in Nat /\ P(1) >= P(0) BY <1>4, <1>5, <1>6
<1>8. P(1) >= 1 BY <1>6, <1>7
<1>9. P(2) \in Nat /\ P(2) >= P(1) BY <1>4, <1>5, <1>7, <1>8
<1>10. P(2) >= 1 BY <1>7, <1>8, <1>9
<1>11. P(3) \in Nat /\ P(3) >= P(2) BY <1>4, <1>5, <1>9, <1>10
<1>12. P(3) >= 1 BY <1>9, <1>10, <1>11
<1>13. P(4) \in Nat /\ P(4) >= P(3) BY <1>4, <1>5, <1>11, <1>12
<1>14. \A n \in Widths : P(n) \in Nat /\ P(n) >= 1
  BY <1>6, <1>7, <1>8, <1>9, <1>10, <1>11, <1>12, <1>13 DEF Widths
<1>15. \A m, n \in Widths : m <= n => P(m) <= P(n)
  BY <1>6, <1>7, <1>9, <1>11, <1>13 DEF Widths
<1>. QED BY <1>14, <1>15 DEF P

LEMMA LowRange ==
  ASSUME NEW w \in Int, NEW k \in Widths
  PROVE  Low(w, k) \in 0 .. Byte^k - 1
<1>. DEFINE m == Byte^k
<1>1. m \in Nat /\ m >= 1 BY Powers
<1>. HIDE DEF m
<1>2. w % m \in 0 .. m - 1 BY <1>1
<1>. QED BY <1>2 DEF Low, m

LEMMA LowOfLow ==
  ASSUME NEW k \in Widths, NEW j \in Widths, k <= j, NEW w \in 0 .. Byte^k - 1
  PROVE  Low(w, j) = w
<1>. DEFINE m == Byte^k
            l == Byte^j
<1>1. m \in Nat /\ m >= 1 /\ l \in Nat /\ m <= l BY Powers
<1>2. w \in 0 .. m - 1 OBVIOUS
<1>. HIDE DEF m, l
<1>3. w % l = w BY <1>1, <1>2
<1>. QED BY <1>3 DEF Low, l

LEMMA LowIdempotent ==
  ASSUME NEW w \in Int, NEW k \in Widths
  PROVE  Low(Low(w, k), k) = Low(w, k)
<1>1. k <= k BY DEF Widths
<1>2. Low(w, k) \in 0 .. Byte^k - 1 BY LowRange
<1>. QED BY <1>1, <1>2, LowOfLow

LEMMA WidthType == \A t \in DOMAIN Width : Width[t] \in Widths
BY DEF Width, Widths

(***************************************************************************)
(* Calls, requests and responses.                                          *)
(***************************************************************************)
Requests ==
  [id : {"request"}, node : Node, len : Int, cs : Int, n : Int, s : Int,
   obj : DOMAIN ObjType, bytes : Int]

Responses ==
  [id : {"response"}, node : Node, cs : Int, n : Int, s : Int,
   obj : DOMAIN ObjType, bytes : Int, len : Int]

\* The frames a call can have made, whatever it found on its stack.
IsRequestOf(f, c) ==
  \/ /\ c.op = "dl"
     /\ \E length \in LengthsFound(c) :
          DlAsserts(c.amc, length) /\ f = TranslateSDO(c, DlArgs(c.amc, length), c.amc)
  \/ /\ c.op = "ul"
     /\ \E amc \in AmcFound(c) : f = TranslateSDO(c, UlArgs, amc)

Types ==
  /\ call \in Calls /\ msg \in Requests
  /\ rxq \in Seq(Responses)
  /\ net \in [Node -> Seq(Requests)]
  /\ ids \subseteq Node
  /\ DOMAIN od = Node
  /\ \A n \in Node : /\ DOMAIN od[n] = DOMAIN Initial[n]
                      /\ \A o \in DOMAIN Initial[n] :
                           od[n][o] \in 0 .. Byte^Width[ObjType[o]] - 1

CallInv ==
  pc \in {"write", "wait"} => IsRequestOf(msg, call) /\ call.node \in ids

Silent(q, n) == \A k \in DOMAIN q : q[k].node # n

\* A frame says what the node n makes of the request msg.
Fits(n, f) ==
  LET width == Width[ObjType[msg.obj]]
  IN /\ f.node = n
     /\ \/ /\ ~Takes(n, msg) /\ f.cs = CsAbort
           /\ f.len \in {8, 4 + 4}
        \/ /\ Takes(n, msg) /\ msg.cs = CcsExDl /\ f.cs = ScsExDl
           /\ od[n][msg.obj] = Low(msg.bytes, width)
        \/ /\ Takes(n, msg) /\ msg.cs # CcsExDl /\ f.cs = ScsExUl
           /\ f.bytes = od[n][msg.obj] /\ f.len \in {8, 4 + width}

Quiet(n)  == net[n] = <<>> /\ Silent(rxq, n)
Asked(n)  == net[n] = <<msg>> /\ Silent(rxq, n)

Fitting(n) == {f \in Responses : Fits(n, f)}

\* A queue has one frame of n, and it is one of frames.
OneIn(q, n, frames) ==
  \E k \in DOMAIN q : /\ q[k] \in frames /\ q[k].node = n
                      /\ \A j \in DOMAIN q : q[j].node = n => j = k

AnsweredBy(n) == net[n] = <<>> /\ OneIn(rxq, n, Fitting(n))

\* A node that owes nothing to a call that failed.
NodeInv(n) ==
  IF pc = "wait" /\ call.node = n THEN Asked(n) \/ AnsweredBy(n) ELSE Quiet(n)

IInv == Types /\ CallInv /\ \A n \in Node \ late : NodeInv(n)

LEMMA ObjectTypes ==
  ASSUME NEW o \in DOMAIN ObjType
  PROVE  ObjType[o] \in DOMAIN Width /\ Width[ObjType[o]] \in Widths
BY ObjectAssumption, WidthType

LEMMA CallFields ==
  ASSUME NEW c \in Calls
  PROVE  /\ c.op \in {"dl", "ul"} /\ c.node \in Node /\ c.type \in {"u8", "u16", "u32", "i32"}
         /\ c.obj \in DOMAIN ObjType /\ c.value \in Int /\ c.amc \in BOOLEAN
BY CallsAssumption

LEMMA PutLengths ==
  ASSUME NEW t \in {"u8", "u16", "u32", "i32"}
  PROVE  /\ PutLength(t) \in Widths /\ Width[t] \in Widths
         /\ t # "i32" => PutLength(t) = Width[t]
         /\ Width["u8"] = 1
BY DEF PutLength, Width, Widths

LEMMA LowInt ==
  ASSUME NEW w \in Int, NEW k \in Widths
  PROVE  Low(w, k) \in Int
<1>. DEFINE m == Byte^k
<1>1. m \in Nat /\ m >= 1 BY Powers
<1>2. Low(w, k) \in 0 .. m - 1 BY LowRange
<1>. HIDE DEF m
<1>. QED BY <1>1, <1>2

LEMMA TranslateType ==
  ASSUME NEW c \in Calls, NEW args \in [cs : Int, n : Int, s : Int], NEW amc \in BOOLEAN
  PROVE  TranslateSDO(c, args, amc) \in Requests
<1>. DEFINE length == IF c.op = "dl" THEN PutLength(c.type) ELSE 0
            len == IF amc THEN 8 ELSE 4 + length
            bytes == IF c.op = "dl" THEN Low(c.value, length) ELSE 0
<1>1. length \in Widths /\ length \in Int BY CallFields, PutLengths DEF Widths
<1>2. len \in Int BY <1>1
<1>3. bytes \in Int BY <1>1, CallFields, LowInt
<1>4. TranslateSDO(c, args, amc) =
        [id |-> "request", node |-> c.node, len |-> len, cs |-> args.cs, n |-> args.n,
         s |-> args.s, obj |-> c.obj, bytes |-> bytes]
  BY DEF TranslateSDO
<1>. HIDE DEF length, len, bytes
<1>. QED BY <1>2, <1>3, <1>4, CallFields DEF Requests

LEMMA RequestType ==
  ASSUME NEW c \in Calls, NEW f, IsRequestOf(f, c)
  PROVE  f \in Requests
<1>1. CASE c.op = "dl"
  <2>1. PICK length \in LengthsFound(c) : f = TranslateSDO(c, DlArgs(c.amc, length), c.amc)
    BY <1>1 DEF IsRequestOf
  <2>2. length \in Int BY DEF LengthsFound
  <2>3. DlArgs(c.amc, length) \in [cs : Int, n : Int, s : Int]
    BY <2>2 DEF DlArgs, MAX_SDO_DATA_LENGTH, CcsExDl
  <2>. QED BY <2>1, <2>3, CallFields, TranslateType
<1>2. CASE c.op # "dl"
  <2>1. PICK amc \in AmcFound(c) : f = TranslateSDO(c, UlArgs, amc)
    BY <1>2 DEF IsRequestOf
  <2>2. amc \in BOOLEAN BY CallFields DEF AmcFound
  <2>3. UlArgs \in [cs : Int, n : Int, s : Int] BY DEF UlArgs, CcsExUl
  <2>. QED BY <2>1, <2>2, <2>3, TranslateType
<1>. QED BY <1>1, <1>2

LEMMA RequestOf ==
  ASSUME NEW c \in Calls, NEW f, IsRequestOf(f, c)
  PROVE  /\ f.node = c.node /\ f.obj = c.obj
         /\ f.cs = CcsExDl <=> c.op = "dl"
         /\ c.op = "dl" => f.bytes = Low(c.value, PutLength(c.type))
<1>1. CASE c.op = "dl"
  <2>1. PICK length \in LengthsFound(c) : f = TranslateSDO(c, DlArgs(c.amc, length), c.amc)
    BY <1>1 DEF IsRequestOf
  <2>2. DlArgs(c.amc, length).cs = CcsExDl BY DEF DlArgs
  <2>. QED BY <1>1, <2>1, <2>2 DEF TranslateSDO
<1>2. CASE c.op # "dl"
  <2>1. PICK amc \in AmcFound(c) : f = TranslateSDO(c, UlArgs, amc)
    BY <1>2 DEF IsRequestOf
  <2>2. UlArgs.cs # CcsExDl BY DEF UlArgs, CcsExUl, CcsExDl
  <2>. QED BY <1>2, <2>1, <2>2 DEF TranslateSDO
<1>. QED BY <1>1, <1>2

\* A download whose length was known is one the node takes.
LEMMA KnownLengthTaken ==
  ASSUME Types, IsRequestOf(msg, call), call.op = "dl", call.obj \in DOMAIN od[call.node],
         ObjType[call.obj] = call.type, call.type # "i32",
         call.type = "u8" \/ call.amc, call.node \in Amc => call.amc
  PROVE  Takes(call.node, msg)
<1>. DEFINE width == Width[call.type]
<1>1. PICK length \in LengthsFound(call) :
        msg = TranslateSDO(call, DlArgs(call.amc, length), call.amc)
  BY DEF IsRequestOf
<1>2. call \in Calls BY DEF Types
<1>3. /\ call.type \in {"u8", "u16", "u32", "i32"} /\ call.amc \in BOOLEAN
  BY <1>2, CallFields
<1>4. PutLength(call.type) = width /\ width \in Widths
  BY <1>3, PutLengths
<1>5. call.type = "u8" => width = 1 /\ length = 1
  BY <1>3, PutLengths DEF LengthsFound
<1>6. msg.obj = call.obj /\ msg.len = IF call.amc THEN 8 ELSE 4 + width
  BY <1>1, <1>4 DEF TranslateSDO
<1>7. /\ msg.n = DlArgs(call.amc, length).n /\ msg.s = DlArgs(call.amc, length).s
  BY <1>1 DEF TranslateSDO
<1>8. width \in Int /\ width <= 4 BY <1>4 DEF Widths
<1>. HIDE DEF width
<1>9. msg.len >= 4 + width BY <1>6, <1>8, <1>3
<1>10. msg.s = 1 => 4 - msg.n = width
  <2>1. CASE call.amc BY <1>7, <2>1 DEF DlArgs
  <2>2. CASE ~call.amc
    <3>1. msg.n = 3 BY <1>5, <1>7, <2>2 DEF DlArgs, MAX_SDO_DATA_LENGTH
    <3>. QED BY <1>5, <2>2, <3>1
  <2>. QED BY <2>1, <2>2
<1>11. Width[ObjType[msg.obj]] = width BY <1>6 DEF width
<1>12. call.node \in Amc => msg.len = 8 BY <1>6
<1>. QED BY <1>6, <1>9, <1>10, <1>11, <1>12 DEF Takes

(***************************************************************************)
(* The queue.                                                              *)
(***************************************************************************)
LEMMA SilentTail ==
  ASSUME NEW q \in Seq(Responses), q # <<>>, NEW n, Silent(q, n)
  PROVE  Silent(Tail(q), n) /\ Head(q).node # n
<1>1. \A k \in DOMAIN Tail(q) : k + 1 \in DOMAIN q /\ Tail(q)[k] = q[k + 1] OBVIOUS
<1>2. 1 \in DOMAIN q /\ Head(q) = q[1] OBVIOUS
<1>. QED BY <1>1, <1>2 DEF Silent

LEMMA SilentAppend ==
  ASSUME NEW q \in Seq(Responses), NEW n, NEW f \in Responses, Silent(q, n), f.node # n
  PROVE  Silent(Append(q, f), n)
<1>1. \A k \in DOMAIN Append(q, f) :
        \/ k \in DOMAIN q /\ Append(q, f)[k] = q[k]
        \/ Append(q, f)[k] = f
  OBVIOUS
<1>. QED BY <1>1 DEF Silent

LEMMA OneTail ==
  ASSUME NEW q \in Seq(Responses), q # <<>>, NEW n, NEW frames,
         OneIn(q, n, frames), Head(q).node # n
  PROVE  OneIn(Tail(q), n, frames)
<1>1. PICK k \in DOMAIN q : /\ q[k] \in frames /\ q[k].node = n
                           /\ \A j \in DOMAIN q : q[j].node = n => j = k
  BY DEF OneIn
<1>2. k # 1 BY <1>1
<1>3. k - 1 \in DOMAIN Tail(q) /\ Tail(q)[k - 1] = q[k] BY <1>2
<1>4. \A j \in DOMAIN Tail(q) : j + 1 \in DOMAIN q /\ Tail(q)[j] = q[j + 1] OBVIOUS
<1>5. ASSUME NEW j \in DOMAIN Tail(q), Tail(q)[j].node = n PROVE j = k - 1
  <2>1. j + 1 = k BY <1>1, <1>4, <1>5
  <2>. QED BY <2>1
<1>. QED BY <1>1, <1>3, <1>5 DEF OneIn

LEMMA OneHead ==
  ASSUME NEW q \in Seq(Responses), q # <<>>, NEW n, NEW frames,
         OneIn(q, n, frames), Head(q).node = n
  PROVE  Head(q) \in frames /\ Silent(Tail(q), n)
<1>1. PICK k \in DOMAIN q : /\ q[k] \in frames /\ q[k].node = n
                           /\ \A j \in DOMAIN q : q[j].node = n => j = k
  BY DEF OneIn
<1>2. 1 \in DOMAIN q /\ Head(q) = q[1] OBVIOUS
<1>3. k = 1 BY <1>1, <1>2
<1>4. \A j \in DOMAIN Tail(q) : j + 1 \in DOMAIN q /\ Tail(q)[j] = q[j + 1] /\ j + 1 # 1
  OBVIOUS
<1>. QED BY <1>1, <1>2, <1>3, <1>4 DEF Silent

LEMMA OneAppend ==
  ASSUME NEW q \in Seq(Responses), NEW n, NEW frames, NEW f \in Responses,
         OneIn(q, n, frames), f.node # n
  PROVE  OneIn(Append(q, f), n, frames)
<1>1. PICK k \in DOMAIN q : /\ q[k] \in frames /\ q[k].node = n
                           /\ \A j \in DOMAIN q : q[j].node = n => j = k
  BY DEF OneIn
<1>2. k \in DOMAIN Append(q, f) /\ Append(q, f)[k] = q[k] OBVIOUS
<1>3. \A j \in DOMAIN Append(q, f) :
        \/ j \in DOMAIN q /\ Append(q, f)[j] = q[j]
        \/ Append(q, f)[j] = f
  OBVIOUS
<1>. QED BY <1>1, <1>2, <1>3 DEF OneIn

LEMMA OneNew ==
  ASSUME NEW q \in Seq(Responses), NEW n, NEW frames, NEW f \in Responses,
         Silent(q, n), f \in frames, f.node = n
  PROVE  OneIn(Append(q, f), n, frames)
<1>1. Len(q) + 1 \in DOMAIN Append(q, f) /\ Append(q, f)[Len(q) + 1] = f OBVIOUS
<1>2. \A j \in DOMAIN Append(q, f) :
        \/ j \in DOMAIN q /\ Append(q, f)[j] = q[j]
        \/ j = Len(q) + 1
  OBVIOUS
<1>. QED BY <1>1, <1>2 DEF OneIn, Silent

LEMMA OneNotSilent ==
  ASSUME NEW q, NEW n, NEW frames, OneIn(q, n, frames)
  PROVE  ~Silent(q, n)
BY DEF OneIn, Silent

(***************************************************************************)
(* Serving.                                                                *)
(***************************************************************************)
LEMMA ServedWidth ==
  ASSUME NEW f \in Requests
  PROVE  /\ f.node \in Node /\ f.obj \in DOMAIN ObjType /\ f.bytes \in Int
         /\ Width[ObjType[f.obj]] \in Widths
BY ObjectTypes DEF Requests

LEMMA ResponseType ==
  ASSUME NEW n \in Node, NEW f \in Requests, NEW cs \in Int, NEW w \in Int, NEW width \in Int
  PROVE  /\ Response(n, f, cs, w, width) \in Responses
         /\ Response(n, f, cs, w, width).node = n
         /\ Response(n, f, cs, w, width).cs = cs
         /\ Response(n, f, cs, w, width).bytes = w
         /\ Response(n, f, cs, w, width).len \in {8, 4 + width}
BY ServedWidth DEF Response, Responses

\* What a node makes of a request it has, and what becomes of its objects.
Answer(n, f) ==
  IF ~Takes(n, f) THEN Response(n, f, CsAbort, 0, 4)
  ELSE IF f.cs = CcsExDl THEN Response(n, f, ScsExDl, 0, 0)
  ELSE Response(n, f, ScsExUl, od[n][f.obj], Width[ObjType[f.obj]])

Objects(n, f) ==
  IF Takes(n, f) /\ f.cs = CcsExDl
  THEN [od EXCEPT ![n][f.obj] = Low(f.bytes, Width[ObjType[f.obj]])] ELSE od

LEMMA ServeEffect ==
  ASSUME NEW n \in Node, Serve(n)
  PROVE  /\ net[n] # <<>>
         /\ net' = [net EXCEPT ![n] = Tail(@)]
         /\ od' = Objects(n, Head(net[n]))
         /\ rxq' = IF n \in ids /\ pc # "dead" THEN Append(rxq, Answer(n, Head(net[n]))) ELSE rxq
         /\ UNCHANGED <<pc, call, msg, ret, ids, late, calls, fails>>
BY DEF Serve, Answer, Objects

LEMMA TakenObject ==
  ASSUME NEW n \in Node, NEW f, Takes(n, f)
  PROVE  f.obj \in DOMAIN od[n]
BY DEF Takes

LEMMA ObjectInt ==
  ASSUME Types, NEW n \in Node, NEW o \in DOMAIN od[n]
  PROVE  /\ o \in DOMAIN ObjType
         /\ od[n][o] \in 0 .. Byte^Width[ObjType[o]] - 1
         /\ od[n][o] \in Int
<1>1. o \in DOMAIN ObjType BY ObjectAssumption DEF Types
<1>. DEFINE k == Width[ObjType[o]]
            m == Byte^k
<1>2. k \in Widths BY <1>1, ObjectTypes
<1>3. m \in Nat BY <1>2, Powers
<1>4. od[n][o] \in 0 .. m - 1 BY DEF Types
<1>5. od[n][o] \in Int
  <2>. HIDE DEF m
  <2>. QED BY <1>3, <1>4
<1>. QED BY <1>1, <1>4, <1>5

LEMMA AnswerType ==
  ASSUME Types, NEW n \in Node, NEW f \in Requests
  PROVE  Answer(n, f) \in Responses /\ Answer(n, f).node = n
<1>1. CASE ~Takes(n, f)
  <2>1. Answer(n, f) = Response(n, f, CsAbort, 0, 4) BY <1>1 DEF Answer
  <2>2. CsAbort \in Int BY DEF CsAbort
  <2>. QED BY <2>1, <2>2, ResponseType
<1>2. CASE Takes(n, f) /\ f.cs = CcsExDl
  <2>1. Answer(n, f) = Response(n, f, ScsExDl, 0, 0) BY <1>2 DEF Answer
  <2>2. ScsExDl \in Int BY DEF ScsExDl
  <2>. QED BY <2>1, <2>2, ResponseType
<1>3. CASE Takes(n, f) /\ f.cs # CcsExDl
  <2>1. od[n][f.obj] \in Int BY <1>3, TakenObject, ObjectInt
  <2>2. Width[ObjType[f.obj]] \in Int BY ServedWidth DEF Widths
  <2>3. ScsExUl \in Int BY DEF ScsExUl
  <2>. QED BY <1>3, <2>1, <2>2, <2>3, ResponseType DEF Answer
<1>. QED BY <1>1, <1>2, <1>3

LEMMA ObjectsType ==
  ASSUME Types, NEW n \in Node, NEW f \in Requests
  PROVE  /\ DOMAIN Objects(n, f) = Node
         /\ \A m \in Node \ {n} : Objects(n, f)[m] = od[m]
         /\ DOMAIN Objects(n, f)[n] = DOMAIN od[n]
         /\ \A o \in DOMAIN od[n] : Objects(n, f)[n][o] \in 0 .. Byte^Width[ObjType[o]] - 1
         /\ Takes(n, f) /\ f.cs = CcsExDl =>
              Objects(n, f)[n][f.obj] = Low(f.bytes, Width[ObjType[f.obj]])
         /\ ~(Takes(n, f) /\ f.cs = CcsExDl) => Objects(n, f) = od
<1>. DEFINE w == Low(f.bytes, Width[ObjType[f.obj]])
<1>1. DOMAIN od = Node BY DEF Types
<1>2. \A o \in DOMAIN od[n] : od[n][o] \in 0 .. Byte^Width[ObjType[o]] - 1
  BY DEF Types
<1>3. w \in 0 .. Byte^Width[ObjType[f.obj]] - 1
  BY ServedWidth, LowRange
<1>. HIDE DEF w
<1>4. CASE ~(Takes(n, f) /\ f.cs = CcsExDl)
  BY <1>1, <1>2, <1>4 DEF Objects
<1>5. CASE Takes(n, f) /\ f.cs = CcsExDl
  <2>1. f.obj \in DOMAIN od[n] BY <1>5, TakenObject
  <2>2. Objects(n, f) = [od EXCEPT ![n][f.obj] = w] BY <1>5 DEF Objects, w
  <2>3. /\ DOMAIN Objects(n, f) = Node
        /\ \A m \in Node \ {n} : Objects(n, f)[m] = od[m]
        /\ Objects(n, f)[n] = [od[n] EXCEPT ![f.obj] = w]
    BY <1>1, <2>2
  <2>4. /\ DOMAIN Objects(n, f)[n] = DOMAIN od[n]
        /\ \A o \in DOMAIN od[n] : Objects(n, f)[n][o] = IF o = f.obj THEN w ELSE od[n][o]
    BY <2>3
  <2>5. \A o \in DOMAIN od[n] : Objects(n, f)[n][o] \in 0 .. Byte^Width[ObjType[o]] - 1
    BY <1>2, <1>3, <2>4
  <2>6. Objects(n, f)[n][f.obj] = w BY <2>1, <2>4
  <2>. QED BY <1>5, <2>3, <2>4, <2>5, <2>6 DEF w
<1>. QED BY <1>4, <1>5

(***************************************************************************)
(* What a step leaves to a node that is not the called one.                *)
(***************************************************************************)
LEMMA FittingSame ==
  ASSUME NEW n, UNCHANGED msg, od'[n] = od[n]
  PROVE  Fitting(n)' = Fitting(n)
BY DEF Fitting, Fits, Takes

\* The queue loses or gets a frame that is not from n, or neither.
OthersMoved(n) ==
  \/ rxq' = rxq
  \/ rxq # <<>> /\ Head(rxq).node # n /\ rxq' = Tail(rxq)
  \/ \E f \in Responses : f.node # n /\ rxq' = Append(rxq, f)

LEMMA SilentKept ==
  ASSUME rxq \in Seq(Responses), NEW n, OthersMoved(n), Silent(rxq, n)
  PROVE  Silent(rxq', n)
<1>1. CASE rxq' = rxq BY <1>1
<1>2. CASE rxq # <<>> /\ rxq' = Tail(rxq) BY <1>2, SilentTail
<1>3. CASE \E f \in Responses : f.node # n /\ rxq' = Append(rxq, f)
  BY <1>3, SilentAppend
<1>. QED BY <1>1, <1>2, <1>3 DEF OthersMoved

LEMMA OneKept ==
  ASSUME rxq \in Seq(Responses), NEW n, OthersMoved(n), NEW frames, OneIn(rxq, n, frames)
  PROVE  OneIn(rxq', n, frames)
<1>1. CASE rxq' = rxq BY <1>1
<1>2. CASE rxq # <<>> /\ Head(rxq).node # n /\ rxq' = Tail(rxq) BY <1>2, OneTail
<1>3. CASE \E f \in Responses : f.node # n /\ rxq' = Append(rxq, f)
  BY <1>3, OneAppend
<1>. QED BY <1>1, <1>2, <1>3 DEF OthersMoved

LEMMA QuietKept ==
  ASSUME rxq \in Seq(Responses), NEW n, OthersMoved(n), net'[n] = net[n], Quiet(n)
  PROVE  Quiet(n)'
<1>1. Silent(rxq', n) BY SilentKept DEF Quiet
<1>. QED BY <1>1 DEF Quiet, Silent

LEMMA NodeKept ==
  ASSUME rxq \in Seq(Responses), NEW n, OthersMoved(n), net'[n] = net[n], od'[n] = od[n],
         UNCHANGED pc, UNCHANGED call, UNCHANGED msg, NodeInv(n)
  PROVE  NodeInv(n)'
<1>1. CASE Quiet(n) /\ ~(pc = "wait" /\ call.node = n)
  <2>1. Quiet(n)' BY <1>1, QuietKept
  <2>. QED BY <1>1, <2>1 DEF NodeInv
<1>2. CASE Asked(n) /\ pc = "wait" /\ call.node = n
  <2>1. Silent(rxq', n) BY <1>2, SilentKept DEF Asked
  <2>2. Asked(n)' BY <1>2, <2>1 DEF Asked, Silent
  <2>. QED BY <1>2, <2>2 DEF NodeInv
<1>3. CASE AnsweredBy(n) /\ pc = "wait" /\ call.node = n
  <2>1. OneIn(rxq', n, Fitting(n)) BY <1>3, OneKept DEF AnsweredBy
  <2>2. Fitting(n)' = Fitting(n) BY FittingSame
  <2>3. AnsweredBy(n)' BY <1>3, <2>1, <2>2 DEF AnsweredBy, OneIn
  <2>. QED BY <1>3, <2>3 DEF NodeInv
<1>. QED BY <1>1, <1>2, <1>3 DEF NodeInv

(***************************************************************************)
(* The invariant.                                                          *)
(***************************************************************************)
LEMMA InitialInv == Init => IInv
<1>. SUFFICES ASSUME Init PROVE IInv
  OBVIOUS
<1>1. Types
  <2>1. msg \in Requests
    <3>1. UlArgs \in [cs : Int, n : Int, s : Int] BY DEF UlArgs, CcsExUl
    <3>. QED BY <3>1, TranslateType DEF Init
  <2>2. rxq \in Seq(Responses) /\ net \in [Node -> Seq(Requests)] BY DEF Init
  <2>3. ASSUME NEW n \in Node
        PROVE  /\ DOMAIN od[n] = DOMAIN Initial[n]
               /\ \A o \in DOMAIN Initial[n] :
                    od[n][o] \in 0 .. Byte^Width[ObjType[o]] - 1
    <3>1. od[n] = [o \in DOMAIN Initial[n] |-> Low(Initial[n][o], Width[ObjType[o]])]
      BY DEF Init
    <3>2. ASSUME NEW o \in DOMAIN Initial[n]
          PROVE  od[n][o] \in 0 .. Byte^Width[ObjType[o]] - 1
      <4>1. o \in DOMAIN ObjType /\ Initial[n][o] \in Int BY ObjectAssumption
      <4>2. Low(Initial[n][o], Width[ObjType[o]]) \in 0 .. Byte^Width[ObjType[o]] - 1
        BY <4>1, ObjectTypes, LowRange
      <4>. QED BY <3>1, <4>2
    <3>. QED BY <3>1, <3>2
  <2>4. call \in Calls /\ ids \subseteq Node /\ DOMAIN od = Node BY DEF Init
  <2>. QED BY <2>1, <2>2, <2>3, <2>4 DEF Types
<1>2. CallInv BY DEF Init, CallInv
<1>3. \A n \in Node : NodeInv(n)
  <2>1. pc = "idle" /\ rxq = <<>> /\ \A n \in Node : net[n] = <<>> BY DEF Init
  <2>. QED BY <2>1 DEF NodeInv, Quiet, Silent
<1>. QED BY <1>1, <1>2, <1>3 DEF IInv

LEMMA TypesKept ==
  ASSUME Types, UNCHANGED od, net' \in [Node -> Seq(Requests)], rxq' \in Seq(Responses),
         call' \in Calls, msg' \in Requests, ids' \subseteq Node
  PROVE  Types'
BY DEF Types

LEMMA BeginInv ==
  ASSUME IInv, NEW c \in Calls, Begin(c)
  PROVE  IInv'
<1>1. /\ pc = "idle" /\ call' = c /\ c.node \in ids
      /\ UNCHANGED <<ids, rxq, net, od, late>>
  BY DEF Begin
<1>2. \/ pc' = "write" /\ IsRequestOf(msg', c)
      \/ pc' = "dead" /\ UNCHANGED msg
  BY DEF Begin, IsRequestOf
<1>3. Types'
  <2>1. msg' \in Requests BY <1>2, RequestType DEF IInv, Types
  <2>. QED BY <1>1, <2>1, TypesKept DEF IInv, Types
<1>4. CallInv' BY <1>1, <1>2 DEF CallInv, IsRequestOf
<1>5. \A n \in Node \ late' : NodeInv(n)'
  <2>1. \A n \in Node \ late : Quiet(n) BY <1>1 DEF IInv, NodeInv
  <2>2. pc' # "wait" BY <1>2
  <2>. QED BY <1>1, <2>1, <2>2 DEF NodeInv, Quiet, Silent
<1>. QED BY <1>3, <1>4, <1>5 DEF IInv

LEMMA WriteInv == IInv /\ Write => IInv'
<1>. SUFFICES ASSUME IInv, Write PROVE IInv'
  OBVIOUS
<1>1. /\ pc = "write" /\ pc' = "wait"
      /\ net' = [net EXCEPT ![msg.node] = Append(@, msg)]
      /\ UNCHANGED <<call, msg, ids, rxq, od, late>>
  BY DEF Write
<1>2. Types BY DEF IInv
<1>3. msg.node = call.node /\ call.node \in Node /\ msg \in Requests
  BY <1>1, <1>2, RequestOf, CallFields DEF IInv, CallInv, Types
<1>4. net \in [Node -> Seq(Requests)] BY <1>2 DEF Types
<1>5. net' \in [Node -> Seq(Requests)] BY <1>1, <1>3, <1>4
<1>6. Types' BY <1>1, <1>2, <1>5, TypesKept DEF Types
<1>7. CallInv' BY <1>1 DEF IInv, CallInv, IsRequestOf
<1>8. ASSUME NEW n \in Node \ late PROVE NodeInv(n)'
  <2>1. Quiet(n) BY <1>1 DEF IInv, NodeInv
  <2>2. CASE n = call.node
    <3>1. net'[n] = Append(net[n], msg) BY <1>1, <1>3, <1>4, <2>2
    <3>2. net'[n] = <<msg>> BY <3>1, <2>1 DEF Quiet
    <3>3. Asked(n)' BY <1>1, <2>1, <3>2 DEF Asked, Quiet, Silent
    <3>. QED BY <1>1, <2>2, <3>3 DEF NodeInv
  <2>3. CASE n # call.node
    <3>1. net'[n] = net[n] BY <1>1, <1>3, <1>4, <2>3
    <3>2. Quiet(n)' BY <1>1, <2>1, <3>1 DEF Quiet, Silent
    <3>. QED BY <1>1, <2>3, <3>2 DEF NodeInv
  <2>. QED BY <2>2, <2>3
<1>. QED BY <1>1, <1>6, <1>7, <1>8 DEF IInv

LEMMA FailsInv == IInv /\ (WriteFails \/ ReadFails) => IInv'
<1>. SUFFICES ASSUME IInv, WriteFails \/ ReadFails PROVE IInv'
  OBVIOUS
<1>1. /\ pc' \in {"idle", "dead"} /\ UNCHANGED <<call, msg, ids, rxq, net, od>>
      /\ \/ pc = "write" /\ late' = late
         \/ pc = "wait" /\ late' = late \union {call.node}
  BY DEF WriteFails, ReadFails, Fail
<1>2. Types' BY <1>1, TypesKept DEF IInv, Types
<1>3. CallInv' BY <1>1 DEF CallInv
<1>4. ASSUME NEW n \in Node \ late' PROVE NodeInv(n)'
  <2>1. Quiet(n) BY <1>1, <1>4 DEF IInv, NodeInv
  <2>2. Quiet(n)' BY <1>1, <2>1 DEF Quiet, Silent
  <2>. QED BY <1>1, <2>2 DEF NodeInv
<1>. QED BY <1>2, <1>3, <1>4 DEF IInv

LEMMA DiscardInv == IInv /\ Discard => IInv'
<1>. SUFFICES ASSUME IInv, Discard PROVE IInv'
  OBVIOUS
<1>1. /\ pc = "wait" /\ rxq # <<>> /\ rxq' = Tail(rxq)
      /\ ~IsResponse(Head(rxq), call.node)
  BY DEF Discard
<1>2. UNCHANGED <<pc, call, msg, ids, net, od, late>> BY DEF Discard
<1>3. Types BY DEF IInv
<1>4. rxq \in Seq(Responses) BY <1>3 DEF Types
<1>5. rxq' \in Seq(Responses) /\ Head(rxq) \in Responses BY <1>1, <1>4
<1>6. Types' BY <1>2, <1>3, <1>5, TypesKept DEF Types
<1>7. CallInv' BY <1>2 DEF IInv, CallInv, IsRequestOf
<1>8. Head(rxq).node # call.node BY <1>1, <1>5 DEF IsResponse, Responses
<1>9. ASSUME NEW n \in Node \ late PROVE NodeInv(n)'
  <2>1. NodeInv(n) BY DEF IInv
  <2>2. CASE n = call.node
    <3>1. OthersMoved(n) BY <1>1, <1>8, <2>2 DEF OthersMoved
    <3>. QED BY <1>2, <1>4, <2>1, <3>1, NodeKept
  <2>3. CASE n # call.node
    <3>1. Quiet(n) BY <2>1, <2>3 DEF NodeInv
    <3>2. Silent(Tail(rxq), n) BY <1>1, <1>4, <3>1, SilentTail DEF Quiet
    <3>3. Quiet(n)' BY <1>1, <1>2, <3>1, <3>2 DEF Quiet, Silent
    <3>. QED BY <1>2, <2>3, <3>3 DEF NodeInv
  <2>. QED BY <2>2, <2>3
<1>. QED BY <1>2, <1>6, <1>7, <1>9 DEF IInv

\* The response a call takes from a node that owes nothing is that of its request.
LEMMA ReceivedFits ==
  ASSUME IInv, Receive, call.node \notin late
  PROVE  /\ Head(rxq) \in Fitting(call.node) /\ Silent(Tail(rxq), call.node)
         /\ net[call.node] = <<>> /\ IsRequestOf(msg, call)
<1>. DEFINE n == call.node
<1>1. /\ pc = "wait" /\ rxq # <<>> /\ Head(rxq).node = n
  BY DEF Receive, IsResponse
<1>2. rxq \in Seq(Responses) /\ n \in Node BY CallFields DEF IInv, Types
<1>3. Asked(n) \/ AnsweredBy(n) BY <1>1, <1>2 DEF IInv, NodeInv
<1>4. ~Silent(rxq, n) BY <1>1, <1>2, SilentTail
<1>5. OneIn(rxq, n, Fitting(n)) /\ net[n] = <<>> BY <1>3, <1>4 DEF Asked, AnsweredBy
<1>6. Head(rxq) \in Fitting(n) /\ Silent(Tail(rxq), n)
  BY <1>1, <1>2, <1>5, OneHead
<1>. QED BY <1>1, <1>5, <1>6 DEF IInv, CallInv

LEMMA ReceiveInv == IInv /\ Receive => IInv'
<1>. SUFFICES ASSUME IInv, Receive PROVE IInv'
  OBVIOUS
<1>1. /\ pc = "wait" /\ pc' \in {"idle", "dead"} /\ rxq # <<>> /\ rxq' = Tail(rxq)
      /\ Head(rxq).node = call.node
  BY DEF Receive, IsResponse
<1>2. UNCHANGED <<call, msg, ids, net, od, late>> BY DEF Receive
<1>3. Types BY DEF IInv
<1>4. rxq \in Seq(Responses) BY <1>3 DEF Types
<1>5. rxq' \in Seq(Responses) BY <1>1, <1>4
<1>6. Types' BY <1>2, <1>3, <1>5, TypesKept DEF Types
<1>7. CallInv' BY <1>1 DEF CallInv
<1>8. ASSUME NEW n \in Node \ late PROVE NodeInv(n)'
  <2>1. net[n] = <<>> /\ Silent(Tail(rxq), n)
    <3>1. CASE n = call.node BY <3>1, ReceivedFits
    <3>2. CASE n # call.node
      <4>1. Quiet(n) BY <3>2 DEF IInv, NodeInv
      <4>. QED BY <1>1, <1>4, <4>1, SilentTail DEF Quiet
    <3>. QED BY <3>1, <3>2
  <2>2. Quiet(n)' BY <1>1, <1>2, <2>1 DEF Quiet, Silent
  <2>. QED BY <1>1, <2>2 DEF NodeInv
<1>. QED BY <1>2, <1>6, <1>7, <1>8 DEF IInv

LEMMA IdsInv ==
  ASSUME IInv, NEW n \in Node, IdAdd(n) \/ IdDelete(n)
  PROVE  IInv'
<1>1. /\ pc = "idle" /\ ids' \in {ids \union {n}, ids \ {n}}
      /\ UNCHANGED <<pc, call, msg, rxq, net, od, late>>
  BY DEF IdAdd, IdDelete
<1>2. Types' BY <1>1, TypesKept DEF IInv, Types
<1>3. CallInv' BY <1>1 DEF CallInv
<1>4. \A m \in Node \ late : Quiet(m) BY <1>1 DEF IInv, NodeInv
<1>5. \A m \in Node \ late' : NodeInv(m)'
  BY <1>1, <1>4 DEF NodeInv, Quiet, Silent
<1>. QED BY <1>2, <1>3, <1>5 DEF IInv

\* The answer to the request of the current call.
LEMMA AnswerFits ==
  ASSUME Types, NEW n \in Node, NEW f, f = Answer(n, msg),
         UNCHANGED msg, od' = Objects(n, msg)
  PROVE  f \in Fitting(n)'
<1>. DEFINE width == Width[ObjType[msg.obj]]
<1>1. msg \in Requests BY DEF Types
<1>2. f \in Responses /\ f.node = n BY <1>1, AnswerType
<1>3. DOMAIN od'[n] = DOMAIN od[n] BY <1>1, ObjectsType
<1>4. Takes(n, msg)' <=> Takes(n, msg) BY <1>3 DEF Takes
<1>5. CASE ~Takes(n, msg)
  <2>1. f = Response(n, msg, CsAbort, 0, 4) BY <1>5 DEF Answer
  <2>2. CsAbort \in Int BY DEF CsAbort
  <2>3. f.cs = CsAbort /\ f.len \in {8, 4 + 4} BY <1>1, <2>1, <2>2, ResponseType
  <2>4. Fits(n, f)' BY <1>2, <1>4, <1>5, <2>3 DEF Fits
  <2>. QED BY <1>2, <2>4 DEF Fitting
<1>6. CASE Takes(n, msg) /\ msg.cs = CcsExDl
  <2>1. f = Response(n, msg, ScsExDl, 0, 0) BY <1>6 DEF Answer
  <2>2. ScsExDl \in Int BY DEF ScsExDl
  <2>3. f.cs = ScsExDl BY <1>1, <2>1, <2>2, ResponseType
  <2>4. od'[n][msg.obj] = Low(msg.bytes, width) BY <1>1, <1>6, ObjectsType
  <2>5. Fits(n, f)' BY <1>2, <1>4, <1>6, <2>3, <2>4 DEF Fits
  <2>. QED BY <1>2, <2>5 DEF Fitting
<1>7. CASE Takes(n, msg) /\ msg.cs # CcsExDl
  <2>1. f = Response(n, msg, ScsExUl, od[n][msg.obj], width) BY <1>7 DEF Answer
  <2>2. ScsExUl \in Int /\ width \in Int BY <1>1, ServedWidth DEF ScsExUl, Widths
  <2>3. od[n][msg.obj] \in Int BY <1>7, TakenObject, ObjectInt
  <2>4. f.cs = ScsExUl /\ f.bytes = od[n][msg.obj] /\ f.len \in {8, 4 + width}
    BY <1>1, <2>1, <2>2, <2>3, ResponseType
  <2>5. od' = od BY <1>1, <1>7, ObjectsType
  <2>6. Fits(n, f)' BY <1>2, <1>4, <1>7, <2>4, <2>5 DEF Fits
  <2>. QED BY <1>2, <2>6 DEF Fitting
<1>. QED BY <1>5, <1>6, <1>7

LEMMA ServeInv ==
  ASSUME IInv, NEW n \in Node, Serve(n)
  PROVE  IInv'
<1>. DEFINE f == Head(net[n])
<1>1. Types BY DEF IInv
<1>2. net[n] \in Seq(Requests) /\ net[n] # <<>> BY <1>1, ServeEffect DEF Types
<1>3. f \in Requests /\ Tail(net[n]) \in Seq(Requests) BY <1>2
<1>. HIDE DEF f
<1>4. /\ net' = [net EXCEPT ![n] = Tail(@)]
      /\ od' = Objects(n, f)
      /\ rxq' = IF n \in ids /\ pc # "dead" THEN Append(rxq, Answer(n, f)) ELSE rxq
  BY ServeEffect DEF f
<1>5. UNCHANGED <<pc, call, msg, ids, late>> BY ServeEffect
<1>6. Answer(n, f) \in Responses /\ Answer(n, f).node = n BY <1>1, <1>3, AnswerType
<1>7. rxq \in Seq(Responses) /\ net \in [Node -> Seq(Requests)] BY <1>1 DEF Types
<1>8. Types'
  <2>1. rxq' \in Seq(Responses) BY <1>4, <1>6, <1>7
  <2>2. net' \in [Node -> Seq(Requests)] BY <1>3, <1>4, <1>7
  <2>3. DOMAIN od' = Node BY <1>1, <1>3, <1>4, ObjectsType
  <2>4. ASSUME NEW m \in Node
        PROVE  /\ DOMAIN od'[m] = DOMAIN Initial[m]
               /\ \A o \in DOMAIN Initial[m] :
                    od'[m][o] \in 0 .. Byte^Width[ObjType[o]] - 1
    <3>1. /\ DOMAIN od[m] = DOMAIN Initial[m]
          /\ \A o \in DOMAIN Initial[m] : od[m][o] \in 0 .. Byte^Width[ObjType[o]] - 1
      BY <1>1 DEF Types
    <3>2. CASE m # n
      <4>1. od'[m] = od[m] BY <1>1, <1>3, <1>4, <3>2, ObjectsType
      <4>. QED BY <3>1, <4>1
    <3>3. CASE m = n
      <4>1. /\ DOMAIN od'[n] = DOMAIN od[n]
            /\ \A o \in DOMAIN od[n] : od'[n][o] \in 0 .. Byte^Width[ObjType[o]] - 1
        BY <1>1, <1>3, <1>4, ObjectsType
      <4>. QED BY <3>1, <3>3, <4>1
    <3>. QED BY <3>2, <3>3
  <2>5. call' \in Calls /\ msg' \in Requests /\ ids' \subseteq Node BY <1>1, <1>5 DEF Types
  <2>. QED BY <2>1, <2>2, <2>3, <2>4, <2>5 DEF Types
<1>9. CallInv' BY <1>5 DEF IInv, CallInv, IsRequestOf
<1>10. ASSUME NEW m \in Node \ late PROVE NodeInv(m)'
  <2>1. NodeInv(m) BY DEF IInv
  <2>2. CASE m # n
    <3>1. net'[m] = net[m] BY <1>4, <1>7, <2>2
    <3>2. od'[m] = od[m] BY <1>1, <1>3, <1>4, <2>2, ObjectsType
    <3>3. OthersMoved(m) BY <1>4, <1>6, <2>2 DEF OthersMoved
    <3>. QED BY <1>5, <1>7, <2>1, <3>1, <3>2, <3>3, NodeKept
  <2>3. CASE m = n
    <3>1. pc = "wait" /\ call.node = n /\ net[n] = <<msg>> /\ Silent(rxq, n)
      BY <1>2, <2>1, <2>3 DEF NodeInv, Quiet, Asked, AnsweredBy
    <3>2. n \in ids BY <3>1 DEF IInv, CallInv
    <3>3. f = msg BY <3>1 DEF f
    <3>4. rxq' = Append(rxq, Answer(n, msg)) BY <1>4, <3>1, <3>2, <3>3
    <3>5. net'[n] = <<>> BY <1>4, <1>7, <3>1
    <3>6. Answer(n, msg) \in Fitting(n)' BY <1>1, <1>4, <1>5, <3>3, AnswerFits
    <3>7. OneIn(rxq', n, Fitting(n)') BY <1>6, <1>7, <3>1, <3>3, <3>4, <3>6, OneNew
    <3>8. AnsweredBy(n)' BY <3>5, <3>7 DEF AnsweredBy, OneIn
    <3>. QED BY <1>5, <2>3, <3>1, <3>8 DEF NodeInv
  <2>. QED BY <2>2, <2>3
<1>. QED BY <1>5, <1>8, <1>9, <1>10 DEF IInv

LEMMA OtherFrameInv ==
  ASSUME IInv, NEW n \in Node, OtherFrame(n)
  PROVE  IInv'
<1>. DEFINE f == Response(n, msg, ScsExUl, 0, 4)
<1>1. /\ late' = late \union {n} /\ rxq' = Append(rxq, f)
      /\ UNCHANGED <<call, msg, ids, net, od>>
  BY DEF OtherFrame
<1>2. UNCHANGED pc BY DEF OtherFrame
<1>3. Types BY DEF IInv
<1>4. f \in Responses /\ f.node = n
  <2>1. msg \in Requests /\ ScsExUl \in Int BY <1>3 DEF Types, ScsExUl
  <2>. QED BY <2>1, ResponseType
<1>. HIDE DEF f
<1>5. rxq \in Seq(Responses) BY <1>3 DEF Types
<1>6. Types'
  <2>1. rxq' \in Seq(Responses) BY <1>1, <1>4, <1>5
  <2>. QED BY <1>1, <1>3, <2>1, TypesKept DEF Types
<1>7. CallInv' BY <1>1, <1>2 DEF IInv, CallInv, IsRequestOf
<1>8. ASSUME NEW m \in Node \ late' PROVE NodeInv(m)'
  <2>1. m # n /\ NodeInv(m) BY <1>1 DEF IInv
  <2>2. OthersMoved(m) BY <1>1, <1>4, <2>1 DEF OthersMoved
  <2>. QED BY <1>1, <1>2, <1>5, <2>1, <2>2, NodeKept
<1>. QED BY <1>6, <1>7, <1>8 DEF IInv

LEMMA StutterInv == IInv /\ UNCHANGED vars => IInv'
<1>. SUFFICES ASSUME IInv, UNCHANGED vars PROVE IInv'
  OBVIOUS
<1>1. UNCHANGED <<pc, call, msg, ids, rxq, net, od, late>> BY DEF vars
<1>2. Types' BY <1>1 DEF IInv, Types
<1>3. CallInv' BY <1>1 DEF IInv, CallInv, IsRequestOf
<1>4. ASSUME NEW n \in Node \ late PROVE NodeInv(n)'
  <2>1. NodeInv(n) /\ rxq \in Seq(Responses) BY DEF IInv, Types
  <2>2. OthersMoved(n) BY <1>1 DEF OthersMoved
  <2>. QED BY <1>1, <2>1, <2>2, NodeKept
<1>. QED BY <1>1, <1>2, <1>3, <1>4 DEF IInv

\* A node owes an answer only to the call that waits for it (canOpenWaitSDO), unless a
\* read failed or it sends unasked, and its answer is what it made of the request.
THEOREM InvCorrect == Spec => []IInv
<1>1. Init => IInv BY InitialInv
<1>2. IInv /\ [Next]_vars => IInv'
  <2>. SUFFICES ASSUME IInv, [Next]_vars PROVE IInv'
    OBVIOUS
  <2>1. CASE UNCHANGED vars BY <2>1, StutterInv
  <2>2. ASSUME NEW c \in Calls, Begin(c) PROVE IInv' BY <2>2, BeginInv
  <2>3. CASE Write BY <2>3, WriteInv
  <2>4. CASE WriteFails \/ ReadFails BY <2>4, FailsInv
  <2>5. CASE Discard BY <2>5, DiscardInv
  <2>6. CASE Receive BY <2>6, ReceiveInv
  <2>7. ASSUME NEW n \in Node, IdAdd(n) \/ IdDelete(n) PROVE IInv' BY <2>7, IdsInv
  <2>8. ASSUME NEW n \in Node, Serve(n) PROVE IInv' BY <2>8, ServeInv
  <2>9. ASSUME NEW n \in Node, OtherFrame(n) PROVE IInv' BY <2>9, OtherFrameInv
  <2>. QED BY <2>1, <2>2, <2>3, <2>4, <2>5, <2>6, <2>7, <2>8, <2>9 DEF Next
<1>. QED BY <1>1, <1>2, PTL DEF Spec

(***************************************************************************)
(* What a call that is answered returns and has done.                      *)
(***************************************************************************)
LEMMA AnsweredFacts ==
  ASSUME IInv, Answered
  PROVE  /\ Head(rxq) \in Responses /\ Fits(call.node, Head(rxq))
         /\ call \in Calls /\ msg \in Requests
         /\ IsRequestOf(msg, call) /\ msg.obj = call.obj
         /\ msg.cs = CcsExDl <=> call.op = "dl"
         /\ Takes(call.node, msg) => /\ call.obj \in DOMAIN od[call.node]
                                     /\ ObjType[call.obj] = call.type
<1>1. Head(rxq) \in Fitting(call.node) /\ IsRequestOf(msg, call)
  BY ReceivedFits DEF Answered
<1>2. call \in Calls /\ msg \in Requests BY DEF IInv, Types
<1>3. msg.obj = call.obj /\ (msg.cs = CcsExDl <=> call.op = "dl")
  BY <1>1, <1>2, RequestOf
<1>4. Takes(call.node, msg) => call.obj \in DOMAIN od[call.node]
  BY <1>2, <1>3, CallFields, TakenObject
<1>5. Head(rxq) \in Responses /\ Fits(call.node, Head(rxq)) BY <1>1 DEF Fitting
<1>. QED BY <1>1, <1>2, <1>3, <1>4, <1>5 DEF Answered

\* What Receive does, by the length of the frame.
LEMMA ReceiveEffect ==
  ASSUME Receive, call.op = "ul", GetAsserts(call.type, Head(rxq).len - 4)
  PROVE  /\ pc' = "idle" /\ ret'.rcmd = Head(rxq).cs
         /\ ret'.value = Get(call.type, Head(rxq).bytes, Head(rxq).len - 4)
BY DEF Receive

LEMMA DownloadEffect ==
  ASSUME Receive, call.op = "dl"
  PROVE  ret'.rcmd = Head(rxq).cs
BY DEF Receive

\* The bytes of a value that the response carries, and no others, are read.
LEMMA GetValue ==
  ASSUME NEW t \in {"u8", "u16", "u32", "i32"}, NEW length \in {4, Width[t]},
         NEW w \in 0 .. Byte^Width[t] - 1
  PROVE  GetAsserts(t, length) /\ Get(t, w, length) = Value(t, w)
<1>1. /\ length \in Widths /\ Width[t] \in Widths /\ Width[t] <= length
      /\ length >= 1 /\ (t # "u8" => length >= 2)
  BY DEF Width, Widths
<1>2. Low(w, length) = w BY <1>1, LowOfLow
<1>. QED BY <1>1, <1>2 DEF GetAsserts, Get

LEMMA UploadStep ==
  ASSUME IInv, Answered, call.op = "ul"
  PROVE  /\ pc' = "idle"
         /\ ret'.rcmd = IF Takes(call.node, msg) THEN ScsExUl ELSE CsAbort
         /\ ret'.rcmd = ScsExUl => ret'.value = Value(call.type, od[call.node][call.obj])
<1>. DEFINE n == call.node
            f == Head(rxq)
            length == f.len - 4
<1>1. /\ f \in Responses /\ Fits(n, f) /\ call \in Calls /\ msg.obj = call.obj
      /\ msg.cs # CcsExDl
  BY AnsweredFacts
<1>2. Receive BY DEF Answered
<1>3. call.type \in {"u8", "u16", "u32", "i32"} /\ n \in Node BY <1>1, CallFields
<1>. HIDE DEF f
<1>4. CASE Takes(n, msg)
  <2>1. n = call.node /\ call.obj \in DOMAIN od[n] /\ ObjType[call.obj] = call.type
    BY <1>4, AnsweredFacts
  <2>2. /\ f.cs = ScsExUl /\ f.bytes = od[n][call.obj]
        /\ f.len \in {8, 4 + Width[call.type]}
    BY <1>1, <1>4, <2>1 DEF Fits
  <2>3. length \in {4, Width[call.type]}
    <3>1. Width[call.type] \in Int BY <1>3, PutLengths DEF Widths
    <3>. QED BY <2>2, <3>1
  <2>4. od[n][call.obj] \in 0 .. Byte^Width[call.type] - 1
    BY <1>3, <2>1, ObjectInt DEF IInv
  <2>5. /\ GetAsserts(call.type, length)
        /\ Get(call.type, f.bytes, length) = Value(call.type, od[n][call.obj])
    BY <1>3, <2>2, <2>3, <2>4, GetValue
  <2>6. /\ pc' = "idle" /\ ret'.rcmd = f.cs
        /\ ret'.value = Get(call.type, f.bytes, length)
    BY <1>2, <2>5, ReceiveEffect DEF f
  <2>. QED BY <1>4, <2>2, <2>5, <2>6
<1>5. CASE ~Takes(n, msg)
  <2>1. f.cs = CsAbort /\ f.len = 8 BY <1>1, <1>5 DEF Fits
  <2>2. GetAsserts(call.type, length) BY <2>1 DEF GetAsserts
  <2>3. pc' = "idle" /\ ret'.rcmd = f.cs
    BY <1>2, <2>2, ReceiveEffect DEF f
  <2>. QED BY <1>5, <2>1, <2>3 DEF CsAbort, ScsExUl
<1>. QED BY <1>4, <1>5

LEMMA DownloadStep ==
  ASSUME IInv, Answered, call.op = "dl", call.type # "i32"
  PROVE  /\ ret'.rcmd = ScsExDl => od[call.node][call.obj] = Low(call.value, Width[call.type])
         /\ (call.type = "u8" \/ call.amc) /\ (call.node \in Amc => call.amc)
            /\ call.obj \in DOMAIN od[call.node] => ret'.rcmd = ScsExDl
<1>. DEFINE n == call.node
            f == Head(rxq)
            k == Width[call.type]
<1>1. /\ f \in Responses /\ Fits(n, f) /\ call \in Calls /\ IsRequestOf(msg, call)
      /\ msg.obj = call.obj /\ msg.cs = CcsExDl
  BY AnsweredFacts
<1>2. ret'.rcmd = f.cs BY DownloadEffect DEF Answered
<1>3. call.type \in {"u8", "u16", "u32", "i32"} /\ call.value \in Int BY <1>1, CallFields
<1>4. k \in Widths /\ PutLength(call.type) = k BY <1>3, PutLengths
<1>5. msg.bytes = Low(call.value, k) BY <1>1, <1>4, RequestOf
<1>. HIDE DEF f
<1>6. CASE Takes(n, msg)
  <2>1. ObjType[call.obj] = call.type BY <1>6, AnsweredFacts
  <2>2. f.cs = ScsExDl /\ od[n][call.obj] = Low(msg.bytes, k)
    BY <1>1, <1>6, <2>1 DEF Fits
  <2>3. Low(msg.bytes, k) = Low(call.value, k) BY <1>3, <1>4, <1>5, LowIdempotent
  <2>. QED BY <1>2, <2>2, <2>3
<1>7. CASE ~Takes(n, msg)
  <2>1. f.cs = CsAbort BY <1>1, <1>7 DEF Fits
  <2>2. ret'.rcmd # ScsExDl BY <1>2, <2>1 DEF CsAbort, ScsExDl
  <2>3. ASSUME call.type = "u8" \/ call.amc, call.node \in Amc => call.amc,
               call.obj \in DOMAIN od[call.node]
        PROVE  FALSE
    <3>1. ObjType[call.obj] = call.type BY <2>3 DEF Answered
    <3>2. Takes(n, msg) BY <1>1, <2>3, <3>1, KnownLengthTaken DEF IInv
    <3>. QED BY <1>7, <3>2
  <2>. QED BY <2>2, <2>3
<1>. QED BY <1>6, <1>7

(***************************************************************************)
(* An upload that is answered has the value of its object, whatever the    *)
(* length of the answer, and is refused only if the node does not take its *)
(* frame (the functions canOpenSDOWriteWait_ul_...).                       *)
(***************************************************************************)
THEOREM UploadCorrect == Spec => UploadExact
<1>. DEFINE Exact ==
       Answered /\ call.op = "ul" =>
         /\ pc' = "idle"
         /\ ret'.rcmd = IF Takes(call.node, msg) THEN ScsExUl ELSE CsAbort
         /\ ret'.rcmd = ScsExUl => ret'.value = Value(call.type, od[call.node][call.obj])
<1>1. IInv /\ [Next]_vars => [Exact]_vars BY UploadStep
<1>. QED BY <1>1, InvCorrect, PTL DEF Spec, UploadExact

(***************************************************************************)
(* A download that is acknowledged has stored its value, whatever length   *)
(* was on the stack, and one whose length is known is not refused          *)
(* (the functions canOpenSDOWriteWait_dl_...).                             *)
(***************************************************************************)
THEOREM DownloadCorrect == Spec => DownloadExact
<1>. DEFINE Exact ==
       Answered /\ call.op = "dl" /\ call.type # "i32" =>
         /\ ret'.rcmd = ScsExDl => od[call.node][call.obj] = Low(call.value, Width[call.type])
         /\ (call.type = "u8" \/ call.amc) /\ (call.node \in Amc => call.amc)
            /\ call.obj \in DOMAIN od[call.node] => ret'.rcmd = ScsExDl
<1>1. IInv /\ [Next]_vars => [Exact]_vars BY DownloadStep
<1>. QED BY <1>1, InvCorrect, PTL DEF Spec, DownloadExact
=============================================================================
