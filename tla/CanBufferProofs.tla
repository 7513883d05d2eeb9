--------------------------- MODULE CanBufferProofs ---------------------------
(***************************************************************************)
(* CanBuffer implements CanFifo, for every set of frames and every size.   *)
(* The type invariant is inductive and is all the refinement needs.        *)
(***************************************************************************)
EXTENDS CanBuffer, SequenceTheorems, TLAPS

\* The remainder of an index that is past the end by less than one round.
LEMMA WrapValue ==
  ASSUME NEW n \in 0 .. 2 * MaxSize - 1
  PROVE  Wrap(n) = IF n < MaxSize THEN n ELSE n - MaxSize
BY SizeAssumption DEF Wrap

LEMMA WrapInSlot ==
  ASSUME NEW n \in 0 .. 2 * MaxSize - 1
  PROVE  Wrap(n) \in Slot
BY WrapValue, SizeAssumption DEF Slot

\* Frames of the buffer that are not the same lie in different slots.
LEMMA SlotsDiffer ==
  ASSUME NEW h \in Slot, NEW i \in 1 .. MaxSize, NEW j \in 1 .. MaxSize, i # j
  PROVE  Wrap(h + i - 1) # Wrap(h + j - 1)
<1>1. h + i - 1 \in 0 .. 2 * MaxSize - 1 /\ h + j - 1 \in 0 .. 2 * MaxSize - 1
  BY SizeAssumption DEF Slot
<1>2. /\ Wrap(h + i - 1) = IF h + i - 1 < MaxSize THEN h + i - 1 ELSE h + i - 1 - MaxSize
      /\ Wrap(h + j - 1) = IF h + j - 1 < MaxSize THEN h + j - 1 ELSE h + j - 1 - MaxSize
  BY <1>1, SizeAssumption DEF Wrap, Slot
<1> QED BY <1>2, SizeAssumption DEF Slot

\* Moving the head to the next slot numbers the slots one lower.
LEMMA NextHead ==
  ASSUME NEW h \in Slot, NEW i \in 1 .. MaxSize - 1
  PROVE  Wrap(Wrap(h + 1) + i - 1) = Wrap(h + i)
<1>1. h + 1 \in 0 .. 2 * MaxSize - 1 /\ h + i \in 0 .. 2 * MaxSize - 1
  BY SizeAssumption DEF Slot
<1>2. /\ Wrap(h + 1) = IF h + 1 < MaxSize THEN h + 1 ELSE h + 1 - MaxSize
      /\ Wrap(h + i) = IF h + i < MaxSize THEN h + i ELSE h + i - MaxSize
  BY <1>1, SizeAssumption DEF Wrap, Slot
<1>3. CASE h + 1 < MaxSize
  <2>1. Wrap(h + 1) + i - 1 = h + i
    BY <1>2, <1>3, SizeAssumption DEF Slot
  <2> QED BY <2>1
<1>4. CASE ~(h + 1 < MaxSize)
  <2>1. Wrap(h + 1) + i - 1 = i - 1 /\ Wrap(h + i) = i - 1
    BY <1>2, <1>4, SizeAssumption DEF Slot
  <2>2. i - 1 \in 0 .. 2 * MaxSize - 1 /\ i - 1 < MaxSize
    BY SizeAssumption
  <2> QED BY <2>1, <2>2, WrapValue
<1> QED BY <1>3, <1>4
-----------------------------------------------------------------------------

LEMMA TypeStep ==
  ASSUME TypeOK, [Next]_vars
  PROVE  TypeOK'
<1>1. ASSUME NEW f \in Frame, Push(f) PROVE TypeOK'
  <2>1. CASE size < MaxSize
    <3>1. head + size' - 1 \in 0 .. 2 * MaxSize - 1
      BY <1>1, <2>1, SizeAssumption DEF Push, TypeOK, Slot
    <3>2. TailSlot(head, size') \in Slot
      BY <3>1, WrapInSlot DEF TailSlot
    <3> QED BY <1>1, <2>1, <3>2, SizeAssumption DEF Push, TypeOK
  <2>2. CASE ~(size < MaxSize)
    BY <1>1, <2>2, SizeAssumption DEF Push, TypeOK
  <2> QED BY <2>1, <2>2
<1>2. CASE Pop
  <2>1. Wrap(head + 1) \in Slot
    <3>1. head + 1 \in 0 .. 2 * MaxSize - 1
      BY SizeAssumption DEF TypeOK, Slot
    <3> QED BY <3>1, WrapInSlot
  <2> QED BY <1>2, <2>1, SizeAssumption DEF Pop, TypeOK
<1>3. CASE Clear
  BY <1>3, SizeAssumption DEF Clear, TypeOK, Slot
<1>4. CASE UNCHANGED vars
  BY <1>4 DEF vars, TypeOK
<1> QED BY <1>1, <1>2, <1>3, <1>4 DEF Next

(***************************************************************************)
(* The head stays in the buffer and the number of frames within its size.  *)
(***************************************************************************)
THEOREM TypeCorrect == Spec => []TypeOK
<1>1. Init => TypeOK
  BY SizeAssumption DEF Init, TypeOK, Slot
<1>2. TypeOK /\ [Next]_vars => TypeOK'
  BY TypeStep
<1> QED BY <1>1, <1>2, PTL DEF Spec
-----------------------------------------------------------------------------

LEMMA ContentsType ==
  ASSUME TypeOK
  PROVE  /\ Contents \in Seq(Frame)
         /\ Len(Contents) = size
         /\ DOMAIN Contents = 1 .. size
<1>1. \A i \in 1 .. size : Wrap(head + i - 1) \in Slot
  <2> TAKE i \in 1 .. size
  <2>1. head + i - 1 \in 0 .. 2 * MaxSize - 1
    BY SizeAssumption DEF TypeOK, Slot
  <2> QED BY <2>1, WrapInSlot
<1>2. \A i \in 1 .. size : data[Wrap(head + i - 1)] \in Frame
  BY <1>1 DEF TypeOK
<1> QED BY <1>2, SizeAssumption DEF Contents, TypeOK

LEMMA PushImplements ==
  ASSUME TypeOK, TypeOK', NEW f \in Frame, Push(f)
  PROVE  Fifo!Push(f)
<1>1. CASE size >= MaxSize
  <2>1. size = MaxSize /\ ret' = 0 /\ Contents' = Contents
    BY <1>1, SizeAssumption DEF Push, TypeOK, Contents
  <2> QED BY <2>1, ContentsType DEF Fifo!Push
<1>2. CASE size < MaxSize
  <2>1. /\ size' = size + 1 /\ head' = head /\ ret' = 1
        /\ data' = [data EXCEPT ![Wrap(head + size)] = f]
    <3>1. head + (size + 1) - 1 = head + size
      BY SizeAssumption DEF TypeOK, Slot
    <3> QED BY <1>2, <3>1, SizeAssumption DEF Push, TailSlot, TypeOK
  <2>2. \A i \in 1 .. size : Contents'[i] = Contents[i]
    <3> TAKE i \in 1 .. size
    <3>1. Wrap(head + i - 1) # Wrap(head + (size + 1) - 1)
      BY <1>2, SlotsDiffer, SizeAssumption DEF TypeOK
    <3>2. head + (size + 1) - 1 = head + size
      BY SizeAssumption DEF TypeOK, Slot
    <3>3. data'[Wrap(head + i - 1)] = data[Wrap(head + i - 1)]
      <4>1. head + i - 1 \in 0 .. 2 * MaxSize - 1
        BY SizeAssumption DEF TypeOK, Slot
      <4>2. Wrap(head + i - 1) \in Slot
        BY <4>1, WrapInSlot
      <4> QED BY <2>1, <3>1, <3>2, <4>2 DEF TypeOK
    <3> QED BY <2>1, <3>3, SizeAssumption DEF Contents, TypeOK
  <2>3. Contents'[size + 1] = f
    <3>1. head + (size + 1) - 1 = head + size /\ head + size \in 0 .. 2 * MaxSize - 1
      BY <1>2, SizeAssumption DEF TypeOK, Slot
    <3>2. data'[Wrap(head + size)] = f
      BY <2>1, <3>1, WrapInSlot DEF TypeOK
    <3> QED BY <2>1, <3>1, <3>2, SizeAssumption DEF Contents, TypeOK
  <2>4. Contents' \in Seq(Frame) /\ Len(Contents') = size + 1
    BY <2>1, ContentsType DEF TypeOK, Contents
  <2>5. Contents \in Seq(Frame) /\ Len(Contents) = size /\ size \in Nat
    BY ContentsType DEF TypeOK
  <2>6. Contents' = Append(Contents, f)
    BY <2>2, <2>3, <2>4, <2>5
  <2> QED BY <1>2, <2>1, <2>5, <2>6 DEF Fifo!Push
<1> QED BY <1>1, <1>2, SizeAssumption DEF TypeOK

LEMMA PopImplements ==
  ASSUME TypeOK, TypeOK', Pop
  PROVE  Fifo!Pop
<1>1. CASE size = 0
  <2>1. Contents' = Contents /\ Contents = <<>> /\ ret' = 0
    BY <1>1, ContentsType DEF Pop, Contents
  <2> QED BY <2>1 DEF Fifo!Pop
<1>2. CASE size # 0
  <2>1. size' = size - 1 /\ head' = Wrap(head + 1) /\ data' = data /\ ret' = 1
    BY <1>2 DEF Pop
  <2>2. size \in Nat /\ size - 1 \in Nat /\ size <= MaxSize /\ MaxSize \in Nat
    BY <1>2, SizeAssumption DEF TypeOK
  <2>3. \A i \in 1 .. size - 1 : Contents'[i] = Contents[i + 1]
    <3> TAKE i \in 1 .. size - 1
    <3>1. i \in 1 .. MaxSize - 1 /\ i + 1 \in 1 .. size /\ head \in Slot /\ head + (i + 1) - 1 = head + i
      BY <2>2 DEF TypeOK, Slot
    <3>2. Wrap(Wrap(head + 1) + i - 1) = Wrap(head + i)
      BY <3>1, NextHead
    <3>3. Contents'[i] = data[Wrap(Wrap(head + 1) + i - 1)]
      BY <2>1 DEF Contents
    <3>4. Contents[i + 1] = data[Wrap(head + i)]
      BY <3>1 DEF Contents
    <3> QED BY <3>2, <3>3, <3>4
  <2>4. Contents \in Seq(Frame) /\ Len(Contents) = size /\ Contents # <<>>
    BY <1>2, ContentsType
  <2>5. Contents' \in Seq(Frame) /\ Len(Contents') = size - 1
    <3>1. DOMAIN Contents' = 1 .. size - 1
      BY <2>1 DEF Contents
    <3>2. \A i \in 1 .. size - 1 : Contents'[i] \in Frame
      BY <2>2, <2>3, <2>4
    <3>3. Contents' = [i \in 1 .. size - 1 |-> Contents'[i]]
      BY <2>1 DEF Contents
    <3> QED BY <2>2, <3>1, <3>2, <3>3
  <2>6. Contents' = Tail(Contents)
    BY <2>2, <2>3, <2>4, <2>5
  <2> QED BY <2>1, <2>4, <2>6 DEF Fifo!Pop
<1> QED BY <1>1, <1>2

(***************************************************************************)
(* Every initial state of the ring buffer is an empty queue, and every     *)
(* operation on the ring buffer is the operation on the queue.             *)
(***************************************************************************)
THEOREM RefinesFifo == Spec => ImplementsFifo
<1>1. Init => Fifo!Init
  BY DEF Init, Fifo!Init, Contents
<1>2. TypeOK /\ TypeOK' /\ [Next]_vars => [Fifo!Next]_<<Contents, ret>>
  <2> SUFFICES ASSUME TypeOK, TypeOK', [Next]_vars PROVE [Fifo!Next]_<<Contents, ret>>
    OBVIOUS
  <2>1. ASSUME NEW f \in Frame, Push(f) PROVE Fifo!Next
    BY <2>1, PushImplements DEF Fifo!Next
  <2>2. CASE Pop
    BY <2>2, PopImplements DEF Fifo!Next
  <2>3. CASE Clear
    BY <2>3 DEF Clear, Contents, Fifo!Next, Fifo!Clear
  <2>4. CASE UNCHANGED vars
    BY <2>4 DEF vars, Contents
  <2> QED BY <2>1, <2>2, <2>3, <2>4 DEF Next
<1> QED BY <1>1, <1>2, TypeCorrect, PTL DEF Spec, ImplementsFifo, Fifo!Spec
=============================================================================
