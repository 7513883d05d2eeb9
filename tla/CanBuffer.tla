------------------------------ MODULE CanBuffer ------------------------------
(***************************************************************************)
(* The ring buffer of can_buffer.c, which implements CanFifo.  It holds    *)
(* MaxSize frames, not one fewer: full and empty differ in size, not in    *)
(* head.  The code masks an index with MaxSize - 1; for a power of two     *)
(* ("should be power of 2", can_buffer.h:56) that is the remainder.        *)
(***************************************************************************)
EXTENDS Naturals, Sequences

CONSTANTS
  Frame,    \* tagged frames
  MaxSize   \* CAN_BUFFER_MAX_SIZE, 256 in the code

ASSUME FrameAssumption == Frame # {}
ASSUME SizeAssumption  == MaxSize \in Nat \ {0}

VARIABLES head, size, data, ret

vars == <<head, size, data, ret>>

Slot == 0 .. MaxSize - 1

\* Mutant: the index is not wrapped.
WrapNot(n) == n

Wrap(n) == n % MaxSize

\* Mutant: the slot after the newest frame.
TailSlotNext(h, n) == Wrap(h + n)

\* can_buf_tail: the slot of the newest of n frames when the head is h
TailSlot(h, n) == Wrap(h + n - 1)

\* A cleared buffer; what the slots hold is left from before.
Init ==
  /\ head = 0
  /\ size = 0
  /\ data \in [Slot -> Frame]
  /\ ret = 1

\* Mutant: there is room for one frame more.
PushOneMore(f) ==
  \/ size > MaxSize /\ ret' = 0 /\ UNCHANGED <<head, size, data>>
  \/ /\ size <= MaxSize
     /\ size' = size + 1
     /\ data' = [data EXCEPT ![TailSlot(head, size')] = f]
     /\ ret' = 1
     /\ UNCHANGED head

Push(f) ==
  \/ size >= MaxSize /\ ret' = 0 /\ UNCHANGED <<head, size, data>>
  \/ /\ size < MaxSize
     /\ size' = size + 1
     /\ data' = [data EXCEPT ![TailSlot(head, size')] = f]
     /\ ret' = 1
     /\ UNCHANGED head

Pop ==
  \/ size = 0 /\ ret' = 0 /\ UNCHANGED <<head, size, data>>
  \/ size # 0 /\ head' = Wrap(head + 1) /\ size' = size - 1 /\ ret' = 1 /\ UNCHANGED data

Clear == head' = 0 /\ size' = 0 /\ UNCHANGED <<data, ret>>

Next == (\E f \in Frame : Push(f)) \/ Pop \/ Clear

Spec == Init /\ [][Next]_vars
-----------------------------------------------------------------------------

\* The types of the variables.
TypeOK ==
  /\ head \in Slot
  /\ size \in 0 .. MaxSize
  /\ data \in [Slot -> Frame]
  /\ ret \in {0, 1}

\* The frames in the buffer, from the head on.
Contents == [i \in 1 .. size |-> data[Wrap(head + i - 1)]]

Fifo == INSTANCE CanFifo WITH fifo <- Contents, Capacity <- MaxSize

(***************************************************************************)
(* The ring buffer is a queue of MaxSize frames: no frame is lost,         *)
(* overwritten or delivered out of order, also when the indices have       *)
(* wrapped around and when the buffer is full (can_buffer.c:58-130).       *)
(***************************************************************************)
ImplementsFifo == Fifo!Spec
=============================================================================
