------------------------------- MODULE CanFifo -------------------------------
(***************************************************************************)
(* What can_buffer.h promises: a first-in first-out queue of CAN frames    *)
(* with a fixed capacity, whose operations report whether they succeeded.  *)
(***************************************************************************)
EXTENDS Naturals, Sequences

CONSTANTS Frame, Capacity

VARIABLES
  fifo,  \* the frames in the buffer, oldest first
  ret    \* what the last operation returned

Init == fifo = <<>> /\ ret = 1

Push(f) ==
  \/ Len(fifo) < Capacity /\ fifo' = Append(fifo, f) /\ ret' = 1
  \/ Len(fifo) = Capacity /\ UNCHANGED fifo /\ ret' = 0

Pop ==
  \/ fifo # <<>> /\ fifo' = Tail(fifo) /\ ret' = 1
  \/ fifo = <<>> /\ UNCHANGED fifo /\ ret' = 0

Clear == fifo' = <<>> /\ UNCHANGED ret

Next == (\E f \in Frame : Push(f)) \/ Pop \/ Clear

Spec == Init /\ [][Next]_<<fifo, ret>>
=============================================================================
