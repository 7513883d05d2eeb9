------------------------------ MODULE PosLimit -------------------------------
(***************************************************************************)
(* The velocity can402 computes for one drive from the reference and the   *)
(* last position feedback: pos_limit and the clamping in process           *)
(* (can402.c).  Between the soft and the hard limit a velocity away from   *)
(* the limit is added that grows without bound; beyond the hard limit the  *)
(* reference is ignored.  The limits come from the drive, which setup asks *)
(* for the range it travels (canmat_402_init, ds402.c), and nothing checks *)
(* them: they cross when the range is shorter than four margins.           *)
(*                                                                         *)
(* Positions are in the unit of the drive, so that pos_factor is 1.        *)
(* A double is a quotient num / den with den >= 0; den = 0 is an infinity  *)
(* with the sign of num, as in IEEE arithmetic.  Rounding is left out.     *)
(***************************************************************************)
EXTENDS Integers

CONSTANTS
  Range,      \* the lower and upper ends of the ranges drives report
  Margin,     \* 5 degrees
  VelMax,     \* VEL_MAX; VEL_MIN is -VelMax
  VelFactor,  \* vel_factor
  Pos,        \* actual_pos
  Ref         \* the values of a velocity reference

ASSUME RangeAssumption == Range \subseteq Int \X Int /\ Margin \in Nat \ {0}
ASSUME VelAssumption == VelMax \in Nat \ {0} /\ VelFactor \in Nat \ {0}
ASSUME InputAssumption == Pos \subseteq Int /\ Ref \subseteq Int

VARIABLES
  lim,        \* pos_min_hard, pos_min_soft, pos_max_soft and pos_max_hard of the drive
  pos,        \* drive->actual_pos
  u,          \* msg_ref->u[i]
  vl_target   \* the velocity computed from them

vars == <<lim, pos, u, vl_target>>

\* The limits canmat_402_init computes from an uploaded range
LimitsOf(min, max) ==
  [min_hard |-> min + Margin, min_soft |-> min + 2 * Margin,
   max_soft |-> max - 2 * Margin, max_hard |-> max - Margin]

VelMin == -VelMax

\* IEEE division; a difference of equal doubles is +0.
Quotient(a, b) ==
  IF b >= 0 THEN [num |-> a, den |-> b] ELSE [num |-> -a, den |-> -b]

Negative(q) == [q EXCEPT !.num = -@]

\* n + q; an infinity absorbs n
Plus(n, q) == IF q.den = 0 THEN q ELSE [q EXCEPT !.num = n * q.den + @]

\* Mutant: the offset at the lower limit has the sign of the one at the upper limit.
pos_limit_unsigned(l, p, val) ==
  IF p > l.max_soft
    THEN IF p > l.max_hard THEN [num |-> -1, den |-> 0]
         ELSE Plus(val, Quotient(p - l.max_soft, p - l.max_hard))
  ELSE IF p < l.min_soft
    THEN IF p < l.min_hard THEN [num |-> 1, den |-> 0]
         ELSE Plus(val, Quotient(p - l.min_soft, p - l.min_hard))
  ELSE [num |-> val, den |-> 1]

\* Mutant: the upper limit pushes with the distance to the hard limit.
pos_limit_swapped(l, p, val) ==
  IF p > l.max_soft
    THEN IF p > l.max_hard THEN [num |-> -1, den |-> 0]
         ELSE Plus(val, Quotient(p - l.max_hard, p - l.max_soft))
  ELSE IF p < l.min_soft
    THEN IF p < l.min_hard THEN [num |-> 1, den |-> 0]
         ELSE Plus(val, Negative(Quotient(p - l.min_soft, p - l.min_hard)))
  ELSE [num |-> val, den |-> 1]

pos_limit(l, p, val) ==
  IF p > l.max_soft
    THEN IF p > l.max_hard THEN [num |-> -1, den |-> 0]
         ELSE Plus(val, Quotient(p - l.max_soft, p - l.max_hard))
  ELSE IF p < l.min_soft
    THEN IF p < l.min_hard THEN [num |-> 1, den |-> 0]
         ELSE Plus(val, Negative(Quotient(p - l.min_soft, p - l.min_hard)))
  ELSE [num |-> val, den |-> 1]

\* The cast to an integer rounds towards 0.
Truncated(q) == IF q.num >= 0 THEN q.num \div q.den ELSE -((-q.num) \div q.den)

Clamped(q) ==
  IF q.num * VelFactor > VelMax * q.den THEN VelMax
  ELSE IF q.num * VelFactor < VelMin * q.den THEN VelMin
  ELSE Truncated([q EXCEPT !.num = @ * VelFactor])

Target(l, p, val) == Clamped(pos_limit(l, p, val))

Init ==
  /\ lim \in {LimitsOf(r[1], r[2]) : r \in Range}
  /\ pos \in Pos
  /\ u \in Ref
  /\ vl_target = Target(lim, pos, u)

\* The next reference, with the position the feedback thread has stored by then.
Process ==
  /\ pos' \in Pos
  /\ u' \in Ref
  /\ vl_target' = Target(lim, pos', u')
  /\ UNCHANGED lim

Next == Process

Spec == Init /\ [][Next]_vars
-----------------------------------------------------------------------------

(***************************************************************************)
(* From one command to the next, a drive that has come closer to the upper *)
(* limit, or as close, and is asked for no more is not made to go up       *)
(* faster, through all ranges and limits, in order or crossed              *)
(* (can402.c:467-531).  At the upper hard limit itself this fails, see     *)
(* NotPushedOut.                                                           *)
(***************************************************************************)
Monotone ==
  [][ lim.max_hard \notin {pos, pos'} /\ pos' >= pos /\ u' <= u => vl_target' <= vl_target ]_vars

(***************************************************************************)
(* Past a soft limit the drive gets at most the velocity away from it that *)
(* was asked for on top of a push back: it is slowed down, never sped up,  *)
(* towards the limit (can402.c:471-490), and what the drive is sent is a   *)
(* velocity that fits the 16 bits it has for it, although the push is      *)
(* without bound (can402.c:495).  Where the limits cross, the code tests   *)
(* the upper one first: past both soft limits a drive is kept from going   *)
(* up and not from going down.                                             *)
(***************************************************************************)
SlowedTowardsLimit ==
  /\ vl_target \in VelMin .. VelMax
  /\ pos > lim.max_soft /\ pos # lim.max_hard => vl_target <= Clamped([num |-> u, den |-> 1])
  /\ pos < lim.min_soft /\ pos <= lim.max_soft => vl_target >= Clamped([num |-> u, den |-> 1])

(***************************************************************************)
(* "position limit" (can402.c:520): a drive that has reached a hard limit  *)
(* is not driven further out, when its limits are in order.                *)
(***************************************************************************)
NotPushedOut ==
  lim.min_soft < lim.max_soft =>
    /\ pos >= lim.max_hard => vl_target <= 0
    /\ pos <= lim.min_hard => vl_target >= 0
=============================================================================
