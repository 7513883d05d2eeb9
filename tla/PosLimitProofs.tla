--------------------------- MODULE PosLimitProofs ----------------------------
(***************************************************************************)
(* Theorems about PosLimit, for all ranges drives may report, with limits  *)
(* in order or crossed, all margins, velocity bounds and factors, and all  *)
(* positions and references.                                               *)
(***************************************************************************)
EXTENDS PosLimit, TLAPS

(***************************************************************************)
(* Products and quotients of integers.                                     *)
(***************************************************************************)
LEMMA Scale ==
  ASSUME NEW a \in Int, NEW b \in Int, a <= b, NEW m \in Nat
  PROVE  a * m <= b * m
OBVIOUS

LEMMA Unscale ==
  ASSUME NEW a \in Int, NEW b \in Int, NEW m \in Nat \ {0}, a * m < b * m
  PROVE  a < b
<1> SUFFICES ASSUME b <= a PROVE FALSE
  OBVIOUS
<1>1. b * m <= a * m
  BY Scale
<1>2. a * m \in Int /\ b * m \in Int
  OBVIOUS
<1> QED BY <1>1, <1>2

LEMMA DivBounds ==
  ASSUME NEW a \in Nat, NEW d \in Nat \ {0}
  PROVE  /\ a \div d \in Nat
         /\ (a \div d) * d <= a
         /\ a < ((a \div d) + 1) * d
OBVIOUS

\* Two quotients a / d <= b / e, of which at most one is an infinity or which are the same
\* infinity: when the smaller one is over the bound, the other one is.
LEMMA OverMonotone ==
  ASSUME NEW a \in Int, NEW d \in Nat, NEW b \in Int, NEW e \in Nat,
         d = 0 => a # 0, e = 0 => b # 0, a * e <= b * d, d = 0 /\ e = 0 => a <= b,
         NEW F \in Nat \ {0}, NEW V \in Nat \ {0}, a * F > V * d
  PROVE  b * F > V * e
<1>1. CASE d = 0
  <2>1. a * F > 0
    BY <1>1
  <2>2. a > 0
    <3> SUFFICES ASSUME a <= 0 PROVE FALSE
      OBVIOUS
    <3>1. a * F <= 0 * F
      BY Scale
    <3> QED BY <2>1, <3>1
  <2>3. e = 0
    <3> SUFFICES ASSUME e >= 1 PROVE FALSE
      OBVIOUS
    <3>1. 1 * a <= e * a
      BY <2>2, Scale
    <3> QED BY <1>1, <2>2, <3>1
  <2>4. b >= 1
    BY <1>1, <2>2, <2>3
  <2>5. 1 * F <= b * F
    BY <2>4, Scale
  <2> QED BY <2>3, <2>5
<1>2. CASE d # 0 /\ e = 0
  <2>1. 0 * d <= b * d
    BY <1>2
  <2>2. b >= 1
    <3> SUFFICES ASSUME b <= -1 PROVE FALSE
      BY <1>2
    <3>1. b * d <= (-1) * d
      BY Scale
    <3> QED BY <1>2, <2>1, <3>1
  <2>3. 1 * F <= b * F
    BY <2>2, Scale
  <2> QED BY <1>2, <2>3
<1>3. CASE d # 0 /\ e # 0
  <2>1. (V * d + 1) * e <= (a * F) * e
    <3>1. V * d + 1 \in Int /\ a * F \in Int /\ V * d + 1 <= a * F
      OBVIOUS
    <3> QED BY <3>1, Scale
  <2>2. (a * e) * F <= (b * d) * F
    <3>1. a * e \in Int /\ b * d \in Int
      OBVIOUS
    <3> QED BY <3>1, Scale
  <2>3. (V * d) * e < (b * d) * F
    <3>1. (V * d + 1) * e = (V * d) * e + e
      OBVIOUS
    <3>2. (a * F) * e = (a * e) * F
      OBVIOUS
    <3>3. (V * d) * e \in Int /\ (a * e) * F \in Int /\ (b * d) * F \in Int
      OBVIOUS
    <3> QED BY <1>3, <2>1, <2>2, <3>1, <3>2, <3>3
  <2>4. (V * e) * d < (b * F) * d
    <3>1. (V * d) * e = (V * e) * d /\ (b * d) * F = (b * F) * d
      OBVIOUS
    <3> QED BY <2>3, <3>1
  <2>5. V * e \in Int /\ b * F \in Int
    OBVIOUS
  <2> QED BY <1>3, <2>4, <2>5, Unscale
<1> QED BY <1>1, <1>2, <1>3

\* The same below: the negated quotients in the other order
LEMMA UnderMonotone ==
  ASSUME NEW a \in Int, NEW d \in Nat, NEW b \in Int, NEW e \in Nat,
         d = 0 => a # 0, e = 0 => b # 0, a * e <= b * d, d = 0 /\ e = 0 => a <= b,
         NEW F \in Nat \ {0}, NEW V \in Nat \ {0}, b * F < (-V) * e
  PROVE  a * F < (-V) * d
<1>1. (-b) * d <= (-a) * e /\ (-b) * F > V * e
  OBVIOUS
<1>2. (-a) * F > V * d
  BY <1>1, OverMonotone
<1> QED BY <1>2
-----------------------------------------------------------------------------

(***************************************************************************)
(* The cast.                                                               *)
(***************************************************************************)
Finite == [num : Int, den : Nat \ {0}]

LEMMA TruncatedBounds ==
  ASSUME NEW q \in Finite
  PROVE  /\ Truncated(q) \in Int
         /\ q.num >= 0 => /\ 0 <= Truncated(q)
                          /\ Truncated(q) * q.den <= q.num
                          /\ q.num < (Truncated(q) + 1) * q.den
         /\ q.num < 0 => /\ Truncated(q) <= 0
                         /\ q.num <= Truncated(q) * q.den
                         /\ (Truncated(q) - 1) * q.den < q.num
<1> DEFINE a == q.num  d == q.den
<1>1. a \in Int /\ d \in Nat \ {0}
  BY DEF Finite
<1>2. CASE a >= 0
  <2>1. Truncated(q) = a \div d
    BY <1>2 DEF Truncated
  <2>2. a \in Nat
    BY <1>1, <1>2
  <2> HIDE DEF a, d
  <2>3. a \div d \in Nat /\ (a \div d) * d <= a /\ a < ((a \div d) + 1) * d
    BY <1>1, <2>2, DivBounds
  <2>4. /\ Truncated(q) \in Int /\ 0 <= Truncated(q)
        /\ Truncated(q) * d <= a /\ a < (Truncated(q) + 1) * d
    BY <2>1, <2>3
  <2> QED BY <1>1, <1>2, <2>4 DEF a, d
<1>3. CASE a < 0
  <2>1. Truncated(q) = -((-a) \div d)
    BY <1>1, <1>3 DEF Truncated
  <2> HIDE DEF a, d
  <2> DEFINE m == (-a) \div d
  <2>2. -a \in Nat
    BY <1>1, <1>3
  <2>3. m \in Nat /\ m * d <= -a /\ -a < (m + 1) * d
    BY <1>1, <2>2, DivBounds
  <2>4. Truncated(q) = -m
    BY <2>1
  <2> HIDE DEF m
  <2>5. (-m) * d = -(m * d) /\ (-m - 1) * d = -((m + 1) * d)
    BY <1>1, <2>3
  <2>6. m * d \in Int /\ (m + 1) * d \in Int
    BY <1>1, <2>3
  <2>7. /\ -m \in Int /\ -m <= 0 /\ a <= (-m) * d /\ (-m - 1) * d < a
    BY <1>1, <2>3, <2>5, <2>6
  <2> QED BY <1>1, <1>3, <2>4, <2>7 DEF a, d
<1> QED BY <1>1, <1>2, <1>3

LEMMA TruncatedMonotone ==
  ASSUME NEW q \in Finite, NEW r \in Finite, q.num * r.den <= r.num * q.den
  PROVE  Truncated(q) <= Truncated(r)
<1> DEFINE a == q.num  d == q.den  b == r.num  e == r.den
           s == Truncated(q)  t == Truncated(r)
<1>1. a \in Int /\ b \in Int /\ d \in Nat \ {0} /\ e \in Nat \ {0}
  BY DEF Finite
<1>2. s \in Int /\ t \in Int
  BY TruncatedBounds
<1>3. a >= 0 => 0 <= s /\ s * d <= a
  BY TruncatedBounds
<1>4. a < 0 => s <= 0 /\ (s - 1) * d < a
  BY TruncatedBounds
<1>5. b >= 0 => 0 <= t /\ b < (t + 1) * e
  BY TruncatedBounds
<1>6. b < 0 => t <= 0 /\ b <= t * e
  BY TruncatedBounds
<1>7. a * e <= b * d
  OBVIOUS
<1> SUFFICES s <= t
  OBVIOUS
<1> HIDE DEF a, b, d, e, s, t
<1>8. d * e \in Nat \ {0} /\ a * e \in Int /\ b * d \in Int
  <2>1. d * 1 <= d * e
    BY <1>1, Scale
  <2> QED BY <1>1, <2>1
<1>9. CASE a < 0 /\ b >= 0
  BY <1>2, <1>4, <1>5, <1>9
<1>10. CASE a >= 0 /\ b < 0
  <2>1. 0 * e <= a * e /\ b * d <= (-1) * d
    BY <1>1, <1>10, Scale
  <2> QED BY <1>1, <1>7, <1>8, <2>1
<1>11. CASE a >= 0 /\ b >= 0
  <2>1. (s * d) * e <= a * e
    BY <1>1, <1>2, <1>3, <1>11, Scale
  <2>2. (b + 1) * d <= ((t + 1) * e) * d
    BY <1>1, <1>2, <1>5, <1>11, Scale
  <2>3. s * (d * e) < (t + 1) * (d * e)
    <3>1. (b + 1) * d = b * d + d
      BY <1>1
    <3>2. (s * d) * e = s * (d * e) /\ ((t + 1) * e) * d = (t + 1) * (d * e)
      BY <1>1, <1>2
    <3>3. s * (d * e) \in Int /\ (t + 1) * (d * e) \in Int
      BY <1>1, <1>2
    <3> QED BY <1>1, <1>7, <1>8, <2>1, <2>2, <3>1, <3>2, <3>3
  <2>4. s < t + 1
    BY <1>2, <1>8, <2>3, Unscale
  <2> QED BY <1>2, <2>4
<1>12. CASE a < 0 /\ b < 0
  <2>1. b * d <= (t * e) * d
    BY <1>1, <1>2, <1>6, <1>12, Scale
  <2>2. ((s - 1) * d + 1) * e <= a * e
    BY <1>1, <1>2, <1>4, <1>12, Scale
  <2>3. (s - 1) * (d * e) < t * (d * e)
    <3>1. ((s - 1) * d + 1) * e = ((s - 1) * d) * e + e
      BY <1>1, <1>2
    <3>2. ((s - 1) * d) * e = (s - 1) * (d * e) /\ (t * e) * d = t * (d * e)
      BY <1>1, <1>2
    <3>3. (s - 1) * (d * e) \in Int /\ t * (d * e) \in Int
      BY <1>1, <1>2
    <3> QED BY <1>1, <1>7, <1>8, <2>1, <2>2, <3>1, <3>2, <3>3
  <2>4. s - 1 < t
    BY <1>2, <1>8, <2>3, Unscale
  <2> QED BY <1>2, <2>4
<1> QED BY <1>1, <1>9, <1>10, <1>11, <1>12
-----------------------------------------------------------------------------

(***************************************************************************)
(* Clamping.  A quotient of 0 and 0 is no double here: it is not computed. *)
(***************************************************************************)
Double == {q \in [num : Int, den : Nat] : q.den = 0 => q.num # 0}

NotMore(q, r) == /\ q.num * r.den <= r.num * q.den
                 /\ q.den = 0 /\ r.den = 0 => q.num <= r.num

Over(q)  == q.num * VelFactor > VelMax * q.den
Under(q) == q.num * VelFactor < VelMin * q.den

Scaled(q) == [q EXCEPT !.num = @ * VelFactor]

LEMMA Factors == VelFactor \in Nat \ {0} /\ VelMax \in Nat \ {0} /\ VelMin = -VelMax
BY VelAssumption DEF VelMin

LEMMA ClampedCases ==
  ASSUME NEW q \in Double
  PROVE  /\ Over(q) => Clamped(q) = VelMax
         /\ Under(q) /\ ~Over(q) => Clamped(q) = VelMin
         /\ ~Over(q) /\ ~Under(q) => Clamped(q) = Truncated(Scaled(q))
BY DEF Clamped, Over, Under, Scaled

\* A double that is within the bounds is finite.
LEMMA ScaledFinite ==
  ASSUME NEW q \in Double, ~Over(q), ~Under(q)
  PROVE  /\ q.den # 0
         /\ Scaled(q) \in Finite
         /\ Scaled(q).num = q.num * VelFactor /\ Scaled(q).den = q.den
<1>1. q.num \in Int /\ q.den \in Nat /\ (q.den = 0 => q.num # 0)
  BY DEF Double
<1>2. q.num * VelFactor \in Int
  BY <1>1, Factors
<1>3. q.den # 0
  <2> SUFFICES ASSUME q.den = 0 PROVE FALSE
    OBVIOUS
  <2>1. q.num * VelFactor = 0
    <3>1. VelMax * q.den = 0 /\ VelMin * q.den = 0
      BY Factors
    <3> QED BY <1>2, <3>1 DEF Over, Under
  <2>2. CASE q.num >= 1
    <3>1. 1 * VelFactor <= q.num * VelFactor
      BY <1>1, <2>2, Scale, Factors
    <3> QED BY <2>1, <3>1, Factors
  <2>3. CASE q.num <= -1
    <3>1. q.num * VelFactor <= (-1) * VelFactor
      BY <1>1, <2>3, Scale, Factors
    <3> QED BY <2>1, <3>1, Factors
  <2> QED BY <1>1, <2>2, <2>3
<1>4. Scaled(q) = [num |-> q.num * VelFactor, den |-> q.den]
  BY DEF Scaled, Double
<1> QED BY <1>1, <1>2, <1>3, <1>4 DEF Finite

LEMMA ClampedType ==
  ASSUME NEW q \in Double
  PROVE  Clamped(q) \in VelMin .. VelMax
<1>1. CASE Over(q) \/ Under(q)
  BY <1>1, ClampedCases, Factors
<1>2. CASE ~Over(q) /\ ~Under(q)
  <2> DEFINE x == Scaled(q).num  d == Scaled(q).den  t == Truncated(Scaled(q))
  <2>1. x \in Int /\ d \in Nat \ {0}
    BY <1>2, ScaledFinite DEF Finite
  <2>2. x <= VelMax * d /\ VelMin * d <= x
    <3>1. VelMax * q.den \in Int /\ VelMin * q.den \in Int
      BY Factors DEF Double
    <3> QED BY <1>2, <2>1, <3>1, ScaledFinite DEF Over, Under
  <2>3. /\ t \in Int
        /\ x >= 0 => 0 <= t /\ t * d <= x
        /\ x < 0 => t <= 0 /\ (t - 1) * d < x
           /\ x <= t * d
    BY <1>2, ScaledFinite, TruncatedBounds
  <2>4. Clamped(q) = t
    BY <1>2, ClampedCases
  <2> HIDE DEF x, d, t
  <2>5. CASE x >= 0
    <3>1. t * d < (VelMax + 1) * d
      <4>1. (VelMax + 1) * d = VelMax * d + d
        BY <2>1, Factors
      <4>2. t * d \in Int /\ VelMax * d \in Int
        BY <2>1, <2>3, Factors
      <4> QED BY <2>1, <2>2, <2>3, <2>5, <4>1, <4>2
    <3>2. t < VelMax + 1
      BY <2>1, <2>3, <3>1, Unscale, Factors
    <3> QED BY <2>3, <2>4, <2>5, <3>2, Factors
  <2>6. CASE x < 0
    <3>1. (VelMin - 1) * d < t * d
      <4>1. (VelMin - 1) * d = VelMin * d - d
        BY <2>1, Factors
      <4>2. t * d \in Int /\ VelMin * d \in Int
        BY <2>1, <2>3, Factors
      <4> QED BY <2>1, <2>2, <2>3, <2>6, <4>1, <4>2
    <3>2. VelMin - 1 < t
      BY <2>1, <2>3, <3>1, Unscale, Factors
    <3> QED BY <2>3, <2>4, <2>6, <3>2, Factors
  <2> QED BY <2>1, <2>5, <2>6
<1> QED BY <1>1, <1>2

(***************************************************************************)
(* A velocity that is not more is not more after scaling, clamping and the *)
(* cast.                                                                   *)
(***************************************************************************)
LEMMA ClampedMonotone ==
  ASSUME NEW q \in Double, NEW r \in Double, NotMore(q, r)
  PROVE  Clamped(q) <= Clamped(r)
<1>1. /\ q.num \in Int /\ q.den \in Nat /\ (q.den = 0 => q.num # 0)
      /\ r.num \in Int /\ r.den \in Nat /\ (r.den = 0 => r.num # 0)
  BY DEF Double
<1>2. q.num * r.den <= r.num * q.den /\ (q.den = 0 /\ r.den = 0 => q.num <= r.num)
  BY DEF NotMore
<1>3. Over(q) => Over(r)
  BY <1>1, <1>2, OverMonotone, Factors DEF Over
<1>4. Under(r) => Under(q)
  BY <1>1, <1>2, UnderMonotone, Factors DEF Under
<1>5. /\ VelMin <= Clamped(q) /\ Clamped(q) <= VelMax /\ Clamped(q) \in Int
      /\ VelMin <= Clamped(r) /\ Clamped(r) <= VelMax /\ Clamped(r) \in Int
  BY ClampedType, Factors
<1>6. CASE Over(r)
  BY <1>5, <1>6, ClampedCases
<1>7. CASE Under(q) /\ ~Over(q)
  BY <1>5, <1>7, ClampedCases
<1>8. CASE ~Over(r) /\ ~Under(q)
  <2>1. ~Over(q) /\ ~Under(r)
    BY <1>3, <1>4, <1>8
  <2>2. /\ Scaled(q) \in Finite /\ Scaled(r) \in Finite
        /\ Scaled(q).num = q.num * VelFactor /\ Scaled(q).den = q.den
        /\ Scaled(r).num = r.num * VelFactor /\ Scaled(r).den = r.den
    BY <1>8, <2>1, ScaledFinite
  <2>3. (q.num * VelFactor) * r.den <= (r.num * VelFactor) * q.den
    <3>1. (q.num * r.den) * VelFactor <= (r.num * q.den) * VelFactor
      <4>1. q.num * r.den \in Int /\ r.num * q.den \in Int /\ VelFactor \in Nat
        BY <1>1, Factors
      <4> QED BY <1>2, <4>1, Scale
    <3>2. /\ (q.num * r.den) * VelFactor = (q.num * VelFactor) * r.den
          /\ (r.num * q.den) * VelFactor = (r.num * VelFactor) * q.den
      BY <1>1, Factors
    <3> QED BY <3>1, <3>2
  <2>4. Truncated(Scaled(q)) <= Truncated(Scaled(r))
    BY <2>2, <2>3, TruncatedMonotone
  <2> QED BY <1>8, <2>1, <2>4, ClampedCases
<1> QED BY <1>3, <1>6, <1>7, <1>8
-----------------------------------------------------------------------------

(***************************************************************************)
(* The limits.                                                             *)
(***************************************************************************)
Asked(val) == [num |-> val, den |-> 1]

\* The limits of any range: each soft limit is inside its hard one; no more is known.
AllLimits == {LimitsOf(r[1], r[2]) : r \in Int \X Int}

LEMMA Limits ==
  ASSUME NEW l \in AllLimits
  PROVE  /\ {l.min_hard, l.min_soft, l.max_soft, l.max_hard} \subseteq Int
         /\ l.min_hard < l.min_soft /\ l.max_soft < l.max_hard
<1>1. PICK r \in Int \X Int : l = LimitsOf(r[1], r[2])
  BY DEF AllLimits
<1>2. r[1] \in Int /\ r[2] \in Int
  OBVIOUS
<1>3. /\ l.min_hard = r[1] + Margin /\ l.min_soft = r[1] + 2 * Margin
      /\ l.max_soft = r[2] - 2 * Margin /\ l.max_hard = r[2] - Margin
  BY <1>1 DEF LimitsOf
<1> QED BY <1>2, <1>3, RangeAssumption

\* What pos_limit computes, zone by zone
LEMMA PosLimitZones ==
  ASSUME NEW l \in AllLimits, NEW p \in Int, NEW val \in Int
  PROVE  /\ p > l.max_hard => pos_limit(l, p, val) = [num |-> -1, den |-> 0]
         /\ p = l.max_hard => pos_limit(l, p, val) = [num |-> p - l.max_soft, den |-> 0]
         /\ l.max_soft < p /\ p < l.max_hard =>
              pos_limit(l, p, val) = [num |-> val * (l.max_hard - p) + (l.max_soft - p),
                                   den |-> l.max_hard - p]
         /\ l.min_soft <= p /\ p <= l.max_soft => pos_limit(l, p, val) = Asked(val)
         /\ l.min_hard < p /\ p < l.min_soft /\ p <= l.max_soft =>
              pos_limit(l, p, val) = [num |-> val * (p - l.min_hard) + (l.min_soft - p),
                                   den |-> p - l.min_hard]
         /\ p = l.min_hard /\ p <= l.max_soft => pos_limit(l, p, val) = [num |-> l.min_soft - p, den |-> 0]
         /\ p < l.min_hard /\ p <= l.max_soft => pos_limit(l, p, val) = [num |-> 1, den |-> 0]
<1>1. CASE p > l.max_hard
  BY <1>1, Limits DEF pos_limit
<1>2. CASE p = l.max_hard
  <2>1. pos_limit(l, p, val) = Plus(val, [num |-> p - l.max_soft, den |-> 0])
    BY <1>2, Limits DEF pos_limit, Quotient
  <2> QED BY <1>2, <2>1, Limits DEF Plus
<1>3. CASE l.max_soft < p /\ p < l.max_hard
  <2>1. pos_limit(l, p, val) = Plus(val, [num |-> -(p - l.max_soft), den |-> -(p - l.max_hard)])
    BY <1>3, Limits DEF pos_limit, Quotient
  <2>2. -(p - l.max_soft) = l.max_soft - p /\ -(p - l.max_hard) = l.max_hard - p /\ l.max_hard - p # 0
    BY <1>3, Limits
  <2> QED BY <1>3, <2>1, <2>2, Limits DEF Plus
<1>4. CASE l.min_soft <= p /\ p <= l.max_soft
  BY <1>4, Limits DEF pos_limit, Asked
<1>5. CASE l.min_hard < p /\ p < l.min_soft /\ p <= l.max_soft
  <2>1. pos_limit(l, p, val)
          = Plus(val, Negative([num |-> p - l.min_soft, den |-> p - l.min_hard]))
    BY <1>5, Limits DEF pos_limit, Quotient
  <2>2. pos_limit(l, p, val) = Plus(val, [num |-> -(p - l.min_soft), den |-> p - l.min_hard])
    BY <2>1 DEF Negative
  <2>3. -(p - l.min_soft) = l.min_soft - p /\ p - l.min_hard # 0
    BY <1>5, Limits
  <2> QED BY <1>5, <2>2, <2>3, Limits DEF Plus
<1>6. CASE p = l.min_hard /\ p <= l.max_soft
  <2>1. pos_limit(l, p, val) = Plus(val, Negative([num |-> p - l.min_soft, den |-> 0]))
    BY <1>6, Limits DEF pos_limit, Quotient
  <2>2. pos_limit(l, p, val) = Plus(val, [num |-> -(p - l.min_soft), den |-> 0])
    BY <2>1 DEF Negative
  <2>3. -(p - l.min_soft) = l.min_soft - p
    BY Limits
  <2> QED BY <1>6, <2>2, <2>3, Limits DEF Plus
<1>7. CASE p < l.min_hard /\ p <= l.max_soft
  BY <1>7, Limits DEF pos_limit
<1> QED BY <1>1, <1>2, <1>3, <1>4, <1>5, <1>6, <1>7, Limits

LEMMA PosLimitDouble ==
  ASSUME NEW l \in AllLimits, NEW p \in Int, NEW val \in Int
  PROVE  pos_limit(l, p, val) \in Double
<1>1. CASE p > l.max_hard \/ p = l.max_hard \/ (p <= l.min_hard /\ p <= l.max_soft)
  BY <1>1, PosLimitZones, Limits DEF Double
<1>2. CASE l.max_soft < p /\ p < l.max_hard
  <2>1. val * (l.max_hard - p) + (l.max_soft - p) \in Int /\ l.max_hard - p \in Nat \ {0}
    BY <1>2, Limits
  <2> QED BY <1>2, <2>1, PosLimitZones DEF Double
<1>3. CASE l.min_hard < p /\ p < l.min_soft /\ p <= l.max_soft
  <2>1. val * (p - l.min_hard) + (l.min_soft - p) \in Int /\ p - l.min_hard \in Nat \ {0}
    BY <1>3, Limits
  <2> QED BY <1>3, <2>1, PosLimitZones DEF Double
<1>4. CASE l.min_soft <= p /\ p <= l.max_soft
  BY <1>4, PosLimitZones DEF Double, Asked
<1> QED BY <1>1, <1>2, <1>3, <1>4, Limits

LEMMA AskedDouble ==
  ASSUME NEW val \in Int
  PROVE  Asked(val) \in Double
BY DEF Asked, Double

\* Past a soft limit the velocity is not more, in the direction of the limit, than asked.
LEMMA UpperSlows ==
  ASSUME NEW l \in AllLimits, NEW p \in Int, NEW val \in Int, p > l.max_soft, p # l.max_hard
  PROVE  Target(l, p, val) <= Clamped(Asked(val))
<1>1. NotMore(pos_limit(l, p, val), Asked(val))
  <2>1. CASE p > l.max_hard
    <3>1. pos_limit(l, p, val) = [num |-> -1, den |-> 0]
      BY <2>1, PosLimitZones
    <3> QED BY <3>1 DEF NotMore, Asked
  <2>2. CASE p < l.max_hard
    <3>1. val * (l.max_hard - p) \in Int /\ l.max_soft - p \in Int /\ l.max_soft - p < 0
      BY Limits
    <3>2. pos_limit(l, p, val) = [num |-> val * (l.max_hard - p) + (l.max_soft - p),
                               den |-> l.max_hard - p]
      BY <2>2, PosLimitZones
    <3> QED BY <3>1, <3>2 DEF NotMore, Asked
  <2> QED BY <2>1, <2>2, Limits
<1> QED BY <1>1, PosLimitDouble, AskedDouble, ClampedMonotone DEF Target

LEMMA LowerSlows ==
  ASSUME NEW l \in AllLimits, NEW p \in Int, NEW val \in Int, p < l.min_soft, p <= l.max_soft
  PROVE  Clamped(Asked(val)) <= Target(l, p, val)
<1>1. NotMore(Asked(val), pos_limit(l, p, val))
  <2>1. CASE p <= l.min_hard /\ p <= l.max_soft
    <3>1. CASE p = l.min_hard /\ p <= l.max_soft
      <4>1. pos_limit(l, p, val) = [num |-> l.min_soft - p, den |-> 0]
        BY <3>1, PosLimitZones
      <4>2. l.min_soft - p > 0
        BY <3>1, Limits
      <4> QED BY <4>1, <4>2, Limits DEF NotMore, Asked
    <3>2. CASE p < l.min_hard /\ p <= l.max_soft
      <4>1. pos_limit(l, p, val) = [num |-> 1, den |-> 0]
        BY <3>2, PosLimitZones
      <4> QED BY <4>1 DEF NotMore, Asked
    <3> QED BY <2>1, <3>1, <3>2, Limits
  <2>2. CASE p > l.min_hard
    <3>1. val * (p - l.min_hard) \in Int /\ l.min_soft - p \in Int /\ l.min_soft - p > 0
      BY Limits
    <3>2. pos_limit(l, p, val) = [num |-> val * (p - l.min_hard) + (l.min_soft - p),
                               den |-> p - l.min_hard]
      BY <2>2, PosLimitZones
    <3> QED BY <3>1, <3>2 DEF NotMore, Asked
  <2> QED BY <2>1, <2>2, Limits
<1> QED BY <1>1, PosLimitDouble, AskedDouble, ClampedMonotone DEF Target

(***************************************************************************)
(* One zone.  The distance to the hard limit is the denominator, the width *)
(* of the zone less that distance the push.                                *)
(***************************************************************************)
LEMMA LowerZone ==
  ASSUME NEW a \in Int, NEW b \in Int, b <= a,
         NEW d \in Nat, NEW e \in Nat, d <= e, NEW w \in Nat
  PROVE  (b * e + (w - e)) * d <= (a * d + (w - d)) * e
<1>1. (b * e + (w - e)) * d = b * (e * d) + w * d - e * d
  OBVIOUS
<1>2. (a * d + (w - d)) * e = a * (e * d) + w * e - e * d
  OBVIOUS
<1>3. b * (e * d) <= a * (e * d)
  BY Scale, e * d \in Nat
<1>4. d * w <= e * w
  BY Scale
<1>5. d * w = w * d /\ e * w = w * e
  OBVIOUS
<1> DEFINE x == b * (e * d)  y == a * (e * d)  v == w * d  z == w * e  t == e * d
<1>6. x \in Int /\ y \in Int /\ v \in Int /\ z \in Int /\ t \in Int
  OBVIOUS
<1>7. x + v - t <= y + z - t
  <2>1. x <= y /\ v <= z
    BY <1>3, <1>4, <1>5
  <2> HIDE DEF x, y, v, z, t
  <2> QED BY <1>6, <2>1
<1> QED BY <1>1, <1>2, <1>7

LEMMA UpperZone ==
  ASSUME NEW a \in Int, NEW b \in Int, b <= a,
         NEW d \in Nat, NEW e \in Nat, e <= d, NEW w \in Nat
  PROVE  (b * e + (e - w)) * d <= (a * d + (d - w)) * e
<1>1. (b * e + (e - w)) * d = b * (e * d) - w * d + e * d
  OBVIOUS
<1>2. (a * d + (d - w)) * e = a * (e * d) - w * e + e * d
  OBVIOUS
<1>3. b * (e * d) <= a * (e * d)
  BY Scale, e * d \in Nat
<1>4. e * w <= d * w
  BY Scale
<1>5. d * w = w * d /\ e * w = w * e
  OBVIOUS
<1> DEFINE x == b * (e * d)  y == a * (e * d)  v == w * d  z == w * e  t == e * d
<1>6. x \in Int /\ y \in Int /\ v \in Int /\ z \in Int /\ t \in Int
  OBVIOUS
<1>7. x - v + t <= y - z + t
  <2>1. x <= y /\ z <= v
    BY <1>3, <1>4, <1>5
  <2> HIDE DEF x, y, v, z, t
  <2> QED BY <1>6, <2>1
<1> QED BY <1>1, <1>2, <1>7

\* Beyond a hard limit, and at the lower one, the reference plays no part.
LEMMA BeyondLimits ==
  ASSUME NEW l \in AllLimits, NEW p \in Int, NEW val \in Int
  PROVE  /\ Target(l, p, val) \in VelMin .. VelMax
         /\ p > l.max_hard => Target(l, p, val) = VelMin
         /\ p <= l.min_hard /\ p <= l.max_soft => Target(l, p, val) = VelMax
<1>1. Target(l, p, val) \in VelMin .. VelMax
  BY PosLimitDouble, ClampedType DEF Target
<1>2. CASE p > l.max_hard
  <2>1. pos_limit(l, p, val) = [num |-> -1, den |-> 0]
    BY <1>2, PosLimitZones
  <2>2. ~Over(pos_limit(l, p, val)) /\ Under(pos_limit(l, p, val))
    BY <2>1, Factors DEF Over, Under
  <2>3. Target(l, p, val) = VelMin
    BY <2>2, ClampedCases, PosLimitDouble DEF Target
  <2> QED BY <1>1, <1>2, <2>3, Limits
<1>3. CASE p <= l.min_hard /\ p <= l.max_soft
  <2>1. CASE p < l.min_hard /\ p <= l.max_soft
    <3>1. pos_limit(l, p, val) = [num |-> 1, den |-> 0]
      BY <2>1, PosLimitZones
    <3> QED BY <3>1, Factors, ClampedCases, PosLimitDouble, <1>1, <1>3, Limits DEF Over, Target
  <2>2. CASE p = l.min_hard /\ p <= l.max_soft
    <3>1. pos_limit(l, p, val) = [num |-> l.min_soft - p, den |-> 0]
      BY <2>2, PosLimitZones
    <3>2. 1 * VelFactor <= (l.min_soft - p) * VelFactor
      <4>1. 1 <= l.min_soft - p /\ l.min_soft - p \in Int
        BY <2>2, Limits
      <4> QED BY <4>1, Scale, Factors
    <3>3. Over(pos_limit(l, p, val))
      <4>1. pos_limit(l, p, val).num = l.min_soft - p /\ pos_limit(l, p, val).den = 0
        BY <3>1
      <4>2. (l.min_soft - p) * VelFactor > 0
        BY <3>2, <2>2, Limits, Factors
      <4>3. VelMax * 0 = 0
        BY Factors
      <4>4. pos_limit(l, p, val).num * VelFactor > VelMax * pos_limit(l, p, val).den
        BY ONLY <4>1, <4>2, <4>3
      <4> QED BY <4>4 DEF Over
    <3> QED BY <3>3, ClampedCases, PosLimitDouble, <1>1, <1>3, Limits DEF Target
  <2> QED BY <1>3, <2>1, <2>2, Limits
<1> QED BY <1>1, <1>2, <1>3

(***************************************************************************)
(* A drive further up that is asked for no more is not sent up faster.     *)
(***************************************************************************)
LEMMA TargetMonotone ==
  ASSUME NEW l \in AllLimits, NEW p \in Int, NEW p2 \in Int, NEW val \in Int, NEW val2 \in Int,
         p <= p2, val2 <= val, p # l.max_hard, p2 # l.max_hard
  PROVE  Target(l, p2, val2) <= Target(l, p, val)
<1>1. CASE p2 > l.max_hard
  BY <1>1, BeyondLimits, Factors
<1>2. CASE p <= l.min_hard /\ p <= l.max_soft
  BY <1>2, BeyondLimits, Factors
<1>3. CASE l.min_hard < p /\ p2 < l.min_soft /\ p2 <= l.max_soft
  <2> DEFINE d == p - l.min_hard  e == p2 - l.min_hard  w == l.min_soft - l.min_hard
  <2>1. d \in Nat \ {0} /\ e \in Nat \ {0} /\ d <= e /\ w \in Nat
    BY <1>3, Limits
  <2>2. l.min_soft - p = w - d /\ l.min_soft - p2 = w - e
    BY Limits
  <2>3. /\ pos_limit(l, p, val) = [num |-> val * d + (l.min_soft - p), den |-> d]
        /\ pos_limit(l, p2, val2) = [num |-> val2 * e + (l.min_soft - p2), den |-> e]
    BY <1>3, PosLimitZones, Limits
  <2>4. (val2 * e + (w - e)) * d <= (val * d + (w - d)) * e
    BY <2>1, LowerZone
  <2>5. NotMore(pos_limit(l, p2, val2), pos_limit(l, p, val))
    <3> HIDE DEF d, e, w
    <3> QED BY <2>1, <2>2, <2>3, <2>4 DEF NotMore
  <2> QED BY <2>5, PosLimitDouble, ClampedMonotone DEF Target
<1>4. CASE l.max_soft < p /\ p2 < l.max_hard
  <2> DEFINE d == l.max_hard - p  e == l.max_hard - p2  w == l.max_hard - l.max_soft
  <2>1. d \in Nat \ {0} /\ e \in Nat \ {0} /\ e <= d /\ w \in Nat
    BY <1>4, Limits
  <2>2. l.max_soft - p = d - w /\ l.max_soft - p2 = e - w
    BY Limits
  <2>3. /\ pos_limit(l, p, val) = [num |-> val * d + (l.max_soft - p), den |-> d]
        /\ pos_limit(l, p2, val2) = [num |-> val2 * e + (l.max_soft - p2), den |-> e]
    BY <1>4, PosLimitZones, Limits
  <2>4. (val2 * e + (e - w)) * d <= (val * d + (d - w)) * e
    BY <2>1, UpperZone
  <2>5. NotMore(pos_limit(l, p2, val2), pos_limit(l, p, val))
    <3> HIDE DEF d, e, w
    <3> QED BY <2>1, <2>2, <2>3, <2>4 DEF NotMore
  <2> QED BY <2>5, PosLimitDouble, ClampedMonotone DEF Target
<1>5. CASE /\ l.min_hard < p /\ p <= l.max_soft
           /\ p2 < l.max_hard /\ (l.min_soft <= p2 \/ l.max_soft < p2)
  <2>1. Clamped(Asked(val2)) <= Clamped(Asked(val))
    <3>1. NotMore(Asked(val2), Asked(val))
      BY DEF NotMore, Asked
    <3> QED BY <3>1, AskedDouble, ClampedMonotone
  <2>2. Target(l, p2, val2) <= Clamped(Asked(val2))
    <3>1. CASE p2 > l.max_soft
      BY <3>1, <1>5, UpperSlows
    <3>2. CASE p2 <= l.max_soft
      <4>1. l.min_soft <= p2
        BY <3>2, <1>5, Limits
      <4>2. Target(l, p2, val2) = Clamped(Asked(val2))
        BY <3>2, <4>1, PosLimitZones DEF Target
      <4> QED BY <4>2, ClampedType, AskedDouble, Factors
    <3> QED BY <3>1, <3>2, Limits
  <2>3. Clamped(Asked(val)) <= Target(l, p, val)
    <3>1. CASE p < l.min_soft
      BY <3>1, <1>5, LowerSlows
    <3>2. CASE p >= l.min_soft
      <4>1. Target(l, p, val) = Clamped(Asked(val))
        BY <3>2, <1>5, PosLimitZones DEF Target
      <4> QED BY <4>1, ClampedType, AskedDouble, Factors
    <3> QED BY <3>1, <3>2, Limits
  <2>4. /\ Target(l, p2, val2) \in Int /\ Target(l, p, val) \in Int
        /\ Clamped(Asked(val2)) \in Int /\ Clamped(Asked(val)) \in Int
    <3>1. Asked(val) \in Double /\ Asked(val2) \in Double
      BY AskedDouble
    <3>2. VelMin .. VelMax \subseteq Int
      BY Factors
    <3> QED BY <3>1, <3>2, BeyondLimits, ClampedType
  <2> QED BY <2>1, <2>2, <2>3, <2>4
<1> QED BY <1>1, <1>2, <1>3, <1>4, <1>5, Limits
-----------------------------------------------------------------------------

(***************************************************************************)
(* The velocity is always the one for the current position and reference.  *)
(***************************************************************************)
Current == pos \in Int /\ u \in Int /\ lim \in AllLimits /\ vl_target = Target(lim, pos, u)

LEMMA AlwaysCurrent == Spec => []Current
<1>1. Init => Current
  <2>1. {LimitsOf(r[1], r[2]) : r \in Range} \subseteq AllLimits
    BY RangeAssumption DEF AllLimits
  <2> QED BY <2>1, InputAssumption DEF Init, Current
<1>2. Current /\ [Next]_vars => Current'
  BY InputAssumption DEF Next, Process, vars, Current
<1> QED BY <1>1, <1>2, PTL DEF Spec

(***************************************************************************)
(* Past a soft limit a drive is slowed down towards it, and it is sent a   *)
(* velocity within its bounds (can402.c:471-495), whatever limits it has   *)
(* reported: past both of two crossed ones the upper one counts.           *)
(***************************************************************************)
THEOREM SlowCorrect == Spec => []SlowedTowardsLimit
<1>1. Current => SlowedTowardsLimit
  BY BeyondLimits, UpperSlows, LowerSlows DEF Current, SlowedTowardsLimit, Asked
<1> QED BY <1>1, AlwaysCurrent, PTL

(***************************************************************************)
(* From one command to the next a drive that came closer to the upper      *)
(* limit and is asked for no more is not made to go up faster, through all *)
(* the zones and across the limits (can402.c:467-531).                     *)
(***************************************************************************)
THEOREM MonotoneCorrect == Spec => Monotone
<1> DEFINE Slower == lim.max_hard \notin {pos, pos'} /\ pos' >= pos /\ u' <= u => vl_target' <= vl_target
<1>1. Current /\ Current' /\ lim' = lim => Slower
  BY TargetMonotone DEF Current
<1>2. [Next]_vars => lim' = lim
  BY DEF Next, Process, vars
<1>3. Current /\ Current' /\ [Next]_vars => Slower
  BY <1>1, <1>2
<1>4. Spec => [][Slower]_vars
  BY <1>3, AlwaysCurrent, PTL DEF Spec
<1> QED BY <1>4 DEF Monotone
=============================================================================
