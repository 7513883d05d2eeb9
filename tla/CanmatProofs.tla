---------------------------- MODULE CanmatProofs ----------------------------
(***************************************************************************)
(* The proof that a dump or a display prints every frame once, in order    *)
(* and under its interface.  The inductive invariant gives each process    *)
(* one queue and one history for each of its interfaces, which other       *)
(* processes and the nodes only append to, to both alike.                  *)
(***************************************************************************)
EXTENDS Canmat, FiniteSetTheorems, TLAPS

Listening(r) == r.pc \in {"poll", "drain"}

\* The lines printed of interface i.
Lines(r, i) == {k \in DOMAIN r.out : r.out[k][1] = i}

\* Where a probe is in the loops of canmat_probe_pdo.
AtPlace(r) == /\ DOMAIN r.at = {"field", "i", "j"}
              /\ r.at.field \in {"com", "cob", "trans", "map", "entry"}

\* A process is a record; one that listens has a queue for each interface, reads only
\* the interfaces it has, and has printed what it took out of the queues.
Process(r) ==
  /\ DOMAIN r = DOMAIN Idle
  /\ IsSeq(r.bus)
  /\ AtPlace(r)
  /\ Listening(r) =>
       /\ IsSeq(r.out)
       /\ DOMAIN r.rx = DOMAIN r.bus /\ DOMAIN r.arrived = DOMAIN r.bus
       /\ \A i \in DOMAIN r.bus :
            IsSeq(r.rx[i]) /\ IsSeq(r.arrived[i]) /\ PrintedLines(r, i)
  /\ r.pc = "drain" => r.ready \subseteq DOMAIN r.bus

\* Every terminal has a process.
Terminals(r) == DOMAIN r = Proc /\ \A p \in Proc : Process(r[p])

DumpInv == Terminals(run)

(***************************************************************************)
(* Sequences of anything.                                                  *)
(***************************************************************************)
LEMMA SeqFacts ==
  ASSUME NEW s, IsSeq(s)
  PROVE  /\ Len(s) \in Nat
         /\ DOMAIN s = 1 .. Len(s)
         /\ \E S : s \in Seq(S)
BY DEF IsSeq

LEMMA SeqOver ==
  ASSUME NEW S, NEW s \in Seq(S)
  PROVE  IsSeq(s)
<1>1. s \in [1 .. Len(s) -> {s[k] : k \in DOMAIN s}] /\ Len(s) \in Nat
  OBVIOUS
<1>. QED BY <1>1 DEF IsSeq

LEMMA TailIsSeq ==
  ASSUME NEW s, IsSeq(s), s # <<>>
  PROVE  /\ IsSeq(Tail(s)) /\ Len(Tail(s)) = Len(s) - 1 /\ Len(s) > 0
         /\ Head(s) = s[1] /\ \A k \in 1 .. Len(s) - 1 : Tail(s)[k] = s[k + 1]
<1>1. PICK S : s \in Seq(S) BY SeqFacts
<1>2. Tail(s) \in Seq(S) BY <1>1
<1>3. IsSeq(Tail(s)) BY <1>2, SeqOver
<1>. QED BY <1>1, <1>3

LEMMA AppendIsSeq ==
  ASSUME NEW s, IsSeq(s), NEW x
  PROVE  /\ IsSeq(Append(s, x)) /\ Len(Append(s, x)) = Len(s) + 1
         /\ Append(s, x)[Len(s) + 1] = x
         /\ \A k \in 1 .. Len(s) : Append(s, x)[k] = s[k]
<1>1. PICK S : s \in Seq(S) BY SeqFacts
<1>. DEFINE T == S \union {x}
<1>2. s \in Seq(T) /\ x \in T BY <1>1
<1>. HIDE DEF T
<1>3. Append(s, x) \in Seq(T) BY <1>2
<1>4. IsSeq(Append(s, x)) BY <1>3, SeqOver
<1>. QED BY <1>2, <1>4

\* c is f, n times.
Copies(c, n, f) == n \in Nat /\ c \in [1 .. n -> {f}]

\* t is s with f, n times, at its end.
Longer(t, s, n, f) ==
  /\ IsSeq(t) /\ Len(t) = Len(s) + n
  /\ \A k \in 1 .. Len(s) : t[k] = s[k]
  /\ \A k \in 1 .. n : t[Len(s) + k] = f

LEMMA CopiesAreSeq ==
  ASSUME NEW s, IsSeq(s), NEW f, NEW n, NEW c, Copies(c, n, f)
  PROVE  Longer(s \o c, s, n, f)
<1>1. PICK S : s \in Seq(S) BY SeqFacts
<1>. DEFINE T == S \union {f}
<1>2. s \in Seq(T) BY <1>1
<1>3. c \in Seq(T) /\ Len(c) = n /\ n \in Nat
  BY DEF Copies, T
<1>. HIDE DEF T
<1>4. s \o c \in Seq(T) BY <1>2, <1>3
<1>5. \A k \in 1 .. n : c[k] = f BY DEF Copies
<1>6. /\ Len(s \o c) = Len(s) + n
      /\ \A k \in 1 .. Len(s) : (s \o c)[k] = s[k]
      /\ \A k \in 1 .. n : (s \o c)[Len(s) + k] = f
  BY <1>2, <1>3, <1>5
<1>7. IsSeq(s \o c) BY <1>4, SeqOver
<1>. QED BY <1>6, <1>7 DEF Longer

(***************************************************************************)
(* A queue and its history: the queue holds what is left of the history    *)
(* after n frames were taken.                                              *)
(***************************************************************************)
Follows(rx, arr, n) ==
  /\ n \in Nat /\ Len(arr) = n + Len(rx)
  /\ \A k \in 1 .. Len(rx) : rx[k] = arr[n + k]

LEMMA FollowsSubSeq ==
  ASSUME NEW rx, NEW arr, IsSeq(rx), IsSeq(arr), NEW n \in Nat, n = Len(arr) - Len(rx)
  PROVE  rx = SubSeq(arr, n + 1, Len(arr)) <=> Follows(rx, arr, n)
<1>1. PICK S : rx \in Seq(S) BY SeqFacts
<1>2. PICK T : arr \in Seq(T) BY SeqFacts
<1>3. Len(rx) \in Nat /\ Len(arr) \in Nat BY <1>1, <1>2
<1>. DEFINE rest == SubSeq(arr, n + 1, Len(arr))
<1>4. /\ Len(rest) = Len(rx) /\ rest \in Seq(T)
      /\ \A k \in 1 .. Len(rx) : rest[k] = arr[n + k]
  BY <1>2, <1>3
<1>. HIDE DEF rest
<1>5. ASSUME \A k \in 1 .. Len(rx) : rx[k] = arr[n + k] PROVE rx = rest
  BY <1>1, <1>4, <1>5
<1>6. Follows(rx, arr, n) => rx = rest BY <1>5 DEF Follows
<1>7. ASSUME rx = rest PROVE \A k \in 1 .. Len(rx) : rx[k] = arr[n + k]
  BY <1>4, <1>7
<1>8. Len(arr) = n + Len(rx) BY <1>3
<1>9. rx = rest => Follows(rx, arr, n) BY <1>7, <1>8 DEF Follows
<1>. QED BY <1>6, <1>9 DEF rest

LEMMA FollowsTail ==
  ASSUME NEW rx, NEW arr, IsSeq(rx), IsSeq(arr), rx # <<>>, NEW n, Follows(rx, arr, n)
  PROVE  /\ IsSeq(Tail(rx)) /\ Follows(Tail(rx), arr, n + 1)
         /\ Head(rx) = arr[n + 1]
<1>1. Len(rx) \in Nat /\ Len(arr) \in Nat BY SeqFacts
<1>2. /\ IsSeq(Tail(rx)) /\ Len(Tail(rx)) = Len(rx) - 1 /\ Len(rx) > 0
      /\ Head(rx) = rx[1] /\ \A k \in 1 .. Len(rx) - 1 : Tail(rx)[k] = rx[k + 1]
  BY TailIsSeq
<1>3. Head(rx) = arr[n + 1] BY <1>1, <1>2 DEF Follows
<1>4. ASSUME NEW k \in 1 .. Len(rx) - 1 PROVE Tail(rx)[k] = arr[n + 1 + k]
  <2>1. Tail(rx)[k] = rx[k + 1] /\ k + 1 \in 1 .. Len(rx) BY <1>1, <1>2
  <2>2. rx[k + 1] = arr[n + (k + 1)] BY <2>1 DEF Follows
  <2>3. n + (k + 1) = n + 1 + k BY <1>1 DEF Follows
  <2>. QED BY <2>1, <2>2, <2>3
<1>5. Len(arr) = n + 1 + Len(Tail(rx)) /\ n + 1 \in Nat BY <1>1, <1>2 DEF Follows
<1>. QED BY <1>2, <1>3, <1>4, <1>5 DEF Follows

LEMMA FollowsArrival ==
  ASSUME NEW rx, NEW arr, IsSeq(rx), IsSeq(arr), NEW n, Follows(rx, arr, n),
         NEW m \in Nat, NEW f, NEW rx2, Longer(rx2, rx, m, f), NEW arr2, Longer(arr2, arr, m, f)
  PROVE  /\ IsSeq(rx2) /\ IsSeq(arr2) /\ Follows(rx2, arr2, n)
         /\ \A k \in 1 .. n : arr2[k] = arr[k]
<1>1. Len(rx) \in Nat /\ Len(arr) \in Nat BY SeqFacts
<1>2. Longer(rx2, rx, m, f) OBVIOUS
<1>3. Longer(arr2, arr, m, f) OBVIOUS
<1>4. n \in Nat /\ m \in Nat /\ Len(arr) = n + Len(rx) BY DEF Follows
<1>5. ASSUME NEW k \in 1 .. Len(rx) + m PROVE rx2[k] = arr2[n + k]
  <2>1. CASE k <= Len(rx)
    <3>1. k \in 1 .. Len(rx) /\ n + k \in 1 .. Len(arr) BY <1>1, <1>4, <2>1
    <3>2. rx[k] = arr[n + k] BY <3>1 DEF Follows
    <3>. QED BY <3>1, <3>2, <1>2, <1>3 DEF Longer
  <2>2. CASE k > Len(rx)
    <3>1. PICK j \in 1 .. m : k = Len(rx) + j
      <4>1. k - Len(rx) \in 1 .. m BY <1>1, <1>4, <2>2
      <4>2. k = Len(rx) + (k - Len(rx)) BY <1>1
      <4>. QED BY <4>1, <4>2
    <3>2. n + k = Len(arr) + j BY <1>1, <1>4, <3>1
    <3>3. rx2[k] = f BY <3>1, <1>2 DEF Longer
    <3>4. arr2[n + k] = f BY <3>2, <1>3 DEF Longer
    <3>. QED BY <3>3, <3>4
  <2>. QED BY <2>1, <2>2, <1>1
<1>6. Follows(rx2, arr2, n) BY <1>1, <1>2, <1>3, <1>4, <1>5 DEF Follows, Longer
<1>7. \A k \in 1 .. n : arr2[k] = arr[k] BY <1>1, <1>3, <1>4 DEF Longer
<1>8. IsSeq(rx2) /\ IsSeq(arr2) BY <1>2, <1>3 DEF Longer
<1>. QED BY <1>6, <1>7, <1>8

(***************************************************************************)
(* The place of a line among the lines of its interface.                   *)
(***************************************************************************)
Nth(L, k) == Cardinality({j \in L : j <= k})

LEMMA NthBounds ==
  ASSUME NEW L \in SUBSET Nat, IsFiniteSet(L), NEW k \in L
  PROVE  Nth(L, k) \in 1 .. Cardinality(L)
<1>. DEFINE upto == {j \in L : j <= k}
<1>1. k \in upto /\ upto \subseteq L OBVIOUS
<1>. HIDE DEF upto
<1>2. IsFiniteSet(upto) /\ Cardinality(upto) <= Cardinality(L) BY <1>1, FS_Subset
<1>3. Cardinality(upto) \in Nat /\ Cardinality(L) \in Nat BY <1>2, FS_CardinalityType
<1>4. Cardinality(upto) # 0 BY <1>1, <1>2, FS_EmptySet
<1>5. Cardinality(upto) \in 1 .. Cardinality(L) BY <1>2, <1>3, <1>4
<1>. QED BY <1>5 DEF upto, Nth

LEMMA NthGrows ==
  ASSUME NEW L \in SUBSET Nat, IsFiniteSet(L), NEW m \in Nat, \A k \in L : k < m
  PROVE  /\ Cardinality(L \union {m}) = Cardinality(L) + 1
         /\ Nth(L \union {m}, m) = Cardinality(L) + 1
         /\ \A k \in L : Nth(L \union {m}, k) = Nth(L, k)
<1>1. m \notin L OBVIOUS
<1>2. Cardinality(L \union {m}) = Cardinality(L) + 1 BY <1>1, FS_AddElement
<1>3. {j \in L \union {m} : j <= m} = L \union {m}
  <2>1. ASSUME NEW j \in L PROVE j <= m
    <3>1. j \in Nat /\ j < m OBVIOUS
    <3>. QED BY <3>1
  <2>2. m <= m OBVIOUS
  <2>. QED BY <2>1, <2>2
<1>4. Nth(L \union {m}, m) = Cardinality(L) + 1 BY <1>2, <1>3 DEF Nth
<1>5. ASSUME NEW k \in L PROVE Nth(L \union {m}, k) = Nth(L, k)
  <2>1. {j \in L \union {m} : j <= k} = {j \in L : j <= k} OBVIOUS
  <2>. QED BY <2>1 DEF Nth
<1>. QED BY <1>2, <1>4, <1>5

(***************************************************************************)
(* The lines of an interface.                                              *)
(***************************************************************************)
LEMMA LinesFinite ==
  ASSUME NEW r, NEW i, IsSeq(r.out)
  PROVE  /\ IsFiniteSet(Lines(r, i)) /\ Lines(r, i) \in SUBSET Nat
         /\ Cardinality(Lines(r, i)) \in Nat
<1>1. IsFiniteSet(1 .. Len(r.out)) BY SeqFacts, FS_Interval
<1>2. Lines(r, i) \subseteq 1 .. Len(r.out) BY SeqFacts DEF Lines
<1>3. 1 .. Len(r.out) \subseteq Nat BY SeqFacts
<1>. QED BY <1>1, <1>2, <1>3, FS_Subset, FS_CardinalityType

\* Every line of interface i is the line of the frame at its place in the history.
Labelled(r, i) ==
  \A k \in Lines(r, i) : r.out[k][2] = Printer(r.cmd, r.arrived[i][Nth(Lines(r, i), k)])

LEMMA PrintedPointwise ==
  ASSUME NEW r, NEW i, IsSeq(r.out), IsSeq(r.rx[i]), IsSeq(r.arrived[i])
  PROVE  PrintedLines(r, i) <=>
           Follows(r.rx[i], r.arrived[i], Cardinality(Lines(r, i))) /\ Labelled(r, i)
<1>. DEFINE n == Cardinality(Lines(r, i))
<1>1. n \in Nat BY LinesFinite
<1>2. Len(r.rx[i]) \in Nat /\ Len(r.arrived[i]) \in Nat BY SeqFacts
<1>3. n = Len(r.arrived[i]) - Len(r.rx[i]) =>
        (r.rx[i] = SubSeq(r.arrived[i], n + 1, Len(r.arrived[i]))
           <=> Follows(r.rx[i], r.arrived[i], n))
  <2>. HIDE DEF n
  <2>. QED BY <1>1, FollowsSubSeq
<1>4. Follows(r.rx[i], r.arrived[i], n) => n = Len(r.arrived[i]) - Len(r.rx[i])
  BY <1>1, <1>2 DEF Follows
<1>5. PrintedLines(r, i) <=>
        /\ r.rx[i] = SubSeq(r.arrived[i], Len(r.arrived[i]) - Len(r.rx[i]) + 1,
                            Len(r.arrived[i]))
        /\ n = Len(r.arrived[i]) - Len(r.rx[i]) /\ Labelled(r, i)
  BY DEF PrintedLines, Lines, Labelled, Nth
<1>. QED BY <1>3, <1>4, <1>5

\* y has one more line than r, which is one of interface i.
Adds(y, r, i, line) ==
  \E new \in Nat :
    /\ Lines(y, i) = Lines(r, i) \union {new}
    /\ \A h : h # i => Lines(y, h) = Lines(r, h)
    /\ y.out[new][2] = line
    /\ \A h : \A k \in Lines(r, h) : k < new /\ y.out[k] = r.out[k]

\* A line more for interface i is a line of i and of no other one.
LEMMA LinesGrow ==
  ASSUME NEW r, NEW y, IsSeq(r.out), NEW i, NEW line,
         y.out = Append(r.out, <<i, line>>)
  PROVE  Adds(y, r, i, line)
<1>1. /\ DOMAIN r.out = 1 .. Len(r.out) /\ Len(r.out) \in Nat
      /\ DOMAIN y.out = 1 .. Len(r.out) + 1
      /\ y.out[Len(r.out) + 1] = <<i, line>>
      /\ \A k \in 1 .. Len(r.out) : y.out[k] = r.out[k]
  BY SeqFacts, AppendIsSeq
<1>2. y.out[Len(r.out) + 1][1] = i /\ y.out[Len(r.out) + 1][2] = line BY <1>1
<1>3. Lines(y, i) = Lines(r, i) \union {Len(r.out) + 1} BY <1>1, <1>2 DEF Lines
<1>4. \A h : h # i => Lines(y, h) = Lines(r, h) BY <1>1, <1>2 DEF Lines
<1>5. \A h : \A k \in Lines(r, h) : k < Len(r.out) + 1 /\ y.out[k] = r.out[k]
  BY <1>1 DEF Lines
<1>6. Len(r.out) + 1 \in Nat BY <1>1
<1>. QED BY <1>2, <1>3, <1>4, <1>5, <1>6 DEF Adds

(***************************************************************************)
(* A process prints, and frames arrive.                                    *)
(***************************************************************************)
\* What Process says of interface i.
Interface(r, i) == IsSeq(r.rx[i]) /\ IsSeq(r.arrived[i]) /\ PrintedLines(r, i)

\* The frame at the head of interface i becomes the next line of that interface.
LEMMA PrintKeeps ==
  ASSUME NEW r, Process(r), Listening(r), NEW i \in DOMAIN r.bus, r.rx[i] # <<>>,
         NEW y, DOMAIN y = DOMAIN Idle,
         y.pc = "drain" => y.ready \subseteq DOMAIN y.bus,
         y.at = r.at, y.bus = r.bus, y.cmd = r.cmd, y.arrived = r.arrived,
         y.rx = [r.rx EXCEPT ![i] = Tail(@)],
         y.out = Append(r.out, <<i, Printer(r.cmd, Head(r.rx[i]))>>)
  PROVE  Process(y)
<1>1. /\ IsSeq(r.bus) /\ IsSeq(r.out)
      /\ DOMAIN r.rx = DOMAIN r.bus /\ DOMAIN r.arrived = DOMAIN r.bus
      /\ \A h \in DOMAIN r.bus : Interface(r, h)
  BY DEF Process, Interface
<1>2. IsSeq(y.out) BY <1>1, AppendIsSeq
<1>3. /\ DOMAIN y.rx = DOMAIN y.bus /\ DOMAIN y.arrived = DOMAIN y.bus
      /\ y.rx[i] = Tail(r.rx[i])
      /\ \A h \in DOMAIN r.bus : h # i => y.rx[h] = r.rx[h]
  BY <1>1
<1>. DEFINE line == Printer(r.cmd, Head(r.rx[i]))
<1>4. PICK new \in Nat :
        /\ Lines(y, i) = Lines(r, i) \union {new}
        /\ \A h : h # i => Lines(y, h) = Lines(r, h)
        /\ y.out[new][2] = line
        /\ \A h : \A k \in Lines(r, h) : k < new /\ y.out[k] = r.out[k]
  <2>1. y.out = Append(r.out, <<i, line>>) OBVIOUS
  <2>. HIDE DEF line
  <2>2. Adds(y, r, i, line) BY <1>1, <2>1, LinesGrow
  <2>. QED BY <2>2 DEF Adds
<1>. HIDE DEF line
<1>5. ASSUME NEW h \in DOMAIN r.bus, h # i PROVE Interface(y, h)
  <2>1. IsSeq(y.rx[h]) /\ IsSeq(y.arrived[h]) BY <1>1, <1>3, <1>5 DEF Interface
  <2>2. PrintedLines(r, h) /\ IsSeq(r.rx[h]) /\ IsSeq(r.arrived[h]) BY <1>1 DEF Interface
  <2>3. Follows(r.rx[h], r.arrived[h], Cardinality(Lines(r, h))) /\ Labelled(r, h)
    BY <1>1, <2>2, PrintedPointwise
  <2>4. Follows(y.rx[h], y.arrived[h], Cardinality(Lines(y, h)))
    BY <2>3, <1>3, <1>4, <1>5
  <2>5. Labelled(y, h)
    <3>1. Lines(y, h) = Lines(r, h) BY <1>4, <1>5
    <3>2. \A k \in Lines(r, h) : y.out[k] = r.out[k] BY <1>4
    <3>3. \A k \in Lines(r, h) :
            r.out[k][2] = Printer(r.cmd, r.arrived[h][Nth(Lines(r, h), k)])
      BY <2>3 DEF Labelled
    <3>4. \A k \in Lines(r, h) :
            y.out[k][2] = Printer(y.cmd, y.arrived[h][Nth(Lines(r, h), k)])
      BY <3>2, <3>3
    <3>. QED BY <3>1, <3>4 DEF Labelled
  <2>6. PrintedLines(y, h) BY <1>2, <2>1, <2>4, <2>5, PrintedPointwise
  <2>. QED BY <2>1, <2>6 DEF Interface
<1>6. Interface(y, i)
  <2>. DEFINE L == Lines(r, i)
              n == Cardinality(L)
  <2>1. PrintedLines(r, i) /\ IsSeq(r.rx[i]) /\ IsSeq(r.arrived[i]) BY <1>1 DEF Interface
  <2>2. Follows(r.rx[i], r.arrived[i], n) /\ Labelled(r, i)
    BY <1>1, <2>1, PrintedPointwise
  <2>3. IsFiniteSet(L) /\ L \in SUBSET Nat BY <1>1, LinesFinite
  <2>4. \A k \in L : k < new /\ y.out[k] = r.out[k] BY <1>4
  <2>5. /\ IsSeq(Tail(r.rx[i])) /\ Follows(Tail(r.rx[i]), r.arrived[i], n + 1)
        /\ Head(r.rx[i]) = r.arrived[i][n + 1]
    <3>. DEFINE rx == r.rx[i]
                arr == r.arrived[i]
    <3>1. IsSeq(rx) /\ IsSeq(arr) /\ rx # <<>> /\ Follows(rx, arr, n) BY <2>1, <2>2
    <3>. HIDE DEF rx, arr, n
    <3>2. IsSeq(Tail(rx)) /\ Follows(Tail(rx), arr, n + 1) /\ Head(rx) = arr[n + 1]
      BY <3>1, FollowsTail
    <3>. QED BY <3>2 DEF rx, arr
  <2>6. Lines(y, i) = L \union {new} /\ new \in Nat BY <1>4
  <2>7. \A k \in L : r.out[k][2] = Printer(r.cmd, r.arrived[i][Nth(L, k)])
    BY <2>2 DEF Labelled
  <2>. HIDE DEF L
  <2>8. /\ Cardinality(L \union {new}) = n + 1
        /\ Nth(L \union {new}, new) = n + 1
        /\ \A k \in L : Nth(L \union {new}, k) = Nth(L, k)
    BY <2>3, <2>4, <2>6, NthGrows
  <2>. HIDE DEF n
  <2>9. ASSUME NEW k \in Lines(y, i)
        PROVE  y.out[k][2] = Printer(y.cmd, y.arrived[i][Nth(Lines(y, i), k)])
    <3>1. CASE k = new
      <4>1. y.out[k][2] = Printer(r.cmd, r.arrived[i][n + 1]) BY <1>4, <2>5, <3>1 DEF line
      <4>2. Nth(Lines(y, i), k) = n + 1 BY <2>6, <2>8, <3>1
      <4>. QED BY <4>1, <4>2
    <3>2. CASE k \in L
      <4>1. y.out[k][2] = Printer(r.cmd, r.arrived[i][Nth(L, k)]) BY <2>4, <2>7, <3>2
      <4>2. Nth(Lines(y, i), k) = Nth(L, k) BY <2>6, <2>8, <3>2
      <4>. QED BY <4>1, <4>2
    <3>. QED BY <2>6, <3>1, <3>2
  <2>10. Labelled(y, i) BY <2>9 DEF Labelled
  <2>11. Follows(y.rx[i], y.arrived[i], Cardinality(Lines(y, i)))
    BY <1>3, <2>5, <2>6, <2>8
  <2>12. IsSeq(y.rx[i]) /\ IsSeq(y.arrived[i]) BY <1>3, <2>1, <2>5
  <2>13. PrintedLines(y, i) BY <1>2, <2>10, <2>11, <2>12, PrintedPointwise
  <2>. QED BY <2>12, <2>13 DEF Interface
<1>7. \A h \in DOMAIN y.bus : Interface(y, h) BY <1>5, <1>6
<1>8. IsSeq(y.bus) /\ AtPlace(y) BY <1>1 DEF Process, AtPlace
<1>. QED BY <1>2, <1>3, <1>7, <1>8 DEF Process, Interface

\* The same frames arrive at every queue and in its history.
LEMMA ArrivalKeeps ==
  ASSUME NEW r, Process(r), NEW y, DOMAIN y = DOMAIN Idle,
         y.at = r.at, y.pc = r.pc, y.bus = r.bus, y.out = r.out, y.cmd = r.cmd, y.ready = r.ready,
         DOMAIN y.rx = DOMAIN r.rx, DOMAIN y.arrived = DOMAIN r.arrived,
         Listening(r) => \A i \in DOMAIN r.bus : \E f : \E m \in Nat :
           Longer(y.rx[i], r.rx[i], m, f) /\ Longer(y.arrived[i], r.arrived[i], m, f)
  PROVE  Process(y)
<1>3. AtPlace(y) BY DEF Process, AtPlace
<1>1. CASE ~Listening(r)
  <2>1. IsSeq(y.bus) /\ ~Listening(y) /\ y.pc # "drain" BY <1>1 DEF Process, Listening
  <2>. QED BY <1>3, <2>1 DEF Process
<1>2. CASE Listening(r)
  <2>1. /\ IsSeq(r.bus) /\ IsSeq(r.out)
        /\ DOMAIN r.rx = DOMAIN r.bus /\ DOMAIN r.arrived = DOMAIN r.bus
        /\ \A i \in DOMAIN r.bus : Interface(r, i)
        /\ r.pc = "drain" => r.ready \subseteq DOMAIN r.bus
    BY <1>2 DEF Process, Interface
  <2>2. ASSUME NEW i \in DOMAIN r.bus PROVE Interface(y, i)
    <3>1. PICK f : \E m \in Nat :
            Longer(y.rx[i], r.rx[i], m, f) /\ Longer(y.arrived[i], r.arrived[i], m, f)
      BY <1>2
    <3>. DEFINE n == Cardinality(Lines(r, i))
    <3>2. PrintedLines(r, i) /\ IsSeq(r.rx[i]) /\ IsSeq(r.arrived[i]) BY <2>1 DEF Interface
    <3>3. Follows(r.rx[i], r.arrived[i], n) /\ Labelled(r, i)
      BY <2>1, <3>2, PrintedPointwise
    <3>. HIDE DEF n
    <3>4. /\ IsSeq(y.rx[i]) /\ IsSeq(y.arrived[i]) /\ Follows(y.rx[i], y.arrived[i], n)
          /\ \A k \in 1 .. n : y.arrived[i][k] = r.arrived[i][k]
      BY <3>1, <3>2, <3>3, FollowsArrival
    <3>5. Lines(y, i) = Lines(r, i) BY DEF Lines
    <3>6. \A k \in Lines(r, i) : Nth(Lines(r, i), k) \in 1 .. n
      BY <2>1, LinesFinite, NthBounds DEF n
    <3>7. Follows(y.rx[i], y.arrived[i], Cardinality(Lines(y, i))) BY <3>4, <3>5 DEF n
    <3>8. Labelled(y, i) BY <3>3, <3>4, <3>5, <3>6 DEF Labelled
    <3>9. PrintedLines(y, i) BY <2>1, <3>4, <3>7, <3>8, PrintedPointwise
    <3>. QED BY <3>4, <3>9 DEF Interface
  <2>3. \A i \in DOMAIN y.bus : Interface(y, i) BY <2>2
  <2>. QED BY <1>3, <2>1, <2>3 DEF Process, Interface
<1>. QED BY <1>1, <1>2

\* A process that does not listen.
LEMMA Deaf ==
  ASSUME NEW y, DOMAIN y = DOMAIN Idle, IsSeq(y.bus), AtPlace(y),
         y.pc \notin {"poll", "drain"}
  PROVE  Process(y)
BY DEF Process, Listening

LEMMA EmptyIsSeq == IsSeq(<<>>)
BY DEF IsSeq

LEMMA EndIsProcess ==
  ASSUME NEW ok, NEW out
  PROVE  Process(End(ok, out))
<1>. DEFINE y == End(ok, out)
<1>1. /\ DOMAIN y = DOMAIN Idle /\ y.bus = <<>> /\ y.pc = "ended"
      /\ y.at = [field |-> "com", i |-> 0, j |-> 0]
  BY DEF End, Idle
<1>2. AtPlace(y) BY <1>1 DEF AtPlace
<1>. HIDE DEF y
<1>3. Process(y) BY <1>1, <1>2, EmptyIsSeq, Deaf
<1>. QED BY <1>3 DEF y

\* Two processes that differ in what no property of a listener is about.
LEMMA SameProcess ==
  ASSUME NEW r, Process(r), NEW y, DOMAIN y = DOMAIN r,
         y.at = r.at, y.pc = r.pc, y.bus = r.bus, y.out = r.out, y.cmd = r.cmd,
         y.ready = r.ready, y.rx = r.rx, y.arrived = r.arrived
  PROVE  Process(y)
<1>1. \A i : PrintedLines(r, i) => PrintedLines(y, i) BY DEF PrintedLines
<1>2. AtPlace(y) BY DEF Process, AtPlace
<1>. QED BY <1>1, <1>2 DEF Process, Listening

\* A step of process p, on top of what it does to the others.
LEMMA OneProcess ==
  ASSUME NEW r, Terminals(r), NEW p \in Proc, NEW x, Process(x)
  PROVE  Terminals([r EXCEPT ![p] = x])
<1>. DEFINE s == [r EXCEPT ![p] = x]
<1>1. DOMAIN s = Proc BY DEF Terminals
<1>2. ASSUME NEW q \in Proc PROVE Process(s[q])
  <2>1. CASE q = p BY <2>1 DEF Terminals
  <2>2. CASE q # p
    <3>1. s[q] = r[q] BY <2>2 DEF Terminals
    <3>. QED BY <3>1 DEF Terminals
  <2>. QED BY <2>1, <2>2
<1>. HIDE DEF s
<1>3. Terminals(s) BY <1>1, <1>2 DEF Terminals
<1>. QED BY <1>3 DEF s

LEMMA DisturbKeeps ==
  ASSUME NEW r, NEW ps, NEW q \in Proc, Process(r[q])
  PROVE  Process(Disturb(r, ps)[q])
<1>. DEFINE y == Disturb(r, ps)[q]
<1>1. y = [r[q] EXCEPT !.alone = @ /\ q \notin ps] BY DEF Disturb
<1>2. /\ DOMAIN y = DOMAIN r[q] /\ y.at = r[q].at /\ y.pc = r[q].pc /\ y.bus = r[q].bus
      /\ y.out = r[q].out /\ y.cmd = r[q].cmd
      /\ y.ready = r[q].ready /\ y.rx = r[q].rx /\ y.arrived = r[q].arrived
  BY <1>1
<1>. HIDE DEF y
<1>3. Process(y) BY <1>2, SameProcess
<1>. QED BY <1>3 DEF y

\* What arrives at a process: its queue and its history grow by the same copies.
LEMMA DeliverKeeps ==
  ASSUME NEW r, NEW f, NEW sent, IsFiniteSet(sent), NEW q \in Proc, Process(r[q])
  PROVE  LET y == Deliver(r, f, sent)[q]
         IN Process(y) /\ y.bus = r[q].bus /\ y.at = r[q].at /\ DOMAIN y = DOMAIN Idle
<1>. DEFINE y == Deliver(r, f, sent)[q]
            copies(i) == Cardinality({s \in sent : s[1] = r[q].bus[i] /\ s[2] # <<q, i>>})
            more(i) == [k \in 1 .. copies(i) |-> f]
            rx == [i \in DOMAIN r[q].rx |-> r[q].rx[i] \o more(i)]
            arr == [i \in DOMAIN r[q].arrived |-> r[q].arrived[i] \o more(i)]
<1>1. y = [r[q] EXCEPT !.rx = rx, !.arrived = arr] BY DEF Deliver
<1>2. ASSUME NEW i PROVE copies(i) \in Nat
  <2>1. {s \in sent : s[1] = r[q].bus[i] /\ s[2] # <<q, i>>} \subseteq sent OBVIOUS
  <2>. QED BY <2>1, FS_Subset, FS_CardinalityType
<1>3. ASSUME NEW i PROVE Copies(more(i), copies(i), f)
  <2>. HIDE DEF copies
  <2>. QED BY <1>2 DEF Copies
<1>. HIDE DEF more
<1>4. rx = [i \in DOMAIN r[q].rx |-> r[q].rx[i] \o more(i)] OBVIOUS
<1>5. arr = [i \in DOMAIN r[q].arrived |-> r[q].arrived[i] \o more(i)] OBVIOUS
<1>. HIDE DEF copies, rx, arr
<1>6. DOMAIN r[q] = DOMAIN Idle BY DEF Process
<1>7. /\ DOMAIN y = DOMAIN Idle /\ y.at = r[q].at /\ y.pc = r[q].pc /\ y.bus = r[q].bus
      /\ y.out = r[q].out /\ y.cmd = r[q].cmd /\ y.ready = r[q].ready
      /\ y.rx = rx /\ y.arrived = arr
  <2>1. {"rx", "arrived"} \subseteq DOMAIN r[q] BY <1>6 DEF Idle
  <2>. HIDE DEF y
  <2>. QED BY <1>1, <1>6, <2>1
<1>. HIDE DEF y
<1>8. DOMAIN y.rx = DOMAIN r[q].rx /\ DOMAIN y.arrived = DOMAIN r[q].arrived
  BY <1>4, <1>5, <1>7
<1>9. ASSUME Listening(r[q]), NEW i \in DOMAIN r[q].bus
      PROVE  /\ Longer(y.rx[i], r[q].rx[i], copies(i), f)
             /\ Longer(y.arrived[i], r[q].arrived[i], copies(i), f)
  <2>1. /\ i \in DOMAIN r[q].rx /\ i \in DOMAIN r[q].arrived
        /\ IsSeq(r[q].rx[i]) /\ IsSeq(r[q].arrived[i])
    BY <1>9 DEF Process
  <2>2. y.rx[i] = r[q].rx[i] \o more(i) /\ y.arrived[i] = r[q].arrived[i] \o more(i)
    BY <1>4, <1>5, <1>7, <2>1
  <2>3. Longer(r[q].rx[i] \o more(i), r[q].rx[i], copies(i), f) BY <1>3, <2>1, CopiesAreSeq
  <2>4. Longer(r[q].arrived[i] \o more(i), r[q].arrived[i], copies(i), f)
    BY <1>3, <2>1, CopiesAreSeq
  <2>. QED BY <2>2, <2>3, <2>4
<1>10. Listening(r[q]) => \A i \in DOMAIN r[q].bus : \E g : \E m \in Nat :
         Longer(y.rx[i], r[q].rx[i], m, g) /\ Longer(y.arrived[i], r[q].arrived[i], m, g)
  BY <1>2, <1>9
<1>11. Process(y) BY <1>7, <1>8, <1>10, ArrivalKeeps
<1>. QED BY <1>7, <1>11 DEF y

LEMMA DisturbTerminals ==
  ASSUME NEW r, NEW ps, Terminals(r)
  PROVE  Terminals(Disturb(r, ps))
<1>1. DOMAIN Disturb(r, ps) = Proc BY DEF Disturb
<1>. QED BY <1>1, DisturbKeeps DEF Terminals

LEMMA DeliverTerminals ==
  ASSUME NEW r, NEW f, NEW sent, IsFiniteSet(sent), Terminals(r)
  PROVE  Terminals(Deliver(r, f, sent))
<1>1. DOMAIN Deliver(r, f, sent) = Proc BY DEF Deliver
<1>. QED BY <1>1, DeliverKeeps DEF Terminals

(***************************************************************************)
(* The steps.                                                              *)
(***************************************************************************)
\* The interfaces opened for a command line.
LEMMA BusIsSeq ==
  ASSUME NEW p \in Proc, NEW c \in Commands[p]
  PROVE  /\ IsSeq([i \in DOMAIN c.ifs |-> c.ifs[i].bus])
         /\ DOMAIN [i \in DOMAIN c.ifs |-> c.ifs[i].bus] = DOMAIN c.ifs
<1>. DEFINE b == [i \in DOMAIN c.ifs |-> c.ifs[i].bus]
            n == Len(c.ifs)
<1>1. IsSeq(c.ifs) BY IfaceAssumption
<1>2. n \in Nat /\ DOMAIN c.ifs = 1 .. n BY <1>1, SeqFacts
<1>. HIDE DEF n
<1>3. b \in Seq({b[i] : i \in 1 .. n}) BY <1>2
<1>4. IsSeq(b) BY <1>3, SeqOver
<1>. QED BY <1>4

\* A process that has just begun to listen has printed nothing and missed nothing.
LEMMA FreshLines ==
  ASSUME NEW y, NEW i, y.out = <<>>, y.rx[i] = <<>>, y.arrived[i] = <<>>
  PROVE  IsSeq(y.rx[i]) /\ IsSeq(y.arrived[i]) /\ PrintedLines(y, i)
<1>1. IsSeq(y.out) /\ IsSeq(y.rx[i]) /\ IsSeq(y.arrived[i]) BY EmptyIsSeq
<1>2. Lines(y, i) = {} BY DEF Lines
<1>3. Cardinality(Lines(y, i)) = 0 BY <1>2, FS_EmptySet
<1>4. Follows(y.rx[i], y.arrived[i], Cardinality(Lines(y, i))) BY <1>3 DEF Follows
<1>5. Labelled(y, i) BY <1>2 DEF Labelled
<1>. QED BY <1>1, <1>4, <1>5, PrintedPointwise

LEMMA StartStep ==
  ASSUME DumpInv, NEW p \in Proc, NEW c \in Commands[p], Start(p, c)
  PROVE  DumpInv'
<1>1. CASE ~(IfacesOpen(c) /\ ArgsAccepted(c))
  <2>1. run' = [run EXCEPT ![p] = End(FALSE, <<>>)] BY <1>1 DEF Start
  <2>. QED BY <2>1, EndIsProcess, OneProcess DEF DumpInv
<1>2. CASE IfacesOpen(c) /\ ArgsAccepted(c)
  <2>. DEFINE bus == [i \in DOMAIN c.ifs |-> c.ifs[i].bus]
              none == [i \in DOMAIN c.ifs |-> <<>>]
              arrived == IF Listens(c) THEN none ELSE <<>>
              b == Target(c)[1]
              n == Target(c)[2]
              object == Dictionary[c.name].ix
              ps == IF Access(c) THEN Accessing(b, n) ELSE {}
              alone == Access(c) /\ ps = {} /\ n \in Present[b] /\ net[b][n] = <<>>
              before == IF c.op \in {"dict-dl", "dict-ul"} /\ n \in Present[b]
                             /\ object \in DOMAIN od[b][n]
                        THEN od[b][n][object] ELSE Junk
              y == [Idle EXCEPT !.cmd = c, !.pc = FirstPc(c), !.bus = bus, !.rx = none,
                                !.arrived = arrived, !.alone = alone, !.before = before]
  <2>1. run' = [Disturb(run, ps) EXCEPT ![p] = y] BY <1>2 DEF Start
  <2>. HIDE DEF ps, alone, before
  <2>2. /\ DOMAIN y = DOMAIN Idle /\ y.pc = FirstPc(c) /\ y.bus = bus /\ y.rx = none
        /\ y.arrived = arrived /\ y.out = <<>> /\ y.at = [field |-> "com", i |-> 0, j |-> 0]
    BY DEF Idle
  <2>. HIDE DEF y
  <2>3. AtPlace(y) BY <2>2 DEF AtPlace
  <2>4. IsSeq(y.bus) /\ DOMAIN y.bus = DOMAIN c.ifs BY <2>2, BusIsSeq
  <2>5. FirstPc(c) \in {"send", "poll", "once"} /\ (FirstPc(c) = "poll" => Listens(c))
    BY DEF FirstPc, Access, Listens
  <2>6. ASSUME FirstPc(c) = "poll", NEW i \in DOMAIN y.bus
        PROVE  IsSeq(y.rx[i]) /\ IsSeq(y.arrived[i]) /\ PrintedLines(y, i)
    <3>1. y.rx[i] = <<>> /\ y.arrived[i] = <<>> BY <2>2, <2>4, <2>5, <2>6
    <3>. QED BY <2>2, <3>1, FreshLines
  <2>7. FirstPc(c) = "poll" =>
          IsSeq(y.out) /\ DOMAIN y.rx = DOMAIN y.bus /\ DOMAIN y.arrived = DOMAIN y.bus
    BY <2>2, <2>4, <2>5, EmptyIsSeq
  <2>8. Process(y) BY <2>2, <2>3, <2>4, <2>5, <2>6, <2>7 DEF Process, Listening
  <2>9. Terminals(Disturb(run, ps)) BY DisturbTerminals DEF DumpInv
  <2>. QED BY <2>1, <2>8, <2>9, OneProcess DEF DumpInv
<1>. QED BY <1>1, <1>2

LEMMA SendRequestStep ==
  ASSUME DumpInv, NEW p \in Proc, SendRequest(p)
  PROVE  DumpInv'
<1>. DEFINE f == canmat_sdo2can(Req(run[p]), FALSE)
            sent == {<<run[p].bus[1], <<p, 1>>>>}
            r == Deliver(run, f, sent)
            x == [r[p] EXCEPT !.pc = "recv"]
<1>1. run' = [r EXCEPT ![p] = x] BY DEF SendRequest
<1>2. IsFiniteSet(sent) BY FS_Singleton
<1>3. Process(run[p]) BY DEF DumpInv, Terminals
<1>. HIDE DEF f, sent
<1>4. Terminals(r) BY <1>2, DeliverTerminals DEF DumpInv
<1>5. /\ Process(r[p]) /\ DOMAIN r[p] = DOMAIN Idle
  BY <1>2, <1>3, DeliverKeeps
<1>. HIDE DEF r
<1>6. DOMAIN x = DOMAIN Idle /\ x.pc = "recv" /\ x.bus = r[p].bus /\ x.at = r[p].at
  BY <1>5 DEF Idle
<1>. HIDE DEF x
<1>7. IsSeq(x.bus) /\ AtPlace(x) BY <1>5, <1>6 DEF Process, AtPlace
<1>8. Process(x) BY <1>6, <1>7, Deaf
<1>. QED BY <1>1, <1>4, <1>8, OneProcess DEF DumpInv

LEMMA SkipFrameStep ==
  ASSUME DumpInv, NEW p \in Proc, SkipFrame(p)
  PROVE  DumpInv'
<1>. DEFINE x == [run[p] EXCEPT !.rx[1] = Tail(@)]
<1>1. run' = [run EXCEPT ![p] = x] BY DEF SkipFrame
<1>2. Process(run[p]) /\ run[p].pc = "recv" BY DEF DumpInv, Terminals, SkipFrame
<1>3. DOMAIN x = DOMAIN Idle /\ x.pc = "recv" /\ x.bus = run[p].bus /\ x.at = run[p].at
  BY <1>2 DEF Process, Idle
<1>. HIDE DEF x
<1>4. IsSeq(x.bus) /\ AtPlace(x) BY <1>2, <1>3 DEF Process, AtPlace
<1>5. Process(x) BY <1>3, <1>4, Deaf
<1>. QED BY <1>1, <1>5, OneProcess DEF DumpInv

\* A process that is no listener.
Asks(r) == /\ DOMAIN r = DOMAIN Idle /\ IsSeq(r.bus) /\ AtPlace(r)
           /\ r.pc \notin {"poll", "drain"}

LEMMA GoesOn ==
  ASSUME NEW r, Asks(r), NEW field \in {"com", "cob", "trans", "map", "entry"}
  PROVE  Asks(GoOn(r, field))
<1>. DEFINE x == GoOn(r, field)
<1>1. /\ DOMAIN x = DOMAIN Idle /\ x.pc = "send" /\ x.bus = r.bus
      /\ x.at = [r.at EXCEPT !.field = field]
  BY DEF GoOn, Asks, Idle
<1>. HIDE DEF x
<1>2. AtPlace(x) BY <1>1 DEF Asks, AtPlace
<1>3. Asks(x) BY <1>1, <1>2 DEF Asks
<1>. QED BY <1>3 DEF x

LEMMA EndAsks ==
  ASSUME NEW ok, NEW out
  PROVE  Asks(End(ok, out))
<1>. DEFINE y == End(ok, out)
<1>1. /\ DOMAIN y = DOMAIN Idle /\ y.bus = <<>> /\ y.pc = "ended"
      /\ y.at = [field |-> "com", i |-> 0, j |-> 0]
  BY DEF End, Idle
<1>. HIDE DEF y
<1>2. Asks(y) BY <1>1, EmptyIsSeq DEF Asks, AtPlace
<1>. QED BY <1>2 DEF y

LEMMA NextPdoAsks ==
  ASSUME NEW r, Asks(r)
  PROVE  Asks(NextPdo(r))
<1>1. CASE r.at.i + 1 < PdoMax
  <2>. DEFINE x == [r EXCEPT !.pc = "send", !.at = [field |-> "com", i |-> r.at.i + 1, j |-> 0]]
  <2>1. /\ DOMAIN x = DOMAIN Idle /\ x.pc = "send" /\ x.bus = r.bus
        /\ x.at = [field |-> "com", i |-> r.at.i + 1, j |-> 0]
    BY DEF Asks, Idle
  <2>. HIDE DEF x
  <2>2. AtPlace(x) BY <2>1 DEF AtPlace
  <2>3. Asks(x) BY <2>1, <2>2 DEF Asks
  <2>. QED BY <1>1, <2>3 DEF NextPdo, x
<1>2. CASE ~(r.at.i + 1 < PdoMax)
  BY <1>2, EndAsks DEF NextPdo
<1>. QED BY <1>1, <1>2

\* The next entry of the mapping.
LEMMA NextEntryAsks ==
  ASSUME NEW r, Asks(r)
  PROVE  Asks([r EXCEPT !.at.j = @ + 1])
<1>. DEFINE x == [r EXCEPT !.at.j = @ + 1]
<1>1. /\ DOMAIN x = DOMAIN Idle /\ x.pc = r.pc /\ x.bus = r.bus
      /\ x.at = [r.at EXCEPT !.j = @ + 1]
  BY DEF Asks, Idle
<1>. HIDE DEF x
<1>2. AtPlace(x) BY <1>1 DEF Asks, AtPlace
<1>3. Asks(x) BY <1>1, <1>2 DEF Asks
<1>. QED BY <1>3 DEF x

LEMMA AfterReadAsks ==
  ASSUME NEW r, Asks(r)
  PROVE  Asks(AfterRead(r))
<1>1. CASE r.at.field = "com"
  <2>1. AfterRead(r) = GoOn(r, IF r.com_size > 0 THEN "cob" ELSE "map")
    BY <1>1 DEF AfterRead
  <2>. QED BY <2>1, GoesOn
<1>2. CASE r.at.field = "cob"
  <2>1. AfterRead(r) = GoOn(r, IF r.com_size > 1 THEN "trans" ELSE "map")
    BY <1>2 DEF AfterRead
  <2>. QED BY <2>1, GoesOn
<1>3. CASE r.at.field = "trans"
  <2>1. AfterRead(r) = GoOn(r, "map") BY <1>3 DEF AfterRead
  <2>. QED BY <2>1, GoesOn
<1>4. CASE r.at.field = "map"
  <2>1. AfterRead(r) = IF r.map_size > 0 THEN GoOn(r, "entry") ELSE NextPdo(r)
    BY <1>4 DEF AfterRead
  <2>. QED BY <2>1, GoesOn, NextPdoAsks
<1>5. CASE r.at.field = "entry"
  <2>1. AfterRead(r) = IF r.at.j + 1 < r.map_size
                       THEN [GoOn(r, "entry") EXCEPT !.at.j = @ + 1] ELSE NextPdo(r)
    BY <1>5 DEF AfterRead
  <2>2. Asks(GoOn(r, "entry")) BY GoesOn
  <2>3. Asks([GoOn(r, "entry") EXCEPT !.at.j = @ + 1]) BY <2>2, NextEntryAsks
  <2>. QED BY <2>1, <2>3, NextPdoAsks
<1>. QED BY <1>1, <1>2, <1>3, <1>4, <1>5 DEF Asks, AtPlace

LEMMA ProbeReadAsks ==
  ASSUME NEW r, Asks(r), NEW w
  PROVE  Asks(ProbeRead(r, w))
<1>. DEFINE com == IF r.at.field = "com" THEN w ELSE r.com_size
            map == IF r.at.field = "map" THEN w ELSE r.map_size
            out == Append(r.out, <<r.at.i, r.at.field>> \o Shown(r.at.field, w))
            x == [r EXCEPT !.com_size = com, !.map_size = map, !.out = out]
<1>1. ProbeRead(r, w) = AfterRead(x) BY DEF ProbeRead
<1>. HIDE DEF com, map, out
<1>2. DOMAIN x = DOMAIN Idle /\ x.pc = r.pc /\ x.bus = r.bus /\ x.at = r.at
  BY DEF Asks, Idle
<1>. HIDE DEF x
<1>3. Asks(x) BY <1>2 DEF Asks, AtPlace
<1>. QED BY <1>1, <1>3, AfterReadAsks

LEMMA RecvResponseStep ==
  ASSUME DumpInv, NEW p \in Proc, RecvResponse(p)
  PROVE  DumpInv'
<1>. DEFINE r == [run[p] EXCEPT !.rx[1] = Tail(@)]
            t == Req(r).type
            resp == canmat_can2sdo(Head(run[p].rx[1]), t)
            val == Store(resp.data, resp.length)
            x == IF r.cmd.op = "probe" /\ resp.status = "ERR_ABORT" /\ r.at.field = "com"
                 THEN NextPdo(r)
                 ELSE IF resp.status # "OK" \/ (r.cmd.op = "probe" /\ resp.cs # ScsExUl)
                 THEN End(FALSE, <<>>)
                 ELSE CASE r.cmd.op = "dict-dl" -> End(TRUE, <<>>)
                        [] r.cmd.op = "dict-ul" -> End(TRUE, Printed(t, val))
                        [] OTHER -> ProbeRead(r, Value(t, val))
<1>1. run' = [run EXCEPT ![p] = x] BY DEF RecvResponse
<1>2. Process(run[p]) /\ run[p].pc = "recv" BY DEF DumpInv, Terminals, RecvResponse
<1>3. DOMAIN r = DOMAIN Idle /\ r.pc = "recv" /\ r.bus = run[p].bus /\ r.at = run[p].at
  BY <1>2 DEF Process, Idle
<1>. HIDE DEF r
<1>4. Asks(r) BY <1>2, <1>3 DEF Process, AtPlace, Asks
<1>. HIDE DEF resp, t, val
<1>5. /\ Asks(NextPdo(r)) /\ Asks(ProbeRead(r, Value(t, val)))
      /\ \A ok, out : Asks(End(ok, out))
  BY <1>4, NextPdoAsks, ProbeReadAsks, EndAsks
<1>6. Asks(x)
  BY <1>5
<1>. HIDE DEF x
<1>7. Process(x) BY <1>6, Deaf DEF Asks
<1>. QED BY <1>1, <1>7, OneProcess DEF DumpInv

LEMMA SendFrameStep ==
  ASSUME DumpInv, NEW p \in Proc, SendFrame(p)
  PROVE  DumpInv'
<1>1. PICK f \in FramesOf(run[p].cmd), failed \in SUBSET DOMAIN run[p].bus :
        LET sent == Handles(run[p], p, failed)
            hit  == IF f.func \in {"sdo_tx", "sdo_rx"}
                    THEN UNION {Accessing(s[1], f.node) : s \in sent} ELSE {}
            ok   == run[p].cmd.op = "nmt" => failed = {}
        IN run' = [Disturb(Deliver(run, f, sent), hit) EXCEPT ![p] = End(ok, <<>>)]
  BY DEF SendFrame
<1>. DEFINE sent == Handles(run[p], p, failed)
            hit  == IF f.func \in {"sdo_tx", "sdo_rx"}
                    THEN UNION {Accessing(s[1], f.node) : s \in sent} ELSE {}
            ok   == run[p].cmd.op = "nmt" => failed = {}
<1>2. run' = [Disturb(Deliver(run, f, sent), hit) EXCEPT ![p] = End(ok, <<>>)] BY <1>1
<1>3. IsFiniteSet(sent)
  <2>1. IsSeq(run[p].bus) BY DEF DumpInv, Terminals, Process
  <2>2. IsFiniteSet(DOMAIN run[p].bus) BY <2>1, SeqFacts, FS_Interval
  <2>3. IsFiniteSet(DOMAIN run[p].bus \ failed) BY <2>2, FS_Subset
  <2>. DEFINE S == DOMAIN run[p].bus \ failed
  <2>4. IsFiniteSet({<<run[p].bus[i], <<p, i>>>> : i \in S})
    <3>. DEFINE g == [i \in S |-> <<run[p].bus[i], <<p, i>>>>]
    <3>1. g \in Surjection(S, {<<run[p].bus[i], <<p, i>>>> : i \in S})
      BY DEF Surjection
    <3>. HIDE DEF g
    <3>. QED BY <2>3, <3>1, FS_Surjection
  <2>. QED BY <2>4 DEF Handles
<1>. HIDE DEF hit, ok, sent
<1>4. Terminals(Deliver(run, f, sent)) BY <1>3, DeliverTerminals DEF DumpInv
<1>5. Terminals(Disturb(Deliver(run, f, sent), hit)) BY <1>4, DisturbTerminals
<1>. QED BY <1>2, <1>5, EndIsProcess, OneProcess DEF DumpInv

\* The commands of one step that end, in whatever way.
LEMMA EndStep ==
  ASSUME DumpInv, NEW p \in Proc, NEW ok, NEW out, run' = [run EXCEPT ![p] = End(ok, out)]
  PROVE  DumpInv'
BY EndIsProcess, OneProcess DEF DumpInv

LEMMA OnceStep ==
  ASSUME DumpInv, NEW p \in Proc,
         SendNoFrame(p) \/ IfaceFails(p) \/ Interrupt(p)
  PROVE  DumpInv'
<1>1. CASE SendNoFrame(p) BY <1>1, EndStep DEF SendNoFrame
<1>2. CASE IfaceFails(p) BY <1>2, EndStep DEF IfaceFails
<1>3. CASE Interrupt(p) BY <1>3, EndStep DEF Interrupt
<1>. QED BY <1>1, <1>2, <1>3

\* One line is printed, or an assertion of the display ends the process; left is the
\* process as the loop over the interfaces leaves it.
LEMMA Pollin1Keeps ==
  ASSUME NEW r, Process(r), Listening(r), NEW i \in DOMAIN r.bus, r.rx[i] # <<>>,
         NEW left, DOMAIN left = DOMAIN Idle,
         left.pc = "drain" => left.ready \subseteq DOMAIN r.bus,
         left.at = r.at, left.bus = r.bus, left.cmd = r.cmd, left.rx = r.rx,
         left.arrived = r.arrived, left.out = r.out
  PROVE  Process(Pollin1(left, i))
<1>1. CASE left.cmd.op = "display" /\ DisplayAborts(Head(left.rx[i]))
  BY <1>1, EndIsProcess DEF Pollin1
<1>2. CASE ~(left.cmd.op = "display" /\ DisplayAborts(Head(left.rx[i])))
  <2>. DEFINE line == <<i, Printer(left.cmd, Head(left.rx[i]))>>
              y == [left EXCEPT !.rx[i] = Tail(@), !.out = Append(@, line)]
  <2>1. Pollin1(left, i) = y BY <1>2 DEF Pollin1
  <2>. HIDE DEF line
  <2>2. /\ DOMAIN y = DOMAIN Idle /\ y.pc = left.pc /\ y.ready = left.ready
        /\ y.at = left.at /\ y.bus = left.bus /\ y.cmd = left.cmd
        /\ y.arrived = left.arrived /\ y.rx = [left.rx EXCEPT ![i] = Tail(@)]
        /\ y.out = Append(left.out, line)
    BY DEF Idle
  <2>. HIDE DEF y
  <2>3. y.out = Append(r.out, <<i, Printer(r.cmd, Head(r.rx[i]))>>) BY <2>2 DEF line
  <2>4. Process(y) BY <2>2, <2>3, PrintKeeps
  <2>. QED BY <2>1, <2>4
<1>. QED BY <1>1, <1>2

LEMMA ReadOnlyStep ==
  ASSUME DumpInv, NEW p \in Proc, ReadOnly(p)
  PROVE  DumpInv'
<1>. DEFINE r == run[p]
<1>1. /\ run' = [run EXCEPT ![p] = Pollin1(r, 1)]
      /\ r.pc = "poll" /\ Len(r.bus) = 1 /\ r.rx[1] # <<>>
  BY DEF ReadOnly
<1>2. Process(r) BY DEF DumpInv, Terminals
<1>. HIDE DEF r
<1>3. 1 \in DOMAIN r.bus BY <1>1, <1>2, SeqFacts DEF Process
<1>4. DOMAIN r = DOMAIN Idle /\ Listening(r) BY <1>1, <1>2 DEF Process, Listening
<1>5. Process(Pollin1(r, 1)) BY <1>1, <1>2, <1>3, <1>4, Pollin1Keeps
<1>. QED BY <1>1, <1>5, OneProcess DEF DumpInv

LEMMA PollStep ==
  ASSUME DumpInv, NEW p \in Proc, Poll(p)
  PROVE  DumpInv'
<1>. DEFINE r == run[p]
<1>1. PICK errs :
        run' = [run EXCEPT ![p].pc = "drain", ![p].ready = Revents(run[p]), ![p].errs = errs]
  BY DEF Poll
<1>. DEFINE x == [r EXCEPT !.pc = "drain", !.ready = Revents(r), !.errs = errs]
<1>2. Process(r) /\ r.pc = "poll" BY DEF DumpInv, Terminals, Poll
<1>3. run' = [run EXCEPT ![p] = x] BY <1>1, <1>2 DEF DumpInv, Terminals
<1>. HIDE DEF r
<1>4. Revents(r) \subseteq DOMAIN r.bus BY DEF Revents
<1>5. /\ DOMAIN x = DOMAIN Idle /\ x.pc = "drain" /\ x.ready = Revents(r)
      /\ x.at = r.at /\ x.bus = r.bus /\ x.cmd = r.cmd /\ x.rx = r.rx
      /\ x.arrived = r.arrived /\ x.out = r.out
  BY <1>2 DEF Process, Idle
<1>. HIDE DEF x
<1>6. \A i : PrintedLines(r, i) => PrintedLines(x, i) BY <1>5 DEF PrintedLines
<1>7. AtPlace(x) BY <1>2, <1>5 DEF Process, AtPlace
<1>8. Process(x) BY <1>2, <1>4, <1>5, <1>6, <1>7 DEF Process, Listening
<1>. QED BY <1>3, <1>8, OneProcess DEF DumpInv

LEMMA DrainStep ==
  ASSUME DumpInv, NEW p \in Proc, Drain(p)
  PROVE  DumpInv'
<1>. DEFINE r == run[p]
            reported == r.ready \union r.errs
            pc(i) == IF reported = {i} THEN "poll" ELSE "drain"
            left(i) == [r EXCEPT !.ready = @ \ {i}, !.pc = pc(i)]
<1>1. PICK i \in reported :
        \/ i \in r.errs /\ run' = [run EXCEPT ![p] = End(FALSE, <<>>)]
        \/ /\ i \notin r.errs /\ r.rx[i] # <<>>
           /\ run' = [run EXCEPT ![p] = Pollin1(left(i), i)]
  BY DEF Drain
<1>2. CASE run' = [run EXCEPT ![p] = End(FALSE, <<>>)] BY <1>2, EndStep
<1>3. CASE /\ i \notin r.errs /\ r.rx[i] # <<>>
           /\ run' = [run EXCEPT ![p] = Pollin1(left(i), i)]
  <2>1. Process(r) /\ r.pc = "drain" BY DEF DumpInv, Terminals, Drain
  <2>2. i \in r.ready BY <1>3
  <2>. DEFINE l == left(i)
  <2>3. run' = [run EXCEPT ![p] = Pollin1(l, i)] /\ r.rx[i] # <<>> BY <1>3
  <2>4. pc(i) \in {"poll", "drain"} OBVIOUS
  <2>. HIDE DEF r, pc
  <2>5. r.ready \subseteq DOMAIN r.bus /\ Listening(r) BY <2>1 DEF Process, Listening
  <2>6. /\ DOMAIN l = DOMAIN Idle /\ l.ready = r.ready \ {i} /\ l.at = r.at
        /\ l.bus = r.bus /\ l.cmd = r.cmd /\ l.rx = r.rx /\ l.arrived = r.arrived
        /\ l.out = r.out
    BY <2>1 DEF Process, Idle
  <2>. HIDE DEF l
  <2>7. i \in DOMAIN r.bus /\ l.ready \subseteq DOMAIN r.bus BY <2>2, <2>5, <2>6
  <2>8. Process(Pollin1(l, i)) BY <2>1, <2>3, <2>5, <2>6, <2>7, Pollin1Keeps
  <2>. QED BY <2>3, <2>8, OneProcess DEF DumpInv
<1>. QED BY <1>1, <1>2, <1>3

LEMMA ServeStep ==
  ASSUME DumpInv, NEW b, NEW n, Serve(b, n)
  PROVE  DumpInv'
<1>. DEFINE sent == {<<b, Nobody>>}
<1>1. PICK answer : run' = Deliver(run, answer, sent) BY DEF Serve
<1>2. IsFiniteSet(sent) BY FS_Singleton
<1>. HIDE DEF sent
<1>. QED BY <1>1, <1>2, DeliverTerminals DEF DumpInv

LEMMA InitDump ==
  ASSUME Init
  PROVE  DumpInv
<1>1. run = [p \in Proc |-> Idle] BY DEF Init
<1>2. Idle.bus = <<>> /\ Idle.pc = "ended" /\ Idle.at = [field |-> "com", i |-> 0, j |-> 0]
  BY DEF Idle
<1>3. IsSeq(Idle.bus) /\ AtPlace(Idle) BY <1>2, EmptyIsSeq DEF AtPlace
<1>4. Process(Idle) BY <1>2, <1>3, Deaf
<1>. QED BY <1>1, <1>4 DEF DumpInv, Terminals

LEMMA DumpStep ==
  ASSUME DumpInv, [Next]_vars
  PROVE  DumpInv'
<1>1. CASE UNCHANGED vars BY <1>1 DEF vars, DumpInv
<1>2. ASSUME NEW p \in Proc, NEW c \in Commands[p], Start(p, c) PROVE DumpInv'
  BY <1>2, StartStep
<1>3. ASSUME NEW p \in Proc, SendRequest(p) \/ SkipFrame(p) \/ RecvResponse(p) \/ SendFrame(p)
      PROVE  DumpInv'
  BY <1>3, SendRequestStep, SkipFrameStep, RecvResponseStep, SendFrameStep
<1>4. ASSUME NEW p \in Proc,
             SendNoFrame(p) \/ IfaceFails(p) \/ Interrupt(p)
      PROVE  DumpInv'
  BY <1>4, OnceStep
<1>5. ASSUME NEW p \in Proc, Dump(p) PROVE DumpInv'
  BY <1>5, ReadOnlyStep, PollStep, DrainStep DEF Dump
<1>6. ASSUME NEW b \in Bus, NEW n \in Present[b], Serve(b, n) PROVE DumpInv'
  BY <1>6, ServeStep
<1>. QED BY <1>1, <1>2, <1>3, <1>4, <1>5, <1>6 DEF Next

\* What a dump or display has printed of each of its interfaces is what it shows of the
\* frames that interface received, in order, up to those that wait there, for any
\* terminals, buses, command lines and traffic (cmd_pollin, pollin1).
THEOREM DumpCorrect == Spec => []DumpFaithful
<1>1. DumpInv => DumpFaithful BY DEF DumpInv, Terminals, Process, Listening, DumpFaithful
<1>. QED BY InitDump, DumpStep, <1>1, PTL DEF Spec
=============================================================================
