------------------------------ MODULE MCCan402 -------------------------------
(***************************************************************************)
(* Can402 with two drives: once with references and failing sends and no   *)
(* feedback frame, once with feedback frames and no reference.             *)
(***************************************************************************)
EXTENDS Can402

NoFrames   == [d \in Drive |-> 0]
SomeFrames == [d \in Drive |-> 4 - d]

Opt(o, n) == [opt |-> o, arg |-> n]
F  == Opt("f", 1)
N3 == Opt("n", 3)
N4 == Opt("n", 4)

Nodes(n) == [i \in 1 .. n + 1 |-> IF i = 1 THEN F ELSE Opt("n", i - 1)]

\* The first gives both drives the numbers 0 and 1, the second 2 and 1, and 2 and 3.
GoodLines == {<<F, N3, N4>>, <<N3, Opt("C", 2), N4, Opt("R", 3), F>>}

\* No interface, no node, an offset or a number where none may be, numbers that are
\* equal although no option says so, one node too many.
BadLines ==
  {<<N3, N4>>, <<F>>, <<F, Opt("d", 0), N3, N4>>, <<Opt("f", 0), N3, N4>>,
   <<F, N3, N4, Opt("R", 256)>>, <<F, Opt("n", 8), N4>>, <<F, N3, N4, Opt("x", 0)>>,
   <<F, N3, N4, Opt("C", 1)>>, <<Opt("R", 0), F, N3, N4>>,
   Nodes(7)}

OneLine  == {<<F, N3, N4>>}
AllLines == GoodLines \union BadLines

-----------------------------------------------------------------------------
(***************************************************************************)
(* parse against what its options mean: a drive has the number of the last *)
(* option before the next "-n", or else the default, and as many as the    *)
(* limit are accepted.                                                     *)
(***************************************************************************)
Lines == UNION {[1 .. n -> {F, N3, N4, Opt("C", 2), Opt("R", 2), Opt("R", 0)}] : n \in 0 .. 5}

NodeAt(l)         == {i \in DOMAIN l : l[i].opt = "n"}
Before(l, i)      == {j \in DOMAIN l : \A m \in NodeAt(l) : m <= i \/ j < m}
Num(l, i, o, def) ==
  LET at == {j \in Before(l, i) : l[j].opt = o}
  IN  IF at = {} THEN def ELSE l[CHOOSE j \in at : \A m \in at : m <= j].arg
Meant(l, i) == [node |-> l[i].arg, ctrl |-> Num(l, i, "C", 0), user |-> Num(l, i, "R", 1)]

ASSUME ParseAsMeant ==
  \A l \in Lines :
    /\ Accepted(l) <=> /\ \E i \in DOMAIN l : l[i].opt = "f"
                       /\ NodeAt(l) # {}
                       /\ \A i \in NodeAt(l) : Meant(l, i).ctrl # Meant(l, i).user
    /\ \A i \in NodeAt(l) :
         Parsed(l).drives[Cardinality({j \in NodeAt(l) : j <= i})] = Meant(l, i)

ASSUME ParseUpToTheLimit == Accepted(Nodes(6)) /\ ~Accepted(Nodes(7))
=============================================================================
