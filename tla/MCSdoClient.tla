---------------------------- MODULE MCSdoClient -----------------------------
(***************************************************************************)
(* SdoClient on small instances: two nodes, objects of two sizes, and the  *)
(* mutated forms of its operators.                                         *)
(***************************************************************************)
EXTENDS SdoRefinement

CONSTANTS n1, n2, o16, p16, o32

MCInitialOd == [n \in Node |-> [o \in Obj |-> 0]]
MCSize == [o \in Obj |-> IF o = o32 THEN 4 ELSE 2]
=============================================================================
