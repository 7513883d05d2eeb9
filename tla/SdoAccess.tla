------------------------------ MODULE SdoAccess ------------------------------
(***************************************************************************)
(* What an access to a remote object promises its caller, without frames,  *)
(* COB-IDs and queues: between the start and the end of the access the     *)
(* node does it once, or refuses it, and the caller is told which.         *)
(*                                                                         *)
(* The promise has two exceptions.  An access the caller has given up may  *)
(* still be done, once, later.  And of a node that was given up on, or is  *)
(* used by another master, the caller learns nothing any more, although    *)
(* the node still does every access at most once.                          *)
(***************************************************************************)
EXTENDS Sequences

CONSTANTS
  Node, Obj, Val,
  Call,       \* accesses: of a node, "UL" or "DL", of an object, with a value
  Garbage,    \* no value
  NoCall,     \* before the first access
  InitialOd   \* the objects before the first access

VARIABLES
  phase,    \* "none", "open": an access is going on; "ended"; "crashed"
  op,       \* the access that is open, or was last
  effect,   \* what the node has done about the open access
  late,     \* late[n]: given up accesses node n may still do, oldest first
  od,       \* od[n][o]: the objects
  trusted,  \* the nodes whose answers are those the caller waits for
  result    \* of the last access: [status, val]

vars == <<phase, op, effect, late, od, trusted, result>>

Init ==
  /\ phase = "none" /\ op = NoCall /\ effect = "none"
  /\ late = [n \in Node |-> <<>>]
  /\ od = InitialOd
  /\ trusted = Node
  /\ result = [status |-> "OK", val |-> Garbage]

Failed == [status |-> "ERR_OS", val |-> Garbage]

Open(c) ==
  /\ phase \in {"none", "ended"}
  /\ phase' = "open"
  /\ op' = c
  /\ UNCHANGED <<effect, late, od, trusted, result>>

\* The access ends before it reaches the node.
OpenFails(c) ==
  /\ phase \in {"none", "ended"}
  /\ phase' \in {"ended", "crashed"}
  /\ op' = c
  /\ result' = Failed
  /\ UNCHANGED <<effect, late, od, trusted>>

\* What access a of node n does to the objects
Done(n, a) ==
  od' = IF a.cs = "DL" THEN [od EXCEPT ![n][a.obj] = a.val] ELSE od

\* The node does what it is asked in the order it is asked.
Act ==
  /\ phase = "open"
  /\ effect = "none"
  /\ late[op.node] = <<>>
  /\ \/ effect' = "done" /\ Done(op.node, op)
     \/ effect' = "refused" /\ UNCHANGED od
  /\ UNCHANGED <<phase, op, late, trusted, result>>

ActLate(n) ==
  /\ late[n] # <<>>
  /\ late' = [late EXCEPT ![n] = Tail(@)]
  /\ Done(n, Head(late[n])) \/ UNCHANGED od
  /\ UNCHANGED <<phase, op, effect, trusted, result>>

\* What is left of an access that ends before the node has done anything
LeftOver ==
  late' = IF effect = "none"
          THEN [late EXCEPT ![op.node] = Append(@, [cs |-> op.cs, obj |-> op.obj, val |-> op.val])]
          ELSE late

\* The caller is told the truth, and an upload gives the value the object has.
Close ==
  /\ phase = "open"
  /\ op.node \in trusted
  /\ \/ /\ effect = "done"
        /\ result' = [status |-> "OK",
                      val |-> IF op.cs = "UL" THEN od[op.node][op.obj] ELSE Garbage]
     \/ /\ effect = "refused"
        /\ result' = [status |-> "ERR_ABORT", val |-> Garbage]
  /\ phase' = "ended"
  /\ effect' = "none"
  /\ UNCHANGED <<op, late, od, trusted>>

\* The caller is told something.
CloseUntrusted ==
  /\ phase = "open"
  /\ op.node \notin trusted
  /\ phase' = "ended"
  /\ result' \in [status : {"OK", "ERR_PROTO", "ERR_ABORT"}, val : Val \union {Garbage}]
  /\ effect' = "none"
  /\ LeftOver
  /\ UNCHANGED <<op, od, trusted>>

GiveUp ==
  /\ phase = "open"
  /\ phase' \in {"ended", "crashed"}
  /\ result' = Failed
  /\ trusted' = trusted \ {op.node}
  /\ effect' = "none"
  /\ LeftOver
  /\ UNCHANGED <<op, od>>

Interfere(n) ==
  /\ trusted' = trusted \ {n}
  /\ \/ \E o \in Obj, v \in Val : od' = [od EXCEPT ![n][o] = v]
     \/ UNCHANGED od
  /\ UNCHANGED <<phase, op, effect, late, result>>

Next ==
  \/ \E c \in Call : Open(c) \/ OpenFails(c)
  \/ Act \/ Close \/ CloseUntrusted \/ GiveUp
  \/ \E n \in Node : ActLate(n) \/ Interfere(n)

Spec == Init /\ [][Next]_vars
=============================================================================
