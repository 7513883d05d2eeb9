---------------------------- MODULE SdoRefinement ----------------------------
(***************************************************************************)
(* The SDO client implements SdoAccess.  Which part of an access is done   *)
(* is read off the frames: its request is on the way, or its response is.  *)
(***************************************************************************)
EXTENDS SdoClient

Phase ==
  CASE pc = "recv"              -> "open"
    [] pc = "aborted"           -> "crashed"
    [] pc = "idle" /\ calls = 0 -> "none"
    [] OTHER                    -> "ended"

\* A frame of the call that is open
Own(f) == pc = "recv" /\ f.tag = calls

Effect ==
  IF \E i \in DOMAIN rxq : Own(rxq[i]) /\ rxq[i].scs = "ABORT" THEN "refused"
  ELSE IF \E i \in DOMAIN rxq : Own(rxq[i]) THEN "done"
  ELSE "none"

\* The requests of earlier calls, without their tags: the open call's is the last one.
Untagged(r) == [cs |-> r.cs, obj |-> r.obj, val |-> r.val]

RequestPending(n) == net[n] # <<>> /\ Own(net[n][Len(net[n])])

Late(n) ==
  [i \in 1 .. Len(net[n]) - (IF RequestPending(n) THEN 1 ELSE 0) |-> Untagged(net[n][i])]

Access == INSTANCE SdoAccess WITH
  phase   <- Phase,
  op      <- call,
  effect  <- Effect,
  late    <- [n \in Node |-> Late(n)],
  trusted <- Node \ tainted,
  result  <- [status |-> out.status, val |-> out.val]

(***************************************************************************)
(* Every behaviour of the client is one SdoAccess allows: an accessor ends *)
(* with OK only after the node has done this access and no other in its    *)
(* place, with an abort only if it has not, a failed one is done at most   *)
(* once, and nothing else the client does touches a node's objects         *)
(* (sdo.c:210-239, sdo.h).                                                 *)
(***************************************************************************)
ImplementsAccess == Access!Spec
=============================================================================
