----------------------------- MODULE MCNtcanOpen -----------------------------
(***************************************************************************)
(* NtcanOpen with an AMC board and a node whose answers are short, bytes   *)
(* of four values, and objects of every type the calls have.               *)
(***************************************************************************)
EXTENDS NtcanOpen, TLC

CONSTANTS amc, robotiq, o8, o16, o32, oi32

MCObjType == (o8 :> "u8") @@ (o16 :> "u16") @@ (o32 :> "u32") @@ (oi32 :> "i32")

MCInitial == (amc :> ((o8 :> 3) @@ (o32 :> 200) @@ (oi32 :> -5)))
             @@ (robotiq :> ((o8 :> 2) @@ (o16 :> 9) @@ (oi32 :> -128)))

Of(t) == CHOOSE o \in DOMAIN MCObjType : MCObjType[o] = t

Ul(n, t) == [op |-> "ul", node |-> n, type |-> t, obj |-> Of(t), value |-> 0, amc |-> n = amc]
Dl(n, t, v) == [op |-> "dl", node |-> n, type |-> t, obj |-> Of(t), value |-> v, amc |-> n = amc]

\* Among them an object a node has not, and an AMC board called like any other node.
MCCalls ==
  {Ul(n, t) : n \in Node, t \in {"u8", "i32"}}
  \union {Ul(robotiq, "u16"), Ul(amc, "u16"), Ul(amc, "u32")}
  \union {Dl(n, "u8", 1) : n \in Node}
  \union {Dl(robotiq, "u16", 14), Dl(amc, "u16", 1), Dl(amc, "u32", 255),
          Dl(amc, "i32", -1), Dl(robotiq, "i32", 7),
          [Dl(amc, "u8", 0) EXCEPT !.amc = FALSE],
          [Ul(robotiq, "u16") EXCEPT !.type = "u32"],
          [Ul(robotiq, "u8") EXCEPT !.type = "u16"]}
=============================================================================
