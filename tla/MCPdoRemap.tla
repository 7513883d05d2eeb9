----------------------------- MODULE MCPdoRemap ------------------------------
(***************************************************************************)
(* PdoRemap with three objects, one of a type that cannot be mapped, and   *)
(* argument lists of can402 (feedback TPDO, reference RPDO), of canmat     *)
(* map-rpdo (all options left), and outside the ranges.                    *)
(***************************************************************************)
EXTENDS PdoRemap

CONSTANTS pos, vel, real

MCBitSize == [o \in Obj |-> IF o = real THEN -1 ELSE 32]

MCInitPdo == [valid |-> TRUE, trans |-> 255, inhibit |-> 7, timer |-> 0,
              number |-> 1, map |-> [k \in 1 .. MaxMap |-> vel]]

ArgsOf(trans, inhibit, timer, objs) ==
  [trans |-> trans, inhibit |-> inhibit, timer |-> timer, objs |-> objs]

MCArgs == { ArgsOf(254, -1, 10, <<pos, vel>>),
            ArgsOf(254, -1, -1, <<vel>>),
            ArgsOf(-1, -1, -1, <<pos>>),
            ArgsOf(1, 300, 20, <<vel, pos>>),
            ArgsOf(0, 0, 65535, <<>>),
            ArgsOf(255, -1, -1, <<pos, real>>),
            ArgsOf(256, -1, -1, <<pos>>),
            ArgsOf(-1, 65536, -1, <<pos>>) }
=============================================================================
