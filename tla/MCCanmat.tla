------------------------------ MODULE MCCanmat ------------------------------
(***************************************************************************)
(* Canmat on a small instance: bytes of four values, two buses, objects of *)
(* every type, PDOs with gaps, with and without parameters and mappings.   *)
(***************************************************************************)
EXTENDS Canmat

CONSTANTS p1, p2

CAN0 == [api |-> "socketcan", bus |-> "can0"]
CAN1 == [api |-> "socketcan", bus |-> "can1"]
ESD0 == [api |-> "ntcan", bus |-> "can0"]

MCPresent == [can0 |-> {1}, can1 |-> {1, 2}]

Speed == Key(1, 0)
Mode == Key(1, 1)
Position == Key(1, 2)
Control == Key(1, 3)
Limit == Key(2, 0)
Flags == Key(2, 1)
Count == Key(2, 2)
Gain == Key(3, 0)

MCDictionary == [speed    |-> [ix |-> Speed, type |-> "i16", var |-> TRUE],
                 mode     |-> [ix |-> Mode, type |-> "i8", var |-> TRUE],
                 position |-> [ix |-> Position, type |-> "i32", var |-> TRUE],
                 control  |-> [ix |-> Control, type |-> "u16", var |-> TRUE],
                 limit    |-> [ix |-> Limit, type |-> "u32", var |-> TRUE],
                 flags    |-> [ix |-> Flags, type |-> "u8", var |-> TRUE],
                 count    |-> [ix |-> Count, type |-> "i16", var |-> TRUE],
                 gain     |-> [ix |-> Gain, type |-> "real32", var |-> TRUE],
                 name     |-> [ix |-> Key(3, 1), type |-> "string", var |-> TRUE],
                 rpdo     |-> [ix |-> Key(4, 0), type |-> "u8", var |-> FALSE]]

Numbers == {"speed", "mode", "position", "control", "limit", "flags"}

\* The nodes' types.  They count in i8, which is not what the dictionary says.  Of the
\* PDOs, subindex 0 and the transmission type are u8.
MCObjType == [ix \in 0 .. 63 |->
  IF ix = Count THEN "i8"
  ELSE IF \E name \in Numbers \union {"gain"} : Dictionary[name].ix = ix
       THEN Dictionary[CHOOSE name \in Numbers \union {"gain"} : Dictionary[name].ix = ix].type
  ELSE IF ix % Byte = 0 \/ (ix < Key(MapBase, 0) /\ ix % Byte = 2) THEN "u8" ELSE "u32"]

Objects == (Speed :> -3) @@ (Mode :> 1) @@ (Position :> -100) @@ (Control :> 9)
           @@ (Limit :> 200) @@ (Flags :> 2) @@ (Count :> 1) @@ (Gain :> 77)

\* COM parameters (cob, then trans) and mapped objects of RPDO i
RpdoObjects(i, com, mapped) ==
  (Key(ComBase + i, 0) :> Len(com)) @@ (Key(MapBase + i, 0) :> Len(mapped))
  @@ [ix \in {Key(ComBase + i, j) : j \in DOMAIN com} |-> com[ix % Byte]]
  @@ [ix \in {Key(MapBase + i, j) : j \in DOMAIN mapped} |-> mapped[ix % Byte]]

\* Only RPDO 1, with speed and an object nobody knows; RPDOs 0 and 2, one without a
\* mapping and one without parameters; an RPDO 0 whose mapping is missing.
MCInitial ==
  [can0 |-> (1 :> (Objects @@ RpdoObjects(1, <<130>>, <<Speed * Byte + 2, Key(9, 1) * Byte + 1>>))),
   can1 |-> (1 :> (Objects @@ RpdoObjects(0, <<131, 1>>, <<>>)
                           @@ RpdoObjects(2, <<>>, <<Mode * Byte + 1>>)))
            @@ (2 :> (Key(4, 0) :> 0))]

\* On can1 the mode is not to be written.
MCFixed == [can0 |-> {}, can1 |-> {Mode}]

\* Command lines.  Node 99 is more than CANMAT_NODE_MASK.
Dl(if, name, text) == [op |-> "dict-dl", ifs |-> <<if>>, node |-> 1, name |-> name, text |-> text]
Ul(if, name) == [op |-> "dict-ul", ifs |-> <<if>>, node |-> 1, name |-> name]
Probe(if, node) == [op |-> "probe", ifs |-> <<if>>, node |-> node]
Send(ifs, f) == [op |-> "send", ifs |-> ifs, frame |-> f]

\* The ends of a type's range, and the numbers next to them outside
Lowest(t) == IF t \in Signed THEN -(Byte^Width[t] \div 2) ELSE 0
Highest(t) == IF t \in Signed THEN Byte^Width[t] \div 2 - 1 ELSE Byte^Width[t] - 1
TypeOf(name) == Dictionary[name].type

\* The first terminal accesses nodes, well and badly: each type at its ends, on a bus
\* with lengths in the answers and on one without.
Downloads ==
  {Dl(CAN0, name, Lowest(TypeOf(name))) : name \in Numbers}
  \union {Dl(if, name, Highest(TypeOf(name))) : if \in {CAN0, CAN1}, name \in Numbers}
  \union {Dl(CAN0, "count", -2), Dl(CAN0, "mode", WordText)}

Accesses ==
  Downloads \union {Ul(if, name) : if \in {CAN0, CAN1}, name \in Numbers \union {"count"}}
  \union {Ul(CAN0, "gain"), Probe(CAN0, 1), Probe(CAN1, 1), Probe(CAN1, 2)}

\* It also sends frames of every kind, on one bus or both: a SYNC, which is a short
\* emergency, a boot-up message, an SDO about an object nobody knows to a node that is
\* not there, with one byte and with four, a download and an upload to those that are,
\* a COB-ID that has no use.
Short(f, n) == [f EXCEPT !.dlc = n]
Raw(node, cs, ix, n, bytes) ==
  [func |-> "sdo_rx", node |-> node, dlc |-> 8, cs |-> cs, s |-> IF cs = CcsExDl THEN 1 ELSE 0,
   n |-> n, ix |-> ix, bytes |-> bytes]
Sends ==
  {Send(<<CAN0>>, f) : f \in {Short(Other("emcy", 0), 0), Short(Other("nmt_err", 1), 1),
                              Other("emcy", 1), Short(Other("reserved", 1), 0),
                              Raw(3, CcsExDl, Key(9, 1), 3, 3), Raw(3, CcsExDl, Key(9, 1), 0, 3)}}
  \union {Send(<<CAN0, CAN1>>, f) : f \in {Raw(1, CcsExDl, Speed, 2, 14), Raw(1, CcsExUl, Limit, 0, 0)}}

\* Texts next to the ends, one that no long holds, and one that strtoul takes for 1.
Refused ==
  {Dl(CAN0, name, Lowest(TypeOf(name)) - 1) : name \in Numbers}
  \union {Dl(CAN0, name, Highest(TypeOf(name)) + 1) : name \in Numbers}
  \union {Dl(CAN0, "mode", Byte^8), Dl(CAN0, "flags", Byte^8), Dl(CAN0, "name", 1),
          Ul(CAN0, "rpdo"), Ul(CAN0, "unheard_of"),
          [Ul(CAN0, "mode") EXCEPT !.node = 99],
          [Ul(CAN0, "mode") EXCEPT !.ifs = <<CAN0, CAN1>>],
          [op |-> "dump", ifs |-> <<CAN0, ESD0>>], [op |-> "dump", ifs |-> <<>>]}

Wrapped == {Dl(CAN0, name, 1 - Byte^8) : name \in {"control", "limit", "flags"}}

\* The second one listens, pretends to be a node, and sometimes interferes.
Others ==
  {[op |-> "dump", ifs |-> <<CAN0, CAN1>>], [op |-> "display", ifs |-> <<CAN0>>],
   [op |-> "display", ifs |-> <<CAN0, CAN1>>],
   Send(<<CAN0, CAN1>>, Other("pdo", 1)),
   [op |-> "nmt", ifs |-> <<CAN1>>, node |-> 1],
   [op |-> "ul-resp", ifs |-> <<CAN0>>, node |-> 1, ix |-> Speed, data |-> <<1, 2>>],
   [op |-> "dl-resp", ifs |-> <<CAN0>>, node |-> 1, ix |-> Mode, data |-> <<>>],
   Dl(CAN0, "speed", 7), Dl(CAN1, "limit", 1), Ul(CAN0, "mode"), Ul(CAN0, "gain")}

MCCommands == (p1 :> Accesses \union Wrapped \union Refused \union Sends) @@ (p2 :> Others)
=============================================================================
