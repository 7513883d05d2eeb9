------------------------------ MODULE SdoCodec -------------------------------
(***************************************************************************)
(* The data of SDO transfers: the types of the object dictionary (dict.h), *)
(* the text of a value (dict.c, util.c), the message canmat_sdo_msg_t and  *)
(* its frame (sdo.c).                                                      *)
(*                                                                         *)
(* A byte has Byte values, 256 in the program; everything here is written  *)
(* for any even number, so that TLC can take a small one.  A union of four *)
(* bytes, and the last four bytes of a frame, are the number they form,    *)
(* least significant byte first.  Bytes nobody has written are those of    *)
(* Junk.                                                                   *)
(***************************************************************************)
EXTENDS Integers

CONSTANTS Byte, Junk

Word == 0 .. Byte^4 - 1

ASSUME ByteAssumption == Byte \in Nat /\ Byte >= 2 /\ Byte % 2 = 0
ASSUME JunkAssumption == Junk \in Word
\* The recursion of ^, for the exponents in use.
ASSUME PowerAssumption == Byte^0 = 1 /\ \A n \in 0 .. 7 : Byte^(n + 1) = Byte * Byte^n

\* The data types whose transfer is expedited, and the bytes each takes.
Width == [i8 |-> 1, u8 |-> 1, i16 |-> 2, u16 |-> 2,
          i32 |-> 4, u32 |-> 4, real32 |-> 4, void |-> 0]
Signed   == {"i8", "i16", "i32"}
Unsigned == {"u8", "u16", "u32"}

Low(w, n)   == w % Byte^n
Store(w, n) == Low(w, n) + (Junk - Low(Junk, n))  \* n bytes of w over Junk

\* The two's complement number the low bytes of a word stand for.
AsSigned(w, n) == IF 2 * Low(w, n) < Byte^n THEN Low(w, n) ELSE Low(w, n) - Byte^n

\* The number canmat_obj_print shows for a scalar of type t.
Value(t, w) ==
  IF t \in Signed THEN AsSigned(w, Width[t]) ELSE Low(w, Width[t])

(***************************************************************************)
(* Text.  A text is the number it spells; a word that does not begin with  *)
(* one is 0 to strtol and strtoul, without an error.  A long has eight     *)
(* bytes.  strtoul takes a minus sign and negates modulo Byte^8, also of   *)
(* numbers that no long holds.                                             *)
(***************************************************************************)
WordText == 0

strtol(text)      == text
ErangeLong(text)  == 2 * text < -Byte^8 \/ 2 * text >= Byte^8
strtoul(text)     == text % Byte^8
ErangeUlong(text) == text <= -Byte^8 \/ text >= Byte^8

\* What a text means as a value of type t.
Meant(t, text) == IF t \in Signed THEN strtol(text) ELSE strtoul(text)

\* Mutant: the bound of a signed type is that of the unsigned one.
TypedParseWide(t, text) ==
  IF t \in Signed \union Unsigned /\ ~ErangeLong(text)
     /\ strtol(text) \in -Byte^Width[t] .. Byte^Width[t] - 1
  THEN [ok |-> TRUE, data |-> Store(strtol(text), Width[t])]
  ELSE [ok |-> FALSE, data |-> Junk]

canmat_typed_parse(t, text) ==
  LET fits == \/ /\ t \in Signed /\ ~ErangeLong(text)
                 /\ -Byte^Width[t] <= 2 * strtol(text)
                 /\ 2 * strtol(text) < Byte^Width[t]
              \/ /\ t \in Unsigned /\ ~ErangeUlong(text)
                 /\ strtoul(text) < Byte^Width[t]
  IN IF fits THEN [ok |-> TRUE, data |-> Store(Meant(t, text), Width[t])]
     ELSE [ok |-> FALSE, data |-> Junk]

(***************************************************************************)
(* Messages and frames.                                                    *)
(***************************************************************************)
CsAbort == 4
\* Sent by the client.
CcsExDl == 1
CcsExUl == 2
\* Sent by the node.
ScsExUl == 2
ScsExDl == 3

Frame == [func : {"sdo_rx", "sdo_tx", "nmt", "nmt_err", "emcy", "pdo", "reserved"},
          node : Nat, dlc : 0 .. 8, cs : 0 .. 7, s : {0, 1}, n : 0 .. 3, ix : Nat, bytes : Word]

\* The command and direction of a message without data, and of one with data.
Empty(cs, isTx) == cs = (IF isTx THEN ScsExDl ELSE CcsExUl)
Full(cs, isTx)  == cs = (IF isTx THEN ScsExUl ELSE CcsExDl)

\* canmat_sdo2can, for a type that has a width
canmat_sdo2can(msg, isTx) ==
  [func |-> IF isTx THEN "sdo_tx" ELSE "sdo_rx", node |-> msg.node, dlc |-> 8,
   cs |-> msg.cs, ix |-> msg.ix,
   s |-> IF Full(msg.cs, isTx) THEN 1 ELSE 0,
   n |-> IF Full(msg.cs, isTx) THEN (4 - Width[msg.type]) % 4 ELSE 0,
   bytes |-> IF Full(msg.cs, isTx) THEN Store(msg.data, Width[msg.type]) ELSE 0]

\* canmat_can2sdo: the message, and the status it returns with it
canmat_can2sdo(f, t) ==
  LET isTx   == f.func = "sdo_tx"
      abort  == f.cs = CsAbort
      empty  == Empty(f.cs, isTx)
      type   == IF abort THEN "u32" ELSE IF empty THEN "void" ELSE t
      length == IF abort THEN 4 ELSE IF empty THEN 0
                ELSE IF f.s = 1 THEN 4 - f.n ELSE f.dlc - 4
      failed(status) == [status |-> status, cs |-> f.cs, length |-> 0, data |-> Junk]
  IN IF \/ f.dlc < 4
        \/ f.func \notin {"sdo_tx", "sdo_rx"}
        \/ ~(abort \/ empty \/ Full(f.cs, isTx))
     THEN failed("ERR_PROTO")
     ELSE IF type \notin DOMAIN Width THEN failed("ERR_PARAM")
     ELSE IF length # Width[type] \/ f.dlc < 4 + Width[type] THEN failed("ERR_PROTO")
     ELSE [status |-> IF abort THEN "ERR_ABORT" ELSE "OK", cs |-> f.cs,
           length |-> length, data |-> Store(f.bytes, length)]
=============================================================================
