------------------------------- MODULE Display -------------------------------
(***************************************************************************)
(* What "canmat display" shows of a frame (display.c): its kind by the     *)
(* function code of its COB-ID, and of an SDO the object's name, the       *)
(* command and the value by the type the dictionary gives the object.      *)
(*                                                                         *)
(* Wording is left out, and so are the data of NMT messages, error control *)
(* and emergencies beyond whether there are enough of them.                *)
(***************************************************************************)
EXTENDS SdoCodec

CONSTANT Dictionary  \* canmat_dict402: Dictionary[name] = [ix, type, var]

\* canmat_dict_search_index
canmat_dict_search_index(ix) ==
  IF \E name \in DOMAIN Dictionary : Dictionary[name].ix = ix
  THEN CHOOSE name \in DOMAIN Dictionary : Dictionary[name].ix = ix
  ELSE "unknown"

Bytes(m) == <<"bytes", m.length, Low(m.data, m.length)>>

\* Mutant: every number is shown as if it were unsigned.
ShownDataUnsigned(name, m) ==
  IF name # "unknown" /\ Dictionary[name].type \in Signed \union Unsigned
  THEN <<Low(m.data, m.length)>>
  ELSE Bytes(m)

\* The data of a message about an object: a number, or bytes.  That the length is the
\* type's has been checked by canmat_can2sdo.
ShownData(name, m) ==
  IF name # "unknown" /\ Dictionary[name].type \in Signed \union Unsigned
  THEN <<Value(Dictionary[name].type, m.data)>>
  ELSE Bytes(m)

\* display_sdo.  An object the dictionary does not have is taken for an u32.
DisplaySdo(f) ==
  LET isTx == f.func = "sdo_tx"
      name == canmat_dict_search_index(f.ix)
      m    == canmat_can2sdo(f, IF name = "unknown" THEN "u32" ELSE Dictionary[name].type)
      data == IF m.cs = CsAbort THEN <<Low(m.data, 4)>>
              ELSE IF Full(m.cs, isTx) THEN ShownData(name, m)
              ELSE <<>>
  IN IF m.status \notin {"OK", "ERR_ABORT"}
     THEN [kind |-> "bad sdo", node |-> f.node, why |-> m.status, frame |-> f]
     ELSE [kind |-> "sdo", node |-> f.node, isTx |-> isTx, cs |-> m.cs, name |-> name,
           data |-> data]

\* The bytes without which a frame is malformed
Least == [nmt |-> 2, nmt_err |-> 1, emcy |-> 3]

\* canmat_display.  A SYNC has the function code of an emergency.
canmat_display(f) ==
  CASE f.func \in {"sdo_rx", "sdo_tx"} -> DisplaySdo(f)
    [] f.func \in DOMAIN Least         ->
         IF f.dlc < Least[f.func] THEN [kind |-> "malformed", frame |-> f]
                                  ELSE [kind |-> f.func, node |-> f.node]
    [] OTHER                           -> [kind |-> "raw", frame |-> f]

\* display_nmt asserts that the COB-ID is 0; 1 to 0x7F have the same function code.
DisplayAborts(f) == f.func = "reserved"
=============================================================================
