----------------------------- MODULE Can402Args ------------------------------
(***************************************************************************)
(* The command line of can402: parse (can402.c), as a fold over the        *)
(* options getopt returns.  An option is a record of its letter and, when  *)
(* the letter has one, its number; of "-f" the number says whether the     *)
(* interface could be opened.  The options that only name channels, the    *)
(* API and the verbosity are left out.                                     *)
(***************************************************************************)
EXTENDS Integers
LOCAL INSTANCE Sequences
LOCAL INSTANCE SequencesExt

CONSTANT NodeMask  \* CANMAT_NODE_MASK (127 in the code)

ASSUME NodeMaskAssumption == NodeMask \in Nat \ {0}

\* What parse has set so far; ok is FALSE when it has exited.
Defaults == [ok |-> TRUE, cif |-> FALSE, ctrl |-> 0, user |-> 1, drives |-> <<>>]

Refused(s) == [s EXCEPT !.ok = FALSE]

\* "-n": the drive gets the RPDO numbers that are the defaults now.
AddDrive(s, node) ==
  IF Len(s.drives) >= NodeMask - 1 \/ node > NodeMask
  THEN Refused(s)
  ELSE [s EXCEPT !.drives = Append(@, [node |-> node, ctrl |-> s.ctrl, user |-> s.user])]

\* "-C", "-R": the number becomes the default, and that of the drive before it.
SetRpdo(s, which, num) ==
  IF num > 255 THEN Refused(s)
  ELSE IF s.drives = <<>> THEN [s EXCEPT ![which] = num]
  ELSE [s EXCEPT ![which] = num, !.drives[Len(s.drives)][which] = num]

Option(s, o) ==
  IF ~s.ok THEN s
  ELSE CASE o.opt = "n" -> AddDrive(s, o.arg)
         [] o.opt = "C" -> SetRpdo(s, "ctrl", o.arg)
         [] o.opt = "R" -> SetRpdo(s, "user", o.arg)
         [] o.opt = "d" -> IF s.drives = <<>> THEN Refused(s) ELSE s
         [] o.opt = "f" -> IF o.arg = 0 THEN Refused(s) ELSE [s EXCEPT !.cif = TRUE]
         [] OTHER       -> Refused(s)

Parsed(line) == FoldLeft(Option, Defaults, line)

\* The checks at the end of parse.  That two drives are the same node is not one.
Accepted(line) ==
  LET s == Parsed(line)
  IN  /\ s.ok
      /\ s.cif
      /\ s.drives # <<>>
      /\ \A i \in DOMAIN s.drives : s.drives[i].user # s.drives[i].ctrl
=============================================================================
