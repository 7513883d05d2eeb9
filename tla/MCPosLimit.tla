----------------------------- MODULE MCPosLimit ------------------------------
(***************************************************************************)
(* PosLimit with a margin of four positions and references that saturate   *)
(* at both ends.  Four ranges: with soft limits apart, touching (a range   *)
(* of four margins), with the hard limits touching (two), and of no length *)
(* at all.                                                                 *)
(***************************************************************************)
EXTENDS PosLimit

MCRange == {<<-10, 10>>, <<-8, 8>>, <<-4, 4>>, <<0, 0>>}
MCPos == -11 .. 11
MCRef == -6 .. 6
=============================================================================
