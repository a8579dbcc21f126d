--------------------------- MODULE MCGetTransfer ---------------------------
(***************************************************************************)
(* Gets that share one destination name, for checking GetTransfer.         *)
(***************************************************************************)
EXTENDS GetTransfer, TLC

CONSTANTS name, g1, g2

Symmetry == Permutations(Gets)
OneName == [g \in Gets |-> name]
=============================================================================
