--------------------------- MODULE MCCheckpoints ---------------------------
(***************************************************************************)
(* An instance of Checkpoints for TLC: two files, which nothing tells      *)
(* apart.                                                                  *)
(***************************************************************************)
EXTENDS Checkpoints, TLC
Symmetry == Permutations(Paths)
=============================================================================
