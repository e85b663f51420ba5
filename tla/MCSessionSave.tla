---------------------------- MODULE MCSessionSave ----------------------------
(***************************************************************************)
(* An instance of SessionSave for TLC: two runtimes of one process and     *)
(* their calls, which nothing tells apart.                                 *)
(***************************************************************************)
EXTENDS SessionSave, TLC
Symmetry == Permutations(Runtimes) \cup Permutations(Saves)
=============================================================================
