------------------------ MODULE MCRuntimeInterleaving ------------------------
(***************************************************************************)
(* Small instances of RuntimeInterleaving.                                 *)
(***************************************************************************)
EXTENDS RuntimeInterleaving, TLC

Symmetry == Permutations(Threads) \cup Permutations(Sessions) \cup Permutations(Runs)
=============================================================================
