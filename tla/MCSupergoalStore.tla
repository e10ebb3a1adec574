-------------------------- MODULE MCSupergoalStore --------------------------
(***************************************************************************)
(* Small instance of SupergoalStore: two missions, two sessions,           *)
(* one legacy origin and two idempotence keys.                             *)
(***************************************************************************)
EXTENDS SupergoalStore, TLC

Symmetry == Permutations(Runs) \cup Permutations(Sessions) \cup Permutations(Sources) \cup Permutations(Records)
=============================================================================
