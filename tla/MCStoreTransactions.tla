------------------------- MODULE MCStoreTransactions -------------------------
(***************************************************************************)
(* Small instance of StoreTransactions: two connections that write the     *)
(* same database.                                                          *)
(***************************************************************************)
EXTENDS StoreTransactions, TLC

Symmetry == Permutations(Connections) \cup Permutations(Runs) \cup Permutations(Sessions)
=============================================================================
