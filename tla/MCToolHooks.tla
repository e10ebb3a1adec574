----------------------------- MODULE MCToolHooks -----------------------------
(***************************************************************************)
(* Small instance of ToolHooks: one refusable trait, two missions.         *)
(***************************************************************************)
EXTENDS ToolHooks, TLC

MCRecords ==
  {[active |-> TRUE, auto |-> FALSE, contract |-> {"destructive"}],
   [active |-> FALSE, auto |-> FALSE, contract |-> {"destructive"}],
   [active |-> TRUE, auto |-> TRUE, contract |-> {"destructive"}]}

Symmetry == Permutations(Runs) \cup Permutations(Sessions) \cup Permutations(Slots)
=============================================================================
