-------------------------- MODULE MissionLifecycle --------------------------
(***************************************************************************)
(* What a mission promises its user about its life and its budget, without *)
(* boards, hosts and messages: MissionRuntime and HostLoop implement it.   *)
(*                                                                         *)
(* Work is only done while the mission is active, one turn at a time, and  *)
(* a turn that leaves it active leaves turns to spend.  Only a turn        *)
(* completes a mission, and a cleared one stays cleared.                   *)
(***************************************************************************)
EXTENDS Naturals

CONSTANT MaxTurns   \* max_turns

VARIABLES status, turns

vars == <<status, turns>>

Init == status = "none" /\ turns = 0

Begin ==
  /\ status = "none"
  /\ status' = "active"
  /\ UNCHANGED turns

Work ==
  /\ status = "active"
  /\ turns' = turns + 1
  /\ status' \in {"active", "paused", "done"}
  /\ status' = "active" => turns' < MaxTurns

\* Also of a mission that is done.
Suspend ==
  /\ status \in {"active", "done"}
  /\ status' = "paused"
  /\ UNCHANGED turns

Resume ==
  /\ status = "paused"
  /\ status' = "active"
  /\ UNCHANGED turns

Abandon ==
  /\ status \in {"active", "paused", "done"}
  /\ status' = "cleared"
  /\ UNCHANGED turns

Next == Begin \/ Work \/ Suspend \/ Resume \/ Abandon

Spec == Init /\ [][Next]_vars
=============================================================================
