--------------------------- MODULE MCMissionRuntime ---------------------------
(***************************************************************************)
(* Small instances of MissionRuntime.  MCMissionControl.cfg: one general   *)
(* mission, commands, turn budget and the PID barrier.  MCMissionGates.cfg: *)
(* research and strategy missions fed by tools and by a critic.            *)
(***************************************************************************)
EXTENDS MissionRuntime, TLC

Reply(class, verifies, claimsDone, finalReport, markers) ==
  [class |-> class, verifies |-> verifies, observes |-> class # "unknown" \/ verifies,
   claimsDone |-> claimsDone, finalReport |-> finalReport, markers |-> markers]

Silent   == Reply("unknown", FALSE, FALSE, FALSE, {})
Working  == Reply("other", FALSE, FALSE, FALSE, {})
Building == Reply("infra", FALSE, FALSE, FALSE, {})
Claiming == Reply("other", TRUE, TRUE, TRUE, {})
Bragging == Reply("unknown", FALSE, TRUE, TRUE, {})
Stuck    == Reply("other", FALSE, TRUE, FALSE, {"needs_user"})

Judge(verdict, markers) == [verdict |-> verdict, markers |-> markers]

Idea(status, complete, marked) == [status |-> status, complete |-> complete, marked |-> marked]

Critic(types, hyps, noEdge, blockers, action) ==
  [types |-> types, hyps |-> hyps, noEdge |-> noEdge, blockers |-> blockers, action |-> action]

\* Control instance.
ControlResponses  == {Silent, Claiming, Bragging, Stuck}
ControlJudgements == {Judge("continue", {}), Judge("done", {}), Judge("done", {"policy_block"})}
ControlAnswers    == {Critic({}, <<>>, FALSE, {"policy_block"}, "other")}
ControlTools ==
  {[tool |-> "terminal_test", ok |-> FALSE, site |-> "none"],
   [tool |-> "file_write", ok |-> FALSE, site |-> "none"],
   [tool |-> "file_write", ok |-> TRUE, site |-> "none"]}

\* Gates instance.
GateResponses  == {Silent, Building, Claiming}
GateJudgements == {Judge("continue", {}), Judge("done", {})}
GateAnswers ==
  {Critic({}, <<Idea("proposed", FALSE, FALSE)>>, FALSE, {}, "other"),
   Critic({}, <<Idea("failed", TRUE, FALSE), Idea("failed", TRUE, FALSE)>>, FALSE, {}, "unknown"),
   Critic({"paper"}, <<Idea("passed", TRUE, TRUE)>>, FALSE, {"resolved"}, "infra")}
GateTools ==
  {[tool |-> "web", ok |-> TRUE, site |-> "github"],
   [tool |-> "web", ok |-> TRUE, site |-> "paper"],
   [tool |-> "web", ok |-> FALSE, site |-> "paper"],
   [tool |-> "file_read", ok |-> TRUE, site |-> "none"]}

Symmetry == Permutations(Calls)
=============================================================================
