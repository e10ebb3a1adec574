--------------------------- MODULE MissionRuntime ---------------------------
(***************************************************************************)
(* One mission driven by RuntimeManager (runtime.py) and the tool hooks    *)
(* (policy.py), each handler atomic: what the program does when commands,  *)
(* turns and tool calls of the driving session do not overlap.  The order  *)
(* in which they arrive, and what the model, the judge and the critic say, *)
(* is arbitrary.  replan, a refused command and a turn behind the barrier  *)
(* change nothing that is kept here: they are stuttering steps.            *)
(* RuntimeInterleaving drops the atomicity.                                *)
(***************************************************************************)
EXTENDS MissionControl, MissionBoard

CONSTANTS
  Calls,          \* tool_call_ids
  NoMission,      \* no run is bound to the session
  NoAnswer,       \* the critic returned nothing usable
  \* What the environment may do; an instance picks the cases it tries.
  Goals,          \* domains of the missions started
  ToolResults,    \* tool calls: tool, ok, and for a web call the site
  Responses,      \* final responses of turns
  Judgements,     \* answers of the completion judge
  CriticAnswers,  \* parsed answers of the strategic critic
  TurnBound       \* bound on turns_used, for TLC only

\* A response, by what extract_observation_events and the prose tests find in
\* it: the action class, whether it speaks of verification, whether it yields
\* any event, claims completion, reads as a final report, names a blocker.
Response ==
  {r \in [class : {"unknown", "infra", "other"}, verifies : BOOLEAN, observes : BOOLEAN,
          claimsDone : BOOLEAN, finalReport : BOOLEAN, markers : SUBSET Markers] :
     r.class # "unknown" \/ r.verifies => r.observes}

Judgement == [verdict : {"done", "continue"}, markers : SUBSET Markers]

ASSUME NoMissionAssumption == NoMission \notin [control : Control, board : Board]
ASSUME NoAnswerAssumption == NoAnswer \notin CriticAnswers
ASSUME TurnBoundAssumption == TurnBound \in Nat
ASSUME EnvironmentAssumption ==
  /\ Goals \subseteq Domains
  /\ ToolResults \subseteq ToolResult
  /\ Responses \subseteq Response
  /\ Judgements \subseteq Judgement
  /\ \A a \in CriticAnswers : IsCriticAnswer(a)

VARIABLES
  mission,    \* NoMission, or the persisted GoalState: control and board
  evidence,   \* tool_evidence_observed events in the ledger
  claimed,    \* the ledger holds a verification_observed event
  lastClass,  \* action class of the last action_class_observed event
  doneEvents, \* number of "done" events in the ledger
  alive,      \* live processes (external)
  vouched,    \* history: what the critic has asserted so far
  overdrafts  \* history: resumes accepted with the turn budget used up

vars == <<mission, evidence, claimed, lastClass, doneEvents, alive, vouched, overdrafts>>
ledger == <<evidence, claimed, lastClass, doneEvents>>
history == <<vouched, overdrafts>>

Init ==
  /\ mission = NoMission
  /\ evidence = {}
  /\ claimed = FALSE
  /\ lastClass = "unknown"
  /\ doneEvents = 0
  /\ alive = Pids
  /\ vouched = [types |-> {}, marked |-> FALSE]
  /\ overdrafts = 0

Bound == mission # NoMission
control == mission.control
board == mission.board

-----------------------------------------------------------------------------
(***************************************************************************)
(* Commands.                                                               *)
(***************************************************************************)
\* /sgx start: refused while any state is bound to the session, finished or not.
Start(domain) ==
  /\ ~Bound
  /\ mission' = [control |-> Started, board |-> UpdateGates(EmptyBoard(domain))]
  /\ UNCHANGED <<ledger, alive, history>>

SaveControl(c) ==
  /\ mission' = [mission EXCEPT !.control = c]
  /\ UNCHANGED <<ledger, alive, history>>

Pause == Bound /\ PauseAccepts(control) /\ SaveControl(Paused(control))
Clear == Bound /\ ClearAccepts(control) /\ SaveControl(Cleared(control))
Wait(pid) == Bound /\ SaveControl(Waiting(control, pid))
Unwait == Bound /\ SaveControl(Unwaited(control))

Resume ==
  /\ Bound
  /\ ResumeAccepts(control)
  /\ mission' = [control |-> Resumed(control), board |-> UpdateGates(board)]
  /\ overdrafts' = IF control.turns >= MaxTurns /\ overdrafts < TurnBound
                   THEN overdrafts + 1 ELSE overdrafts
  /\ UNCHANGED <<ledger, alive, vouched>>

-----------------------------------------------------------------------------
(***************************************************************************)
(* after_turn.  A judge or critic that raises leaves everything as it was. *)
(***************************************************************************)
\* A real user message or an interruption pauses before anything is evaluated.
Preempt(message, interrupted) ==
  /\ Bound
  /\ ~Ignores(control)
  /\ Preempts(message, interrupted)
  /\ SaveControl(Paused(control))

\* Ledger events are projected only when the response itself yields some.
Observed(response) ==
  IF response.observes
  THEN Projected(board, evidence,
                 IF response.class # "unknown" THEN response.class ELSE lastClass)
  ELSE UpdateGates(board)

Judged(b, judge) == [b EXCEPT !.verdict = judge.verdict, !.reason = judge.markers]

Criticised(b, critic, inertia) ==
  IF critic = NoAnswer THEN UpdateGates(b) ELSE CriticApplied(b, critic, inertia)

\* The judge says done, or the response does and a verification was observed.
AttemptsDone(response, judge) ==
  \/ judge.verdict = "done"
  \/ response.claimsDone /\ (response.verifies \/ claimed)

Evaluate(response, judge, critic, inertia) ==
  LET counted   == Counted(control, alive)
      assessed  == Criticised(Judged(Observed(response), judge), critic, inertia)
      terminal  == TerminalText(judge.markers \cup response.markers)
      attempted == ~terminal /\ AttemptsDone(response, judge)
      settled   == IF attempted
                   THEN UpdateGates(Reconciled(assessed, response.finalReport))
                   ELSE assessed
      complete  == attempted /\ OpenBlocking(settled) = {}
      verdict   == Verdict(counted, terminal, complete)
      reason    == IF judge.verdict = "done" THEN judge.markers ELSE {}
  IN  /\ Bound
      /\ ~Ignores(control)
      /\ ~Barred(control, alive)
      /\ control.turns < TurnBound
      /\ mission' =
           [control |-> [counted EXCEPT !.status = StatusAfter(verdict)],
            board   |-> IF complete
                        THEN [settled EXCEPT !.verdict = "done", !.reason = reason]
                        ELSE settled]
      /\ claimed' = (claimed \/ response.verifies)
      /\ lastClass' = IF response.class # "unknown" THEN response.class ELSE lastClass
      /\ doneEvents' = IF verdict = "done" THEN doneEvents + 1 ELSE doneEvents
      /\ vouched' = IF critic = NoAnswer THEN vouched
                    ELSE [types  |-> vouched.types \cup critic.types,
                          marked |-> \/ vouched.marked
                                     \/ \E i \in DOMAIN critic.hyps : VerifiedArtifact(critic.hyps[i])]
      /\ UNCHANGED <<evidence, alive, overdrafts>>

-----------------------------------------------------------------------------
(***************************************************************************)
(* post_tool_call records whatever the status of the mission, once per     *)
(* call id.                                                                *)
(***************************************************************************)
PostToolCall(call, result) ==
  /\ Bound
  /\ \A ref \in evidence : ref.call # call
  /\ evidence' = evidence \cup {Evidence(call, result)}
  /\ UNCHANGED <<mission, claimed, lastClass, doneEvents, alive, history>>

\* External: a process a mission may wait for ends.
ProcessExits(pid) ==
  /\ pid \in alive
  /\ alive' = alive \ {pid}
  /\ UNCHANGED <<mission, ledger, history>>

AfterTurn ==
  \/ \E message \in {"synthetic", "user"}, interrupted \in BOOLEAN : Preempt(message, interrupted)
  \/ \E response \in Responses, judge \in Judgements,
        critic \in CriticAnswers \cup {NoAnswer}, inertia \in BOOLEAN :
       Evaluate(response, judge, critic, inertia)

Next ==
  \/ \E domain \in Goals : Start(domain)
  \/ Pause
  \/ Resume
  \/ Clear
  \/ \E pid \in Pids : Wait(pid)
  \/ Unwait
  \/ AfterTurn
  \/ \E call \in Calls, result \in ToolResults : PostToolCall(call, result)
  \/ \E pid \in Pids : ProcessExits(pid)

Spec == Init /\ [][Next]_vars

-----------------------------------------------------------------------------
EvidenceRefs ==
  [call : Calls, ok : BOOLEAN,
   source : {"web_source", "github_source", "file_artifact", "test_run", "tool_call"},
   trust : {"claim", "observed", "verified"}, site : ExternalTypes \cup {"none"}]

TypeOK ==
  /\ mission \in [control : Control, board : Board] \cup {NoMission}
  /\ evidence \subseteq EvidenceRefs
  /\ claimed \in BOOLEAN
  /\ lastClass \in {"unknown", "infra", "other"}
  /\ doneEvents \in Nat
  /\ alive \subseteq Pids
  /\ vouched \in [types : SUBSET SourceTypes, marked : BOOLEAN]
  /\ overdrafts \in Nat

\* Evidence of an executed step: what may fill the artifact or verification layer.
Executes(ref) == Trusted(ref) /\ LayerOf(ref) \in {"artifact", "verification"}

\* The execution gate has passed only if the ledger holds a trusted tool event,
\* or the critic reported a tested hypothesis with a verifier marker: nothing
\* the assistant writes passes it (gates.py, has_verified_execution_evidence).
ExecutionGateWitnessed ==
  Bound /\ "G3" \in board.passed
    => vouched.marked \/ \E ref \in evidence : Executes(ref)

\* What web calls that succeeded have shown.
SitesSeen ==
  {ref.site : ref \in {e \in evidence : e.ok /\ e.source \in {"web_source", "github_source"}}}

\* The research gate has passed only if the successful web calls of the ledger,
\* with the findings the critic asserted, suffice (gates.py, evaluate_gates;
\* projection.py, research_sufficiency_from_findings).
ResearchGateWitnessed ==
  Bound /\ "G2" \in board.passed => Sufficient(vouched.types \cup SitesSeen)

\* A mission is done only while no blocking gate of its domain is open, through
\* late tool events and pauses too: "deterministic gates veto false DONE".
DoneMeansAccepted ==
  Bound /\ control.status = "done" => OpenBlocking(board) = {}

\* Every turn beyond max_turns was paid for by an explicit resume.
BudgetOverdrawnByResumeOnly ==
  Bound => control.turns <= MaxTurns + overdrafts

\* No handler reopens a gate (gates.py, set_gate_open).
GatesStayPassed ==
  [][Bound => board.passed \subseteq board'.passed]_vars

\* A mission that is not running makes no progress, whatever turns, tool calls
\* or commands arrive: no turn is counted and no gate moves before a resume.
NoProgressUnlessActive ==
  [][Bound /\ control.status # "active" /\ control'.status # "active"
       => control'.turns = control.turns /\ board' = board]_vars

\* While the process it waits for lives, a mission neither counts a turn nor
\* completes (runtime.py, is_waiting and after_turn; README.md:54).
BarrierHolds ==
  [][Bound /\ control.waitingOn \in alive
       => /\ control'.turns = control.turns
          /\ control'.status = "done" => control.status = "done"]_vars

\* A cleared mission stays cleared (runtime.py, resume and after_turn).
ClearedIsFinal ==
  [][Bound /\ control.status = "cleared" => control'.status = "cleared"]_vars

\* The life of the mission, whatever is answered and observed: MissionLifecycle.
Lifecycle == INSTANCE MissionLifecycle WITH
  status <- IF mission = NoMission THEN "none" ELSE mission.control.status,
  turns <- IF mission = NoMission THEN 0 ELSE mission.control.turns

\* No order of commands, turns and tool calls takes the mission off its
\* lifecycle: one turn at a time and only while active, one beyond the budget
\* only after a resume, done only by a turn (runtime.py, RuntimeManager).
ImplementsLifecycle == Lifecycle!Spec

-----------------------------------------------------------------------------
\* "Tool-backed evidence only" (README.md:49): the execution gate rests on a
\* tool event of the ledger.
ToolBackedOnly ==
  Bound /\ "G3" \in board.passed => \E ref \in evidence : Executes(ref)

\* "failed calls, and blocked calls cannot satisfy gates" (docs/architecture.md:68).
FailedCallsSatisfyNothing ==
  Bound /\ "G3" \in board.passed
    => vouched.marked \/ \E ref \in evidence : Executes(ref) /\ ref.ok

\* "Infrastructure work is allowed only when it proves dependency on a failed
\* gate" (gates.py:131): SG-4 is not passed while infrastructure is worked on.
InfraNeedsProof ==
  Bound /\ board.domain = "strategy" /\ board.action = "infra"
    => "SG-4" \notin board.passed

\* The completion event is never written twice
\* (docs/repository-cleanup-and-plugin-migration-spec.md:867).
DoneWrittenOnce == doneEvents <= 1
=============================================================================
