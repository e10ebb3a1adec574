---------------------------- MODULE MissionBoard ----------------------------
(***************************************************************************)
(* The evidence board of a GoalState: the deterministic gates (gates.py),  *)
(* the projection of ledger events onto the board (projection.py), the     *)
(* tool evidence it is fed with (evidence.py) and the merge of the critic's *)
(* answer (evaluators.py).                                                 *)
(*                                                                         *)
(* A layer, a set of findings or a prose text is kept only as far as the   *)
(* gates can tell: which layers hold an entry, which source types are      *)
(* tool-backed, which terminal markers a text contains.  A "killed"        *)
(* hypothesis is "failed" here, and a mission has fewer findings than the   *)
(* 24 that merge_research_findings keeps.                                  *)
(***************************************************************************)
EXTENDS Naturals, Sequences, FiniteSets

CONSTANTS
  MinHypotheses,  \* 3 in evaluate_gates, SG-1
  FailuresToStop, \* 8 in apply_failure_taxonomy_policy
  PortfolioCap    \* 16 in merge_hypothesis_portfolio

ASSUME BoardAssumption ==
  MinHypotheses \in Nat /\ FailuresToStop \in Nat /\ PortfolioCap \in Nat \ {0}

-----------------------------------------------------------------------------
(***************************************************************************)
(* Gates.  A gate is "passed" or open; open is "pending" when the gate     *)
(* blocks and "followup" otherwise, so the set of passed gates is all      *)
(* there is to store.                                                      *)
(***************************************************************************)
Domains == {"general", "research", "strategy"}   \* classification of the goal text

StrategyGates == {"SG-1", "SG-2", "SG-3", "SG-4"}

GateIds(domain) ==
  {"G1", "G2", "G3", "G4"} \cup (IF domain = "strategy" THEN StrategyGates ELSE {})

\* G2 is a quality_followup unless the goal is about research or strategy.
BlockingGates(domain) ==
  GateIds(domain) \ (IF domain = "general" THEN {"G2"} ELSE {})

SourceTypes == {"paper", "github", "web", "docs", "benchmark", "local"}
ExternalTypes == {"paper", "github", "web", "docs"}
Layers == {"artifact", "verification", "external_prior", "tool_observation"}

\* Marker classes of _infer_terminal_blocker_status.
Markers == {"needs_user", "policy_block", "resolved", "denied"}

TerminalText(markers) ==
  \/ "needs_user" \in markers
  \/ "denied" \in markers
  \/ "policy_block" \in markers /\ "resolved" \notin markers

\* complete: baseline, experiment, kill criteria, artifacts and a verdict;
\* marked: artifact or verdict text with a verifier marker.
Hypothesis ==
  [status : {"proposed", "passed", "failed"}, complete : BOOLEAN, marked : BOOLEAN]

Board ==
  [domain   : Domains,
   passed   : SUBSET (GateIds("strategy")),
   layers   : SUBSET Layers,
   types    : SUBSET SourceTypes,           \* of tool-backed research_findings
   hyps     : Seq(Hypothesis),
   noEdge   : BOOLEAN,                      \* no_edge_report is written
   verdict  : {"none", "continue", "done"}, \* last_verdict
   reason   : SUBSET Markers,               \* of last_reason
   blockers : SUBSET Markers,               \* of blockers
   action   : {"unknown", "infra", "other"}] \* current_action_class

EmptyBoard(domain) ==
  [domain |-> domain, passed |-> {}, layers |-> {}, types |-> {}, hyps |-> <<>>,
   noEdge |-> FALSE, verdict |-> "none", reason |-> {}, blockers |-> {},
   action |-> "unknown"]

Hyps(b) == {b.hyps[i] : i \in DOMAIN b.hyps}

\* research_sufficiency_from_findings
Sufficient(types) ==
  \/ {"paper", "github"} \subseteq types
  \/ Cardinality(types \cap (ExternalTypes \cup {"benchmark"})) >= 3

Tested(h) == h.status \in {"passed", "failed"}

\* hypothesis_has_verified_artifact
VerifiedArtifact(h) == h.marked /\ Tested(h)

\* has_verified_execution_evidence
ExecutionEvidence(b) ==
  \/ b.layers \cap {"artifact", "verification"} # {}
  \/ \E h \in Hyps(b) : VerifiedArtifact(h)

FinalOutcome(b) ==
  \/ b.noEdge
  \/ b.verdict = "done" /\ ~TerminalText(b.reason \cup b.blockers)

\* start fills the intent and the success definition of G1.
Holds(b, gate) ==
  CASE gate = "G1"   -> TRUE
    [] gate = "G2"   -> Sufficient(b.types) /\ "external_prior" \in b.layers
    [] gate = "G3"   -> ExecutionEvidence(b)
    [] gate = "G4"   -> FinalOutcome(b)
    [] gate = "SG-1" -> Len(b.hyps) >= MinHypotheses
    [] gate = "SG-2" -> b.hyps # <<>> /\ \A h \in Hyps(b) : h.complete
    [] gate = "SG-3" -> \/ \E h \in Hyps(b) : h.status = "passed"
                        \/ b.noEdge /\ b.hyps # <<>> /\ \A h \in Hyps(b) : Tested(h)
    [] gate = "SG-4" -> b.action # "infra"

\* sync_evidence_layers_from_findings
Synced(b) ==
  IF b.types \cap ExternalTypes = {} THEN b
  ELSE [b EXCEPT !.layers = @ \cup {"external_prior"}]

\* Fault: set_gate_open reopens a passed gate.
KeepsNothing(b, gate) == FALSE

\* A gate that has passed is never reopened: set_gate_open returns early.
KeepsPassed(b, gate) == gate \in b.passed

\* update_supergoal_gates
UpdateGates(b) ==
  LET s == Synced(b)
  IN  [s EXCEPT !.passed =
         {g \in GateIds(s.domain) : KeepsPassed(s, g) \/ Holds(s, g)}]

OpenBlocking(b) == BlockingGates(b.domain) \ b.passed

\* Fault: a final report is taken for execution evidence.
ReconciledByProse(b, finalReport) ==
  IF finalReport THEN [b EXCEPT !.passed = @ \cup {"G1", "G3", "G4"}] ELSE b

\* reconcile_done_evidence_gates: a final report closes G1 and G4 on its own,
\* G3 only with execution evidence.
Reconciled(b, finalReport) ==
  IF finalReport
  THEN [b EXCEPT !.passed =
          @ \cup {"G1", "G4"} \cup (IF ExecutionEvidence(b) THEN {"G3"} ELSE {})]
  ELSE b

-----------------------------------------------------------------------------
(***************************************************************************)
(* Tool evidence.                                                          *)
(***************************************************************************)
Tools == {"web", "file_read", "file_write", "terminal_test", "terminal", "other"}

\* ok: the call was neither an error, nor blocked, nor cancelled; site: what a
\* web call's locator looks like.
ToolResult ==
  {r \in [tool : Tools, ok : BOOLEAN, site : ExternalTypes \cup {"none"}] :
     r.tool = "web" <=> r.site # "none"}

\* classify_tool_evidence
SourceOf(r) ==
  CASE r.tool = "web" -> IF r.site = "github" THEN "github_source" ELSE "web_source"
    [] r.tool \in {"file_read", "file_write"} -> "file_artifact"
    [] r.tool = "terminal_test" -> "test_run"
    [] OTHER -> "tool_call"

TrustOf(r) ==
  CASE r.tool = "terminal_test" -> IF r.ok THEN "verified" ELSE "observed"
    [] r.tool = "file_write" /\ r.ok -> "verified"
    [] OTHER -> IF r.ok THEN "observed" ELSE "claim"

\* An EvidenceRef, as recorded by post_tool_call.
Evidence(call, r) ==
  [call |-> call, ok |-> r.ok, source |-> SourceOf(r), trust |-> TrustOf(r), site |-> r.site]

\* Fault: the trust level is not looked at.
TrustedClaims(ref) == TRUE

Trusted(ref) == ref.trust \in {"observed", "verified"}

\* The layer that project_events_to_board adds the evidence to.
LayerOf(ref) ==
  CASE ref.source \in {"web_source", "github_source"} -> "external_prior"
    [] ref.source = "file_artifact" -> "artifact"
    [] ref.source = "test_run" \/ ref.trust = "verified" -> "verification"
    [] OTHER -> "tool_observation"

\* research_finding_from_evidence
FindingTypes(ref) ==
  IF Trusted(ref) /\ ref.source \in {"web_source", "github_source"}
  THEN {ref.site}
  ELSE {}

\* Eight failed hypotheses write the no-edge report.
FailurePolicy(b) ==
  LET failed == {i \in DOMAIN b.hyps : b.hyps[i].status = "failed"}
  IN  [b EXCEPT !.noEdge = @ \/ Cardinality(failed) >= FailuresToStop]

\* project_events_to_board on the ledger's evidence and the last action class
\* observed; assistant claims reach no layer and no tool-backed finding.
Projected(b, refs, action) ==
  LET trusted == {ref \in refs : Trusted(ref)}
      fed == [b EXCEPT
        !.layers = @ \cup {LayerOf(ref) : ref \in trusted},
        !.types  = @ \cup UNION {FindingTypes(ref) : ref \in trusted},
        !.action = IF action = "unknown" THEN @ ELSE action]
  IN  UpdateGates(FailurePolicy(fed))

-----------------------------------------------------------------------------
(***************************************************************************)
(* The critic.  data.types are the source types of findings the critic     *)
(* lists with a tool_call_id and a trust level, data.hyps hypotheses with  *)
(* claims not yet in the portfolio: a known claim is dropped, never        *)
(* updated.                                                                *)
(***************************************************************************)
IsCriticAnswer(a) ==
  a \in [types : SUBSET SourceTypes, hyps : Seq(Hypothesis), noEdge : BOOLEAN,
        blockers : SUBSET Markers, action : {"unknown", "infra", "other"}]

MergedHypotheses(hyps, new) ==
  LET all == hyps \o new
  IN  IF Len(all) <= PortfolioCap THEN all
      ELSE SubSeq(all, Len(all) - PortfolioCap + 1, Len(all))

\* The inertia guard writes the no-edge report when the gate it blames is a
\* strategy gate: the first open one (they come after G1 and G2), or any of them
\* for infrastructure work.  Whether the stall counters have run out is left
\* open here.
MayReportNoEdge(b) ==
  /\ StrategyGates \cap OpenBlocking(b) # {}
  /\ {"G1", "G2"} \cap OpenBlocking(b) = {} \/ b.action = "infra"

\* apply_supergoal_critic, with inertia = the guard's choice.
CriticApplied(b, data, inertia) ==
  LET merged == UpdateGates([b EXCEPT
        !.types  = @ \cup data.types,
        !.hyps   = MergedHypotheses(@, data.hyps),
        !.noEdge = @ \/ data.noEdge])
      directed == UpdateGates([merged EXCEPT
        !.action   = data.action,
        !.blockers = @ \cup data.blockers])
  IN  [directed EXCEPT !.noEdge = @ \/ (inertia /\ MayReportNoEdge(directed))]
=============================================================================
