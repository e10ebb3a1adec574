-------------------------- MODULE EventProjection --------------------------
(***************************************************************************)
(* What happens to the lists of a mission's record that are derived from   *)
(* its ledger: project_events_to_board (projection.py) replays a window of *)
(* the ledger onto them, each time from the start; every evaluation of the *)
(* gates copies research findings into an evidence layer (gates.py); and   *)
(* loading the record cuts long entries and drops repeated ones            *)
(* (domain.py).                                                            *)
(*                                                                         *)
(* A text is what add_evidence_layer writes, at most 183 characters; texts *)
(* that differ only in case are one.  Findings are one when source type,   *)
(* title and locator are.  The layers that nothing counts or checks        *)
(* (local_empirical, failed_hypothesis) and human_acceptance, which nothing *)
(* writes, are left out.                                                   *)
(***************************************************************************)
EXTENDS MissionBoard, SequencesExt

CONSTANTS
  Texts,       \* entries of the evidence layers
  Cut,         \* what loading makes of a text
  Findings,    \* research findings
  External,    \* those with a tool call behind them and an external source type
  Label,       \* their "source_type:title"
  Classes,     \* action classes
  Categories,  \* failure categories
  Nothing,     \* no text, finding or class
  Window,      \* limit of load_events (1000)
  LayerCap,    \* max_items of a layer (12)
  FindingCap,  \* max_items of merge_research_findings (24)
  HistoryCap   \* entries kept of action_history (12)

\* A cut text is 160 characters without trailing blanks and three dots: at most
\* one more cut changes it.
ASSUME ProjectionAssumption ==
  /\ IsFiniteSet(Texts)
  /\ Cut \in [Texts -> Texts]
  /\ \A t \in Texts : Cut[Cut[Cut[t]]] = Cut[Cut[t]]
  /\ External \subseteq Findings /\ Label \in [External -> Texts]
  /\ Nothing \notin Texts \cup Findings \cup Classes
  /\ {Window, LayerCap, FindingCap, HistoryCap} \subseteq Nat \ {0}

-----------------------------------------------------------------------------
(***************************************************************************)
(* Events.                                                                 *)
(***************************************************************************)
\* A tool call with a trusted outcome; a web call is a finding too.  Any other
\* call, a claim of a response and the event of a command or a verdict add no
\* text, though a response may describe a finding.
ToolEvent ==
  {e \in [type : {"tool"}, layer : Layers, text : Texts, finding : External \cup {Nothing}] :
     e.finding # Nothing <=> e.layer = "external_prior"}

PlainEvent ==
  [type : {"plain"}, finding : (Findings \ External) \cup {Nothing}]

ClassEvent == [type : {"class"}, what : Classes]

\* The summary of a failure is the response's text, which its turn identifies.
FailureEvent == [type : {"failure"}, what : Categories, turn : Nat]

Event == ToolEvent \cup PlainEvent \cup ClassEvent \cup FailureEvent

Silent == [type |-> "plain", finding |-> Nothing]

\* What the events offer to each list, event by event.
TextsFor(layer, events) ==
  [i \in DOMAIN events |->
     IF events[i].type = "tool" /\ events[i].layer = layer THEN events[i].text ELSE Nothing]

FindingsOf(events) ==
  [i \in DOMAIN events |->
     IF events[i].type \in {"tool", "plain"} THEN events[i].finding ELSE Nothing]

ClassesOf(events) ==
  [i \in DOMAIN events |-> IF events[i].type = "class" THEN events[i].what ELSE Nothing]

\* The texts that events offer to a layer.
Located(layer, events) == Range(TextsFor(layer, events)) \ {Nothing}

\* load_events: ORDER BY id ASC LIMIT.
Loaded(events) == SubSeq(events, 1, IF Len(events) < Window THEN Len(events) ELSE Window)

-----------------------------------------------------------------------------
(***************************************************************************)
(* Lists under a cap.                                                      *)
(***************************************************************************)
LastN(s, n) == IF Len(s) <= n THEN s ELSE SubSeq(s, Len(s) - n + 1, Len(s))

\* Faults: an entry that is there already is added again; a full list takes
\* nothing more.
TakeDuplicating(list, item, cap, unique) ==
  IF item = Nothing THEN list ELSE LastN(Append(list, item), cap)

TakeRefusing(list, item, cap, unique) ==
  IF item = Nothing \/ (unique /\ Contains(list, item)) \/ Len(list) = cap
  THEN list ELSE Append(list, item)

\* merge_compact_list with one new item: a known item keeps its place, the
\* oldest one makes room.
Take(list, item, cap, unique) ==
  IF item = Nothing \/ (unique /\ Contains(list, item))
  THEN list ELSE LastN(Append(list, item), cap)

TakeAll(list, items, cap, unique) ==
  LET after[i \in 0..Len(items)] ==
        IF i = 0 THEN list ELSE Take(after[i - 1], items[i], cap, unique)
  IN  after[Len(items)]

-----------------------------------------------------------------------------
(***************************************************************************)
(* The lists of the record: layers, findings, history.                     *)
(***************************************************************************)
\* project_events_to_board up to the gates.  Each replay adds to what the last
\* one left, and appends every action class of the window once more.
ReplayedLists(b, events) ==
  [layers   |-> [l \in Layers |-> TakeAll(b.layers[l], TextsFor(l, events), LayerCap, TRUE)],
   findings |-> TakeAll(b.findings, FindingsOf(events), FindingCap, TRUE),
   history  |-> TakeAll(b.history, ClassesOf(events), HistoryCap, FALSE)]

LabelsOf(findings) ==
  [i \in DOMAIN findings |->
     IF findings[i] \in External THEN Label[findings[i]] ELSE Nothing]

\* sync_evidence_layers_from_findings, at the head of evaluate_gates.
SyncedLists(b) ==
  [b EXCEPT !.layers["external_prior"] = TakeAll(@, LabelsOf(b.findings), LayerCap, TRUE)]

\* from_json: _clean_string_list cuts and drops what is repeated, in the layers
\* and in the action history; the findings stay what they were.
LoadedLists(b) ==
  [layers   |-> [l \in Layers |->
                   TakeAll(<<>>, [i \in DOMAIN b.layers[l] |-> Cut[b.layers[l][i]]],
                           LayerCap, TRUE)],
   findings |-> b.findings,
   history  |-> TakeAll(<<>>, b.history, HistoryCap, TRUE)]

\* merge_research_findings with several new ones: cut once, at the end.
MergedFindings(known, new) ==
  LastN(TakeAll(known, new, FindingCap + Len(new), TRUE), FindingCap)

\* What apply_supergoal_critic does to the lists before the guard: two
\* evaluations of the gates.
CriticLists(b, findings) ==
  SyncedLists(SyncedLists([b EXCEPT !.findings = MergedFindings(@, findings)]))

\* Fault: the counters of the last projection are added to.
TaxonomyAccumulated(old, events) ==
  [c \in Categories |->
     old[c] + Cardinality({e \in Range(events) : e.type = "failure" /\ e.what = c})]

\* Counted afresh, once per event key: turn and summary.
TaxonomyAfter(old, events) ==
  [c \in Categories |->
     Cardinality({e \in Range(events) : e.type = "failure" /\ e.what = c})]

-----------------------------------------------------------------------------
(***************************************************************************)
(* The evidence count.                                                     *)
(***************************************************************************)
CountedLayers == {"artifact", "verification", "external_prior"}

\* verified_hypothesis_artifact_count: a hypothesis is the number of artifacts it
\* is counted with, none unless it is tested and carries a verifier marker.
ArtifactCount(hyps) ==
  Cardinality(UNION {{i} \X (1..hyps[i]) : i \in DOMAIN hyps})

\* gate_eligible_evidence_count
EvidenceCount(layers, hyps) ==
  Len(layers["artifact"]) + Len(layers["verification"]) + Len(layers["external_prior"])
    + ArtifactCount(hyps)
=============================================================================
