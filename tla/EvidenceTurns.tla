--------------------------- MODULE EvidenceTurns ---------------------------
(***************************************************************************)
(* A strategy mission from turn to turn: tool calls are recorded at any    *)
(* time, a turn loads the record, projects the ledger onto it (after_turn, *)
(* runtime.py) and merges the critic's answer, after which                 *)
(* apply_inertia_guard (gates.py) compares the proposed action with the    *)
(* action history and the evidence with what it was, and blocks a mission  *)
(* that repeats itself.  Which gates pass, and when, is arbitrary.         *)
(***************************************************************************)
EXTENDS EventProjection

CONSTANTS
  \* What the environment may do; an instance picks the cases it tries.
  ToolEvents,    \* recorded by post_tool_call
  Responses,     \* what extract_observation_events may find in a response
  Answers,       \* of the critic
  OpenAtStart,   \* gates that are not passed by the first turn
  MaxStalls,     \* max_same_gate_stalls (3)
  MaxArtifacts,  \* kept of a hypothesis (8)
  \* For TLC only.
  LedgerBound,
  TurnBound

\* Yields become events with their turn.
Yield == PlainEvent \cup ClassEvent \cup [type : {"failure"}, what : Categories]

\* An answer after proposal_from_critic_data: a missing target is the first open
\* gate.  The critic's findings may name a tool call, its hypotheses may be marked.
Answer ==
  [class : Classes \cup {"unknown"}, target : {"first", "other"},
   override : {"none", "other", "depends"},
   findings : Seq(Findings), hyps : Seq(0..MaxArtifacts)]

ASSUME TurnAssumption ==
  /\ ToolEvents \subseteq ToolEvent
  /\ Responses \subseteq Seq(Yield)
  /\ \A r \in Responses : \A i, j \in DOMAIN r :
       r[i].type = "failure" /\ r[j].type = "failure" => i = j
  /\ Answers \subseteq Answer
  /\ OpenAtStart \subseteq GateIds("strategy")
  /\ "unknown" \notin Classes
  /\ MaxStalls \in Nat \ {0}
  /\ {MaxArtifacts, LedgerBound, TurnBound} \subseteq Nat

GateOrder == <<"G1", "G2", "SG-1", "SG-2", "SG-3", "SG-4", "G3", "G4">>

\* first_blocking_failure, of the gates in the set.
FirstOf(gates) == GateOrder[Min({i \in DOMAIN GateOrder : GateOrder[i] \in gates})]

-----------------------------------------------------------------------------
(***************************************************************************)
(* The guard, as functions of what the record holds.                       *)
(***************************************************************************)
ChangesClass(past, class) ==
  class # "unknown" /\ (past = <<>> \/ Last(past) # class)

HistoryWith(past, class) ==
  IF ChangesClass(past, class) THEN LastN(Append(past, class), HistoryCap) ELSE past

\* Infrastructure work is held against the first open strategy gate.
Blamed(left, class) ==
  IF class = "infra" /\ left \cap StrategyGates # {}
  THEN FirstOf(left \cap StrategyGates)
  ELSE FirstOf(left)

InfraStreak(past) ==
  /\ Len(past) >= 3
  /\ \A i \in Len(past) - 2..Len(past) : past[i] = "infra"

\* Fault: growth of the evidence is not looked at.
StallsIgnoringGrowth(stuck, changed, count, before) ==
  IF changed THEN 0 ELSE stuck + 1

\* Fault: equal counts are taken for growth.
StallsOnLossOnly(stuck, changed, count, before) ==
  IF ~changed /\ count < before THEN stuck + 1 ELSE 0

\* same_action_no_evidence_count
StallsAfter(stuck, changed, count, before) ==
  IF ~changed /\ count <= before THEN stuck + 1 ELSE 0

\* hard_gate_reason, by its kind; history and stalls are the new ones.
HardReason(left, p, past, stuck) ==
  IF p.target # "first" /\ p.override = "none" THEN "target"
  ELSE IF /\ p.class = "infra"
          /\ Blamed(left, p.class) \in StrategyGates
          /\ p.override # "depends" THEN "infra"
  ELSE IF InfraStreak(past) /\ left \cap StrategyGates # {} THEN "streak"
  ELSE IF stuck >= MaxStalls THEN "stall"
  ELSE "none"

\* Fault: the report is written whatever the gate.
ReportsAlways(left, p, reason) == reason = "stall"

\* A stall at a strategy gate writes the no-edge report.
ReportsNoEdge(left, p, reason) == reason = "stall" /\ Blamed(left, p.class) \in StrategyGates

-----------------------------------------------------------------------------
VARIABLES
  ledger,     \* the mission's events
  lists,      \* evidence_layers, research_findings and action_history
  hyps,       \* hypothesis_portfolio, see ArtifactCount
  taxonomy,   \* failure_taxonomy
  open,       \* open blocking gates
  stalls,     \* same_action_no_evidence_count
  lastCount,  \* last_action_evidence_count
  hard,       \* kind of hard_gate_reason
  noEdge,     \* no_edge_report is written
  proposed,   \* action class of the last proposal
  turns,      \* turns_used
  witness     \* history variables, see TypeOK

guardVars == <<hyps, stalls, lastCount, hard, noEdge, proposed>>
vars == <<ledger, lists, taxonomy, open, turns, witness, guardVars>>

NoTexts == [l \in Layers |-> {}]

\* "started" is the first event.
Init ==
  /\ ledger = <<Silent>>
  /\ lists = [layers |-> [l \in Layers |-> <<>>], findings |-> <<>>, history |-> <<>>]
  /\ hyps = <<>>
  /\ taxonomy = [c \in Categories |-> 0]
  /\ open = OpenAtStart
  /\ stalls = 0
  /\ lastCount = 0
  /\ hard = "none"
  /\ noEdge = FALSE
  /\ proposed = "unknown"
  /\ turns = 0
  /\ witness = [projected |-> 0, shown |-> NoTexts, known |-> NoTexts, asserted |-> {},
                grew |-> FALSE, repeats |-> 0, fresh |-> TRUE]

\* Texts offered to a layer so far, with those of a replay of events and of an
\* evaluation of the gates with some findings.
ShownWith(events, findings) ==
  [l \in Layers |->
     witness.shown[l] \cup Located(l, events)
       \cup IF l = "external_prior" THEN {Label[f] : f \in findings \cap External} ELSE {}]

Saved(events) ==
  /\ Len(ledger) + Len(events) <= LedgerBound
  /\ ledger' = ledger \o events

\* post_tool_call
RecordTool(e) ==
  /\ Saved(<<e>>)
  /\ UNCHANGED <<lists, taxonomy, open, turns, witness, guardVars>>

\* A command, or a turn that ends before it projects: after_turn saves no event
\* while it waits for a barrier.
Command(events) ==
  /\ Saved(events)
  /\ lists' = LoadedLists(lists)
  /\ UNCHANGED <<taxonomy, open, turns, witness, guardVars>>

\* resume evaluates the gates.
Resume(passing) ==
  /\ Saved(<<Silent>>)
  /\ lists' = SyncedLists(LoadedLists(lists))
  /\ open' = open \ passing
  /\ witness' = [witness EXCEPT !.shown = ShownWith(<<>>, Range(lists.findings))]
  /\ UNCHANGED <<taxonomy, turns, guardVars>>

\* What a response yields in the coming turn.
Observed(r) ==
  [i \in DOMAIN r |->
     IF r[i].type = "failure"
     THEN [type |-> "failure", what |-> r[i].what, turn |-> turns + 1]
     ELSE r[i]]

\* What a turn projects: nothing when its response yields no event.
Projecting(observed) == IF observed = <<>> THEN <<>> ELSE Loaded(ledger) \o observed

\* The record's lists when the evaluators are called: the projection evaluates the
\* gates at its end, and after_turn once more.
TurnLists(observed) ==
  LET b == LoadedLists(lists)
  IN  SyncedLists(IF observed = <<>> THEN b
                  ELSE SyncedLists(ReplayedLists(b, Projecting(observed))))

\* The observation of a turn, the gates that pass, and what is saved at its end:
\* turn_evaluated, blocked, paused or done.
Observe(observed, passing) ==
  /\ turns < TurnBound
  /\ Saved(Append(observed, Silent))
  /\ turns' = turns + 1
  /\ open' = open \ passing
  /\ taxonomy' = IF observed = <<>> THEN taxonomy
                 ELSE TaxonomyAfter(taxonomy, Projecting(observed))

\* How far into the ledger the last projection looked.
ProjectedAfter(observed) == IF observed = <<>> THEN witness.projected ELSE Len(ledger)

\* closing: a verdict or a claim of completion evaluates the gates once more.
\* What it passes passes in the next turn's set.
Closed(b, closing) == IF closing THEN SyncedLists(b) ELSE b

\* A turn without a critic's answer: the guard does not run, and what it found
\* the last time stays on the board.
UnguidedTurn(observed, passing, closing) ==
  LET b == TurnLists(observed)
  IN  /\ Observe(observed, passing)
      /\ lists' = Closed(SyncedLists(b), closing)
      /\ witness' = [witness EXCEPT
           !.projected = ProjectedAfter(observed),
           !.shown = ShownWith(Projecting(observed), Range(b.findings))]
      /\ UNCHANGED guardVars

GuardedTurn(observed, p, passing, closing) ==
  LET left    == open \ passing
      b       == TurnLists(observed)
      merged  == CriticLists(b, p.findings)
      found   == MergedHypotheses(hyps, p.hyps)
      count   == EvidenceCount(merged.layers, found)
      past    == HistoryWith(merged.history, p.class)
      stalled == StallsAfter(stalls, ChangesClass(merged.history, p.class), count, lastCount)
      reason  == HardReason(left, p, past, stalled)
      shown   == ShownWith(Projecting(observed), Range(b.findings) \cup Range(merged.findings))
      grew    == \/ \E l \in CountedLayers : shown[l] # witness.known[l]
                 \/ \E i \in DOMAIN p.hyps : p.hyps[i] > 0
  IN  /\ Observe(observed, passing)
      /\ hyps' = found
      /\ proposed' = p.class
      /\ lastCount' = count
      /\ IF left = {}
         THEN /\ stalls' = 0
              /\ hard' = "none"
              /\ lists' = Closed(merged, closing)
              /\ UNCHANGED noEdge
         ELSE /\ stalls' = stalled
              /\ hard' = reason
              /\ lists' = Closed([merged EXCEPT !.history = past], closing)
              /\ noEdge' = (noEdge \/ ReportsNoEdge(left, p, reason))
      /\ witness' = [projected |-> ProjectedAfter(observed),
                     shown    |-> shown,
                     known    |-> shown,
                     asserted |-> witness.asserted \cup Range(p.findings),
                     grew     |-> grew,
                     repeats  |-> IF left = {} THEN 0
                                  ELSE IF p.class = proposed /\ ~grew THEN witness.repeats + 1
                                  ELSE 1,
                     fresh    |-> IF p.class = proposed THEN witness.fresh
                                  ELSE p.class \notin Range(merged.history)]

Next ==
  \/ \E e \in ToolEvents : RecordTool(e)
  \/ \E events \in {<<>>, <<Silent>>} : Command(events)
  \/ \E passing \in SUBSET open : Resume(passing)
  \/ \E r \in Responses, passing \in SUBSET open, closing \in BOOLEAN :
       \/ UnguidedTurn(Observed(r), passing, closing)
       \/ \E p \in Answers : GuardedTurn(Observed(r), p, passing, closing)

Spec == Init /\ [][Next]_vars

-----------------------------------------------------------------------------
ListsOK(b) ==
  /\ b \in [layers : [Layers -> Seq(Texts)], findings : Seq(Findings), history : Seq(Classes)]
  /\ \A l \in Layers : Len(b.layers[l]) <= LayerCap
  /\ Len(b.findings) <= FindingCap /\ Len(b.history) <= HistoryCap

\* projected: ledger events before the last projection; shown: texts offered to a
\* layer so far; known: those the last run of the guard had; asserted: findings of
\* the critic so far; grew: that run found texts or verified hypotheses that the one
\* before had not; repeats: runs in a row on one class, without growth and with open
\* gates; fresh: the class was not in the history when it was proposed first.
TypeOK ==
  /\ ledger \in Seq(Event)
  /\ ListsOK(lists)
  /\ hyps \in Seq(0..MaxArtifacts) /\ Len(hyps) <= PortfolioCap
  /\ taxonomy \in [Categories -> Nat]
  /\ open \subseteq OpenAtStart
  /\ {stalls, lastCount, turns} \subseteq Nat
  /\ hard \in {"none", "target", "infra", "streak", "stall"}
  /\ noEdge \in BOOLEAN
  /\ proposed \in Classes \cup {"unknown"}
  /\ witness \in [projected : Nat, shown : [Layers -> SUBSET Texts],
                  known : [Layers -> SUBSET Texts], asserted : SUBSET Findings,
                  grew : BOOLEAN, repeats : Nat, fresh : BOOLEAN]

\* What the turns up to the last projection have seen of the ledger.
Seen == Loaded(SubSeq(ledger, 1, witness.projected))

\* A text as it is written, and as one or more loads leave it.
Forms(texts) == UNION {{t, Cut[t], Cut[Cut[t]]} : t \in texts}

\* Findings of the ledger, or of the critic, and their labels.
FindingsSeen == (Range(FindingsOf(Seen)) \cup witness.asserted) \cap External

Evidenced(layer) ==
  Located(layer, Seen)
    \cup IF layer = "external_prior" THEN {Label[f] : f \in FindingsSeen} ELSE {}

AllShort(texts) == \A t \in texts : Cut[t] = t

\* A layer holds evidence and nothing else, whatever was replayed, evicted, cut and
\* copied: every entry is a locator that was seen or, in external_prior, the label
\* of a finding that a web call or the critic gave; none is there twice; and while
\* there is room and no text is long, every locator seen and every label of the
\* findings held is there (projection.py, add_evidence_layer; gates.py,
\* sync_evidence_layers_from_findings).
LayersHoldEvidence ==
  \A l \in Layers :
    LET layer == lists.layers[l]
    IN  /\ Range(layer) \subseteq Forms(Evidenced(l))
        /\ \A i, j \in DOMAIN layer : layer[i] = layer[j] => i = j
        /\ Len(layer) <= LayerCap
        /\ Len(layer) < LayerCap /\ AllShort(Evidenced(l))
             => /\ Located(l, Seen) \subseteq Range(layer)
                /\ l = "external_prior"
                     => Range(LabelsOf(lists.findings)) \ {Nothing} \subseteq Range(layer)

\* The last of the items that is something, in one of its forms.
HoldsLastOf(layer, items) ==
  \A i \in DOMAIN items :
    /\ items[i] # Nothing
    /\ \A j \in DOMAIN items : j > i => items[j] = Nothing
    => Range(layer) \cap Forms({items[i]}) # {}

\* The locator that was seen last is in its layer: replaying older events, evicted
\* ones among them, does not push it out.  Of external_prior, where labels come
\* after locators, that holds of the newest finding's label (projection.py and
\* gates.py, merged[-max_items:]).
NewestEvidenceStays ==
  /\ \A l \in Layers \ {"external_prior"} : HoldsLastOf(lists.layers[l], TextsFor(l, Seen))
  /\ HoldsLastOf(lists.layers["external_prior"], LabelsOf(lists.findings))

\* A failure is counted once, by the projection of its own turn and by all
\* later ones, as long as the ledger fits the window (projection.py,
\* increment_failure_taxonomy).
FailuresCountedOnce ==
  Len(ledger) <= Window
    => \A c \in Categories :
         taxonomy[c] =
           Cardinality({i \in DOMAIN ledger : ledger[i].type = "failure" /\ ledger[i].what = c})

ShortTexts == \A l \in CountedLayers : AllShort(witness.shown[l])

\* Evidence that is new to the guard resets the stall counter, as long as nothing
\* counted was evicted or cut (tests/replay/test_phase3_replay_invariants.py:205,
\* test_real_tool_evidence_resets_no_evidence_inertia): other entries that a replay
\* drops or the critic's old hypotheses do not hide it.
EvidenceResetsStalls ==
  /\ witness.grew
  /\ \A l \in CountedLayers : Cardinality(witness.shown[l]) <= LayerCap
  /\ Len(hyps) < PortfolioCap
  /\ ShortTexts
  => stalls = 0

Unclassified == \A i \in DOMAIN ledger : ledger[i].type # "class"

\* A mission that proposes one action again and again, without new evidence or new
\* verified hypotheses, is blocked when the stalls have run out: evictions, replays
\* and reloads do not pass for growth (gates.py:532, "so assistant self-report cannot
\* reset no-evidence inertia").  That needs texts that loading does not cut,
\* responses that are not classified, and a class that the history does not know.
FirstRepetitionIsBlocked ==
  witness.repeats > MaxStalls /\ witness.fresh /\ ShortTexts /\ Unclassified => hard # "none"

\* The guard reports "no edge" only in the cases that the board's own model
\* leaves to it (gates.py, apply_inertia_guard; MissionBoard, MayReportNoEdge).
ReportsWithinBoard ==
  [][noEdge' # noEdge =>
       MayReportNoEdge([EmptyBoard("strategy") EXCEPT
         !.passed = GateIds("strategy") \ open',
         !.action = IF proposed' = "infra" THEN "infra" ELSE "other"])]_vars

\* "blocked: gate ... saw no evidence growth for ... consecutive action approvals"
\* (gates.py:681): a repetition is blocked, also of a class that was proposed before
\* (docs/principles.md:31, "Detect inertia").
RepetitionIsBlocked ==
  witness.repeats > MaxStalls /\ ShortTexts /\ Unclassified => hard # "none"

-----------------------------------------------------------------------------
(***************************************************************************)
(* Refuted.                                                                *)
(***************************************************************************)
\* A projection is a function of the ledger: what one replay of the same events
\* onto an empty board gives.
LayersAreReplayable ==
  \A l \in Layers \ {"external_prior"} :
    lists.layers[l] = TakeAll(<<>>, TextsFor(l, Seen), LayerCap, TRUE)

\* "Project in-memory together with already persisted events" (runtime.py:283):
\* what was recorded before a projection reaches the layer, if it fits.
PersistedEventsProjected ==
  LET known == Located("artifact", SubSeq(ledger, 1, witness.projected))
  IN  Cardinality(known) <= LayerCap => known \subseteq Range(lists.layers["artifact"])

\* NewestEvidenceStays of the locators of web calls too.
NewestLocatorStays ==
  HoldsLastOf(lists.layers["external_prior"], TextsFor("external_prior", Seen))

\* Stalls are reset only by new evidence or another class: a text that loading cuts
\* is taken again by the next replay.
OnlyGrowthResets ==
  [][stalls' < stalls => witness'.grew \/ proposed' # proposed \/ open' = {}]_vars

\* The count grows by what tools did only: the critic's findings and hypotheses
\* count as well.
GrowthIsRecorded == witness.grew => \E i \in DOMAIN ledger : ledger[i].type = "tool"

\* EvidenceResetsStalls of every growth, FirstRepetitionIsBlocked of every response.
EveryGrowthResets == witness.grew => stalls = 0

EveryResponseCounts ==
  witness.repeats > MaxStalls /\ witness.fresh /\ ShortTexts => hard # "none"
=============================================================================
