# Verification of supergoal-runtime

TLA+ models of the Supergoal plugin (`src/supergoal_runtime/`), TLC
configurations that check them on small instances, and TLAPS proofs of the
results that hold for every instance. `PROJECT.json` is the machine-readable
index: runs, mutants, the map from definitions to source lines, findings,
hazards and theorems.

## 1. The system

A *mission* (`GoalState`) is a long-running goal the plugin drives turn by turn
in a chat host. It is stored as one JSON record in a SQLite database that every
session and process of a profile shares.

| Component | State | Operations | Talks to |
|---|---|---|---|
| store (`store.py`) | tables `runs`, `session_bindings`, `events` (append-only ledger), `meta` | save a run (with events), bind a session, rotate a binding, append an event (once per key), import a bundle, reads | SQLite; called by everything below |
| runtime manager (`runtime.py`) | none of its own: each handler loads the record, works on it and saves it | start, pause, resume, clear, wait, unwait, replan, `after_turn` | store, gates, projection, evaluators |
| gates (`gates.py`) | the gates in the record | evaluate, reconcile a final report, inertia guard | read by `after_turn` to veto a DONE |
| projection (`projection.py`) | evidence layers, findings, action class, failure counters in the record | extract observations from a response, replay ledger events onto the board | ledger in, board out |
| tool evidence (`evidence.py`) | none | classify a tool call, make a finding of it | used by the tool hooks and by projection |
| evaluators (`evaluators.py`) | none | merge the answer of the strategic critic | LLM of the host |
| tool hooks (`policy.py`) | none | permission decision before a tool call, evidence event after it | store |
| plugin (`plugin.py`), commands (`command.py`) | none | wire the hooks, rotate sessions, enqueue follow-up prompts | host |
| migration (`migration.py`, `scripts/`) | completion marker in `meta` | import legacy sessions as bundles | store |
| controller (`controller.py`) | none | an older decision pipeline; only its unit test constructs it | - |
| domain, prompts, rendering, config, `compat/` | - | records, texts, paths | - |

What makes it hard:

* **No handler is atomic.** `load_state_for_session` is three reads in three
  connections, and `save_state` replaces the whole record without a version
  check. Between them a turn asks the judge and the critic. Commands are
  registered as safe while a turn is busy (`command.py:72`), the host runs
  turns on worker threads, and other processes open the same database.
* **Failures**: a conflict in the middle of an import, a crash between two
  statements, a tool call or a legacy row that is delivered twice.
* **Order**: turns, tool events and commands reach a mission that has been
  paused, cleared or finished; rotations arrive late; a process ends while a
  turn is under way.
* **The host's loop.** A turn answers with a directive, and only a `continue`
  that the host accepts starts the next turn. `docs/phase1-verdict.md:17-35` says
  what the host does: pending input is first in, first out, with the user's own
  messages first; controllers do not run while a user message is pending; a
  directive is accepted when its `state_version` has advanced, at most one a turn.
  Whoever uses up the only prompt without enqueuing another one stops the loop.
* **Sticky state**: a gate that has passed stays passed, bindings are never
  moved, the ledger is never rewritten: each is a promise and a source of
  staleness.

What each component owes its callers is the list of properties in section 4;
`PROJECT.json` lists the hazards they are aimed at, each at its line, with
those that no property covers yet.

## 2. Modules

```
StoreTables        tables and SQL statements, as operators
  |- SupergoalStore        the store, one atomic step per public write (abstract)
  |    |- SupergoalStoreProofs     its theorems
  |    |- LegacyMigration          the import script beside live missions
  |    |- ToolHooks                the hooks before and after a tool call
  |    `- StoreClientsProofs       theorems about these two
  |- StoreTransactions     the same writes statement by statement; implements SupergoalStore
  |    `- StoreTransactionsProofs  its invariant, the refinement, and what follows from it
  `- RuntimeInterleaving   handlers of several threads on the tables
       `- RuntimeInterleavingProofs  its theorems
MissionLifecycle   status and budget of a mission (abstract)
MissionControl     lifecycle, budget and barrier, as functions on the control record
  |- MissionControlProofs  lemmas on these functions
  |- MissionRuntime        one mission, handlers atomic (also EXTENDS MissionBoard);
  |    |                   implements MissionLifecycle
  |    `- MissionRuntimeProofs       its theorems
  |- HostLoop              the loop of commands, prompts and turns; implements MissionLifecycle
  |    `- HostLoopProofs             its theorems
  `- RuntimeInterleaving
MissionBoard       gates, evidence, projection and critic merge, as operators
EventProjection    what loads, replays and gate evaluations do to the record's lists, as
  |                operators (EXTENDS MissionBoard)
  `- EvidenceTurns         the ledger, the lists and the inertia guard from turn to turn
       `- ProjectionProofs       its theorems
```

`MC*` modules and the `.cfg` files instantiate them.

**StoreTables.** A table with a primary key is a partial function, so the key's
uniqueness is structural; the ledger is the sequence of event rows in id order.
Each operator is one SQL statement (`UpsertRun`, `BindSession`, `Demote`,
`InsertEvent`) or one test (`Bindable`, `Coalesce`). The contents of a record
and of an event are model values. `reason`, timestamps and payloads are left
out: no statement branches on them. An event's `source` is the pair
(`legacy_source_key`, `legacy_source_index`), `Null` when there is none, as
`INSERT OR IGNORE` under the UNIQUE constraint sees it.

**SupergoalStore.** One action per public write. An operation that raises
changes nothing: it is a stutter. `ImportRunBundle` takes a bundle as a function
from keys to kinds and appends the fresh rows in any order.

**StoreTransactions.** `Begin` is BEGIN IMMEDIATE: the connection holds the
write lock and works on a private version of the tables; `Statement` executes
the next statement, `Commit` publishes, `Rollback` is the exception path,
`Crash` the death of the process. `ImplementsStore` is the refinement: committed
tables map to the tables of SupergoalStore, everything in between is a stutter.

**MissionControl.** `status`, `turns_used` and `waiting_on_pid`, with the
acceptance test and the effect of every command and the branches of
`after_turn` in their order (`Ignores`, `Preempts`, `Barred`, `Verdict`). The
handlers are functions of the loaded record, so the sequential and the
interleaved module use the same ones.

**MissionBoard.** The board as far as the gates can tell: which layers hold an
entry, which source types tool-backed findings have, hypotheses as (status,
complete, marked), prose as the set of terminal-marker classes found in it.
`UpdateGates` is `ensure_supergoal_gates_for_text` + `evaluate_gates`, taken
with everything it calls (`sync_evidence_layers_from_findings`); `Projected` is
a whole projection, `CriticApplied` a whole critic merge with the gate updates
the code makes in between.

**MissionRuntime.** One mission, handlers atomic. `Evaluate` is all of
`after_turn` behind its early returns: barrier release, observation and
projection, turn count, judge, critic, terminal test, reconciliation, verdict.
The answers of the model, the judge and the critic are arbitrary members of the
CONSTANT sets of the instance. `vouched` and `overdrafts` are history variables.

**RuntimeInterleaving.** The same handlers split where the code lets go of the
database: `GetGoalRunId`, `IsCurrentSession`, `LoadRun`, then `SaveState` (or
`StartMission`) on tables that may have changed. `LoadRun` also computes what
the handler will write, which is sound because the record, the judge's and
critic's answers and the liveness of the process are all it depends on and
nothing is read again before the write. A session has one turn at a time;
commands, turns of other sessions, starts and rotations come at any time.
`CarefulHost` says whether the host reports only rotations of the session that
currently drives the mission to a fresh session.

**MissionLifecycle.** What a mission promises its user, as a machine of status
and turns: `Begin`, `Work`, `Suspend`, `Resume`, `Abandon`. Only a turn of an
active mission completes it, and a turn that leaves it active leaves turns to
spend.

**HostLoop.** One session's pending input, as counters of prompts and user
messages; the turn under way; the control record. A command writes the record
and enqueues a prompt (`FollowUp`), which the host may refuse after the record
has been saved. A turn ends in one of the branches of the controller: it is
ignored, preempted by a user message, held by the barrier, broken by an
evaluator that raises, evaluated, or its controllers are skipped because the user
has typed. A restart loses the queue and keeps the record. `version` and `grants`
are the host's filter on directives, so that a turn reported twice meets the
filter that the code relies on. `faults` is chosen once per behaviour, among
evaluators that raise, a host that restarts and a host that reports a turn twice:
a property can then say under which of them it holds. `ordinary` is the host's
own `/goal`, which `start` looks at through the compatibility adapter.

**EventProjection.** The lists that the ledger feeds: evidence layers, research
findings, action history, failure counters. Three pieces of code write them, each
with a cap of its own. `ReplayedLists` is the loop of `project_events_to_board`:
`load_events` returns the oldest events up to its limit (`Loaded`), and every turn
replays all of them onto lists that the last replay left. `Take` is what it does
with one item (`add_evidence_layer`, `merge_research_findings`): an entry that is
there keeps its place, past the cap the oldest goes; `action_history` takes
repetitions too. `SyncedLists` is `sync_evidence_layers_from_findings`, at the head of
every evaluation of the gates: the labels `source_type:title` of external findings
with a tool call behind them, the critic's among them, go into `external_prior`
beside the locators of web calls, under the same cap. `LoadedLists` is what
`from_json` makes of the record: layer entries are cut from 180 to 160 characters
and, like the classes of the history, taken once each. Hence the replay is not
idempotent: an event whose entry was evicted, or cut, adds it again.
`EvidenceCount` is `gate_eligible_evidence_count` with both its terms, the entries of
the three counted layers (`tool_observation` is not one) and the artifacts of
verified hypotheses, which `MergedHypotheses` (MissionBoard) may drop at the cap of
the portfolio.

**EvidenceTurns.** A strategy mission from turn to turn: tool calls are recorded at
any time, commands load and save the record, `resume` evaluates the gates, and a
turn loads, projects (only if its response yielded an observation), evaluates the
gates, and, when the critic answers, merges the answer and runs
`apply_inertia_guard`: it compares the proposal with the last class of the history,
the evidence count with what it was, counts stalls, and sets the hard failure
(`HardReason`, in the order of the code). Which gates pass, and when, is arbitrary.
MissionBoard leaves the report of "no edge" as a free choice under
`MayReportNoEdge`; `ReportsWithinBoard` shows that the counters use no more than this
choice. `witness` holds history variables: the texts that a layer was offered so far
(`shown`) and when the guard last ran (`known`), the findings that the critic
asserted, whether that run found anything new (`grew`), how often one class has been
proposed in a row without growth (`repeats`), and whether the history did not know
the class at first (`fresh`).

**LegacyMigration.** A run of the script takes a snapshot of the source, plans a
bundle per mission from it, imports each in a transaction of its own and writes
its marker when no error occurred. It may die between two transactions and be
started again, with or without `--force`, while live missions are started, saved
and rotated and while malformed rows or items of the source are repaired.
`damage` is chosen once per behaviour: nothing, whole rows, or single events. The
key of an imported event is the row it came from and its `Index`, which counts the
items of the row that decode (`Decodable`).

**ToolHooks.** Each hook is the three reads of `load_state_for_session`, the
second one with the append of the evidence event behind them; other writes commit
between them, and every read may find the database locked. A pre hook that fails
blocks its call, a post hook that fails records nothing. `permitted` is history:
at some instant of the pre hook one atomic look would have let the call run.

Stuttering steps: `replan` and a turn behind the barrier save an unchanged
record; refused commands and `pre_tool_call` write nothing.

## 3. Abstractions and bounds

* Prose is abstracted to what the code's tests on it return. In the mission
  modules findings stay below the 24 that the merge keeps and the ledger below the
  1000 events that a read returns; the window and the caps are EvidenceTurns'
  subject.
* In EventProjection a text is a value that `Cut` maps to what loading makes of it;
  texts that differ only in case are one, findings are one when source type, title
  and locator are, and a title is short enough to be written and loaded unchanged.
  A critic's finding under the locator of a *later* tool call, which would keep its
  backing from being seen, is not modelled. The layers `local_empirical` and
  `failed_hypothesis`, which nothing counts or checks, and `human_acceptance`, which
  nothing writes, are left out.
* EvidenceTurns leaves status, budget and barrier to MissionRuntime: a mission with no
  open gate may go on, and a command may come in any order with the turns. That
  allows more behaviours than the code has, so what holds here holds there.
* `waiting_on_session` and `waiting_until` are set by no handler (they survive
  from migrated records only) and are left out.
* In MissionRuntime the stall counters of the inertia guard are a free choice, so
  what its runs show holds whatever they count; EvidenceTurns counts.
* Tool events carry `turn = turns_used` and observations of a response
  `turns_used + 1`; nothing the properties are about reads the former.
* Bounds: `MaxEvents` (ledger length), `TurnBound` (turns counted),
  `ResumeBound` (accepted resumes) exist for TLC only and stop the actions that
  would pass them. `MaxTurns`, `MinHypotheses`, `FailuresToStop` and
  `PortfolioCap` are the code's constants (20, 3, 8, 16) with small values.

| Configuration | Instance | Why it is enough |
|---|---|---|
| `MCSupergoalStore` | 2 runs, 2 sessions, 2 records, 1 origin, 2 keys, 3 events | a session and a rival for it, a run to move it to, an overwrite to notice, a key and a second one, a re-delivery with an unkeyed event in between; the theorems lift the rest |
| `MCStoreTransactions` | 2 connections, 2 runs, 2 sessions, 1 key, 2 events | a second writer, a bundle with two bindings and an event that can fail at either binding |
| `MCMissionControl` | 1 general mission, 1 process, `MaxTurns` 2, `TurnBound` 4 | budget used up, resumed and overdrawn twice; claims, brags, blockers and a failing test run |
| `MCMissionGates` | research and strategy missions, 2 tool calls, 3 turns, critic answers that fill and overflow the portfolio | both halves of the research gate by tool and by critic, failed web calls, two failures (`FailuresToStop`) |
| `MCRuntimeInterleaving` | 2 threads, 2 sessions, 2 runs, careful host | two handlers, a start against a start, a rotation inside a handler |
| `LostUpdate` | 2 threads | the counterexample needs no more |
| `HostLoop` | `MaxTurns` 2, 3 prompts and 1 message by the user, `TurnBound` 6, 1 process, all faults, the host's own goal | two chains side by side and a third after the budget is used up; a message between automatic turns; turns beyond the budget and repeated ones |
| `EvidenceTurns` | 3 files (a symmetry set), 1 page with its label, 1 long label of the critic's, 1 finding without backing; `LayerCap` 2, `FindingCap` 2, `HistoryCap` 3, `PortfolioCap` 3, `Window` 5, ledger 6, `MaxStalls` 2, 3 turns, G2 and SG-1 open at first | files that overflow a layer, a locator and two labels for two places, a label that a load cuts, hypotheses that overflow the portfolio, an event beyond the window, stalls that run out in three turns and are reset before |
| `RepetitionUnnoticed` | 1 file, two classes, 6 turns | the counterexample needs five |
| `MCLegacyMigration` | missions a, b from the source and c live; sessions s, t, u; 4 events; sound, damaged rows, damaged items | a mission with a mirror, one with a second session, a conflict with a live mission, an event listed twice |
| `MCToolHooks` | 2 slots, 2 missions, 2 sessions, 1 call, 1 trait | two hooks of one call, a rotation and a change of the contract between two reads |

Deadlock is checked for the store and for what runs on it. It is not for the
mission modules: a cleared mission, or an instance whose turns are used up,
really stops.

**Fairness.** `FairSpec` of HostLoop assumes weak fairness of `BeginTurn` and
`EndTurn`: an idle host takes pending input (its Gateway's queue,
`docs/phase1-verdict.md:17-35`), and a turn that has begun ends, with an answer or
with an exception. Nobody has to issue a command, no process has to exit, no user
has to type, and nothing forces an evaluator to be right. Properties that need
the absence of a fault say so with `Without(...)`; the prompts and messages of
the user are finite in an instance, which is the "once the user is silent" of
`ChainsEnd`. All other properties are safety properties and assume no fairness.

## 4. Runs

Passing:

* **store** - `NoOrphans`, `KeyedEventsOnce`, `BindingsWriteOnce`,
  `DemotedHasSuccessor`, `ImportKeepsRuns`: references and idempotence keys hold
  under any order of writes, a session never moves to another mission, a rotation
  never leaves a mission without a driver, an import never resets a mission.
* **transactions** - `ImplementsStore`, `SnapshotFresh`: a conflict in the
  middle of a bundle, a crash and a second writer are invisible, and no
  transaction builds on a stale snapshot.
* **mission_control** - `DoneMeansAccepted` (no DONE past an open blocking
  gate), `NoProgressUnlessActive`, `BarrierHolds`, and `ImplementsLifecycle`:
  whatever the evaluators answer, the mission stays on its lifecycle.
* **mission_gates** - `ExecutionGateWitnessed` and `ResearchGateWitnessed`: the
  exact witnesses a passed gate has, namely trusted tool events or assertions of
  the critic, never prose of the assistant; `GatesStayPassed`.
* **interleaving** - what survives without atomic handlers: `NoStrayRuns`
  (racing starts), `WritesOwnMission` (the run a handler looked up is still its
  session's when it writes; it rests on bindings that are never moved),
  `BudgetOverdrawnByResumeOnly` (each turn past the budget was paid for by a
  resume), `OneDriver` under a careful host.
* **host_loop** - with commands, messages, turns and faults in any order:
  `ChainsPaidFor` (never more prompts under way than commands enqueued: a second
  resume makes a second chain, and nothing else does), `ImplementsLifecycle`,
  `PromptsNotLost`; and the liveness of the loop: `ChainsEnd` (the budget ends
  every chain), `ActiveMissionStops`, `UserMessageStops`, `NextPromptReleases`.
* **evidence_turns** - `LayersHoldEvidence` (whatever was replayed, evicted, cut and
  copied, a layer holds locators that were seen and labels of findings that a web
  call or the critic gave, nothing twice, and all of it while there is room and no
  text is long), `NewestEvidenceStays` (no replay of older events pushes out the
  newest locator, and of `external_prior`, where labels come last, no copy the newest
  label), `FailuresCountedOnce` (up to the window; beyond it a failure of the current
  turn is counted that later replays do not see), `EvidenceResetsStalls`, while nothing
  that counts was evicted or cut; `FirstRepetitionIsBlocked`: evictions, replays, copies
  and loads do not pass for growth, while no text is long, no response was
  classified and the class is new to the history; `ReportsWithinBoard`. New to the guard
  is also what the critic asserts: its findings' labels and its verified hypotheses
  count in the code, and so they do in `grew`. Types are proved (`TypeCorrect`).
* **migration** - `MarkerMeansImported`, `RunsImportedWhole`, `LegacyEventsOnce`:
  through deaths, restarts, `--force`, conflicts and repairs the marker is never
  early, and what comes from a sound source comes whole and once.
* **tool_hooks** - `RunsOnlyIfPermitted`, `RecordsInOwnMission`: three reads in
  three connections are as good as one for the permission, and an observation is
  recorded in the mission of its own session.

Violations, each a disagreement between the code and a sentence of the
repository (quoted under "findings"):

* **lost_update** - with two handlers `StoppedUntilResumed` fails: a turn loaded
  before a pause or a clear writes the mission back as active.
* **barrier_stalls** - `BarrierReleases` fails under `FairSpec` and without any
  fault: the turn behind the barrier used up the only prompt, so when the process
  ends nothing starts the turn that would notice ("automatically release",
  `README.md:54`).
* **repetition_unnoticed** - `RepetitionIsBlocked` fails for a class that the history
  knows already: the guard appends it, the next load drops the second entry, and the
  same proposal is a change of class again, every turn ("consecutive action
  approvals", `gates.py:681`; "Detect inertia", `docs/principles.md:31`).

Every property of a passing run has a mutant: a plausible bug of the code,
defined beside the definition it replaces, under which TLC finds it violated.

### Further configurations

These are beside the runs, one question each, to be run by hand with
`tlc -config X.cfg M`. One passes: `SerialHandlers` (RuntimeInterleaving with one
thread, three sessions and any host), in which `StoppedUntilResumed` holds, as
`SerialHandlersStayStopped` proves (section 5). The
others state a sentence of the repository, or a plausible reading of one, and TLC
refutes it; what each counterexample shows is a limit of the code to know of.
`MissionGateLimits` and `MissionControlLimits` hold two invariants each: with
`-continue` TLC reports both.

| Configuration | States | What the counterexample shows |
|---|---|---|
| `TwoDrivers` | one current session a mission (`store.py:402`) | a rotation from a session that is not current demotes nobody and adds a second driver |
| `MissionGateLimits`: ToolBackedOnly | "tool-backed evidence only" (`README.md:49`) | the execution gate passes on a hypothesis the critic marked as verified |
| `MissionGateLimits`: InfraNeedsProof | infrastructure work needs a failed gate (`gates.py:131`) | SG-4 passes at the start and is never reopened |
| `MissionControlLimits`: FailedCallsSatisfyNothing | "failed calls ... cannot satisfy gates" (`docs/architecture.md:68`) | a failed test run is an observation and passes the execution gate |
| `MissionControlLimits`: DoneWrittenOnce | done is not written twice (spec:867) | a done mission can be paused, resumed and completed again |
| `ClearLeavesPrompt` | clear cleans up pending continuations (spec:866) | clear saves the status only; the prompt starts a turn, which answers nothing |
| `TurnReportedTwice` | one continuation per physical turn (spec:208) | dedupe key and state version contain `turns_used`, which the first report has increased |
| `TwoLoops` | no two autonomous loops (spec:101) | the compatibility adapter guards `start` only, resume and replan do not ask |
| `ReplayMovesLayer` | the board is derived from events (`projection.py:1`), so the same events give the same layer | a full layer takes back what it evicted: its entries change every turn without new evidence |
| `WindowHidesEvidence` | persisted events are projected (`runtime.py:283`) | the read returns the oldest events, later ones are never seen |
| `LabelsMoveLocator` | the newest locator of a web call is in `external_prior` too (`projection.py:196`) | the labels copied after the replay push it out (`gates.py:417`) |
| `LongEntryGrows` | only growth or another class resets the stalls | a text of 161 to 180 characters is cut by the load (`domain.py:543`) and added again by the next replay, so the count grows |
| `CriticFeedsGuard` | evidence that counts is recorded by tools (`gates.py:532`) | the critic's hypotheses and findings raise the count |
| `GuardLayerFull` | new evidence resets the stalls (`tests/replay/test_phase3_replay_invariants.py:205`) | growth is a count of entries: a full layer that replaces one does not grow |
| `GuardSelfReport` | self-reports reset nothing (`gates.py:532`) | the class of a response enters the history, so the unchanged proposal after it counts as a change |
| `MigrationShifted` | the marker means success (`docs/migration.md:34`) | an item that becomes readable moves the later indices and is ignored under a key already taken |
| `MigrationDuplicates` | no duplicates after a retry (`docs/state-schema.md:70`) | the key names the row an event was first seen in, a repaired row brings it again |
| `MigrationMirrorWins` | `goal_run` is authoritative (`docs/migration.md:20`) | a mission imported from its mirror while the row was malformed conflicts with it for ever |
| `MigrationForced` | a forced retry is safe (`docs/migration.md:36`) | the upsert makes a session current again that was rotated away |

(spec: `docs/repository-cleanup-and-plugin-migration-spec.md`.)

Two more facts that the models rest on and a reader of the code may miss: a
session whose mission was cleared stays bound to it and cannot start another one,
and `unwait` removes the barrier without enqueuing a prompt.

## 5. Proofs

`SupergoalStoreProofs` proves about SupergoalStore, for every set of runs,
sessions, records, kinds, origins and every finite set of keys (assumptions:
`Null` is no origin or key, `Sources` is finite, `MaxEvents` is a natural
number):

`TypeCorrect`, `NeverOrphans`, `KeysRecordedOnce` (invariants) and
`BindingsNeverMove`, `LedgerNeverRewritten`, `RotationHandsOver`, `ImportsKeepRuns`
(action properties).

The inductive invariant is `IInv == TypeOK /\ NoOrphans /\ KeyedEventsOnce`:
references need the table shapes, and a bundle appends without duplicates only
because the ledger has none and the fresh rows have distinct keys
(`FreshRows`, `ConcatKeys`). Each action has a lemma (`SaveRunStep` ...
`ImportStep`) that shows `Extends`: the invariant again, bindings still on
their run and the old ledger a prefix of the new one. `NextExtends` combines
them; the theorems follow by temporal logic. `DemotedHasSuccessor` needs in
addition that rotation is the only action that demotes.

`MissionRuntimeProofs` proves about MissionRuntime, for any answers of the model,
the judge and the critic, any tool results, goals and processes, and any turn
budget, hypothesis count and portfolio cap (assumptions: `MaxTurns` and
`PortfolioCap` are positive, `MinHypotheses` and `FailuresToStop` natural,
`NoPid` is no process, `NoAnswer` no answer, and what the environment offers has
the types of the code's inputs):

* invariants `TypeCorrect`, `ExecutionNeedsWitness`, `ResearchNeedsWitness`,
  `DoneIsAccepted`, `BudgetHolds`;
* action properties `GatesNeverReopen`, `StoppedMakesNoProgress`,
  `BarrierIsKept`, `ClearedStaysCleared`;
* the refinement `StaysOnLifecycle`: every step is a step of MissionLifecycle or
  leaves status and turns alone.

The witnesses are not inductive by themselves: a gate passes because of what the
board holds at that moment, and the board was filled turns before from ledger
events and critic answers. `Grounded` therefore says of the whole board what it
rests on: its source types are among those seen or vouched for, a filled
artifact or verification layer means that a tool executed something, a verified
hypothesis that the critic vouched for one, and the two gates that look at them
likewise. One lemma per board operator (`SyncedGrounded` ... `ReconciledGrounded`)
shows that it keeps `Grounded` and reopens no gate; `Sufficient` is monotone in
the source types (`MoreTypesSuffice`). The budget needs that an active mission
still has a turn that the budget or a resume paid for.

`RuntimeInterleavingProofs` proves about RuntimeInterleaving, for any number of
threads, sessions, missions and processes (assumptions: `Null` is no run and no
record, `MaxTurns` positive, `NoPid` no process): `TypeCorrect`,
`NoMissionStrays`, `HandlersWriteOwnMission`, `BudgetHolds`, whatever the host
does, and `OneDriverPerMission` when `CarefulHost` holds. The invariant says what
a handler between two steps may rely on: past its first read it holds the run of
its session, because bindings never move (`Kept`), so other threads' writes
cannot invalidate it; and what it is about to write is affordable with the
resumes accepted so far.
For `OneDriverPerMission` it is taken together with
`OneDriverInv` (some session is the only driver of each mission), which every
step keeps and from which the cardinality follows (`OneDriverCardinality`).
`SerialHandlersStayStopped` is the other side of `lost_update`: if no two handlers
overlap (`OneAtATime`: there is one thread), `StoppedUntilResumed` holds for any
sessions, starts and rotations, because a record that is about to be written as
active was loaded as active and is still so (`SerialInv`). The interleaving alone is
to blame.

`StoreTransactionsProofs` proves about StoreTransactions, for any number of
connections and any finite set of sessions, `TypeCorrect` and `SnapshotsAreFresh`.
The invariant says that at most one connection is in a transaction and that it
holds the lock, that every list of statements is well-formed, and that what the
transaction sees extends what is committed.

It also proves `ImplementsAtomicStore`: StoreTransactions
implements SupergoalStore. The invariant `RInv` adds to the one above, for the
open transaction, which operation of the store it runs and how many of its
statements are done; `SavedRows`, `BindProgress` and their like say what these
statements made of the committed tables. One lemma per kind of statement carries
progress on; one per operation (`CommitSave` ... `CommitImport`) shows that a
commit with no statement left is one step of SupergoalStore. A bundle is the hard
case: its bindings and its fresh events have been executed one by one, and the
rows that were ignored as duplicates must be exactly those that the atomic store
leaves out. Because the refinement is proved, the theorems about the atomic store
carry over: `DatabaseSound` (references and keys) and `SessionsNeverMove` hold of
the committed tables however writers are interrupted. Assumptions: `Sessions` and
`Sources` are finite, `Null` is no connection, origin or source, `MaxEvents` is a
natural number.

`StoreClientsProofs` proves about the two components that work on the store beside
others; both rest on the step lemmas of `SupergoalStoreProofs`.

* ToolHooks, for any sessions, missions, calls and hooks (assumptions: `Calls`
  are the origins of the store's events, `ran` and `blocked` are kinds of events,
  records say whether they are active and carry a contract): `HooksTypeCorrect`, `CallsPermitted`, `RecordsStayHome`.
  A hook reads three times, and what it read may be overtaken. `HookInv` says what
  it may still rely on between two reads: the mission it looked up is the one its
  session is bound to, because bindings never move, and `permitted` already holds
  for whatever the remaining reads can no longer take back.
* LegacyMigration, for any source rows, missions and sessions, any order of keys
  and any damage (assumptions: the named ones of the module, which say that `Null`
  and the marks of rows are no names, that the sources have the shape `damage`
  says, and that keys have places): `MigrationTypeCorrect`, `MarkerIsSuccess`,
  `RunsArriveWhole`, `ContentsArriveOnce`. `MigInv` speaks of a run of the script
  in the middle of its work list: every planned mission is imported, to do, or
  refused with `failed` set; what a mission of a sound source has in the ledger is
  keyed by (row, index) with the content found there, so that a second import finds
  its own rows; and while repairs go on, the plan of the snapshot and the plan of
  the rows as they are now agree on what was imported.

`ProjectionProofs` proves about EvidenceTurns, for any window, caps, texts, findings,
tool events, responses and answers of the critic (assumptions:
`ProjectionAssumption` - finitely many texts, a third cut changes nothing, window and
caps positive - and `TurnAssumption`, the types of the inputs, at most one failure in
a response, `MaxStalls` positive). `TakeAll` is a recursive function over items; that it
satisfies its equations, and that what every pass keeps holds after the last one, is
derived without the library's induction theorems from `LeastNumber`, which follows
from the well-foundedness of the strict subset order on the intervals 1..n.
`TakeAllWindow` is the core: a list that is a window on a set (`WindowOn`: nothing else,
nothing twice, and all of it below the cap) is one on the larger set afterwards.

* The lists. `BoardFits` says that each layer is a window on the forms (`Forms`: a text
  as written or cut) of the texts that it was offered. One lemma per writer shows how
  the offers grow: `LoadFits` offers nothing, `SyncFits` the labels of the findings,
  `ReplayFits` the locators of the events, `CriticFits` the labels of the merged
  findings; `TurnFits` puts them together. `ListsInv` ties the offers to the evidence:
  what was seen of the ledger has been offered, and what has been offered was seen or
  asserted. Neither half follows from the layers, which forget. From it `LayersHold`
  and `NewestStays`.
* The counters. `LedgerInv` says that failures of a ledger belong to different turns: a
  counter counts a set of events, and equals the number of places of the ledger only
  if no two places hold the same event. From it `FailuresOnce`.
* The guard. `GuardInv` says that while no text is long the count that the guard keeps
  is that of what it knew (`TextCount`, cut off at the cap, by `WindowLength`) and of
  the hypotheses; that a class that was new when first proposed is the last of a
  history without repetitions, which a load therefore leaves alone (`HistoryKnown`);
  and that the stalls keep up with the repetitions (`RepeatsCounted`).
  `ArtifactsGrow` and `ArtifactsShrink` say when a merge of hypotheses, which drops old
  ones, raises the count and when it does not. From it `EvidenceResets` and
  `FirstRepetitionBlocked`. Without `HistoryKnown` the latter is not inductive, and for a
  class that the history knows it is false (`repetition_unnoticed`).
* `TypeCorrect`, and, with the order of the gates (`FirstGate`), the action property
  `NoEdgeWithinBoard`.

`Inductive` takes the three together through one lemma per action (`RecordStep` ...
`GuardedStep`).

`HostLoopProofs` proves about HostLoop, for any budget, any number of commands,
messages, turns and processes and any set of faults: `TypeCorrect`,
`StaysOnLifecycle` (the refinement of MissionLifecycle, repeated reports
included), `ChainsNeverMultiply` and `NoPromptDropped`. Its invariant is the types,
`InFlight <= issued` unless turns are reported twice, and that the accepted state
version never exceeds the turns counted: without the last fact a continuation
could be refused as stale and the prompt would be gone. `MissionControlProofs`
holds the lemmas on the record's functions that this module and
MissionRuntimeProofs share.

Every safety property of a passing run is a theorem. Out of the prover's reach for
good, and only model-checked: liveness under fairness (`ChainsEnd`, `ActiveMissionStops`, `UserMessageStops`,
`NextPromptReleases`).

## 6. Not modelled

* `controller.py`: nothing in the plugin constructs the pipeline, only
  `tests/unit/test_controller.py` does, and the adapter that would apply its
  outcome (`apply_runtime_outcome`) is not in the repository. What it decides
  changes no state that the rest can see.
* Rendering, configuration, prompts and other texts: they format, or decide
  nothing the properties are about.
* Schema version, backup and copies of the database; JSON (de)serialisation,
  redaction and hashing of evidence; parsing of evaluator answers, which are
  inputs here: any answer the parser can return.
* The event that records a rotation is a second transaction after the rotation
  itself; a crash in between loses it. No reader of the ledger looks for it.
* `should_replan` and `replan_count`, on which only texts depend, and
  scores and texts of hypotheses.
* Tests, documents and packaging: read as statements of intent.
