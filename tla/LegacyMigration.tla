--------------------------- MODULE LegacyMigration ---------------------------
(***************************************************************************)
(* migrate_legacy_state (migration.py): the one-way import of the          *)
(* state_meta rows of Hermes into the plugin database.  A run of the       *)
(* script reads the whole source, plans from that snapshot, imports one    *)
(* bundle per transaction and writes its marker when nothing went wrong;   *)
(* it may die between two transactions, be started again, with or without  *)
(* --force, while missions of the plugin go on and while somebody repairs  *)
(* the rows the last report complained about.                              *)
(*                                                                         *)
(* A source is a record of its four kinds of rows.  A goal_run:<run> or    *)
(* goal:<session> row is Absent, Malformed, Ordinary (another mode than    *)
(* supergoal) or names a run (Null in rows older than goal_run_id) and a   *)
(* record.  A goal_events:<run or session> row is Absent, Malformed or a   *)
(* list of event contents, some of them Malformed.  An event content is    *)
(* its Kind here: two events with one fingerprint are the same Kind.       *)
(***************************************************************************)
EXTENDS SupergoalStore

CONSTANTS
  Absent, Malformed, Ordinary,
  LegacyId,     \* legacy_goal_run_id: the run of a session row without one
  KeyOrder,     \* the runs and sessions in the order of their keys
  LiveRuns,     \* missions the plugin starts by itself
  InitialSources  \* for each kind of damage, what the source may hold at first

Keys == Runs \cup Sessions
Rows == {Absent, Malformed, Ordinary} \cup [run : Runs \cup {Null}, record : Records]
Ledgers == {Absent, Malformed} \cup Seq(Kinds \cup {Malformed})

Database ==
  [goal_run : [Runs -> Rows], goal : [Sessions -> Rows],
   goal_session : [Sessions -> Runs \cup {Absent}], goal_events : [Keys -> Ledgers]]

\* Each item of a ledger has its (key, index) pair.
ItemsHaveSources(src) ==
  \A k \in Keys : src.goal_events[k] \notin {Absent, Malformed} =>
    \A i \in DOMAIN src.goal_events[k] : <<k, i>> \in Sources

NothingMalformed(src) ==
  /\ \A r \in Runs : src.goal_run[r] # Malformed
  /\ \A k \in Keys : src.goal_events[k] # Malformed

ItemsSound(src) ==
  \A k \in Keys : src.goal_events[k] \notin {Absent, Malformed} =>
    \A i \in DOMAIN src.goal_events[k] : src.goal_events[k][i] # Malformed

ASSUME NamesAssumption ==
  /\ Null \notin Keys /\ Null \notin Database
  /\ Malformed \notin Kinds \cup {Absent}
  /\ LiveRuns \subseteq Runs
ASSUME LegacyIdAssumption == LegacyId \in [Sessions -> Runs]
ASSUME KeyOrderAssumption ==
  KeyOrder \in Seq(Keys) /\ \A k \in Keys : \E i \in DOMAIN KeyOrder : KeyOrder[i] = k
ASSUME OriginsAssumption ==
  /\ \A r \in Runs : <<"goal_run", r>> \in Origins
  /\ \A s \in Sessions : <<"goal", s>> \in Origins
ASSUME FirstItemsAssumption == \A k \in Keys : <<k, 1>> \in Sources
ASSUME InitialSourcesAssumption ==
  /\ DOMAIN InitialSources \subseteq {"none", "rows", "items"}
  /\ \A d \in DOMAIN InitialSources : \A src \in InitialSources[d] :
       /\ src \in Database
       /\ ItemsHaveSources(src)
       /\ d = "none" => NothingMalformed(src)
       /\ d \in {"none", "rows"} => ItemsSound(src)

VARIABLES
  damage,       \* what is malformed at first: "none", "rows" or "items" of ledgers
  legacy,       \* the rows of the source now
  marker,       \* schema_meta holds legacy_migration:<source>
  read,         \* the snapshot of the running migration, Null when none runs
  todo,         \* its runs not imported yet
  failed        \* its report has errors

migration == <<read, todo, failed>>
allVars == <<runs, bindings, events, damage, legacy, marker, read, todo, failed>>

IsMission(row) == row \notin {Absent, Malformed, Ordinary}
Place(name) == CHOOSE i \in DOMAIN KeyOrder : KeyOrder[i] = name
FirstKey(names) == CHOOSE n \in names : \A x \in names : Place(n) <= Place(x)

-----------------------------------------------------------------------------
\* _plan_import.
Authorities(src) == {r \in Runs : IsMission(src.goal_run[r])}

MirroredRun(src, s) ==
  IF src.goal[s].run = Null THEN LegacyId[s] ELSE src.goal[s].run

Mirrors(src, r) == {s \in Sessions : IsMission(src.goal[s]) /\ MirroredRun(src, s) = r}

PlannedRuns(src) == Authorities(src) \cup {r \in Runs : Mirrors(src, r) # {}}

\* The row a run is imported from: its own, else the first mirror.
PlannedOrigin(src, r) ==
  IF r \in Authorities(src) THEN <<"goal_run", r>>
                            ELSE <<"goal", FirstKey(Mirrors(src, r))>>

PlannedRecord(src, r) ==
  IF r \in Authorities(src) THEN src.goal_run[r].record
                            ELSE src.goal[FirstKey(Mirrors(src, r))].record

\* Explicit bindings override inferred ones when their run is imported.
PlannedRun(src, s) ==
  CASE src.goal_session[s] \in PlannedRuns(src) -> src.goal_session[s]
    [] src.goal_session[s] \notin PlannedRuns(src) /\ IsMission(src.goal[s]) ->
         MirroredRun(src, s)
    [] OTHER -> Null

PlannedSessions(src, r) == {s \in Sessions : PlannedRun(src, s) = r}

LedgerRun(src, k) ==
  IF k \in PlannedRuns(src) THEN k
  ELSE IF k \in Sessions THEN PlannedRun(src, k) ELSE Null

LedgerKeys(src, r) == {k \in Keys : LedgerRun(src, k) = r}

\* _decode_events drops malformed items, and enumerate counts what is left:
\* an item has a place in its list, and an index among those that are kept.
Decodable(src, k) ==
  IF src.goal_events[k] \in {Absent, Malformed} THEN {}
  ELSE {i \in DOMAIN src.goal_events[k] : src.goal_events[k][i] # Malformed}

Index(src, k, i) == Cardinality({j \in Decodable(src, k) : j <= i})

Items(src, r) ==
  UNION {{<<k, Index(src, k, i)>> : i \in Decodable(src, k)} : k \in LedgerKeys(src, r)}

ItemPlace(src, at) ==
  CHOOSE i \in Decodable(src, at[1]) : Index(src, at[1], i) = at[2]

Content(src, at) == src.goal_events[at[1]][ItemPlace(src, at)]

Before(a, b) == Place(a[1]) < Place(b[1]) \/ (a[1] = b[1] /\ a[2] < b[2])

\* Fault: fingerprints are compared within one goal_events row only.
PlannedEventsPerKey(src, r) ==
  LET kept == {at \in Items(src, r) :
                 \A x \in Items(src, r) :
                   Before(x, at) /\ x[1] = at[1] => Content(src, x) # Content(src, at)}
  IN  [at \in kept |-> Content(src, at)]

\* The first item of each fingerprint, over the goal_events rows of the run.
PlannedEvents(src, r) ==
  LET kept == {at \in Items(src, r) :
                 \A x \in Items(src, r) :
                   Before(x, at) => Content(src, x) # Content(src, at)}
  IN  [at \in kept |-> Content(src, at)]

\* Rows and items that cannot be decoded, and a goal_run row that names
\* another run.  Ledgers of no imported run are not decoded.
Flawed(src) ==
  \/ \E r \in Runs : src.goal_run[r] = Malformed
  \/ \E r \in Authorities(src) : src.goal_run[r].run \notin {Null, r}
  \/ \E s \in Sessions : src.goal[s] = Malformed
  \/ \E k \in Keys :
       /\ LedgerRun(src, k) # Null
       /\ src.goal_events[k] # Absent
       /\ src.goal_events[k] = Malformed \/ Malformed \in Range(src.goal_events[k])

-----------------------------------------------------------------------------
MigrationInit ==
  /\ Init
  /\ damage \in DOMAIN InitialSources
  /\ legacy \in InitialSources[damage]
  /\ marker = FALSE
  /\ read = Null
  /\ todo = {}
  /\ failed = FALSE

\* A dry run, and a run that finds its marker, change nothing.
Migrate(force) ==
  /\ read = Null
  /\ marker => force
  /\ read' = legacy
  /\ todo' = PlannedRuns(legacy)
  /\ failed' = Flawed(legacy)
  /\ UNCHANGED <<vars, damage, legacy, marker>>

Conflicts(r) ==
  LET inserted == UpsertRun(runs, r, PlannedRecord(read, r), PlannedOrigin(read, r))
  IN  \/ ~Importable(r, PlannedOrigin(read, r))
      \/ \E s \in PlannedSessions(read, r) : ~Bindable(inserted, bindings, s, r)

\* One bundle, in the order of the run ids.
ImportNext ==
  /\ todo # {}
  /\ LET r == FirstKey(todo)
     IN  /\ ~Conflicts(r)
         /\ ImportRunBundle(r, PlannedRecord(read, r), PlannedOrigin(read, r),
                            PlannedSessions(read, r), PlannedEvents(read, r))
         /\ todo' = todo \ {r}
  /\ UNCHANGED <<damage, legacy, marker, read, failed>>

\* Fault: a refused bundle is reported, and not counted as an error.
RefuseQuietly ==
  /\ todo # {}
  /\ Conflicts(FirstKey(todo))
  /\ todo' = todo \ {FirstKey(todo)}
  /\ UNCHANGED <<vars, damage, legacy, marker, read, failed>>

\* RunConflictError, BindingConflictError: the other runs are still imported.
RefuseNext ==
  /\ todo # {}
  /\ Conflicts(FirstKey(todo))
  /\ todo' = todo \ {FirstKey(todo)}
  /\ failed' = TRUE
  /\ UNCHANGED <<vars, damage, legacy, marker, read>>

\* Fault: the marker is written before the bundles.
FinishEarly ==
  /\ read # Null
  /\ marker' = (marker \/ ~failed)
  /\ IF todo = {} THEN read' = Null ELSE read' = read
  /\ UNCHANGED <<vars, damage, legacy, todo, failed>>

Finish ==
  /\ read # Null
  /\ todo = {}
  /\ marker' = (marker \/ ~failed)
  /\ read' = Null
  /\ failed' = FALSE
  /\ UNCHANGED <<vars, damage, legacy, todo>>

Dies ==
  /\ read # Null
  /\ read' = Null
  /\ todo' = {}
  /\ failed' = FALSE
  /\ UNCHANGED <<vars, damage, legacy, marker>>

-----------------------------------------------------------------------------
\* The plugin at work: RuntimeManager.start, save_state and the rotation.
LiveStart(s, r, record) ==
  /\ r \notin DOMAIN runs
  /\ s \notin DOMAIN bindings
  /\ runs' = UpsertRun(runs, r, record, Null)
  /\ bindings' = BindSession(bindings, s, r)
  /\ UNCHANGED <<events, damage, legacy, marker, migration>>

LiveSave(r, record) ==
  /\ r \in DOMAIN runs
  /\ SaveRun(r, record, Null)
  /\ UNCHANGED <<damage, legacy, marker, migration>>

\* The host rotates the driver to a session it has just made.
LiveRotate(old, new) ==
  /\ old \in DOMAIN bindings
  /\ bindings[old].current
  /\ new \notin DOMAIN bindings
  /\ legacy.goal[new] = Absent
  /\ legacy.goal_session[new] = Absent
  /\ RotateSessionBinding(old, new)
  /\ UNCHANGED <<damage, legacy, marker, migration>>

RepairRun(r, record) ==
  /\ legacy.goal_run[r] = Malformed
  /\ legacy' = [legacy EXCEPT !.goal_run[r] = [run |-> r, record |-> record]]
  /\ UNCHANGED <<vars, damage, marker, migration>>

RepairLedger(k, kind) ==
  /\ legacy.goal_events[k] = Malformed
  /\ legacy' = [legacy EXCEPT !.goal_events[k] = <<kind>>]
  /\ UNCHANGED <<vars, damage, marker, migration>>

RepairItem(k, kind) ==
  /\ legacy.goal_events[k] \notin {Absent, Malformed}
  /\ \E i \in DOMAIN legacy.goal_events[k] :
       /\ legacy.goal_events[k][i] = Malformed
       /\ legacy' = [legacy EXCEPT !.goal_events[k][i] = kind]
  /\ UNCHANGED <<vars, damage, marker, migration>>

MigrationNext ==
  \/ \E force \in BOOLEAN : Migrate(force)
  \/ ImportNext
  \/ RefuseNext
  \/ Finish
  \/ Dies
  \/ \E s \in Sessions, r \in LiveRuns, record \in Records : LiveStart(s, r, record)
  \/ \E r \in Runs, record \in Records : LiveSave(r, record)
  \/ \E old, new \in Sessions : LiveRotate(old, new)
  \/ \E r \in Runs, record \in Records : RepairRun(r, record)
  \/ \E k \in Keys, kind \in Kinds : RepairLedger(k, kind) \/ RepairItem(k, kind)

MigrationSpec == MigrationInit /\ [][MigrationNext]_allVars

-----------------------------------------------------------------------------
\* What a bundle brought is in the tables (import_run_bundle).
Imported(src, r) ==
  /\ r \in DOMAIN runs
  /\ runs[r].origin = PlannedOrigin(src, r)
  /\ \A s \in PlannedSessions(src, r) : s \in DOMAIN bindings /\ bindings[s].run = r
  /\ \A at \in DOMAIN PlannedEvents(src, r) :
       \E i \in DOMAIN events : events[i].run = r /\ events[i].kind = Content(src, at)

\* Nothing the migration does, whoever writes beside it, leaves tables of
\* another shape or rows without their run.
MigrationOK ==
  /\ TablesOK(runs, bindings, events)
  /\ ReferencesOK(runs, bindings, events)
  /\ KeysOK(events)
  /\ damage \in DOMAIN InitialSources
  /\ marker \in BOOLEAN
  /\ failed \in BOOLEAN
  /\ todo \subseteq (IF read = Null THEN {} ELSE PlannedRuns(read))

AllImported == \A r \in PlannedRuns(legacy) : Imported(legacy, r)

\* Once the marker answers already_migrated, every mission of the source is in
\* the plugin with all its sessions and all its events, however often the
\* script died, was refused or met a row that was repaired later
\* (migrate_legacy_state, set_meta).
MarkerMeansImported == damage \in {"none", "rows"} /\ marker => AllImported

\* A run that came from a sound source came whole: a live mission that holds
\* one of its sessions keeps all of it out, and a later run adds what is
\* missing (import_run_bundle, "commit or roll back together").
RunsImportedWhole ==
  damage = "none" =>
    \A r \in PlannedRuns(legacy) :
      r \in DOMAIN runs /\ runs[r].origin # Null => Imported(legacy, r)

NoDuplicates ==
  \A i, j \in DOMAIN events :
    /\ events[i].source # Null
    /\ events[i].run = events[j].run
    /\ events[i].kind = events[j].kind
    => i = j

\* "prevents duplicate legacy events during forced/retried imports": a content
\* of a sound source is in the ledger of its run once, however often it is
\* listed there or imported (_plan_import, fingerprint; _insert_event).
LegacyEventsOnce == damage = "none" => NoDuplicates

-----------------------------------------------------------------------------
\* "repeated successful execution" (docs/migration.md:34): the marker is set
\* only when all of the source is imported, repaired items too.
MarkerMeansSuccess == marker => AllImported

\* No duplicates, whatever is repaired between two runs of the script
\* (docs/state-schema.md:70).
RetriesDuplicateNothing == NoDuplicates

\* "goal_run:<id> is authoritative when present": when the script ends, a
\* mission it found in the plugin stands on its own row, if that row was
\* readable this time, and on no mirror (_plan_import, import_run_bundle).
AuthoritativeRowWins ==
  [][Finish => \A r \in DOMAIN runs \cap Authorities(read) :
                 runs[r].origin \in {Null, <<"goal_run", r>>}]_allVars

\* "--force retries safely": a session that lost the driver role to its
\* successor does not get it back from an import (_bind_session).
RetryKeepsDrivers ==
  [][\A s \in DOMAIN bindings :
       ~bindings[s].current => ~bindings'[s].current]_allVars
=============================================================================
