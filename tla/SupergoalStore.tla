--------------------------- MODULE SupergoalStore ---------------------------
(***************************************************************************)
(* SupergoalStore (store.py) as its callers see it: every public write is  *)
(* one atomic step on the three tables, taken when all its statements      *)
(* succeed.  An operation that raises (binding conflict, foreign key, run  *)
(* conflict, unknown run) rolls back and changes nothing, which is a       *)
(* stuttering step here; StoreTransactions shows that the statement-level  *)
(* code, with its rollbacks and crashes, implements this specification.    *)
(***************************************************************************)
EXTENDS StoreTables, SequencesExt

CONSTANT MaxEvents   \* bound on the event table, for TLC only

ASSUME MaxEventsAssumption == MaxEvents \in Nat

VARIABLES runs, bindings, events

vars == <<runs, bindings, events>>

Init ==
  /\ runs = <<>>
  /\ bindings = <<>>
  /\ events = <<>>

-----------------------------------------------------------------------------
SaveRun(r, record, origin) ==
  /\ runs' = UpsertRun(runs, r, record, origin)
  /\ UNCHANGED <<bindings, events>>

Unkeyed(r, kinds) == [i \in 1..Len(kinds) |-> Event(r, kinds[i], Null)]

\* State and its unkeyed events commit together.
SaveRunWithEvents(r, record, kinds) ==
  /\ Len(events) + Len(kinds) <= MaxEvents
  /\ runs' = UpsertRun(runs, r, record, Null)
  /\ events' = events \o Unkeyed(r, kinds)
  /\ UNCHANGED bindings

Bind(s, r) ==
  /\ Bindable(runs, bindings, s, r)
  /\ bindings' = BindSession(bindings, s, r)
  /\ UNCHANGED <<runs, events>>

RotateSessionBinding(old, new) ==
  /\ old \in DOMAIN bindings
  /\ LET r == bindings[old].run
         demoted == Demote(bindings, old)
     IN  /\ Bindable(runs, demoted, new, r)
         /\ bindings' = BindSession(demoted, new, r)
  /\ UNCHANGED <<runs, events>>

\* Fault: no look at the run and no foreign key.
AppendEventUnchecked(r, kind, source) ==
  /\ Len(events) < MaxEvents
  /\ events' = InsertEvent(events, Event(r, kind, source))
  /\ UNCHANGED <<runs, bindings>>

\* append_event (source = Null) and append_event_once.
AppendEvent(r, kind, source) ==
  /\ r \in DOMAIN runs
  /\ Len(events) < MaxEvents
  /\ events' = InsertEvent(events, Event(r, kind, source))
  /\ UNCHANGED <<runs, bindings>>

\* A bundle may only join an existing run of the same legacy origin.
Importable(r, origin) ==
  r \in DOMAIN runs => origin # Null /\ runs[r].origin = origin

\* The rows of a bundle (a function from its sources to kinds) not yet there.
Fresh(r, bundle) ==
  {Event(r, bundle[src], src) : src \in DOMAIN bundle \ Recorded(events, r)}

\* Fault: a bundle is imported like a save, over a run that exists.
ImportOverwriting(r, record, origin, ss, bundle) ==
  /\ Importable(r, origin)
  /\ runs' = UpsertRun(runs, r, record, origin)
  /\ \A s \in ss : Bindable(runs', bindings, s, r)
  /\ UNCHANGED <<bindings, events>>

ImportRunBundle(r, record, origin, ss, bundle) ==
  /\ Importable(r, origin)
  /\ runs' = IF r \in DOMAIN runs THEN runs ELSE UpsertRun(runs, r, record, origin)
  /\ \A s \in ss : Bindable(runs', bindings, s, r)
  /\ bindings' = [s \in DOMAIN bindings \cup ss |->
                    IF s \in ss THEN [run |-> r, current |-> TRUE] ELSE bindings[s]]
  /\ \E rows \in SetToSeqs(Fresh(r, bundle)) :
       /\ Len(events) + Len(rows) <= MaxEvents
       /\ events' = events \o rows

Bundles == UNION {[S -> Kinds] : S \in SUBSET Sources}

SomeImport ==
  \E r \in Runs, record \in Records, origin \in Origins \cup {Null} :
    \E ss \in SUBSET Sessions, bundle \in Bundles :
      ImportRunBundle(r, record, origin, ss, bundle)

Next ==
  \/ \E r \in Runs, record \in Records, origin \in Origins \cup {Null} :
       SaveRun(r, record, origin)
  \/ \E r \in Runs, record \in Records, kinds \in UNION {[1..n -> Kinds] : n \in 0..2} :
       SaveRunWithEvents(r, record, kinds)
  \/ \E s \in Sessions, r \in Runs : Bind(s, r)
  \/ \E old, new \in Sessions : RotateSessionBinding(old, new)
  \/ \E r \in Runs, kind \in Kinds, source \in Sources \cup {Null} :
       AppendEvent(r, kind, source)
  \/ SomeImport

Spec == Init /\ [][Next]_vars

-----------------------------------------------------------------------------
\* The tables have the shape of the schema.
TypeOK == TablesOK(runs, bindings, events)

\* No operation, in any order, leaves a binding or an event whose run is
\* missing: append_event checks, the foreign keys check, an import inserts the
\* run before its children (store.py, append_event, import_run_bundle).
NoOrphans == ReferencesOK(runs, bindings, events)

\* A tool call or a legacy event that is delivered or imported again, through
\* any operation, is recorded once (store.py, _insert_event).
KeyedEventsOnce == KeysOK(events)

\* "Binding conflicts fail closed and never silently move a physical session
\* to another run": once bound, a session stays bound to its run, through
\* re-binding, rotation and import (store.py, _bind_session).
BindingsWriteOnce ==
  [][\A s \in DOMAIN bindings :
       s \in DOMAIN bindings' /\ bindings'[s].run = bindings[s].run]_vars

\* The ledger is append-only: ids already read stay where they are.
LedgerAppendOnly == [][IsPrefix(events, events')]_vars

\* A session that loses the driver role loses it to a successor on the same
\* run: no write, refused or not, leaves a mission that had a driver without
\* one (store.py, rotate_session_binding).
DemotedHasSuccessor ==
  [][\A s \in DOMAIN bindings :
       bindings[s].current /\ ~bindings'[s].current
         => CurrentSessions(bindings', bindings[s].run) # {}]_vars

\* An import never rewrites the state of a run that exists (store.py,
\* import_run_bundle: "refused to overwrite an existing run").
ImportKeepsRuns ==
  [][SomeImport => \A r \in DOMAIN runs : runs'[r] = runs[r]]_vars
=============================================================================
