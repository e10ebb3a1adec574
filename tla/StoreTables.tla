---------------------------- MODULE StoreTables ----------------------------
(***************************************************************************)
(* The tables of the plugin database (store.py, _SCHEMA_SQL) and what one  *)
(* SQL statement of SupergoalStore does to them.                           *)
(*                                                                         *)
(*   runs      a function from the goal_run_ids present to their rows      *)
(*   bindings  a function from the bound session_ids to their rows         *)
(*   events    the sequence of event rows in AUTOINCREMENT (id) order      *)
(*                                                                         *)
(* A table with a primary key is a partial function, so that uniqueness of *)
(* the key is structural, as it is in SQLite.                              *)
(***************************************************************************)
EXTENDS Naturals, Sequences, FiniteSets

CONSTANTS
  Runs,       \* goal_run_id values
  Sessions,   \* physical Hermes session ids
  Records,    \* contents of state_json
  Kinds,      \* event types
  Origins,    \* runs.legacy_source_key values
  Sources,    \* (legacy_source_key, legacy_source_index) pairs of events
  Null        \* SQL NULL

ASSUME NullAssumption == Null \notin Origins \cup Sources
ASSUME SourcesAssumption == IsFiniteSet(Sources)  \* any number, however large

RunRow     == [record : Records, origin : Origins \cup {Null}]
BindingRow == [run : Runs, current : BOOLEAN]
EventRow   == [run : Runs, kind : Kinds, source : Sources \cup {Null}]

(***************************************************************************)
(* INSERT ... ON CONFLICT(key) DO UPDATE.                                  *)
(***************************************************************************)
Upsert(table, key, row) ==
  [k \in DOMAIN table \cup {key} |-> IF k = key THEN row ELSE table[k]]

(***************************************************************************)
(* COALESCE(excluded.legacy_source_key, runs.legacy_source_key).           *)
(***************************************************************************)
Coalesce(rs, r, origin) ==
  IF origin = Null /\ r \in DOMAIN rs THEN rs[r].origin ELSE origin

UpsertRun(rs, r, record, origin) ==
  Upsert(rs, r, [record |-> record, origin |-> Coalesce(rs, r, origin)])

\* Fault: the conflict check is missing.
BindableToAnyRun(rs, bs, s, r) == r \in DOMAIN rs

(***************************************************************************)
(* _bind_session raises BindingConflictError unless the session is free or *)
(* already bound to the same run, and the foreign key rejects a run that   *)
(* has no row.                                                             *)
(***************************************************************************)
Bindable(rs, bs, s, r) ==
  /\ r \in DOMAIN rs
  /\ s \in DOMAIN bs => bs[s].run = r

\* Fault: is_current is left at 0.
BindSessionIdle(bs, s, r) == Upsert(bs, s, [run |-> r, current |-> FALSE])

\* Every caller binds with is_current=True.  The conflict branch updates no
\* goal_run_id, but under Bindable the row it updates already holds r.
BindSession(bs, s, r) == Upsert(bs, s, [run |-> r, current |-> TRUE])

\* Faults: rotation unbinds the old session, or leaves it current.
DemoteUnbinding(bs, s) == [bs EXCEPT ![s] = [run |-> Null, current |-> FALSE]]
DemoteNothing(bs, s) == bs

Demote(bs, s) == [bs EXCEPT ![s].current = FALSE]

(***************************************************************************)
(* INSERT OR IGNORE under UNIQUE(goal_run_id, legacy_source_key,           *)
(* legacy_source_index): a NULL source never conflicts.                    *)
(***************************************************************************)
Recorded(es, r) ==
  {es[i].source : i \in {j \in DOMAIN es : es[j].run = r}} \ {Null}

Event(r, kind, source) == [run |-> r, kind |-> kind, source |-> source]

\* Faults: plain INSERT without the key, and INSERT OR REPLACE.
InsertEventAlways(es, e) == Append(es, e)
InsertOrReplaceEvent(es, e) ==
  LET Other(x) == e.source = Null \/ x.run # e.run \/ x.source # e.source
  IN  Append(SelectSeq(es, Other), e)

InsertEvent(es, e) ==
  IF e.source \in Recorded(es, e.run) THEN es ELSE Append(es, e)

(***************************************************************************)
(* What is true of every database the store has written.                   *)
(***************************************************************************)
TablesOK(rs, bs, es) ==
  /\ DOMAIN rs \subseteq Runs
  /\ rs \in [DOMAIN rs -> RunRow]
  /\ DOMAIN bs \subseteq Sessions
  /\ bs \in [DOMAIN bs -> BindingRow]
  /\ es \in Seq(EventRow)

\* Every binding and every event belongs to a run that has a row.
ReferencesOK(rs, bs, es) ==
  /\ \A s \in DOMAIN bs : bs[s].run \in DOMAIN rs
  /\ \A i \in DOMAIN es : es[i].run \in DOMAIN rs

\* No two events of a run carry the same idempotence key.
KeysOK(es) ==
  \A i, j \in DOMAIN es :
    /\ es[i].run = es[j].run
    /\ es[i].source = es[j].source
    /\ es[i].source # Null
    => i = j

CurrentSessions(bs, r) == {s \in DOMAIN bs : bs[s].run = r /\ bs[s].current}
=============================================================================
