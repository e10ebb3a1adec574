-------------------------- MODULE StoreTransactions --------------------------
(***************************************************************************)
(* The write path of store.py statement by statement.  _transaction opens  *)
(* BEGIN IMMEDIATE, so the connection holds SQLite's write lock from then  *)
(* on; each statement works on the connection's private version of the     *)
(* tables; COMMIT publishes it, an exception rolls it back, and the death  *)
(* of the process leaves the committed tables as they were.                *)
(***************************************************************************)
EXTENDS StoreTables, SequencesExt

CONSTANTS
  Connections,  \* one per thread or process that writes the database
  MaxEvents     \* bound on the event table, for TLC only

ASSUME MaxEventsAssumption == MaxEvents \in Nat
ASSUME ConnectionsAssumption == Null \notin Connections
ASSUME SessionsAssumption == IsFiniteSet(Sessions)  \* any number, however large

VARIABLES
  runs, bindings, events,  \* the committed tables
  lock,                    \* the connection that holds the write lock
  tx                       \* the open transaction of each connection, or Null

tables == <<runs, bindings, events>>
vars == <<runs, bindings, events, lock, tx>>

Init ==
  /\ runs = <<>>
  /\ bindings = <<>>
  /\ events = <<>>
  /\ lock = Null
  /\ tx = [c \in Connections |-> Null]

-----------------------------------------------------------------------------
(***************************************************************************)
(* The statements of a transaction.  Executing one on the tables w either  *)
(* raises or gives the next version.                                       *)
(***************************************************************************)
UpsertStmt(r, record, origin) == [op |-> "upsert", run |-> r, record |-> record, origin |-> origin]
ImportStmt(r, record, origin) == [op |-> "import", run |-> r, record |-> record, origin |-> origin]
RequireStmt(r) == [op |-> "require", run |-> r]
DemoteStmt(s) == [op |-> "demote", session |-> s]
BindStmt(s, r) == [op |-> "bind", session |-> s, run |-> r]
EventStmt(r, kind, source) == [op |-> "event", row |-> Event(r, kind, source)]

Raises(w, st) ==
  CASE st.op = "import"  -> /\ st.run \in DOMAIN w.runs
                            /\ st.origin = Null \/ w.runs[st.run].origin # st.origin
    [] st.op = "require" -> st.run \notin DOMAIN w.runs
    [] st.op = "bind"    -> ~Bindable(w.runs, w.bindings, st.session, st.run)
    [] st.op = "event"   -> st.row.run \notin DOMAIN w.runs
    [] OTHER             -> FALSE

Execute(w, st) ==
  CASE st.op = "upsert" -> [w EXCEPT !.runs = UpsertRun(@, st.run, st.record, st.origin)]
    [] st.op = "import" -> IF st.run \in DOMAIN w.runs THEN w
                           ELSE [w EXCEPT !.runs = UpsertRun(@, st.run, st.record, st.origin)]
    [] st.op = "demote" -> [w EXCEPT !.bindings = Demote(@, st.session)]
    [] st.op = "bind"   -> [w EXCEPT !.bindings = BindSession(@, st.session, st.run)]
    [] st.op = "event"  -> [w EXCEPT !.events = InsertEvent(@, st.row)]
    [] OTHER            -> w

-----------------------------------------------------------------------------
(***************************************************************************)
(* The public operations: the statements each of them issues.  A rotation  *)
(* reads the run of the old session inside its transaction and issues      *)
(* nothing when there is none.                                             *)
(***************************************************************************)
Save(r, record, kinds) ==
  <<UpsertStmt(r, record, Null)>> \o [i \in 1..Len(kinds) |-> EventStmt(r, kinds[i], Null)]

Append1(r, kind, source) == <<RequireStmt(r), EventStmt(r, kind, source)>>

Rotate(old, new) ==
  IF old \in DOMAIN bindings
  THEN <<DemoteStmt(old), BindStmt(new, bindings[old].run)>>
  ELSE <<>>

Import(r, record, origin, ss, srcs, kind) ==
  <<ImportStmt(r, record, origin)>>
    \o [i \in 1..Len(ss) |-> BindStmt(ss[i], r)]
    \o [i \in 1..Len(srcs) |-> EventStmt(r, kind, srcs[i])]

\* Fault: BEGIN, which takes no lock.
BeginDeferred(c, stmts) ==
  /\ tx[c] = Null
  /\ Len(events) + Cardinality({i \in DOMAIN stmts : stmts[i].op = "event"}) <= MaxEvents
  /\ tx' = [tx EXCEPT ![c] = [todo |-> stmts, runs |-> runs,
                              bindings |-> bindings, events |-> events]]
  /\ UNCHANGED <<runs, bindings, events, lock>>

\* BEGIN IMMEDIATE: waits for the write lock, then sees the committed tables.
Begin(c, stmts) ==
  /\ lock = Null
  /\ tx[c] = Null
  /\ Len(events) + Cardinality({i \in DOMAIN stmts : stmts[i].op = "event"}) <= MaxEvents
  /\ lock' = c
  /\ tx' = [tx EXCEPT ![c] = [todo |-> stmts, runs |-> runs,
                              bindings |-> bindings, events |-> events]]
  /\ UNCHANGED tables

Statement(c) ==
  /\ tx[c] # Null
  /\ tx[c].todo # <<>>
  /\ ~Raises(tx[c], Head(tx[c].todo))
  /\ tx' = [tx EXCEPT ![c] = [Execute(tx[c], Head(tx[c].todo)) EXCEPT !.todo = Tail(tx[c].todo)]]
  /\ UNCHANGED <<runs, bindings, events, lock>>

Release(c) == IF lock = c THEN Null ELSE lock

Commit(c) ==
  /\ tx[c] # Null
  /\ tx[c].todo = <<>>
  /\ runs' = tx[c].runs
  /\ bindings' = tx[c].bindings
  /\ events' = tx[c].events
  /\ lock' = Release(c)
  /\ tx' = [tx EXCEPT ![c] = Null]

\* Fault: the exception leaves through COMMIT.
RollbackKeepingWork(c) ==
  /\ tx[c] # Null
  /\ tx[c].todo # <<>>
  /\ Raises(tx[c], Head(tx[c].todo))
  /\ runs' = tx[c].runs
  /\ bindings' = tx[c].bindings
  /\ events' = tx[c].events
  /\ lock' = Release(c)
  /\ tx' = [tx EXCEPT ![c] = Null]

\* A raising statement ends the transaction with ROLLBACK.
Rollback(c) ==
  /\ tx[c] # Null
  /\ tx[c].todo # <<>>
  /\ Raises(tx[c], Head(tx[c].todo))
  /\ lock' = Release(c)
  /\ tx' = [tx EXCEPT ![c] = Null]
  /\ UNCHANGED tables

\* The process dies between two statements, or before COMMIT.
Crash(c) ==
  /\ tx[c] # Null
  /\ lock' = Release(c)
  /\ tx' = [tx EXCEPT ![c] = Null]
  /\ UNCHANGED tables

Call(c) ==
  \/ \E r \in Runs, record \in Records, kinds \in UNION {[1..n -> Kinds] : n \in 0..2} :
       Begin(c, Save(r, record, kinds))
  \/ \E s \in Sessions, r \in Runs : Begin(c, <<BindStmt(s, r)>>)
  \/ \E old, new \in Sessions : Begin(c, Rotate(old, new))
  \/ \E r \in Runs, kind \in Kinds, source \in Sources \cup {Null} :
       Begin(c, Append1(r, kind, source))
  \/ \E r \in Runs, record \in Records, origin \in Origins \cup {Null}, kind \in Kinds :
       \E ss \in UNION {SetToSeqs(S) : S \in SUBSET Sessions},
          srcs \in UNION {SetToSeqs(S) : S \in SUBSET Sources} :
         Begin(c, Import(r, record, origin, ss, srcs, kind))

Next ==
  \E c \in Connections : Call(c) \/ Statement(c) \/ Commit(c) \/ Rollback(c) \/ Crash(c)

Spec == Init /\ [][Next]_vars

-----------------------------------------------------------------------------
\* The committed tables and the private versions have the shape of the schema.
TypeOK ==
  /\ TablesOK(runs, bindings, events)
  /\ lock \in Connections \cup {Null}
  /\ DOMAIN tx = Connections
  /\ \A c \in Connections :
       tx[c] # Null => TablesOK(tx[c].runs, tx[c].bindings, tx[c].events)

\* A transaction builds on what is committed, never on a stale snapshot: what
\* it holds still extends the committed ledger and the committed bindings
\* (store.py, BEGIN IMMEDIATE rather than BEGIN).
SnapshotFresh ==
  \A c \in Connections : tx[c] # Null =>
    /\ IsPrefix(events, tx[c].events)
    /\ DOMAIN runs \subseteq DOMAIN tx[c].runs
    /\ DOMAIN bindings \subseteq DOMAIN tx[c].bindings

\* Every change of the committed tables is one whole operation of the atomic
\* store: a conflict in the middle of a bundle, a crash between two statements
\* and a second writer are all invisible (store.py, _transaction).
Store == INSTANCE SupergoalStore
ImplementsStore == Store!Spec
=============================================================================
