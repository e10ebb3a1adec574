----------------------- MODULE StoreTransactionsProofs -----------------------
(***************************************************************************)
(* Proofs about StoreTransactions for any number of connections, runs,     *)
(* sessions and idempotence keys.  First, one transaction is open at a     *)
(* time, and what it works on extends what is committed.  Then, the store  *)
(* of statements implements SupergoalStore: the invariant says of an open  *)
(* transaction which operation it runs, how many of its statements are     *)
(* done and what they have made of the committed tables; when none is      *)
(* left, committing is a step of SupergoalStore.                           *)
(***************************************************************************)
EXTENDS StoreTransactions, TLAPS, SequenceTheorems, FiniteSetTheorems

-----------------------------------------------------------------------------
(***************************************************************************)
(* Statements.                                                             *)
(***************************************************************************)
Stmt ==
  [op : {"upsert", "import"}, run : Runs, record : Records, origin : Origins \cup {Null}]
    \cup [op : {"require"}, run : Runs]
    \cup [op : {"demote"}, session : Sessions]
    \cup [op : {"bind"}, session : Sessions, run : Runs]
    \cup [op : {"event"}, row : EventRow]

LEMMA StatementTypes ==
  ASSUME NEW r \in Runs, NEW s \in Sessions, NEW record \in Records,
         NEW origin \in Origins \cup {Null}, NEW kind \in Kinds,
         NEW source \in Sources \cup {Null}
  PROVE  /\ UpsertStmt(r, record, origin) \in Stmt
         /\ ImportStmt(r, record, origin) \in Stmt
         /\ RequireStmt(r) \in Stmt
         /\ DemoteStmt(s) \in Stmt
         /\ BindStmt(s, r) \in Stmt
         /\ EventStmt(r, kind, source) \in Stmt
<1>1. Event(r, kind, source) \in EventRow
  BY DEF Event, EventRow
<1>2. UpsertStmt(r, record, origin) \in Stmt /\ ImportStmt(r, record, origin) \in Stmt
  BY DEF UpsertStmt, ImportStmt, Stmt
<1>3. RequireStmt(r) \in Stmt /\ DemoteStmt(s) \in Stmt /\ BindStmt(s, r) \in Stmt
  BY DEF RequireStmt, DemoteStmt, BindStmt, Stmt
<1>4. EventStmt(r, kind, source) \in Stmt
  BY <1>1 DEF EventStmt, Stmt
<1> QED
  BY <1>2, <1>3, <1>4

\* An enumeration of a finite set is a sequence over it.
LEMMA EnumerationIsSeq ==
  ASSUME NEW T, IsFiniteSet(T), NEW S \in SUBSET T, NEW q \in SetToSeqs(S)
  PROVE  q \in Seq(T)
<1>1. IsFiniteSet(S) /\ Cardinality(S) \in Nat
  BY FS_Subset, FS_CardinalityType
<1>2. q \in [1..Cardinality(S) -> S]
  BY DEF SetToSeqs
<1> QED
  BY <1>1, <1>2

\* Every public operation is a sequence of statements.
LEMMA OperationTypes ==
  ASSUME NEW r \in Runs, NEW record \in Records
  PROVE  /\ \A n \in Nat : \A kinds \in [1..n -> Kinds] : Save(r, record, kinds) \in Seq(Stmt)
         /\ \A s \in Sessions : <<BindStmt(s, r)>> \in Seq(Stmt)
         /\ \A kind \in Kinds, source \in Sources \cup {Null} :
              Append1(r, kind, source) \in Seq(Stmt)
         /\ \A origin \in Origins \cup {Null}, kind \in Kinds,
               ss \in Seq(Sessions), srcs \in Seq(Sources) :
              Import(r, record, origin, ss, srcs, kind) \in Seq(Stmt)
<1>1. ASSUME NEW n \in Nat, NEW kinds \in [1..n -> Kinds]
      PROVE  Save(r, record, kinds) \in Seq(Stmt)
  <2>1. Len(kinds) = n
    OBVIOUS
  <2>2. \A i \in 1..n : EventStmt(r, kinds[i], Null) \in Stmt
    <3> TAKE i \in 1..n
    <3>1. kinds[i] \in Kinds
      OBVIOUS
    <3>2. Event(r, kinds[i], Null) \in EventRow
      BY <3>1 DEF Event, EventRow
    <3> QED
      BY <3>2 DEF EventStmt, Stmt
  <2>3. [i \in 1..Len(kinds) |-> EventStmt(r, kinds[i], Null)] \in Seq(Stmt)
    BY <2>1, <2>2
  <2>4. <<UpsertStmt(r, record, Null)>> \in Seq(Stmt)
    BY DEF UpsertStmt, Stmt
  <2> QED
    BY <2>3, <2>4, ConcatProperties DEF Save
<1>2. ASSUME NEW s \in Sessions PROVE <<BindStmt(s, r)>> \in Seq(Stmt)
  BY DEF BindStmt, Stmt
<1>3. ASSUME NEW kind \in Kinds, NEW source \in Sources \cup {Null}
      PROVE  Append1(r, kind, source) \in Seq(Stmt)
  <2>1. RequireStmt(r) \in Stmt
    BY DEF RequireStmt, Stmt
  <2>2. Event(r, kind, source) \in EventRow
    BY DEF Event, EventRow
  <2>3. EventStmt(r, kind, source) \in Stmt
    BY <2>2 DEF EventStmt, Stmt
  <2> QED
    BY <2>1, <2>3 DEF Append1
<1>4. ASSUME NEW origin \in Origins \cup {Null}, NEW kind \in Kinds,
             NEW ss \in Seq(Sessions), NEW srcs \in Seq(Sources)
      PROVE  Import(r, record, origin, ss, srcs, kind) \in Seq(Stmt)
  <2> DEFINE first == <<ImportStmt(r, record, origin)>>
             binds == [i \in 1..Len(ss) |-> BindStmt(ss[i], r)]
             rows  == [i \in 1..Len(srcs) |-> EventStmt(r, kind, srcs[i])]
  <2>1. first \in Seq(Stmt)
    BY DEF ImportStmt, Stmt
  <2>2. \A i \in 1..Len(ss) : BindStmt(ss[i], r) \in Stmt
    BY DEF BindStmt, Stmt
  <2>3. binds \in Seq(Stmt)
    BY <2>2
  <2>4. \A i \in 1..Len(srcs) : EventStmt(r, kind, srcs[i]) \in Stmt
    <3> TAKE i \in 1..Len(srcs)
    <3>1. srcs[i] \in Sources
      OBVIOUS
    <3>2. Event(r, kind, srcs[i]) \in EventRow
      BY <3>1 DEF Event, EventRow
    <3> QED
      BY <3>2 DEF EventStmt, Stmt
  <2>5. rows \in Seq(Stmt)
    BY <2>4
  <2> HIDE DEF first, binds, rows
  <2>6. first \o binds \in Seq(Stmt)
    BY <2>1, <2>3, ConcatProperties
  <2>7. (first \o binds) \o rows \in Seq(Stmt)
    BY <2>5, <2>6, ConcatProperties
  <2> QED
    BY <2>7 DEF Import, first, binds, rows
<1> QED
  BY <1>1, <1>2, <1>3, <1>4

-----------------------------------------------------------------------------
(***************************************************************************)
(* What executing a statement does to the version of a transaction.        *)
(***************************************************************************)
IsTransaction(t) ==
  /\ t = [todo |-> t.todo, runs |-> t.runs, bindings |-> t.bindings, events |-> t.events]
  /\ t.todo \in Seq(Stmt)
  /\ TablesOK(t.runs, t.bindings, t.events)

\* The tables of v extend those of w.
ExtendsTables(w, v) ==
  /\ IsPrefix(w.events, v.events)
  /\ DOMAIN w.runs \subseteq DOMAIN v.runs
  /\ DOMAIN w.bindings \subseteq DOMAIN v.bindings

LEMMA PrefixReflexive ==
  ASSUME NEW S, NEW q \in Seq(S)
  PROVE  IsPrefix(q, q)
BY DEF IsPrefix

LEMMA PrefixTransitive ==
  ASSUME NEW S, NEW p \in Seq(S), NEW q \in Seq(S), NEW u \in Seq(S),
         IsPrefix(p, q), IsPrefix(q, u)
  PROVE  IsPrefix(p, u)
<1>1. /\ Len(p) <= Len(q) /\ SubSeq(p, 1, Len(p)) = SubSeq(q, 1, Len(p))
      /\ Len(q) <= Len(u) /\ SubSeq(q, 1, Len(q)) = SubSeq(u, 1, Len(q))
  BY DEF IsPrefix
<1>2. /\ \A i \in 1..Len(p) : p[i] = q[i]
      /\ \A i \in 1..Len(q) : q[i] = u[i]
  <2>1. ASSUME NEW i \in 1..Len(p) PROVE p[i] = q[i]
    <3>1. SubSeq(p, 1, Len(p))[i] = p[i] /\ SubSeq(q, 1, Len(p))[i] = q[i]
      BY <1>1
    <3> QED
      BY <1>1, <3>1
  <2>2. ASSUME NEW i \in 1..Len(q) PROVE q[i] = u[i]
    <3>1. SubSeq(q, 1, Len(q))[i] = q[i] /\ SubSeq(u, 1, Len(q))[i] = u[i]
      BY <1>1
    <3> QED
      BY <1>1, <3>1
  <2> QED
    BY <2>1, <2>2
<1>3. Len(p) <= Len(u) /\ \A i \in 1..Len(p) : p[i] = u[i]
  BY <1>1, <1>2
<1>4. SubSeq(p, 1, Len(p)) = SubSeq(u, 1, Len(p))
  BY <1>3
<1> QED
  BY <1>3, <1>4 DEF IsPrefix

LEMMA AppendExtends ==
  ASSUME NEW S, NEW q \in Seq(S), NEW e \in S
  PROVE  Append(q, e) \in Seq(S) /\ IsPrefix(q, Append(q, e))
<1>1. Append(q, e) \in Seq(S) /\ Len(q) <= Len(Append(q, e))
  OBVIOUS
<1>2. SubSeq(q, 1, Len(q)) = SubSeq(Append(q, e), 1, Len(q))
  OBVIOUS
<1> QED
  BY <1>1, <1>2 DEF IsPrefix

LEMMA UpsertRunTable ==
  ASSUME NEW rs, DOMAIN rs \subseteq Runs, rs \in [DOMAIN rs -> RunRow],
         NEW r \in Runs, NEW record \in Records, NEW origin \in Origins \cup {Null}
  PROVE  LET next == UpsertRun(rs, r, record, origin)
         IN  DOMAIN next = DOMAIN rs \cup {r} /\ next \in [DOMAIN next -> RunRow]
<1> DEFINE row == [record |-> record, origin |-> Coalesce(rs, r, origin)]
<1>1. Coalesce(rs, r, origin) \in Origins \cup {Null}
  BY DEF Coalesce, RunRow
<1>2. row \in RunRow
  BY <1>1 DEF RunRow
<1> HIDE DEF row
<1>3. /\ DOMAIN Upsert(rs, r, row) = DOMAIN rs \cup {r}
      /\ Upsert(rs, r, row) \in [DOMAIN rs \cup {r} -> RunRow]
  BY <1>2 DEF Upsert
<1> QED
  BY <1>3 DEF UpsertRun, row

LEMMA BindingTables ==
  ASSUME NEW bs, DOMAIN bs \subseteq Sessions, bs \in [DOMAIN bs -> BindingRow],
         NEW s \in Sessions, NEW r \in Runs
  PROVE  /\ DOMAIN BindSession(bs, s, r) = DOMAIN bs \cup {s}
         /\ BindSession(bs, s, r) \in [DOMAIN bs \cup {s} -> BindingRow]
         /\ DOMAIN Demote(bs, s) = DOMAIN bs
         /\ Demote(bs, s) \in [DOMAIN bs -> BindingRow]
<1>1. [run |-> r, current |-> TRUE] \in BindingRow
  BY DEF BindingRow
<1>2. /\ DOMAIN BindSession(bs, s, r) = DOMAIN bs \cup {s}
      /\ BindSession(bs, s, r) \in [DOMAIN bs \cup {s} -> BindingRow]
  BY <1>1 DEF BindSession, Upsert
<1>3. \A k \in DOMAIN bs : [bs[k] EXCEPT !.current = FALSE] \in BindingRow
  BY DEF BindingRow
<1>4. DOMAIN Demote(bs, s) = DOMAIN bs /\ Demote(bs, s) \in [DOMAIN bs -> BindingRow]
  BY <1>3 DEF Demote
<1> QED
  BY <1>2, <1>4

LEMMA ExecuteExtends ==
  ASSUME NEW w, IsTransaction(w), NEW st \in Stmt
  PROVE  /\ IsTransaction(Execute(w, st))
         /\ Execute(w, st).todo = w.todo
         /\ ExtendsTables(w, Execute(w, st))
<1> USE DEF IsTransaction, ExtendsTables, TablesOK
<1>0. IsPrefix(w.events, w.events)
  BY PrefixReflexive
<1>1. CASE st.op \in {"upsert", "import"}
  <2>1. st.run \in Runs /\ st.record \in Records /\ st.origin \in Origins \cup {Null}
    BY <1>1 DEF Stmt
  <2> DEFINE next == UpsertRun(w.runs, st.run, st.record, st.origin)
  <2>2. DOMAIN next = DOMAIN w.runs \cup {st.run} /\ next \in [DOMAIN next -> RunRow]
    BY <2>1, UpsertRunTable
  <2>3. Execute(w, st) \in {w, [w EXCEPT !.runs = next]}
    BY <1>1 DEF Execute
  <2> HIDE DEF next
  <2> QED
    BY <1>0, <2>1, <2>2, <2>3
<1>2. CASE st.op = "demote"
  <2>1. st.session \in Sessions
    BY <1>2 DEF Stmt
  <2> DEFINE next == Demote(w.bindings, st.session)
  <2>2. DOMAIN next = DOMAIN w.bindings /\ next \in [DOMAIN w.bindings -> BindingRow]
    <3>1. PICK r : r \in Runs \/ DOMAIN w.bindings = {}
      BY DEF BindingRow
    <3>2. CASE r \in Runs
      BY <2>1, <3>2, BindingTables
    <3>3. CASE DOMAIN w.bindings = {}
      BY <3>3 DEF Demote
    <3> QED
      BY <3>1, <3>2, <3>3
  <2>3. Execute(w, st) = [w EXCEPT !.bindings = next]
    BY <1>2 DEF Execute
  <2> HIDE DEF next
  <2> QED
    BY <1>0, <2>2, <2>3
<1>3. CASE st.op = "bind"
  <2>1. st.session \in Sessions /\ st.run \in Runs
    BY <1>3 DEF Stmt
  <2> DEFINE next == BindSession(w.bindings, st.session, st.run)
  <2>2. DOMAIN next = DOMAIN w.bindings \cup {st.session} /\ next \in [DOMAIN next -> BindingRow]
    BY <2>1, BindingTables
  <2>3. Execute(w, st) = [w EXCEPT !.bindings = next]
    BY <1>3 DEF Execute
  <2> HIDE DEF next
  <2> QED
    BY <1>0, <2>1, <2>2, <2>3
<1>4. CASE st.op = "event"
  <2>1. st.row \in EventRow
    BY <1>4 DEF Stmt
  <2> DEFINE next == InsertEvent(w.events, st.row)
  <2>2. next \in Seq(EventRow) /\ IsPrefix(w.events, next)
    BY <1>0, <2>1, AppendExtends DEF InsertEvent
  <2>3. Execute(w, st) = [w EXCEPT !.events = next]
    BY <1>4 DEF Execute
  <2> HIDE DEF next
  <2> QED
    BY <2>2, <2>3
<1>5. CASE st.op = "require"
  BY <1>0, <1>5 DEF Execute
<1>6. st.op \in {"upsert", "import", "demote", "bind", "event", "require"}
  BY DEF Stmt
<1> QED
  BY <1>1, <1>2, <1>3, <1>4, <1>5, <1>6

-----------------------------------------------------------------------------
(***************************************************************************)
(* The inductive invariant: whoever has a transaction open holds the lock. *)
(***************************************************************************)
OneWriter == \A c \in Connections : tx[c] # Null => lock = c

Transactions ==
  /\ tx = [c \in Connections |-> tx[c]]
  /\ \A c \in Connections : tx[c] # Null => IsTransaction(tx[c])

IInv == TypeOK /\ Transactions /\ OneWriter /\ SnapshotFresh

LEMMA InitIInv == Init => IInv
<1> SUFFICES ASSUME Init PROVE IInv
  OBVIOUS
<1>1. <<>> \in Seq(EventRow) /\ DOMAIN <<>> = {}
  OBVIOUS
<1>2. TablesOK(<<>>, <<>>, <<>>)
  BY <1>1 DEF TablesOK
<1>3. TypeOK
  BY <1>2 DEF Init, TypeOK
<1>4. Transactions /\ OneWriter /\ SnapshotFresh
  BY DEF Init, Transactions, OneWriter, SnapshotFresh
<1> QED
  BY <1>3, <1>4 DEF IInv

\* A new transaction sees the committed tables.
LEMMA BeginStep ==
  ASSUME IInv, NEW c \in Connections, NEW stmts \in Seq(Stmt), Begin(c, stmts)
  PROVE  IInv'
<1> DEFINE t == [todo |-> stmts, runs |-> runs, bindings |-> bindings, events |-> events]
<1>1. /\ lock = Null /\ lock' = c /\ UNCHANGED tables
      /\ tx' = [tx EXCEPT ![c] = t]
  BY DEF Begin
<1>2. tx'[c] = t /\ \A d \in Connections \ {c} : tx'[d] = tx[d] /\ tx[d] = Null
  BY <1>1, ConnectionsAssumption DEF IInv, Transactions, OneWriter
<1>3. IsTransaction(t)
  BY DEF IInv, TypeOK, IsTransaction
<1>4. IsPrefix(events, events)
  BY PrefixReflexive DEF IInv, TypeOK, TablesOK
<1> HIDE DEF t
<1>5. t.runs = runs /\ t.bindings = bindings /\ t.events = events
  BY DEF t
<1>6. Transactions' /\ OneWriter'
  BY <1>1, <1>2, <1>3 DEF IInv, Transactions, OneWriter
<1>7. TypeOK'
  <2>1. DOMAIN tx' = Connections
    BY <1>6 DEF Transactions
  <2>2. TablesOK(runs, bindings, events)' /\ lock' \in Connections
    BY <1>1 DEF IInv, TypeOK, tables
  <2> QED
    BY <1>2, <1>3, <2>1, <2>2 DEF IsTransaction, TypeOK
<1>8. SnapshotFresh'
  BY <1>1, <1>2, <1>4, <1>5 DEF SnapshotFresh, tables
<1> QED
  BY <1>6, <1>7, <1>8 DEF IInv

LEMMA StatementStep ==
  ASSUME IInv, NEW c \in Connections, Statement(c)
  PROVE  IInv'
<1> DEFINE w == tx[c]
           done == Execute(w, Head(w.todo))
           v == [done EXCEPT !.todo = Tail(w.todo)]
<1>1. /\ w # Null /\ w.todo # <<>>
      /\ tx' = [tx EXCEPT ![c] = v]
      /\ UNCHANGED <<runs, bindings, events, lock>>
  BY DEF Statement
<1>2. tx'[c] = v /\ \A d \in Connections \ {c} : tx'[d] = tx[d] /\ tx[d] = Null
  BY <1>1 DEF IInv, Transactions, OneWriter
<1>3. IsTransaction(w) /\ lock = c
  BY <1>1 DEF IInv, Transactions, OneWriter
<1>4. Head(w.todo) \in Stmt /\ Tail(w.todo) \in Seq(Stmt)
  BY <1>1, <1>3 DEF IsTransaction
<1> HIDE DEF w
<1>5. IsTransaction(done) /\ done.todo = w.todo /\ ExtendsTables(w, done)
  BY <1>3, <1>4, ExecuteExtends
<1> HIDE DEF done
<1>6. /\ IsTransaction(v)
      /\ v.runs = done.runs /\ v.bindings = done.bindings /\ v.events = done.events
  BY <1>4, <1>5 DEF IsTransaction, w
<1> HIDE DEF v
<1>7. /\ IsPrefix(events, v.events)
      /\ DOMAIN runs \subseteq DOMAIN v.runs
      /\ DOMAIN bindings \subseteq DOMAIN v.bindings
  <2>1. /\ IsPrefix(events, w.events)
        /\ DOMAIN runs \subseteq DOMAIN w.runs
        /\ DOMAIN bindings \subseteq DOMAIN w.bindings
    BY <1>1 DEF IInv, SnapshotFresh, w
  <2>2. events \in Seq(EventRow) /\ w.events \in Seq(EventRow) /\ v.events \in Seq(EventRow)
    BY <1>3, <1>6 DEF IInv, TypeOK, TablesOK, IsTransaction
  <2>3. IsPrefix(w.events, v.events)
    BY <1>5, <1>6 DEF ExtendsTables
  <2>4. IsPrefix(events, v.events)
    BY <2>1, <2>2, <2>3, PrefixTransitive
  <2> QED
    BY <1>5, <1>6, <2>1, <2>4 DEF ExtendsTables
<1>8. Transactions' /\ OneWriter'
  BY <1>1, <1>2, <1>3, <1>6 DEF IInv, Transactions, OneWriter
<1>9. TypeOK'
  <2>1. DOMAIN tx' = Connections
    BY <1>8 DEF Transactions
  <2>2. TablesOK(runs, bindings, events)' /\ lock' \in Connections \cup {Null}
    BY <1>1 DEF IInv, TypeOK
  <2> QED
    BY <1>2, <1>6, <2>1, <2>2 DEF IsTransaction, TypeOK
<1>10. SnapshotFresh'
  BY <1>1, <1>2, <1>7 DEF SnapshotFresh
<1> QED
  BY <1>8, <1>9, <1>10 DEF IInv

\* Commit, rollback and crash: no transaction is left open.
LEMMA EndStep ==
  ASSUME IInv, NEW c \in Connections, Commit(c) \/ Rollback(c) \/ Crash(c)
  PROVE  IInv'
<1>1. /\ tx[c] # Null
      /\ tx' = [tx EXCEPT ![c] = Null]
      /\ lock' = Release(c)
      /\ \/ UNCHANGED tables
         \/ runs' = tx[c].runs /\ bindings' = tx[c].bindings /\ events' = tx[c].events
  BY DEF Commit, Rollback, Crash
<1>2. \A d \in Connections : tx'[d] = Null
  BY <1>1 DEF IInv, Transactions, OneWriter
<1>3. IsTransaction(tx[c]) /\ lock = c
  BY <1>1 DEF IInv, Transactions, OneWriter
<1>4. TablesOK(runs, bindings, events)'
  BY <1>1, <1>3 DEF IInv, TypeOK, IsTransaction, tables
<1>5. lock' = Null
  BY <1>1, <1>3 DEF Release
<1>6. tx' = [d \in Connections |-> tx'[d]] /\ DOMAIN tx' = Connections
  BY <1>1 DEF IInv, Transactions
<1>7. Transactions'
  BY <1>2, <1>6 DEF Transactions
<1> QED
  BY <1>2, <1>4, <1>5, <1>6, <1>7 DEF IInv, TypeOK, OneWriter, SnapshotFresh

\* What a call begins is a sequence of statements.
LEMMA CallBegins ==
  ASSUME IInv, NEW c \in Connections, Call(c)
  PROVE  \E stmts \in Seq(Stmt) : Begin(c, stmts)
<1>1. CASE \E r \in Runs, record \in Records, kinds \in UNION {[1..n -> Kinds] : n \in 0..2} :
             Begin(c, Save(r, record, kinds))
  <2>1. PICK r \in Runs, record \in Records, kinds \in UNION {[1..n -> Kinds] : n \in 0..2} :
          Begin(c, Save(r, record, kinds))
    BY <1>1
  <2>2. PICK n \in 0..2 : kinds \in [1..n -> Kinds]
    OBVIOUS
  <2>3. Save(r, record, kinds) \in Seq(Stmt)
    BY <2>2, OperationTypes
  <2> QED
    BY <2>1, <2>3
<1>2. CASE \E s \in Sessions, r \in Runs : Begin(c, <<BindStmt(s, r)>>)
  <2>1. PICK s \in Sessions, r \in Runs : Begin(c, <<BindStmt(s, r)>>)
    BY <1>2
  <2>2. <<BindStmt(s, r)>> \in Seq(Stmt)
    BY DEF BindStmt, Stmt
  <2> QED
    BY <2>1, <2>2
<1>3. CASE \E old, new \in Sessions : Begin(c, Rotate(old, new))
  <2>1. PICK old \in Sessions, new \in Sessions : Begin(c, Rotate(old, new))
    BY <1>3
  <2>2. old \in DOMAIN bindings => bindings[old].run \in Runs
    BY DEF IInv, TypeOK, TablesOK, BindingRow
  <2>3. old \in DOMAIN bindings =>
          DemoteStmt(old) \in Stmt /\ BindStmt(new, bindings[old].run) \in Stmt
    BY <2>2 DEF DemoteStmt, BindStmt, Stmt
  <2>4. Rotate(old, new) \in Seq(Stmt)
    BY <2>3 DEF Rotate
  <2> QED
    BY <2>1, <2>4
<1>4. CASE \E r \in Runs, kind \in Kinds, source \in Sources \cup {Null} :
             Begin(c, Append1(r, kind, source))
  <2>1. PICK r \in Runs, kind \in Kinds, source \in Sources \cup {Null} :
          Begin(c, Append1(r, kind, source))
    BY <1>4
  <2>2. Event(r, kind, source) \in EventRow
    BY DEF Event, EventRow
  <2>3. RequireStmt(r) \in Stmt /\ EventStmt(r, kind, source) \in Stmt
    BY <2>2 DEF RequireStmt, EventStmt, Stmt
  <2>4. Append1(r, kind, source) \in Seq(Stmt)
    BY <2>3 DEF Append1
  <2> QED
    BY <2>1, <2>4
<1>5. CASE \E r \in Runs, record \in Records, origin \in Origins \cup {Null}, kind \in Kinds :
             \E ss \in UNION {SetToSeqs(S) : S \in SUBSET Sessions},
                srcs \in UNION {SetToSeqs(S) : S \in SUBSET Sources} :
               Begin(c, Import(r, record, origin, ss, srcs, kind))
  <2>1. PICK r \in Runs, record \in Records, origin \in Origins \cup {Null}, kind \in Kinds :
             \E ss \in UNION {SetToSeqs(S) : S \in SUBSET Sessions},
                srcs \in UNION {SetToSeqs(S) : S \in SUBSET Sources} :
               Begin(c, Import(r, record, origin, ss, srcs, kind))
    BY <1>5
  <2>2. PICK ss \in UNION {SetToSeqs(S) : S \in SUBSET Sessions},
             srcs \in UNION {SetToSeqs(S) : S \in SUBSET Sources} :
               Begin(c, Import(r, record, origin, ss, srcs, kind))
    BY <2>1
  <2>3. ss \in Seq(Sessions)
    BY EnumerationIsSeq, SessionsAssumption
  <2>4. srcs \in Seq(Sources)
    BY EnumerationIsSeq, SourcesAssumption
  <2>5. Import(r, record, origin, ss, srcs, kind) \in Seq(Stmt)
    BY <2>3, <2>4, OperationTypes
  <2> QED
    BY <2>2, <2>5
<1> QED
  BY <1>1, <1>2, <1>3, <1>4, <1>5 DEF Call

LEMMA NextIInv == IInv /\ [Next]_vars => IInv'
<1> SUFFICES ASSUME IInv, [Next]_vars PROVE IInv'
  OBVIOUS
<1>1. CASE UNCHANGED vars
  BY <1>1 DEF vars, IInv, TypeOK, Transactions, OneWriter, SnapshotFresh
<1>2. ASSUME NEW c \in Connections, Call(c) PROVE IInv'
  BY <1>2, CallBegins, BeginStep
<1>3. ASSUME NEW c \in Connections, Statement(c) PROVE IInv'
  BY <1>3, StatementStep
<1>4. ASSUME NEW c \in Connections, Commit(c) \/ Rollback(c) \/ Crash(c) PROVE IInv'
  BY <1>4, EndStep
<1> QED
  BY <1>1, <1>2, <1>3, <1>4 DEF Next

\* Types, transactions under the lock and fresh snapshots together are
\* inductive for any number of connections (store.py, _transaction).
THEOREM InductiveInvariant == Spec => []IInv
<1> QED
  BY InitIInv, NextIInv, PTL DEF Spec

\* The committed tables and every private version keep the shape of the schema.
THEOREM TypeCorrect == Spec => []TypeOK
<1>1. IInv => TypeOK
  BY DEF IInv
<1> QED
  BY <1>1, InductiveInvariant, PTL

\* No transaction works on a stale snapshot, however many connections there are
\* (store.py, BEGIN IMMEDIATE).
THEOREM SnapshotsAreFresh == Spec => []SnapshotFresh
<1>1. IInv => SnapshotFresh
  BY DEF IInv
<1> QED
  BY <1>1, InductiveInvariant, PTL


-----------------------------------------------------------------------------
(***************************************************************************)
(* Lists of statements.                                                    *)
(***************************************************************************)
LEMMA SuffixStep ==
  ASSUME NEW stmts \in Seq(Stmt), NEW k \in 0..Len(stmts), NEW todo,
         todo = SubSeq(stmts, k + 1, Len(stmts))
  PROVE  /\ todo = <<>> => k = Len(stmts)
         /\ todo # <<>> => /\ k < Len(stmts)
                           /\ Head(todo) = stmts[k + 1]
                           /\ Tail(todo) = SubSeq(stmts, k + 2, Len(stmts))
<1>1. CASE k = Len(stmts)
  <2>1. todo = <<>>
    BY <1>1, SubSeqEmpty
  <2> QED
    BY <1>1, <2>1
<1>2. CASE k < Len(stmts)
  <2>1. k + 1 \in 1..Len(stmts) /\ Len(stmts) \in (k + 1)..Len(stmts)
    BY <1>2
  <2>2. Head(todo) = stmts[k + 1] /\ Tail(todo) = SubSeq(stmts, (k + 1) + 1, Len(stmts))
    BY <2>1, HeadTailOfSubSeq
  <2>3. (k + 1) + 1 = k + 2
    OBVIOUS
  <2>4. todo # <<>>
    <3>1. \A i \in (k + 1)..Len(stmts) : stmts[i] \in Stmt
      OBVIOUS
    <3>2. Len(SubSeq(stmts, k + 1, Len(stmts))) = Len(stmts) - (k + 1) + 1
      BY <2>1, <3>1, SubSeqProperties
    <3>3. Len(todo) # 0
      <4>1. Len(todo) = Len(stmts) - (k + 1) + 1
        BY <3>2
      <4>2. Len(stmts) \in Nat
        OBVIOUS
      <4> QED
        BY <1>2, <4>1, <4>2
    <3> QED
      BY <3>3
  <2> QED
    BY <1>2, <2>2, <2>3, <2>4
<1> QED
  BY <1>1, <1>2

LEMMA ConcatIndex ==
  ASSUME NEW p \in Seq(Stmt), NEW q \in Seq(Stmt)
  PROVE  /\ p \o q \in Seq(Stmt)
         /\ Len(p \o q) = Len(p) + Len(q)
         /\ \A i \in 1..(Len(p) + Len(q)) :
              (p \o q)[i] = IF i <= Len(p) THEN p[i] ELSE q[i - Len(p)]
BY ConcatProperties

EventCount(stmts) == Cardinality({i \in DOMAIN stmts : stmts[i].op = "event"})

\* The events of an operation are its last statements.
LEMMA CountEvents ==
  ASSUME NEW stmts \in Seq(Stmt), NEW a \in Nat, NEW n \in Nat, Len(stmts) = a + n,
         \A i \in 1..a : stmts[i].op # "event",
         \A i \in (a + 1)..(a + n) : stmts[i].op = "event"
  PROVE  EventCount(stmts) = n
<1>1. DOMAIN stmts = 1..(a + n)
  OBVIOUS
<1>2. {i \in DOMAIN stmts : stmts[i].op = "event"} = (a + 1)..(a + n)
  BY <1>1
<1>3. a + 1 \in Int /\ a + n \in Int
  OBVIOUS
<1>4. Cardinality((a + 1)..(a + n)) = IF a + 1 > a + n THEN 0 ELSE (a + n) - (a + 1) + 1
  BY <1>3, FS_Interval
<1>5. (IF a + 1 > a + n THEN 0 ELSE (a + n) - (a + 1) + 1) = n
  OBVIOUS
<1>6. Cardinality((a + 1)..(a + n)) = n
  BY <1>4, <1>5
<1> QED
  BY <1>2, <1>6 DEF EventCount

LEMMA SaveStatements ==
  ASSUME NEW r \in Runs, NEW record \in Records, NEW n \in Nat, NEW kinds \in [1..n -> Kinds]
  PROVE  LET stmts == Save(r, record, kinds)
         IN  /\ stmts \in Seq(Stmt)
             /\ Len(stmts) = 1 + n
             /\ stmts[1] = UpsertStmt(r, record, Null)
             /\ \A i \in 1..n : stmts[i + 1] = EventStmt(r, kinds[i], Null)
             /\ EventCount(stmts) = n
<1> DEFINE stmts == Save(r, record, kinds)
           first == <<UpsertStmt(r, record, Null)>>
           rest == [i \in 1..Len(kinds) |-> EventStmt(r, kinds[i], Null)]
<1>1. stmts \in Seq(Stmt)
  BY OperationTypes
<1>2. Len(kinds) = n
  OBVIOUS
<1>3. \A i \in 1..n : EventStmt(r, kinds[i], Null) \in Stmt
  <2> TAKE i \in 1..n
  <2>1. kinds[i] \in Kinds
    OBVIOUS
  <2>2. Event(r, kinds[i], Null) \in EventRow
    BY <2>1 DEF Event, EventRow
  <2> QED
    BY <2>2 DEF EventStmt, Stmt
<1>4. first \in Seq(Stmt) /\ Len(first) = 1 /\ first[1] = UpsertStmt(r, record, Null)
  BY DEF UpsertStmt, Stmt
<1>5. rest \in Seq(Stmt) /\ Len(rest) = n /\ \A i \in 1..n : rest[i] = EventStmt(r, kinds[i], Null)
  BY <1>2, <1>3
<1> HIDE DEF first, rest
<1>6. stmts = first \o rest
  BY DEF Save, first, rest
<1> HIDE DEF stmts
<1>7. Len(stmts) = 1 + n /\ \A i \in 1..(1 + n) :
        stmts[i] = IF i <= 1 THEN first[i] ELSE rest[i - 1]
  <2>1. /\ Len(first \o rest) = Len(first) + Len(rest)
        /\ \A i \in 1..(Len(first) + Len(rest)) :
             (first \o rest)[i] = IF i <= Len(first) THEN first[i] ELSE rest[i - Len(first)]
    BY <1>4, <1>5, ConcatIndex
  <2> QED
    BY <1>4, <1>5, <1>6, <2>1
<1>8. stmts[1] = UpsertStmt(r, record, Null)
  BY <1>4, <1>7
<1>9. \A i \in 1..n : stmts[i + 1] = EventStmt(r, kinds[i], Null)
  <2> TAKE i \in 1..n
  <2>1. i + 1 \in 1..(1 + n) /\ ~(i + 1 <= 1) /\ (i + 1) - 1 = i
    OBVIOUS
  <2>2. stmts[i + 1] = rest[(i + 1) - 1]
    BY <1>7, <2>1
  <2> QED
    BY <1>5, <2>1, <2>2
<1>10. EventCount(stmts) = n
  <2>1. \A i \in 1..1 : stmts[i].op # "event"
    BY <1>8 DEF UpsertStmt
  <2>2. \A i \in (1 + 1)..(1 + n) : stmts[i].op = "event"
    <3> TAKE i \in (1 + 1)..(1 + n)
    <3>1. i - 1 \in 1..n /\ (i - 1) + 1 = i
      OBVIOUS
    <3>2. stmts[i] = EventStmt(r, kinds[i - 1], Null)
      BY <1>9, <3>1
    <3> QED
      BY <3>2 DEF EventStmt
  <2> QED
    BY <1>1, <1>7, <2>1, <2>2, CountEvents DEF stmts
<1> QED
  BY <1>1, <1>7, <1>8, <1>9, <1>10 DEF stmts

\* The first statement inserts the run, then come the sessions, then the events.
ImportShape(stmts, r, record, origin, ss, srcs, kind) ==
  /\ Len(stmts) = (1 + Len(ss)) + Len(srcs)
  /\ stmts[1] = ImportStmt(r, record, origin)
  /\ \A i \in 1..Len(ss) : stmts[i + 1] = BindStmt(ss[i], r)
  /\ \A i \in 1..Len(srcs) : stmts[i + (1 + Len(ss))] = EventStmt(r, kind, srcs[i])

LEMMA ImportStatements ==
  ASSUME NEW r \in Runs, NEW record \in Records, NEW origin \in Origins \cup {Null},
         NEW kind \in Kinds, NEW ss \in Seq(Sessions), NEW srcs \in Seq(Sources)
  PROVE  LET stmts == Import(r, record, origin, ss, srcs, kind)
         IN  /\ stmts \in Seq(Stmt)
             /\ ImportShape(stmts, r, record, origin, ss, srcs, kind)
             /\ EventCount(stmts) = Len(srcs)
<1> DEFINE stmts == Import(r, record, origin, ss, srcs, kind)
           a == 1 + Len(ss)
           first == <<ImportStmt(r, record, origin)>>
           binds == [i \in 1..Len(ss) |-> BindStmt(ss[i], r)]
           rows  == [i \in 1..Len(srcs) |-> EventStmt(r, kind, srcs[i])]
           head  == first \o binds
<1>1. stmts \in Seq(Stmt)
  BY OperationTypes
<1>2. first \in Seq(Stmt) /\ Len(first) = 1 /\ first[1] = ImportStmt(r, record, origin)
  BY DEF ImportStmt, Stmt
<1>3. \A i \in 1..Len(ss) : BindStmt(ss[i], r) \in Stmt
  BY DEF BindStmt, Stmt
<1>4. binds \in Seq(Stmt) /\ Len(binds) = Len(ss) /\ \A i \in 1..Len(ss) : binds[i] = BindStmt(ss[i], r)
  BY <1>3
<1>5. \A i \in 1..Len(srcs) : EventStmt(r, kind, srcs[i]) \in Stmt
  <2> TAKE i \in 1..Len(srcs)
  <2>1. srcs[i] \in Sources
    OBVIOUS
  <2>2. Event(r, kind, srcs[i]) \in EventRow
    BY <2>1 DEF Event, EventRow
  <2> QED
    BY <2>2 DEF EventStmt, Stmt
<1>6. /\ rows \in Seq(Stmt) /\ Len(rows) = Len(srcs)
      /\ \A i \in 1..Len(srcs) : rows[i] = EventStmt(r, kind, srcs[i])
  BY <1>5
<1>7. stmts = (first \o binds) \o rows
  BY DEF Import
<1> HIDE DEF first, binds, rows, stmts
<1>8. head \in Seq(Stmt) /\ Len(head) = a /\ \A i \in 1..a :
        head[i] = IF i <= 1 THEN first[i] ELSE binds[i - 1]
  BY <1>2, <1>4, ConcatProperties
<1> HIDE DEF head
<1>9. Len(stmts) = a + Len(srcs) /\ \A i \in 1..(a + Len(srcs)) :
        stmts[i] = IF i <= a THEN head[i] ELSE rows[i - a]
  <2>1. /\ Len(head \o rows) = Len(head) + Len(rows)
        /\ \A i \in 1..(Len(head) + Len(rows)) :
             (head \o rows)[i] = IF i <= Len(head) THEN head[i] ELSE rows[i - Len(head)]
    BY <1>6, <1>8, ConcatIndex
  <2>2. stmts = head \o rows
    BY <1>7 DEF head
  <2> QED
    BY <1>6, <1>8, <2>1, <2>2
<1>10. stmts[1] = ImportStmt(r, record, origin)
  <2>1. 1 \in 1..a /\ 1 \in 1..(a + Len(srcs)) /\ 1 <= a
    OBVIOUS
  <2>2. stmts[1] = head[1] /\ head[1] = first[1]
    BY <1>8, <1>9, <2>1
  <2> QED
    BY <1>2, <2>2
<1>11. \A i \in 1..Len(ss) : stmts[i + 1] = BindStmt(ss[i], r)
  <2> TAKE i \in 1..Len(ss)
  <2>1. i + 1 \in 1..a /\ ~(i + 1 <= 1) /\ (i + 1) - 1 = i /\ i + 1 \in 1..(a + Len(srcs))
    OBVIOUS
  <2>2. stmts[i + 1] = binds[(i + 1) - 1]
    BY <1>8, <1>9, <2>1
  <2> QED
    BY <1>4, <2>1, <2>2
<1>12. \A i \in 1..Len(srcs) : stmts[i + a] = EventStmt(r, kind, srcs[i])
  <2> TAKE i \in 1..Len(srcs)
  <2>1. i + a \in 1..(a + Len(srcs)) /\ ~(i + a <= a) /\ (i + a) - a = i
    OBVIOUS
  <2>2. stmts[i + a] = rows[(i + a) - a]
    BY <1>9, <2>1
  <2> QED
    BY <1>6, <2>1, <2>2
<1>13. EventCount(stmts) = Len(srcs)
  <2>1. \A i \in 1..a : stmts[i].op # "event"
    <3> TAKE i \in 1..a
    <3>1. CASE i = 1
      BY <1>10, <3>1 DEF ImportStmt
    <3>2. CASE i > 1
      <4>1. i - 1 \in 1..Len(ss) /\ (i - 1) + 1 = i
        BY <3>2
      <4>2. stmts[i] = BindStmt(ss[i - 1], r)
        BY <1>11, <4>1
      <4> QED
        BY <4>2 DEF BindStmt
    <3> QED
      BY <3>1, <3>2
  <2>2. \A i \in (a + 1)..(a + Len(srcs)) : stmts[i].op = "event"
    <3> TAKE i \in (a + 1)..(a + Len(srcs))
    <3>1. i - a \in 1..Len(srcs) /\ (i - a) + a = i
      OBVIOUS
    <3>2. stmts[i] = EventStmt(r, kind, srcs[i - a])
      BY <1>12, <3>1
    <3> QED
      BY <3>2 DEF EventStmt
  <2>3. a \in Nat /\ Len(srcs) \in Nat
    OBVIOUS
  <2>4. Len(stmts) = a + Len(srcs)
    BY <1>9
  <2> HIDE DEF a
  <2> QED
    BY <1>1, <2>1, <2>2, <2>3, <2>4, CountEvents
<1> QED
  BY <1>1, <1>9, <1>10, <1>11, <1>12, <1>13 DEF stmts, ImportShape

-----------------------------------------------------------------------------
(***************************************************************************)
(* How far an operation is after k of its statements, in the tables of its *)
(* transaction t.                                                          *)
(***************************************************************************)
SavedRows(r, kinds, m) == [i \in 1..m |-> Event(r, kinds[i], Null)]

SaveProgress(t, r, record, kinds, k) ==
  /\ t.bindings = bindings
  /\ t.runs = IF k = 0 THEN runs ELSE UpsertRun(runs, r, record, Null)
  /\ t.events = events \o SavedRows(r, kinds, IF k = 0 THEN 0 ELSE k - 1)

BindProgress(t, s, r, k) ==
  /\ t.runs = runs /\ t.events = events
  /\ k = 0 => t.bindings = bindings
  /\ k = 1 => Bindable(runs, bindings, s, r) /\ t.bindings = BindSession(bindings, s, r)

RotateProgress(t, old, new, k) ==
  LET r == bindings[old].run
      demoted == Demote(bindings, old)
  IN  /\ t.runs = runs /\ t.events = events
      /\ k = 0 => t.bindings = bindings
      /\ k = 1 => t.bindings = demoted
      /\ k = 2 => Bindable(runs, demoted, new, r) /\ t.bindings = BindSession(demoted, new, r)

AppendProgress(t, r, kind, source, k) ==
  /\ t.runs = runs /\ t.bindings = bindings
  /\ k > 0 => r \in DOMAIN runs
  /\ t.events = IF k = 2 THEN InsertEvent(events, Event(r, kind, source)) ELSE events

Joins(r, origin) == r \in DOMAIN runs => origin # Null /\ runs[r].origin = origin

BoundBy(ss, k) == {ss[i] : i \in {j \in 1..Len(ss) : j < k}}

SeenBy(ss, srcs, k) == {srcs[i] : i \in {j \in 1..Len(srcs) : j + (1 + Len(ss)) <= k}}

NewRows(r, kind, seen) == {Event(r, kind, src) : src \in seen \ Recorded(events, r)}

\* q lists the new rows of the sources seen, each once.
ListsRows(q, r, kind, seen) ==
  /\ q \in Seq(EventRow)
  /\ \A i, j \in 1..Len(q) : q[i] = q[j] => i = j
  /\ {q[i] : i \in 1..Len(q)} = NewRows(r, kind, seen)

ImportProgress(t, r, record, origin, ss, srcs, kind, k) ==
  LET bound == BoundBy(ss, k)
  IN  /\ k > 0 => Joins(r, origin)
      /\ t.runs = IF k = 0 \/ r \in DOMAIN runs THEN runs ELSE UpsertRun(runs, r, record, origin)
      /\ \A s \in bound : Bindable(t.runs, bindings, s, r)
      /\ t.bindings = [s \in DOMAIN bindings \cup bound |->
                         IF s \in bound THEN [run |-> r, current |-> TRUE] ELSE bindings[s]]
      /\ \E q : /\ ListsRows(q, r, kind, SeenBy(ss, srcs, k))
                /\ Len(q) <= IF k > 1 + Len(ss) THEN k - (1 + Len(ss)) ELSE 0
                /\ t.events = events \o q

-----------------------------------------------------------------------------
(***************************************************************************)
(* One statement.                                                          *)
(***************************************************************************)
SameTables(v, u) == v.runs = u.runs /\ v.bindings = u.bindings /\ v.events = u.events

LEMMA ExecuteUpsert ==
  ASSUME NEW w, IsTransaction(w), NEW r, NEW record, NEW origin, NEW v,
         SameTables(v, Execute(w, UpsertStmt(r, record, origin)))
  PROVE  /\ v.runs = UpsertRun(w.runs, r, record, origin)
         /\ v.bindings = w.bindings /\ v.events = w.events
BY DEF IsTransaction, SameTables, Execute, UpsertStmt

LEMMA ExecuteImport ==
  ASSUME NEW w, IsTransaction(w), NEW r, NEW record, NEW origin, NEW v,
         SameTables(v, Execute(w, ImportStmt(r, record, origin)))
  PROVE  /\ v.runs = IF r \in DOMAIN w.runs THEN w.runs
                     ELSE UpsertRun(w.runs, r, record, origin)
         /\ v.bindings = w.bindings /\ v.events = w.events
BY DEF IsTransaction, SameTables, Execute, ImportStmt

LEMMA ExecuteRequire ==
  ASSUME NEW w, NEW r, NEW v, SameTables(v, Execute(w, RequireStmt(r)))
  PROVE  v.runs = w.runs /\ v.bindings = w.bindings /\ v.events = w.events
BY DEF SameTables, Execute, RequireStmt

LEMMA ExecuteDemote ==
  ASSUME NEW w, IsTransaction(w), NEW s, NEW v, SameTables(v, Execute(w, DemoteStmt(s)))
  PROVE  v.runs = w.runs /\ v.bindings = Demote(w.bindings, s) /\ v.events = w.events
BY DEF IsTransaction, SameTables, Execute, DemoteStmt

LEMMA ExecuteBind ==
  ASSUME NEW w, IsTransaction(w), NEW s, NEW r, NEW v, SameTables(v, Execute(w, BindStmt(s, r)))
  PROVE  /\ v.runs = w.runs /\ v.bindings = BindSession(w.bindings, s, r)
         /\ v.events = w.events
BY DEF IsTransaction, SameTables, Execute, BindStmt

LEMMA ExecuteEvent ==
  ASSUME NEW w, IsTransaction(w), NEW r, NEW kind, NEW source, NEW v,
         SameTables(v, Execute(w, EventStmt(r, kind, source)))
  PROVE  /\ v.runs = w.runs /\ v.bindings = w.bindings
         /\ v.events = InsertEvent(w.events, Event(r, kind, source))
BY DEF IsTransaction, SameTables, Execute, EventStmt

LEMMA SaveProgresses ==
  ASSUME IInv, NEW w, IsTransaction(w), NEW v,
         NEW r \in Runs, NEW record \in Records, NEW n \in Nat, NEW kinds \in [1..n -> Kinds],
         NEW k \in 0..n, SaveProgress(w, r, record, kinds, k),
         SameTables(v, Execute(w, Save(r, record, kinds)[k + 1]))
  PROVE  SaveProgress(v, r, record, kinds, k + 1)
<1>1. CASE k = 0
  <2>1. Save(r, record, kinds)[k + 1] = UpsertStmt(r, record, Null)
    BY <1>1, SaveStatements
  <2>2. /\ v.runs = UpsertRun(w.runs, r, record, Null)
        /\ v.bindings = w.bindings /\ v.events = w.events
    BY <2>1, ExecuteUpsert
  <2> QED
    BY <1>1, <2>2 DEF SaveProgress
<1>2. CASE k > 0
  <2> DEFINE e == Event(r, kinds[k], Null)
  <2>1. k \in 1..n
    BY <1>2
  <2>2. Save(r, record, kinds)[k + 1] = EventStmt(r, kinds[k], Null)
    BY <2>1, SaveStatements
  <2>3. v.runs = w.runs /\ v.bindings = w.bindings /\ v.events = InsertEvent(w.events, e)
    BY <2>2, ExecuteEvent
  <2>4. e.source = Null
    BY DEF Event
  <2>5. v.events = Append(w.events, e)
    BY <2>3, <2>4 DEF InsertEvent, Recorded
  <2>6. ASSUME NEW m \in 0..n PROVE SavedRows(r, kinds, m) \in Seq(EventRow) /\ Len(SavedRows(r, kinds, m)) = m
    <3>1. \A i \in 1..m : Event(r, kinds[i], Null) \in EventRow
      <4> TAKE i \in 1..m
      <4>1. kinds[i] \in Kinds
        OBVIOUS
      <4> QED
        BY <4>1 DEF Event, EventRow
    <3> QED
      BY <3>1 DEF SavedRows
  <2>7. SavedRows(r, kinds, k) = Append(SavedRows(r, kinds, k - 1), e)
    <3>1. k - 1 \in 0..n /\ k \in 0..n /\ (k - 1) + 1 = k
      BY <2>1
    <3>2. /\ SavedRows(r, kinds, k - 1) \in Seq(EventRow)
          /\ Len(SavedRows(r, kinds, k - 1)) = k - 1
      BY <2>6, <3>1
    <3>3. \A i \in 1..k : SavedRows(r, kinds, k)[i] =
                            Append(SavedRows(r, kinds, k - 1), e)[i]
      BY <3>1, <3>2 DEF SavedRows
    <3>4. Append(SavedRows(r, kinds, k - 1), e) = [i \in 1..k |-> Append(SavedRows(r, kinds, k - 1), e)[i]]
      BY <3>1, <3>2
    <3> QED
      BY <3>3, <3>4 DEF SavedRows
  <2>8. events \o Append(SavedRows(r, kinds, k - 1), e) = Append(events \o SavedRows(r, kinds, k - 1), e)
    <3>1. k - 1 \in 0..n
      BY <2>1
    <3>2. SavedRows(r, kinds, k - 1) \in Seq(EventRow)
      BY <2>6, <3>1
    <3>3. events \in Seq(EventRow) /\ e \in EventRow
      <4>1. kinds[k] \in Kinds
        BY <2>1
      <4> QED
        BY <4>1 DEF IInv, TypeOK, TablesOK, Event, EventRow
    <3> HIDE DEF e
    <3> QED
      BY <3>2, <3>3
  <2>9. w.events = events \o SavedRows(r, kinds, k - 1)
    BY <1>2 DEF SaveProgress
  <2>10. v.events = events \o SavedRows(r, kinds, k)
    BY <2>5, <2>7, <2>8, <2>9
  <2>11. (IF k + 1 = 0 THEN 0 ELSE (k + 1) - 1) = k
    BY <1>2
  <2> QED
    BY <1>2, <2>3, <2>10, <2>11 DEF SaveProgress
<1> QED
  BY <1>1, <1>2

LEMMA BindProgresses ==
  ASSUME NEW w, IsTransaction(w), NEW v, NEW s, NEW r, BindProgress(w, s, r, 0),
         ~Raises(w, BindStmt(s, r)), SameTables(v, Execute(w, BindStmt(s, r)))
  PROVE  BindProgress(v, s, r, 1)
<1>1. Bindable(w.runs, w.bindings, s, r)
  BY DEF Raises, BindStmt
<1>2. v.runs = w.runs /\ v.bindings = BindSession(w.bindings, s, r) /\ v.events = w.events
  BY ExecuteBind
<1> QED
  BY <1>1, <1>2 DEF BindProgress

LEMMA RotateProgresses ==
  ASSUME NEW w, IsTransaction(w), NEW v, NEW old, NEW new, NEW k \in 0..1,
         old \in DOMAIN bindings, RotateProgress(w, old, new, k),
         ~Raises(w, Rotate(old, new)[k + 1]),
         SameTables(v, Execute(w, Rotate(old, new)[k + 1]))
  PROVE  RotateProgress(v, old, new, k + 1)
<1> DEFINE r == bindings[old].run
<1>1. Rotate(old, new) = <<DemoteStmt(old), BindStmt(new, r)>>
  BY DEF Rotate
<1>2. CASE k = 0
  <2>1. Rotate(old, new)[k + 1] = DemoteStmt(old)
    BY <1>1, <1>2
  <2>2. v.runs = w.runs /\ v.bindings = Demote(w.bindings, old) /\ v.events = w.events
    BY <2>1, ExecuteDemote
  <2> QED
    BY <1>2, <2>2 DEF RotateProgress
<1>3. CASE k = 1
  <2>1. Rotate(old, new)[k + 1] = BindStmt(new, r)
    BY <1>1, <1>3
  <2>2. Bindable(w.runs, w.bindings, new, r)
    BY <2>1 DEF Raises, BindStmt
  <2>3. v.runs = w.runs /\ v.bindings = BindSession(w.bindings, new, r) /\ v.events = w.events
    BY <2>1, ExecuteBind
  <2> QED
    BY <1>3, <2>2, <2>3 DEF RotateProgress
<1> QED
  BY <1>2, <1>3

LEMMA AppendProgresses ==
  ASSUME NEW w, IsTransaction(w), NEW v, NEW r, NEW kind, NEW source, NEW k \in 0..1,
         AppendProgress(w, r, kind, source, k),
         ~Raises(w, Append1(r, kind, source)[k + 1]),
         SameTables(v, Execute(w, Append1(r, kind, source)[k + 1]))
  PROVE  AppendProgress(v, r, kind, source, k + 1)
<1>1. Append1(r, kind, source) = <<RequireStmt(r), EventStmt(r, kind, source)>>
  BY DEF Append1
<1>2. CASE k = 0
  <2>1. Append1(r, kind, source)[k + 1] = RequireStmt(r)
    BY <1>1, <1>2
  <2>2. r \in DOMAIN w.runs
    BY <2>1 DEF Raises, RequireStmt
  <2>3. v.runs = w.runs /\ v.bindings = w.bindings /\ v.events = w.events
    BY <2>1, ExecuteRequire
  <2> QED
    BY <1>2, <2>2, <2>3 DEF AppendProgress
<1>3. CASE k = 1
  <2>1. Append1(r, kind, source)[k + 1] = EventStmt(r, kind, source)
    BY <1>1, <1>3
  <2>2. /\ v.runs = w.runs /\ v.bindings = w.bindings
        /\ v.events = InsertEvent(w.events, Event(r, kind, source))
    BY <2>1, ExecuteEvent
  <2> QED
    BY <1>3, <2>2 DEF AppendProgress
<1> QED
  BY <1>2, <1>3

\* With the event of src inserted the rows after the committed ones are q2.
InsertsRow(q, q2, r, kind, src) ==
  /\ Len(q2) <= Len(q) + 1
  /\ InsertEvent(events \o q, Event(r, kind, src)) = events \o q2

\* One more source: its row is inserted unless the ledger had it before the import.
LEMMA RowsStep ==
  ASSUME NEW r \in Runs, NEW kind \in Kinds, NEW seen, NEW src \in Sources, src \notin seen,
         events \in Seq(EventRow), NEW q, ListsRows(q, r, kind, seen)
  PROVE  \E q2 : /\ ListsRows(q2, r, kind, seen \cup {src})
                 /\ InsertsRow(q, q2, r, kind, src)
<1> DEFINE e == Event(r, kind, src)
           both == events \o q
<1>1. e \in EventRow /\ e.run = r /\ e.source = src /\ src # Null
  BY NullAssumption DEF Event, EventRow
<1>2. q \in Seq(EventRow) /\ DOMAIN q = 1..Len(q) /\ Len(q) \in Nat
  BY DEF ListsRows
<1>3. \A i \in 1..Len(q) : q[i].source # src
  <2> TAKE i \in 1..Len(q)
  <2>1. q[i] \in NewRows(r, kind, seen)
    BY DEF ListsRows
  <2>2. PICK x \in seen : q[i] = Event(r, kind, x)
    BY <2>1 DEF NewRows
  <2>3. q[i].source = x
    BY <2>2 DEF Event
  <2> QED
    BY <2>3
<1>4. /\ both \in Seq(EventRow) /\ Len(both) = Len(events) + Len(q)
      /\ \A i \in 1..(Len(events) + Len(q)) :
           both[i] = IF i <= Len(events) THEN events[i] ELSE q[i - Len(events)]
  BY <1>2, ConcatProperties
<1> HIDE DEF e, both
<1>5. e.source \in Recorded(both, e.run) <=> src \in Recorded(events, r)
  <2>1. ASSUME src \in Recorded(events, r) PROVE src \in Recorded(both, r)
    <3>1. PICK i \in DOMAIN events : events[i].run = r /\ events[i].source = src
      BY <2>1 DEF Recorded
    <3>2. i \in 1..Len(events) /\ Len(events) \in Nat
      OBVIOUS
    <3>3. i \in DOMAIN both /\ both[i] = events[i]
      BY <1>2, <1>4, <3>2
    <3> QED
      BY <1>1, <3>1, <3>3 DEF Recorded
  <2>2. ASSUME src \in Recorded(both, r) PROVE src \in Recorded(events, r)
    <3>1. PICK i \in DOMAIN both : both[i].run = r /\ both[i].source = src
      BY <2>2 DEF Recorded
    <3>2. i \in 1..(Len(events) + Len(q)) /\ Len(events) \in Nat
      BY <1>4
    <3>3. i <= Len(events)
      <4> SUFFICES ASSUME ~(i <= Len(events)) PROVE FALSE
        OBVIOUS
      <4>1. i - Len(events) \in 1..Len(q) /\ both[i] = q[i - Len(events)]
        BY <1>2, <1>4, <3>2
      <4> QED
        BY <1>3, <3>1, <4>1
    <3>4. i \in DOMAIN events /\ both[i] = events[i]
      BY <1>4, <3>2, <3>3
    <3> QED
      BY <1>1, <3>1, <3>4 DEF Recorded
  <2> QED
    BY <1>1, <2>1, <2>2
<1>6. CASE src \in Recorded(events, r)
  <2>1. InsertEvent(both, e) = both
    BY <1>5, <1>6 DEF InsertEvent
  <2>2. NewRows(r, kind, seen \cup {src}) = NewRows(r, kind, seen)
    BY <1>6 DEF NewRows
  <2>3. ListsRows(q, r, kind, seen \cup {src})
    BY <2>2 DEF ListsRows
  <2>4. Len(q) <= Len(q) + 1
    BY <1>2
  <2> QED
    BY <2>1, <2>3, <2>4 DEF both, e, InsertsRow
<1>7. CASE src \notin Recorded(events, r)
  <2> DEFINE q2 == Append(q, e)
  <2>1. InsertEvent(both, e) = Append(both, e)
    BY <1>5, <1>7 DEF InsertEvent
  <2>2. Append(both, e) = events \o q2
    BY <1>1, <1>2 DEF both
  <2>3. /\ q2 \in Seq(EventRow) /\ Len(q2) = Len(q) + 1
        /\ \A i \in 1..Len(q2) : q2[i] = IF i <= Len(q) THEN q[i] ELSE e
    BY <1>1, <1>2
  <2> HIDE DEF q2
  <2>4. \A i, j \in 1..Len(q2) : q2[i] = q2[j] => i = j
    <3> TAKE i, j \in 1..Len(q2)
    <3>1. CASE i <= Len(q) /\ j <= Len(q)
      <4>1. i \in 1..Len(q) /\ j \in 1..Len(q) /\ q2[i] = q[i] /\ q2[j] = q[j]
        BY <1>2, <2>3, <3>1
      <4> QED
        BY <4>1 DEF ListsRows
    <3>2. CASE i <= Len(q) /\ ~(j <= Len(q))
      <4>1. i \in 1..Len(q) /\ q2[i] = q[i] /\ q2[j] = e
        BY <1>2, <2>3, <3>2
      <4> QED
        BY <1>1, <1>3, <4>1
    <3>3. CASE ~(i <= Len(q)) /\ j <= Len(q)
      <4>1. j \in 1..Len(q) /\ q2[j] = q[j] /\ q2[i] = e
        BY <1>2, <2>3, <3>3
      <4> QED
        BY <1>1, <1>3, <4>1
    <3>4. CASE ~(i <= Len(q)) /\ ~(j <= Len(q))
      BY <1>2, <2>3, <3>4
    <3> QED
      BY <3>1, <3>2, <3>3, <3>4
  <2>5. {q2[i] : i \in 1..Len(q2)} = {q[i] : i \in 1..Len(q)} \cup {e}
    <3>1. \A i \in 1..Len(q) : i \in 1..Len(q2) /\ q2[i] = q[i]
      BY <1>2, <2>3
    <3>2. Len(q2) \in 1..Len(q2) /\ q2[Len(q2)] = e
      BY <1>2, <2>3
    <3>3. \A i \in 1..Len(q2) : i \in 1..Len(q) \/ q2[i] = e
      BY <1>2, <2>3
    <3> QED
      BY <3>1, <3>2, <3>3
  <2>6. NewRows(r, kind, seen \cup {src}) = NewRows(r, kind, seen) \cup {e}
    BY <1>7 DEF NewRows, e
  <2>7. ListsRows(q2, r, kind, seen \cup {src})
    BY <2>3, <2>4, <2>5, <2>6 DEF ListsRows
  <2>8. Len(q2) <= Len(q) + 1
    BY <1>2, <2>3
  <2> QED
    BY <2>1, <2>2, <2>7, <2>8 DEF both, e, InsertsRow
<1> QED
  BY <1>6, <1>7

\* The sessions and the sources dealt with after one more statement.
LEMMA ImportSets ==
  ASSUME NEW ss \in Seq(Sessions), NEW srcs \in Seq(Sources),
         NEW k \in 0..(Len(ss) + Len(srcs))
  PROVE  /\ BoundBy(ss, 0) = {} /\ BoundBy(ss, 1) = {}
         /\ SeenBy(ss, srcs, 0) = {}
         /\ k <= Len(ss) => SeenBy(ss, srcs, k + 1) = SeenBy(ss, srcs, k)
         /\ k \in 1..Len(ss) => BoundBy(ss, k + 1) = BoundBy(ss, k) \cup {ss[k]}
         /\ k > Len(ss) => /\ BoundBy(ss, k + 1) = BoundBy(ss, k)
                           /\ SeenBy(ss, srcs, k + 1) =
                                SeenBy(ss, srcs, k) \cup {srcs[k - Len(ss)]}
<1>0. Len(ss) \in Nat /\ Len(srcs) \in Nat
  OBVIOUS
<1>1. BoundBy(ss, 0) = {} /\ BoundBy(ss, 1) = {}
  BY <1>0 DEF BoundBy
<1>2. SeenBy(ss, srcs, 0) = {}
  BY <1>0 DEF SeenBy
<1>3. ASSUME k <= Len(ss) PROVE SeenBy(ss, srcs, k + 1) = SeenBy(ss, srcs, k)
  <2>1. {j \in 1..Len(srcs) : j + (1 + Len(ss)) <= k + 1} = {j \in 1..Len(srcs) : j + (1 + Len(ss)) <= k}
    BY <1>0, <1>3
  <2> QED
    BY <2>1 DEF SeenBy
<1>4. ASSUME k \in 1..Len(ss) PROVE BoundBy(ss, k + 1) = BoundBy(ss, k) \cup {ss[k]}
  <2>1. {j \in 1..Len(ss) : j < k + 1} = {j \in 1..Len(ss) : j < k} \cup {k}
    BY <1>0, <1>4
  <2> QED
    BY <2>1 DEF BoundBy
<1>5. ASSUME k > Len(ss)
      PROVE  /\ BoundBy(ss, k + 1) = BoundBy(ss, k)
             /\ SeenBy(ss, srcs, k + 1) = SeenBy(ss, srcs, k) \cup {srcs[k - Len(ss)]}
  <2>1. {j \in 1..Len(ss) : j < k + 1} = {j \in 1..Len(ss) : j < k}
    BY <1>0, <1>5
  <2>2. {j \in 1..Len(srcs) : j + (1 + Len(ss)) <= k + 1} =
          {j \in 1..Len(srcs) : j + (1 + Len(ss)) <= k} \cup {k - Len(ss)}
    BY <1>0, <1>5
  <2> QED
    BY <2>1, <2>2 DEF BoundBy, SeenBy
<1> QED
  BY <1>1, <1>2, <1>3, <1>4, <1>5

LEMMA ImportProgresses ==
  ASSUME IInv, NEW w, IsTransaction(w), NEW v,
         NEW r \in Runs, NEW record \in Records, NEW origin \in Origins \cup {Null},
         NEW kind \in Kinds, NEW ss \in Seq(Sessions), NEW srcs \in Seq(Sources),
         \A i, j \in 1..Len(srcs) : srcs[i] = srcs[j] => i = j,
         NEW k \in 0..(Len(ss) + Len(srcs)),
         ImportProgress(w, r, record, origin, ss, srcs, kind, k),
         ~Raises(w, Import(r, record, origin, ss, srcs, kind)[k + 1]),
         SameTables(v, Execute(w, Import(r, record, origin, ss, srcs, kind)[k + 1]))
  PROVE  ImportProgress(v, r, record, origin, ss, srcs, kind, k + 1)
<1> DEFINE st == Import(r, record, origin, ss, srcs, kind)[k + 1]
           had == BoundBy(ss, k)
           has == BoundBy(ss, k + 1)
<1>0. Len(ss) \in Nat /\ Len(srcs) \in Nat /\ k + 1 > 0 /\ ~(k + 1 = 0)
  OBVIOUS
<1>1. /\ k > 0 => Joins(r, origin)
      /\ w.runs = IF k = 0 \/ r \in DOMAIN runs THEN runs ELSE UpsertRun(runs, r, record, origin)
      /\ \A s \in had : Bindable(w.runs, bindings, s, r)
      /\ w.bindings = [s \in DOMAIN bindings \cup had |->
                         IF s \in had THEN [run |-> r, current |-> TRUE] ELSE bindings[s]]
  BY DEF ImportProgress
<1>2. PICK q : /\ ListsRows(q, r, kind, SeenBy(ss, srcs, k))
               /\ Len(q) <= IF k > 1 + Len(ss) THEN k - (1 + Len(ss)) ELSE 0
               /\ w.events = events \o q
  BY DEF ImportProgress
<1>3. Len(q) \in Nat
  BY <1>2 DEF ListsRows
<1>4. ImportShape(Import(r, record, origin, ss, srcs, kind), r, record, origin, ss, srcs, kind)
  BY ImportStatements
<1>5. CASE k = 0
  <2>1. st = ImportStmt(r, record, origin)
    BY <1>5, <1>4 DEF ImportShape
  <2>2. /\ v.runs = IF r \in DOMAIN w.runs THEN w.runs ELSE UpsertRun(w.runs, r, record, origin)
        /\ v.bindings = w.bindings /\ v.events = w.events
    BY <2>1, ExecuteImport
  <2>3. w.runs = runs
    BY <1>1, <1>5
  <2>4. Joins(r, origin)
    BY <2>1, <2>3 DEF Raises, ImportStmt, Joins
  <2>5. had = {} /\ has = {} /\ SeenBy(ss, srcs, k + 1) = SeenBy(ss, srcs, k)
    BY <1>0, <1>5, ImportSets
  <2>6. Len(q) <= IF k + 1 > 1 + Len(ss) THEN (k + 1) - (1 + Len(ss)) ELSE 0
    BY <1>0, <1>2, <1>3, <1>5
  <2> HIDE DEF had, has
  <2>7. v.runs = IF k + 1 = 0 \/ r \in DOMAIN runs THEN runs ELSE UpsertRun(runs, r, record, origin)
    BY <1>0, <2>2, <2>3
  <2>8. v.bindings = [s \in DOMAIN bindings \cup has |->
                         IF s \in has THEN [run |-> r, current |-> TRUE] ELSE bindings[s]]
    BY <1>1, <2>2, <2>5
  <2>9. /\ ListsRows(q, r, kind, SeenBy(ss, srcs, k + 1)) /\ v.events = events \o q
    BY <1>2, <2>2, <2>5
  <2> QED
    BY <2>4, <2>5, <2>6, <2>7, <2>8, <2>9 DEF ImportProgress, has
<1>6. CASE k \in 1..Len(ss)
  <2> DEFINE s == ss[k]
  <2>1. st = BindStmt(s, r)
    BY <1>6, <1>4 DEF ImportShape
  <2>2. /\ v.runs = w.runs /\ v.bindings = BindSession(w.bindings, s, r)
        /\ v.events = w.events
    BY <2>1, ExecuteBind
  <2>3. Bindable(w.runs, w.bindings, s, r)
    BY <2>1 DEF Raises, BindStmt
  <2>4. has = had \cup {s} /\ SeenBy(ss, srcs, k + 1) = SeenBy(ss, srcs, k)
    <3>1. k <= Len(ss)
      BY <1>6
    <3> QED
      BY <1>6, <3>1, ImportSets
  <2>5. Len(q) <= IF k + 1 > 1 + Len(ss) THEN (k + 1) - (1 + Len(ss)) ELSE 0
    BY <1>0, <1>2, <1>3, <1>6
  <2>6. Joins(r, origin) /\ k # 0
    BY <1>1, <1>6
  <2> HIDE DEF had, has, s
  <2>7. Bindable(w.runs, bindings, s, r)
    <3>1. CASE s \in had
      BY <1>1, <3>1
    <3>2. CASE s \notin had
      BY <1>1, <2>3, <3>2 DEF Bindable
    <3> QED
      BY <3>1, <3>2
  <2>8. \A x \in has : Bindable(v.runs, bindings, x, r)
    BY <1>1, <2>2, <2>4, <2>7
  <2>9. v.bindings = [x \in DOMAIN bindings \cup has |->
                         IF x \in has THEN [run |-> r, current |-> TRUE] ELSE bindings[x]]
    BY <1>1, <2>2, <2>4 DEF BindSession, Upsert
  <2>10. v.runs = IF k + 1 = 0 \/ r \in DOMAIN runs THEN runs ELSE UpsertRun(runs, r, record, origin)
    BY <1>0, <1>1, <2>2, <2>6
  <2>11. ListsRows(q, r, kind, SeenBy(ss, srcs, k + 1)) /\ v.events = events \o q
    BY <1>2, <2>2, <2>4
  <2> QED
    BY <2>5, <2>6, <2>8, <2>9, <2>10, <2>11 DEF ImportProgress, has
<1>7. CASE k > Len(ss)
  <2> DEFINE src == srcs[k - Len(ss)]
  <2>0. k - Len(ss) \in 1..Len(srcs) /\ (k - Len(ss)) + (1 + Len(ss)) = k + 1
    BY <1>0, <1>7
  <2>1. st = EventStmt(r, kind, src)
    BY <2>0, <1>4 DEF ImportShape
  <2>2. /\ v.runs = w.runs /\ v.bindings = w.bindings
        /\ v.events = InsertEvent(w.events, Event(r, kind, src))
    BY <2>1, ExecuteEvent
  <2>3. has = had /\ SeenBy(ss, srcs, k + 1) = SeenBy(ss, srcs, k) \cup {src}
    BY <1>7, ImportSets
  <2>4. src \in Sources
    BY <2>0
  <2>5. src \notin SeenBy(ss, srcs, k)
    <3> SUFFICES ASSUME src \in SeenBy(ss, srcs, k) PROVE FALSE
      OBVIOUS
    <3>1. PICK i \in 1..Len(srcs) : i + (1 + Len(ss)) <= k /\ srcs[i] = src
      BY DEF SeenBy
    <3>2. i = k - Len(ss)
      BY <2>0, <3>1
    <3> QED
      BY <1>0, <2>0, <3>1, <3>2
  <2>6. events \in Seq(EventRow)
    BY DEF IInv, TypeOK, TablesOK
  <2>7. Joins(r, origin) /\ k # 0
    BY <1>0, <1>1, <1>7
  <2> HIDE DEF had, has, src
  <2>8. PICK q2 : /\ ListsRows(q2, r, kind, SeenBy(ss, srcs, k) \cup {src})
                  /\ InsertsRow(q, q2, r, kind, src)
    <3> DEFINE seen == SeenBy(ss, srcs, k)
    <3>1. ListsRows(q, r, kind, seen) /\ src \notin seen
      BY <1>2, <2>5
    <3> HIDE DEF seen
    <3>2. \E q2 : /\ ListsRows(q2, r, kind, seen \cup {src})
                  /\ InsertsRow(q, q2, r, kind, src)
      BY <2>4, <2>6, <3>1, RowsStep
    <3> QED
      BY <3>2 DEF seen
  <2>9. Len(q2) \in Nat
    BY <2>8 DEF ListsRows
  <2>10. Len(q2) <= IF k + 1 > 1 + Len(ss) THEN (k + 1) - (1 + Len(ss)) ELSE 0
    BY <1>0, <1>2, <1>3, <1>7, <2>8, <2>9 DEF InsertsRow
  <2>11. v.events = events \o q2 /\ ListsRows(q2, r, kind, SeenBy(ss, srcs, k + 1))
    BY <1>2, <2>2, <2>3, <2>8 DEF InsertsRow
  <2>12. v.runs = IF k + 1 = 0 \/ r \in DOMAIN runs THEN runs ELSE UpsertRun(runs, r, record, origin)
    BY <1>0, <1>1, <2>2, <2>7
  <2>13. \A s \in has : Bindable(v.runs, bindings, s, r)
    BY <1>1, <2>2, <2>3
  <2>14. v.bindings = [s \in DOMAIN bindings \cup has |->
                         IF s \in has THEN [run |-> r, current |-> TRUE] ELSE bindings[s]]
    BY <1>1, <2>2, <2>3
  <2> QED
    BY <2>7, <2>10, <2>11, <2>12, <2>13, <2>14 DEF ImportProgress, has
<1> QED
  BY <1>0, <1>5, <1>6, <1>7

-----------------------------------------------------------------------------
(***************************************************************************)
(* The invariant of the refinement.  t is the version of a transaction     *)
(* that has done k of the statements stmts.                                *)
(***************************************************************************)
DoesSave(t, stmts, k) ==
  \E r \in Runs, record \in Records : \E n \in 0..2 : \E kinds \in [1..n -> Kinds] :
    stmts = Save(r, record, kinds) /\ SaveProgress(t, r, record, kinds, k)

DoesBind(t, stmts, k) ==
  \E s \in Sessions, r \in Runs : stmts = <<BindStmt(s, r)>> /\ BindProgress(t, s, r, k)

DoesRotate(t, stmts, k) ==
  \E old, new \in Sessions :
    /\ old \in DOMAIN bindings
    /\ stmts = Rotate(old, new)
    /\ RotateProgress(t, old, new, k)

DoesNothing(t, stmts, k) ==
  stmts = <<>> /\ t.runs = runs /\ t.bindings = bindings /\ t.events = events

DoesAppend(t, stmts, k) ==
  \E r \in Runs, kind \in Kinds, source \in Sources \cup {Null} :
    stmts = Append1(r, kind, source) /\ AppendProgress(t, r, kind, source, k)

DoesImport(t, stmts, k) ==
  \E r \in Runs, record \in Records, origin \in Origins \cup {Null}, kind \in Kinds :
    \E ss \in Seq(Sessions), srcs \in Seq(Sources) :
      /\ \A i, j \in 1..Len(srcs) : srcs[i] = srcs[j] => i = j
      /\ stmts = Import(r, record, origin, ss, srcs, kind)
      /\ ImportProgress(t, r, record, origin, ss, srcs, kind, k)

Operation(t, stmts, k) ==
  \/ DoesSave(t, stmts, k)
  \/ DoesBind(t, stmts, k)
  \/ DoesRotate(t, stmts, k)
  \/ DoesNothing(t, stmts, k)
  \/ DoesAppend(t, stmts, k)
  \/ DoesImport(t, stmts, k)

InProgress(t) ==
  \E stmts \in Seq(Stmt) : \E k \in 0..Len(stmts) :
    /\ t.todo = SubSeq(stmts, k + 1, Len(stmts))
    /\ Len(events) + EventCount(stmts) <= MaxEvents
    /\ Operation(t, stmts, k)

OperationsInProgress ==
  \A c \in Connections : tx[c] # Null => \E t : t = tx[c] /\ InProgress(t)

RInv == IInv /\ OperationsInProgress

\* The progress of a transaction depends on nothing but itself and the
\* committed tables.
LEMMA ProgressKept ==
  ASSUME NEW t, NEW stmts, NEW k, Operation(t, stmts, k),
         UNCHANGED <<runs, bindings, events>>
  PROVE  Operation(t, stmts, k)'
<1>1. CASE DoesSave(t, stmts, k)
  <2>1. DoesSave(t, stmts, k)'
    BY <1>1 DEF DoesSave, SaveProgress
  <2> QED
    BY <2>1 DEF Operation
<1>2. CASE DoesBind(t, stmts, k)
  <2>1. DoesBind(t, stmts, k)'
    BY <1>2 DEF DoesBind, BindProgress
  <2> QED
    BY <2>1 DEF Operation
<1>3. CASE DoesRotate(t, stmts, k)
  <2>1. DoesRotate(t, stmts, k)'
    BY <1>3 DEF DoesRotate, RotateProgress, Rotate
  <2> QED
    BY <2>1 DEF Operation
<1>4. CASE DoesNothing(t, stmts, k)
  <2>1. DoesNothing(t, stmts, k)'
    BY <1>4 DEF DoesNothing
  <2> QED
    BY <2>1 DEF Operation
<1>5. CASE DoesAppend(t, stmts, k)
  <2>1. DoesAppend(t, stmts, k)'
    BY <1>5 DEF DoesAppend, AppendProgress
  <2> QED
    BY <2>1 DEF Operation
<1>6. CASE DoesImport(t, stmts, k)
  <2>1. PICK r \in Runs, record \in Records, origin \in Origins \cup {Null}, kind \in Kinds :
        \E ss \in Seq(Sessions), srcs \in Seq(Sources) :
          /\ \A i, j \in 1..Len(srcs) : srcs[i] = srcs[j] => i = j
          /\ stmts = Import(r, record, origin, ss, srcs, kind)
          /\ ImportProgress(t, r, record, origin, ss, srcs, kind, k)
    BY <1>6 DEF DoesImport
  <2>2. PICK ss \in Seq(Sessions), srcs \in Seq(Sources) :
          /\ \A i, j \in 1..Len(srcs) : srcs[i] = srcs[j] => i = j
          /\ stmts = Import(r, record, origin, ss, srcs, kind)
          /\ ImportProgress(t, r, record, origin, ss, srcs, kind, k)
    BY <2>1
  <2>3. ASSUME NEW q, NEW seen, ListsRows(q, r, kind, seen)
        PROVE  ListsRows(q, r, kind, seen)'
    <3>1. Recorded(events, r)' = Recorded(events, r)
      BY DEF Recorded
    <3>2. NewRows(r, kind, seen)' = NewRows(r, kind, seen)
      BY <3>1 DEF NewRows
    <3> QED
      BY <2>3, <3>2 DEF ListsRows
  <2>4. ImportProgress(t, r, record, origin, ss, srcs, kind, k)'
    BY <2>2, <2>3 DEF ImportProgress, Joins
  <2>5. DoesImport(t, stmts, k)'
    BY <2>2, <2>4 DEF DoesImport
  <2> QED
    BY <2>5 DEF Operation
<1> QED
  BY <1>1, <1>2, <1>3, <1>4, <1>5, <1>6 DEF Operation

LEMMA InitRInv == Init => RInv
<1>1. Init => OperationsInProgress
  BY DEF Init, OperationsInProgress
<1> QED
  BY <1>1, InitIInv DEF RInv

-----------------------------------------------------------------------------
(***************************************************************************)
(* The invariant is inductive.                                             *)
(***************************************************************************)
\* The version of a transaction that has just begun.
JustBegun(t) == t.runs = runs /\ t.bindings = bindings /\ t.events = events

\* An enumeration of a finite set lists its elements once.
LEMMA EnumerationIsInjective ==
  ASSUME NEW T, IsFiniteSet(T), NEW q \in UNION {SetToSeqs(S) : S \in SUBSET T}
  PROVE  q \in Seq(T) /\ \A i, j \in 1..Len(q) : q[i] = q[j] => i = j
<1>1. PICK S \in SUBSET T : q \in SetToSeqs(S)
  OBVIOUS
<1>2. q \in Seq(T)
  BY <1>1, EnumerationIsSeq
<1>3. Cardinality(S) \in Nat
  BY FS_Subset, FS_CardinalityType
<1>4. q \in [1..Cardinality(S) -> S] /\ \A i, j \in 1..Cardinality(S) : i # j => q[i] # q[j]
  BY <1>1 DEF SetToSeqs
<1>5. Len(q) = Cardinality(S)
  BY <1>3, <1>4
<1> QED
  BY <1>2, <1>4, <1>5

LEMMA EventsKept ==
  ASSUME IInv
  PROVE  events \in Seq(EventRow) /\ events \o <<>> = events
BY DEF IInv, TypeOK, TablesOK

\* Before its first statement an operation has made no progress.
LEMMA SaveBegins ==
  ASSUME IInv, NEW t, JustBegun(t), NEW r, NEW record, NEW kinds
  PROVE  SaveProgress(t, r, record, kinds, 0)
<1>1. SavedRows(r, kinds, 0) = <<>>
  BY DEF SavedRows
<1> QED
  BY <1>1, EventsKept DEF SaveProgress, JustBegun

LEMMA ImportBegins ==
  ASSUME IInv, NEW t, JustBegun(t), NEW r, NEW record, NEW origin, NEW kind,
         NEW ss \in Seq(Sessions), NEW srcs \in Seq(Sources)
  PROVE  ImportProgress(t, r, record, origin, ss, srcs, kind, 0)
<1>1. 0 \in 0..(Len(ss) + Len(srcs)) /\ ~(0 > 1 + Len(ss))
  OBVIOUS
<1>2. BoundBy(ss, 0) = {} /\ SeenBy(ss, srcs, 0) = {}
  BY <1>1, ImportSets
<1>3. ListsRows(<<>>, r, kind, {}) /\ Len(<<>>) = 0
  BY DEF ListsRows, NewRows
<1>4. t.bindings = [s \in DOMAIN bindings \cup {} |->
                      IF s \in {} THEN [run |-> r, current |-> TRUE] ELSE bindings[s]]
  BY DEF JustBegun, IInv, TypeOK, TablesOK
<1>5. \E q : /\ ListsRows(q, r, kind, {})
             /\ Len(q) <= 0
             /\ t.events = events \o q
  BY <1>3, EventsKept DEF JustBegun
<1>6. \A s \in BoundBy(ss, 0) : Bindable(t.runs, bindings, s, r)
  BY <1>2
<1>7. t.bindings = [s \in DOMAIN bindings \cup BoundBy(ss, 0) |->
                      IF s \in BoundBy(ss, 0) THEN [run |-> r, current |-> TRUE] ELSE bindings[s]]
  BY <1>2, <1>4
<1>8. \E q : /\ ListsRows(q, r, kind, SeenBy(ss, srcs, 0))
             /\ Len(q) <= IF 0 > 1 + Len(ss) THEN 0 - (1 + Len(ss)) ELSE 0
             /\ t.events = events \o q
  BY <1>1, <1>2, <1>5
<1>9. t.runs = runs /\ ~(0 > 0)
  BY DEF JustBegun
<1> QED
  BY <1>6, <1>7, <1>8, <1>9 DEF ImportProgress

LEMMA CallOperation ==
  ASSUME IInv, NEW c \in Connections, Call(c), NEW t, JustBegun(t)
  PROVE  \E stmts \in Seq(Stmt) : Begin(c, stmts) /\ Operation(t, stmts, 0)
<1>1. CASE \E r \in Runs, record \in Records, kinds \in UNION {[1..n -> Kinds] : n \in 0..2} :
             Begin(c, Save(r, record, kinds))
  <2>1. PICK r \in Runs, record \in Records, kinds \in UNION {[1..n -> Kinds] : n \in 0..2} :
          Begin(c, Save(r, record, kinds))
    BY <1>1
  <2>2. PICK n \in 0..2 : kinds \in [1..n -> Kinds]
    OBVIOUS
  <2>3. Save(r, record, kinds) \in Seq(Stmt)
    BY <2>2, OperationTypes
  <2>4. SaveProgress(t, r, record, kinds, 0)
    BY SaveBegins
  <2>5. DoesSave(t, Save(r, record, kinds), 0)
    BY <2>2, <2>4 DEF DoesSave
  <2> QED
    BY <2>1, <2>3, <2>5 DEF Operation
<1>2. CASE \E s \in Sessions, r \in Runs : Begin(c, <<BindStmt(s, r)>>)
  <2>1. PICK s \in Sessions, r \in Runs : Begin(c, <<BindStmt(s, r)>>)
    BY <1>2
  <2>2. <<BindStmt(s, r)>> \in Seq(Stmt)
    BY DEF BindStmt, Stmt
  <2>3. BindProgress(t, s, r, 0)
    BY DEF BindProgress, JustBegun
  <2>4. DoesBind(t, <<BindStmt(s, r)>>, 0)
    BY <2>3 DEF DoesBind
  <2> QED
    BY <2>1, <2>2, <2>4 DEF Operation
<1>3. CASE \E old, new \in Sessions : Begin(c, Rotate(old, new))
  <2>1. PICK old \in Sessions, new \in Sessions : Begin(c, Rotate(old, new))
    BY <1>3
  <2>2. CASE old \in DOMAIN bindings
    <3>1. bindings[old].run \in Runs
      BY <2>2 DEF IInv, TypeOK, TablesOK, BindingRow
    <3>2. DemoteStmt(old) \in Stmt /\ BindStmt(new, bindings[old].run) \in Stmt
      BY <3>1 DEF DemoteStmt, BindStmt, Stmt
    <3>3. Rotate(old, new) \in Seq(Stmt)
      BY <2>2, <3>2 DEF Rotate
    <3>4. RotateProgress(t, old, new, 0)
      BY DEF RotateProgress, JustBegun
    <3>5. DoesRotate(t, Rotate(old, new), 0)
      BY <2>2, <3>4 DEF DoesRotate
    <3> QED
      BY <2>1, <3>3, <3>5 DEF Operation
  <2>3. CASE old \notin DOMAIN bindings
    <3>1. Rotate(old, new) = <<>> /\ <<>> \in Seq(Stmt)
      BY <2>3 DEF Rotate
    <3>2. DoesNothing(t, <<>>, 0)
      BY DEF DoesNothing, JustBegun
    <3> QED
      BY <2>1, <3>1, <3>2 DEF Operation
  <2> QED
    BY <2>2, <2>3
<1>4. CASE \E r \in Runs, kind \in Kinds, source \in Sources \cup {Null} :
             Begin(c, Append1(r, kind, source))
  <2>1. PICK r \in Runs, kind \in Kinds, source \in Sources \cup {Null} :
          Begin(c, Append1(r, kind, source))
    BY <1>4
  <2>2. Event(r, kind, source) \in EventRow
    BY DEF Event, EventRow
  <2>3. RequireStmt(r) \in Stmt /\ EventStmt(r, kind, source) \in Stmt
    BY <2>2 DEF RequireStmt, EventStmt, Stmt
  <2>4. Append1(r, kind, source) \in Seq(Stmt)
    BY <2>3 DEF Append1
  <2>5. AppendProgress(t, r, kind, source, 0)
    BY DEF AppendProgress, JustBegun
  <2>6. DoesAppend(t, Append1(r, kind, source), 0)
    BY <2>5 DEF DoesAppend
  <2> QED
    BY <2>1, <2>4, <2>6 DEF Operation
<1>5. CASE \E r \in Runs, record \in Records, origin \in Origins \cup {Null}, kind \in Kinds :
             \E ss \in UNION {SetToSeqs(S) : S \in SUBSET Sessions},
                srcs \in UNION {SetToSeqs(S) : S \in SUBSET Sources} :
               Begin(c, Import(r, record, origin, ss, srcs, kind))
  <2>1. PICK r \in Runs, record \in Records, origin \in Origins \cup {Null}, kind \in Kinds :
             \E ss \in UNION {SetToSeqs(S) : S \in SUBSET Sessions},
                srcs \in UNION {SetToSeqs(S) : S \in SUBSET Sources} :
               Begin(c, Import(r, record, origin, ss, srcs, kind))
    BY <1>5
  <2>2. PICK ss \in UNION {SetToSeqs(S) : S \in SUBSET Sessions},
             srcs \in UNION {SetToSeqs(S) : S \in SUBSET Sources} :
               Begin(c, Import(r, record, origin, ss, srcs, kind))
    BY <2>1
  <2>3. ss \in Seq(Sessions)
    BY EnumerationIsInjective, SessionsAssumption
  <2>4. srcs \in Seq(Sources) /\ \A i, j \in 1..Len(srcs) : srcs[i] = srcs[j] => i = j
    BY EnumerationIsInjective, SourcesAssumption
  <2>5. Import(r, record, origin, ss, srcs, kind) \in Seq(Stmt)
    BY <2>3, <2>4, OperationTypes
  <2>6. ImportProgress(t, r, record, origin, ss, srcs, kind, 0)
    BY <2>3, <2>4, ImportBegins
  <2>7. DoesImport(t, Import(r, record, origin, ss, srcs, kind), 0)
    BY <2>3, <2>4, <2>6 DEF DoesImport
  <2> QED
    BY <2>2, <2>5, <2>7 DEF Operation
<1> QED
  BY <1>1, <1>2, <1>3, <1>4, <1>5 DEF Call

LEMMA CallRInv ==
  ASSUME RInv, NEW c \in Connections, Call(c)
  PROVE  RInv'
<1>1. IInv
  BY DEF RInv
<1>2. IInv'
  BY <1>1, CallBegins, BeginStep
<1>3. ASSUME NEW stmts \in Seq(Stmt), Begin(c, stmts)
      PROVE  /\ UNCHANGED <<runs, bindings, events>>
             /\ tx'[c] = [todo |-> stmts, runs |-> runs, bindings |-> bindings, events |-> events]
             /\ \A d \in Connections \ {c} : tx'[d] = Null
             /\ Len(events) + EventCount(stmts) <= MaxEvents
  BY <1>1, <1>3, ConnectionsAssumption
     DEF IInv, Transactions, OneWriter, Begin, tables, EventCount
<1>4. PICK t : t = tx'[c]
  OBVIOUS
<1>5. JustBegun(t)
  <2>1. PICK stmts \in Seq(Stmt) : Begin(c, stmts)
    BY <1>1, CallBegins
  <2>2. t = [todo |-> stmts, runs |-> runs, bindings |-> bindings, events |-> events]
    BY <1>3, <1>4, <2>1
  <2> QED
    BY <2>2 DEF JustBegun
<1>6. PICK stmts \in Seq(Stmt) : Begin(c, stmts) /\ Operation(t, stmts, 0)
  BY <1>1, <1>5, CallOperation
<1>7. Operation(t, stmts, 0)'
  BY <1>3, <1>6, ProgressKept
<1>8. 0 \in 0..Len(stmts) /\ t.todo = SubSeq(stmts, 0 + 1, Len(stmts))
  <2>1. t = [todo |-> stmts, runs |-> runs, bindings |-> bindings, events |-> events]
    BY <1>3, <1>4, <1>6
  <2>2. stmts = SubSeq(stmts, 1, Len(stmts)) /\ Len(stmts) \in Nat
    BY SubSeqFull
  <2> QED
    BY <2>1, <2>2
<1>9. InProgress(t)'
  BY <1>3, <1>6, <1>7, <1>8 DEF InProgress
<1>10. OperationsInProgress'
  BY <1>3, <1>4, <1>6, <1>9 DEF OperationsInProgress
<1> QED
  BY <1>2, <1>10 DEF RInv

LEMMA StatementOperation ==
  ASSUME IInv, NEW w, IsTransaction(w), NEW v, NEW stmts \in Seq(Stmt),
         NEW k \in 0..Len(stmts), k < Len(stmts), Operation(w, stmts, k),
         ~Raises(w, stmts[k + 1]), SameTables(v, Execute(w, stmts[k + 1]))
  PROVE  Operation(v, stmts, k + 1)
<1>1. CASE DoesSave(w, stmts, k)
  <2>1. PICK r \in Runs, record \in Records : \E n \in 0..2 : \E kinds \in [1..n -> Kinds] :
          stmts = Save(r, record, kinds) /\ SaveProgress(w, r, record, kinds, k)
    BY <1>1 DEF DoesSave
  <2>2. PICK n \in 0..2 : \E kinds \in [1..n -> Kinds] :
          stmts = Save(r, record, kinds) /\ SaveProgress(w, r, record, kinds, k)
    BY <2>1
  <2>3. PICK kinds \in [1..n -> Kinds] :
          stmts = Save(r, record, kinds) /\ SaveProgress(w, r, record, kinds, k)
    BY <2>2
  <2>4. n \in Nat
    OBVIOUS
  <2>5. Len(stmts) = 1 + n
    BY <2>3, <2>4, SaveStatements
  <2>6. k \in 0..n
    BY <2>4, <2>5
  <2>7. SaveProgress(v, r, record, kinds, k + 1)
    BY <2>3, <2>4, <2>6, SaveProgresses
  <2>8. DoesSave(v, stmts, k + 1)
    BY <2>3, <2>7 DEF DoesSave
  <2> QED
    BY <2>8 DEF Operation
<1>2. CASE DoesBind(w, stmts, k)
  <2>1. PICK s \in Sessions, r \in Runs : stmts = <<BindStmt(s, r)>> /\ BindProgress(w, s, r, k)
    BY <1>2 DEF DoesBind
  <2>2. k = 0 /\ stmts[k + 1] = BindStmt(s, r)
    BY <2>1
  <2>3. BindProgress(v, s, r, 1)
    BY <2>1, <2>2, BindProgresses
  <2>4. DoesBind(v, stmts, k + 1)
    BY <2>1, <2>2, <2>3 DEF DoesBind
  <2> QED
    BY <2>4 DEF Operation
<1>3. CASE DoesRotate(w, stmts, k)
  <2>1. PICK old \in Sessions, new \in Sessions :
          old \in DOMAIN bindings /\ stmts = Rotate(old, new) /\ RotateProgress(w, old, new, k)
    BY <1>3 DEF DoesRotate
  <2>2. Len(stmts) = 2
    BY <2>1 DEF Rotate
  <2>3. k \in 0..1
    BY <2>2
  <2>4. RotateProgress(v, old, new, k + 1)
    BY <2>1, <2>3, RotateProgresses
  <2>5. DoesRotate(v, stmts, k + 1)
    BY <2>1, <2>4 DEF DoesRotate
  <2> QED
    BY <2>5 DEF Operation
<1>4. CASE DoesNothing(w, stmts, k)
  BY <1>4 DEF DoesNothing
<1>5. CASE DoesAppend(w, stmts, k)
  <2>1. PICK r \in Runs, kind \in Kinds, source \in Sources \cup {Null} :
          stmts = Append1(r, kind, source) /\ AppendProgress(w, r, kind, source, k)
    BY <1>5 DEF DoesAppend
  <2>2. Len(stmts) = 2
    BY <2>1 DEF Append1
  <2>3. k \in 0..1
    BY <2>2
  <2>4. AppendProgress(v, r, kind, source, k + 1)
    BY <2>1, <2>3, AppendProgresses
  <2>5. DoesAppend(v, stmts, k + 1)
    BY <2>1, <2>4 DEF DoesAppend
  <2> QED
    BY <2>5 DEF Operation
<1>6. CASE DoesImport(w, stmts, k)
  <2>1. PICK r \in Runs, record \in Records, origin \in Origins \cup {Null}, kind \in Kinds :
        \E ss \in Seq(Sessions), srcs \in Seq(Sources) :
          /\ \A i, j \in 1..Len(srcs) : srcs[i] = srcs[j] => i = j
          /\ stmts = Import(r, record, origin, ss, srcs, kind)
          /\ ImportProgress(w, r, record, origin, ss, srcs, kind, k)
    BY <1>6 DEF DoesImport
  <2>2. PICK ss \in Seq(Sessions), srcs \in Seq(Sources) :
          /\ \A i, j \in 1..Len(srcs) : srcs[i] = srcs[j] => i = j
          /\ stmts = Import(r, record, origin, ss, srcs, kind)
          /\ ImportProgress(w, r, record, origin, ss, srcs, kind, k)
    BY <2>1
  <2>3. ImportShape(stmts, r, record, origin, ss, srcs, kind)
    BY <2>2, ImportStatements
  <2>4. k \in 0..(Len(ss) + Len(srcs))
    <3>1. Len(stmts) = (1 + Len(ss)) + Len(srcs)
      BY <2>3 DEF ImportShape
    <3> QED
      BY <3>1
  <2>5. /\ ~Raises(w, Import(r, record, origin, ss, srcs, kind)[k + 1])
        /\ SameTables(v, Execute(w, Import(r, record, origin, ss, srcs, kind)[k + 1]))
    BY <2>2
  <2>6. ImportProgress(v, r, record, origin, ss, srcs, kind, k + 1)
    BY <2>2, <2>4, <2>5, ImportProgresses
  <2>7. DoesImport(v, stmts, k + 1)
    BY <2>2, <2>6 DEF DoesImport
  <2> QED
    BY <2>7 DEF Operation
<1> QED
  BY <1>1, <1>2, <1>3, <1>4, <1>5, <1>6 DEF Operation

LEMMA StatementRInv ==
  ASSUME RInv, NEW c \in Connections, Statement(c)
  PROVE  RInv'
<1>0. IInv /\ IInv'
  BY StatementStep DEF RInv
<1>1. PICK w : w = tx[c]
  OBVIOUS
<1>2. PICK v : v = [Execute(w, Head(w.todo)) EXCEPT !.todo = Tail(w.todo)]
  OBVIOUS
<1>3. /\ w # Null /\ w.todo # <<>> /\ ~Raises(w, Head(w.todo))
      /\ tx' = [tx EXCEPT ![c] = v]
      /\ UNCHANGED <<runs, bindings, events, lock>>
  BY <1>1, <1>2 DEF Statement
<1>4. tx'[c] = v /\ \A d \in Connections \ {c} : tx'[d] = tx[d] /\ tx[d] = Null
  BY <1>0, <1>1, <1>3 DEF IInv, Transactions, OneWriter
<1>5. IsTransaction(w) /\ Head(w.todo) \in Stmt
  <2>1. IsTransaction(w)
    BY <1>0, <1>1, <1>3 DEF IInv, Transactions
  <2> QED
    BY <1>3, <2>1 DEF IsTransaction
<1>6. IsTransaction(Execute(w, Head(w.todo)))
  BY <1>5, ExecuteExtends
<1>7. v.todo = Tail(w.todo) /\ SameTables(v, Execute(w, Head(w.todo)))
  BY <1>2, <1>6 DEF IsTransaction, SameTables
<1>8. InProgress(w)
  BY <1>1, <1>3 DEF RInv, OperationsInProgress
<1>9. PICK stmts \in Seq(Stmt) : \E k \in 0..Len(stmts) :
        /\ w.todo = SubSeq(stmts, k + 1, Len(stmts))
        /\ Len(events) + EventCount(stmts) <= MaxEvents
        /\ Operation(w, stmts, k)
  BY <1>8 DEF InProgress
<1>10. PICK k \in 0..Len(stmts) :
        /\ w.todo = SubSeq(stmts, k + 1, Len(stmts))
        /\ Len(events) + EventCount(stmts) <= MaxEvents
        /\ Operation(w, stmts, k)
  BY <1>9
<1>11. k < Len(stmts) /\ Head(w.todo) = stmts[k + 1] /\ Tail(w.todo) = SubSeq(stmts, k + 2, Len(stmts))
  BY <1>3, <1>10, SuffixStep
<1>12. Operation(v, stmts, k + 1)
  BY <1>0, <1>3, <1>5, <1>7, <1>10, <1>11, StatementOperation
<1>13. Operation(v, stmts, k + 1)'
  BY <1>3, <1>12, ProgressKept
<1>14. k + 1 \in 0..Len(stmts) /\ (k + 1) + 1 = k + 2
  BY <1>11
<1>15. InProgress(v)'
  BY <1>3, <1>7, <1>10, <1>11, <1>13, <1>14 DEF InProgress
<1>16. OperationsInProgress'
  BY <1>4, <1>15 DEF OperationsInProgress
<1> QED
  BY <1>0, <1>16 DEF RInv

LEMMA NextRInv == RInv /\ [Next]_vars => RInv'
<1> SUFFICES ASSUME RInv, [Next]_vars PROVE RInv'
  OBVIOUS
<1>1. IInv /\ IInv'
  BY NextIInv DEF RInv
<1>2. CASE UNCHANGED vars
  <2>1. ASSUME NEW t, InProgress(t) PROVE InProgress(t)'
    <3>1. UNCHANGED <<runs, bindings, events>>
      BY <1>2 DEF vars
    <3> QED
      BY <2>1, <3>1, ProgressKept DEF InProgress
  <2>2. OperationsInProgress'
    BY <1>2, <2>1 DEF vars, RInv, OperationsInProgress
  <2> QED
    BY <1>1, <2>2 DEF RInv
<1>3. ASSUME NEW c \in Connections, Call(c) PROVE RInv'
  BY <1>3, CallRInv
<1>4. ASSUME NEW c \in Connections, Statement(c) PROVE RInv'
  BY <1>4, StatementRInv
<1>5. ASSUME NEW c \in Connections, Commit(c) \/ Rollback(c) \/ Crash(c) PROVE RInv'
  <2>1. tx[c] # Null /\ tx' = [tx EXCEPT ![c] = Null]
    BY <1>5 DEF Commit, Rollback, Crash
  <2>2. \A d \in Connections : tx'[d] = Null
    BY <1>1, <2>1 DEF IInv, Transactions, OneWriter
  <2> QED
    BY <1>1, <2>2 DEF RInv, OperationsInProgress
<1> QED
  BY <1>2, <1>3, <1>4, <1>5 DEF Next

LEMMA RefinementInvariant == Spec => []RInv
<1> QED
  BY InitRInv, NextRInv, PTL DEF Spec

-----------------------------------------------------------------------------
(***************************************************************************)
(* Committing is a step of SupergoalStore.                                 *)
(***************************************************************************)
LEMMA SameOperators ==
  /\ \A rs, r, record, origin : Store!UpsertRun(rs, r, record, origin) = UpsertRun(rs, r, record, origin)
  /\ \A rs, bs, s, r : Store!Bindable(rs, bs, s, r) = Bindable(rs, bs, s, r)
  /\ \A bs, s, r : Store!BindSession(bs, s, r) = BindSession(bs, s, r)
  /\ \A bs, s : Store!Demote(bs, s) = Demote(bs, s)
  /\ \A r, kind, source : Store!Event(r, kind, source) = Event(r, kind, source)
  /\ \A es, r : Store!Recorded(es, r) = Recorded(es, r)
  /\ \A es, e : Store!InsertEvent(es, e) = InsertEvent(es, e)
<1>1. \A rs, r, record, origin : Store!UpsertRun(rs, r, record, origin) = UpsertRun(rs, r, record, origin)
  BY DEF Store!UpsertRun, Store!Upsert, Store!Coalesce, UpsertRun, Upsert, Coalesce
<1>2. \A rs, bs, s, r : Store!Bindable(rs, bs, s, r) = Bindable(rs, bs, s, r)
  BY DEF Store!Bindable, Bindable
<1>3. \A bs, s, r : Store!BindSession(bs, s, r) = BindSession(bs, s, r)
  BY DEF Store!BindSession, Store!Upsert, BindSession, Upsert
<1>4. \A bs, s : Store!Demote(bs, s) = Demote(bs, s)
  BY DEF Store!Demote, Demote
<1>5. \A r, kind, source : Store!Event(r, kind, source) = Event(r, kind, source)
  BY DEF Store!Event, Event
<1>6. \A es, r : Store!Recorded(es, r) = Recorded(es, r)
  BY DEF Store!Recorded, Recorded
<1>7. \A es, e : Store!InsertEvent(es, e) = InsertEvent(es, e)
  BY <1>6 DEF Store!InsertEvent, InsertEvent
<1> QED
  BY <1>1, <1>2, <1>3, <1>4, <1>5, <1>6, <1>7

Publishes(t) == runs' = t.runs /\ bindings' = t.bindings /\ events' = t.events

LEMMA CommitSave ==
  ASSUME NEW t, Publishes(t), NEW r \in Runs, NEW record \in Records,
         NEW n \in 0..2, NEW kinds \in [1..n -> Kinds], NEW k, k = 1 + n,
         SaveProgress(t, r, record, kinds, k), Len(events) + n <= MaxEvents
  PROVE  Store!Next
<1>1. Len(kinds) = n /\ ~(k = 0) /\ k - 1 = n
  OBVIOUS
<1>2. /\ bindings' = bindings
      /\ runs' = UpsertRun(runs, r, record, Null)
      /\ events' = events \o SavedRows(r, kinds, n)
  BY <1>1 DEF SaveProgress, Publishes
<1>3. Store!Unkeyed(r, kinds) = SavedRows(r, kinds, n)
  BY <1>1, SameOperators DEF Store!Unkeyed, SavedRows
<1>4. Store!SaveRunWithEvents(r, record, kinds)
  BY <1>1, <1>2, <1>3, SameOperators DEF Store!SaveRunWithEvents
<1>5. kinds \in UNION {[1..m -> Kinds] : m \in 0..2}
  OBVIOUS
<1> QED
  BY <1>4, <1>5 DEF Store!Next

LEMMA CommitBind ==
  ASSUME NEW t, Publishes(t), NEW s \in Sessions, NEW r \in Runs, BindProgress(t, s, r, 1)
  PROVE  Store!Next
<1>1. Store!Bind(s, r)
  BY SameOperators DEF BindProgress, Publishes, Store!Bind
<1> QED
  BY <1>1 DEF Store!Next

LEMMA CommitRotate ==
  ASSUME NEW t, Publishes(t), NEW old \in Sessions, NEW new \in Sessions,
         old \in DOMAIN bindings, RotateProgress(t, old, new, 2)
  PROVE  Store!Next
<1>1. Store!RotateSessionBinding(old, new)
  BY SameOperators DEF RotateProgress, Publishes, Store!RotateSessionBinding
<1> QED
  BY <1>1 DEF Store!Next

LEMMA CommitAppend ==
  ASSUME NEW t, Publishes(t), NEW r \in Runs, NEW kind \in Kinds,
         NEW source \in Sources \cup {Null}, AppendProgress(t, r, kind, source, 2),
         Len(events) < MaxEvents
  PROVE  Store!Next
<1>1. Store!AppendEvent(r, kind, source)
  BY SameOperators DEF AppendProgress, Publishes, Store!AppendEvent
<1> QED
  BY <1>1 DEF Store!Next

\* A sequence without repetitions enumerates the set of its elements.
LEMMA ListEnumerates ==
  ASSUME NEW T, NEW q \in Seq(T), NEW S, {q[i] : i \in 1..Len(q)} = S,
         \A i, j \in 1..Len(q) : q[i] = q[j] => i = j
  PROVE  q \in SetToSeqs(S)
<1>1. q \in [1..Len(q) -> S] /\ Len(q) \in Nat
  OBVIOUS
<1>2. q \in Bijection(1..Len(q), S)
  <2>1. q \in Injection(1..Len(q), S)
    BY <1>1 DEF Injection, IsInjective
  <2>2. \A x \in S : \E i \in 1..Len(q) : q[i] = x
    OBVIOUS
  <2>3. q \in Surjection(1..Len(q), S)
    BY <1>1, <2>2 DEF Surjection
  <2> QED
    BY <2>1, <2>3 DEF Bijection
<1>3. Cardinality(S) = Len(q)
  BY <1>1, <1>2, FS_CountingElements DEF ExistsBijection
<1> QED
  BY <1>1, <1>3 DEF SetToSeqs

LEMMA CommitImport ==
  ASSUME NEW t, Publishes(t), NEW r \in Runs, NEW record \in Records,
         NEW origin \in Origins \cup {Null}, NEW kind \in Kinds,
         NEW ss \in Seq(Sessions), NEW srcs \in Seq(Sources),
         NEW k, k = (1 + Len(ss)) + Len(srcs),
         ImportProgress(t, r, record, origin, ss, srcs, kind, k),
         events \in Seq(EventRow), Len(events) + Len(srcs) <= MaxEvents
  PROVE  Store!Next
<1> DEFINE bound == BoundBy(ss, k)
           seen == SeenBy(ss, srcs, k)
           bundle == [src \in seen |-> kind]
<1>0. Len(ss) \in Nat /\ Len(srcs) \in Nat /\ k > 0 /\ ~(k = 0)
      /\ (k > 1 + Len(ss) => k - (1 + Len(ss)) = Len(srcs))
  OBVIOUS
<1>1. bound \subseteq Sessions /\ seen \subseteq Sources
  BY DEF BoundBy, SeenBy
<1>2. /\ Joins(r, origin)
      /\ t.runs = IF r \in DOMAIN runs THEN runs ELSE UpsertRun(runs, r, record, origin)
      /\ \A s \in bound : Bindable(t.runs, bindings, s, r)
      /\ t.bindings = [s \in DOMAIN bindings \cup bound |->
                         IF s \in bound THEN [run |-> r, current |-> TRUE] ELSE bindings[s]]
  BY <1>0 DEF ImportProgress
<1>3. PICK q : /\ ListsRows(q, r, kind, seen)
               /\ Len(q) <= IF k > 1 + Len(ss) THEN k - (1 + Len(ss)) ELSE 0
               /\ t.events = events \o q
  BY DEF ImportProgress
<1>4. Len(q) \in Nat /\ Len(q) <= Len(srcs)
  BY <1>0, <1>3 DEF ListsRows
<1> HIDE DEF bound, seen
<1>5. Store!Fresh(r, bundle) = NewRows(r, kind, seen)
  BY SameOperators DEF Store!Fresh, NewRows
<1>6. q \in SetToSeqs(NewRows(r, kind, seen))
  BY <1>3, ListEnumerates DEF ListsRows
<1>7. q \in Store!SetToSeqs(Store!Fresh(r, bundle))
  <2>1. \A S : Store!Cardinality(S) = Cardinality(S)
    BY DEF Store!Cardinality, Cardinality
  <2>2. \A S : Store!SetToSeqs(S) = SetToSeqs(S)
    BY <2>1 DEF Store!SetToSeqs, SetToSeqs
  <2> QED
    BY <1>5, <1>6, <2>2
<1>8. Len(events) + Len(q) <= MaxEvents
  <2>1. Len(events) \in Nat
    OBVIOUS
  <2> QED
    BY <1>0, <1>4, <2>1, MaxEventsAssumption
<1>9. Store!Importable(r, origin)
  BY <1>2 DEF Store!Importable, Joins
<1> HIDE DEF bundle
<1>10. Store!ImportRunBundle(r, record, origin, bound, bundle)
  BY <1>2, <1>3, <1>7, <1>8, <1>9, SameOperators DEF Store!ImportRunBundle, Publishes
<1>11. bundle \in Store!Bundles
  BY <1>1 DEF Store!Bundles, bundle
<1> QED
  BY <1>1, <1>10, <1>11 DEF Store!Next, Store!SomeImport

LEMMA CommitRefines ==
  ASSUME RInv, NEW c \in Connections, Commit(c)
  PROVE  Store!Next \/ UNCHANGED Store!vars
<1>1. PICK t : t = tx[c]
  OBVIOUS
<1>2. t # Null /\ t.todo = <<>> /\ Publishes(t)
  BY <1>1 DEF Commit, Publishes
<1>3. InProgress(t)
  BY <1>1, <1>2 DEF RInv, OperationsInProgress
<1>4. PICK stmts \in Seq(Stmt) : \E k \in 0..Len(stmts) :
        /\ t.todo = SubSeq(stmts, k + 1, Len(stmts))
        /\ Len(events) + EventCount(stmts) <= MaxEvents
        /\ Operation(t, stmts, k)
  BY <1>3 DEF InProgress
<1>5. PICK k \in 0..Len(stmts) :
        /\ t.todo = SubSeq(stmts, k + 1, Len(stmts))
        /\ Len(events) + EventCount(stmts) <= MaxEvents
        /\ Operation(t, stmts, k)
  BY <1>4
<1>6. k = Len(stmts)
  BY <1>2, <1>5, SuffixStep
<1>7. events \in Seq(EventRow) /\ Len(events) \in Nat
  BY DEF RInv, IInv, TypeOK, TablesOK
<1>8. CASE DoesSave(t, stmts, k)
  <2>1. PICK r \in Runs, record \in Records : \E n \in 0..2 : \E kinds \in [1..n -> Kinds] :
          stmts = Save(r, record, kinds) /\ SaveProgress(t, r, record, kinds, k)
    BY <1>8 DEF DoesSave
  <2>2. PICK n \in 0..2 : \E kinds \in [1..n -> Kinds] :
          stmts = Save(r, record, kinds) /\ SaveProgress(t, r, record, kinds, k)
    BY <2>1
  <2>3. PICK kinds \in [1..n -> Kinds] :
          stmts = Save(r, record, kinds) /\ SaveProgress(t, r, record, kinds, k)
    BY <2>2
  <2>4. n \in Nat
    OBVIOUS
  <2>5. Len(stmts) = 1 + n /\ EventCount(stmts) = n
    BY <2>3, <2>4, SaveStatements
  <2> QED
    BY <1>2, <1>5, <1>6, <2>3, <2>5, CommitSave
<1>9. CASE DoesBind(t, stmts, k)
  <2>1. PICK s \in Sessions, r \in Runs : stmts = <<BindStmt(s, r)>> /\ BindProgress(t, s, r, k)
    BY <1>9 DEF DoesBind
  <2>2. k = 1
    BY <1>6, <2>1
  <2> QED
    BY <1>2, <2>1, <2>2, CommitBind
<1>10. CASE DoesRotate(t, stmts, k)
  <2>1. PICK old \in Sessions, new \in Sessions :
          old \in DOMAIN bindings /\ stmts = Rotate(old, new) /\ RotateProgress(t, old, new, k)
    BY <1>10 DEF DoesRotate
  <2>2. k = 2
    BY <1>6, <2>1 DEF Rotate
  <2> QED
    BY <1>2, <2>1, <2>2, CommitRotate
<1>11. CASE DoesNothing(t, stmts, k)
  <2>1. UNCHANGED <<runs, bindings, events>>
    BY <1>2, <1>11 DEF DoesNothing, Publishes
  <2> QED
    BY <2>1 DEF Store!vars
<1>12. CASE DoesAppend(t, stmts, k)
  <2>1. PICK r \in Runs, kind \in Kinds, source \in Sources \cup {Null} :
          stmts = Append1(r, kind, source) /\ AppendProgress(t, r, kind, source, k)
    BY <1>12 DEF DoesAppend
  <2>2. stmts = <<RequireStmt(r), EventStmt(r, kind, source)>>
    BY <2>1 DEF Append1
  <2>3. Len(stmts) = 1 + 1 /\ k = 2
    BY <1>6, <2>2
  <2>4. \A i \in 1..1 : stmts[i].op # "event"
    BY <2>2 DEF RequireStmt
  <2>5. \A i \in (1 + 1)..(1 + 1) : stmts[i].op = "event"
    BY <2>2 DEF EventStmt
  <2>6. EventCount(stmts) = 1
    BY <2>3, <2>4, <2>5, CountEvents
  <2>7. Len(events) < MaxEvents
    BY <1>5, <1>7, <2>6, MaxEventsAssumption
  <2> QED
    BY <1>2, <2>1, <2>3, <2>7, CommitAppend
<1>13. CASE DoesImport(t, stmts, k)
  <2>1. PICK r \in Runs, record \in Records, origin \in Origins \cup {Null}, kind \in Kinds :
        \E ss \in Seq(Sessions), srcs \in Seq(Sources) :
          /\ \A i, j \in 1..Len(srcs) : srcs[i] = srcs[j] => i = j
          /\ stmts = Import(r, record, origin, ss, srcs, kind)
          /\ ImportProgress(t, r, record, origin, ss, srcs, kind, k)
    BY <1>13 DEF DoesImport
  <2>2. PICK ss \in Seq(Sessions), srcs \in Seq(Sources) :
          /\ stmts = Import(r, record, origin, ss, srcs, kind)
          /\ ImportProgress(t, r, record, origin, ss, srcs, kind, k)
    BY <2>1
  <2>3. ImportShape(stmts, r, record, origin, ss, srcs, kind) /\ EventCount(stmts) = Len(srcs)
    BY <2>2, ImportStatements
  <2>4. k = (1 + Len(ss)) + Len(srcs)
    BY <1>6, <2>3 DEF ImportShape
  <2>5. Len(events) + Len(srcs) <= MaxEvents
    BY <1>5, <2>3
  <2> QED
    BY <1>2, <1>7, <2>2, <2>4, <2>5, CommitImport
<1> QED
  BY <1>5, <1>8, <1>9, <1>10, <1>11, <1>12, <1>13 DEF Operation

\* However calls, statements, commits, conflicts and crashes of any number of
\* connections interleave, the committed tables change by whole operations of
\* the atomic store only (store.py, _transaction).
THEOREM ImplementsAtomicStore == Spec => ImplementsStore
<1>1. Init => Store!Init
  BY DEF Init, Store!Init
<1>2. RInv /\ [Next]_vars => [Store!Next]_(Store!vars)
  <2> SUFFICES ASSUME RInv, [Next]_vars PROVE Store!Next \/ UNCHANGED Store!vars
    OBVIOUS
  <2>1. CASE UNCHANGED vars
    BY <2>1 DEF vars, Store!vars
  <2>2. ASSUME NEW c \in Connections, Call(c) PROVE UNCHANGED Store!vars
    <3>1. PICK stmts \in Seq(Stmt) : Begin(c, stmts)
      BY <2>2, CallBegins DEF RInv
    <3> QED
      BY <3>1 DEF Begin, tables, Store!vars
  <2>3. ASSUME NEW c \in Connections, Statement(c) PROVE UNCHANGED Store!vars
    BY <2>3 DEF Statement, Store!vars
  <2>4. ASSUME NEW c \in Connections, Rollback(c) \/ Crash(c) PROVE UNCHANGED Store!vars
    BY <2>4 DEF Rollback, Crash, tables, Store!vars
  <2> QED
    BY <2>1, <2>2, <2>3, <2>4, CommitRefines DEF Next
<1> QED
  BY <1>1, <1>2, RefinementInvariant, PTL DEF Spec, ImplementsStore, Store!Spec

-----------------------------------------------------------------------------
(***************************************************************************)
(* What SupergoalStoreProofs proves of the atomic store therefore holds of *)
(* the database that the statements, rollbacks and crashes leave behind.   *)
(***************************************************************************)
Atomic == INSTANCE SupergoalStoreProofs

LEMMA SameAtomicOperators ==
  /\ \A rs, r, record, origin : Atomic!UpsertRun(rs, r, record, origin) = UpsertRun(rs, r, record, origin)
  /\ \A rs, bs, s, r : Atomic!Bindable(rs, bs, s, r) = Bindable(rs, bs, s, r)
  /\ \A bs, s, r : Atomic!BindSession(bs, s, r) = BindSession(bs, s, r)
  /\ \A bs, s : Atomic!Demote(bs, s) = Demote(bs, s)
  /\ \A r, kind, source : Atomic!Event(r, kind, source) = Event(r, kind, source)
  /\ \A es, r : Atomic!Recorded(es, r) = Recorded(es, r)
  /\ \A es, e : Atomic!InsertEvent(es, e) = InsertEvent(es, e)
<1>1. \A rs, r, record, origin : Atomic!UpsertRun(rs, r, record, origin) = UpsertRun(rs, r, record, origin)
  BY DEF Atomic!UpsertRun, Atomic!Upsert, Atomic!Coalesce, UpsertRun, Upsert, Coalesce
<1>2. \A rs, bs, s, r : Atomic!Bindable(rs, bs, s, r) = Bindable(rs, bs, s, r)
  BY DEF Atomic!Bindable, Bindable
<1>3. \A bs, s, r : Atomic!BindSession(bs, s, r) = BindSession(bs, s, r)
  BY DEF Atomic!BindSession, Atomic!Upsert, BindSession, Upsert
<1>4. \A bs, s : Atomic!Demote(bs, s) = Demote(bs, s)
  BY DEF Atomic!Demote, Demote
<1>5. \A r, kind, source : Atomic!Event(r, kind, source) = Event(r, kind, source)
  BY DEF Atomic!Event, Event
<1>6. \A es, r : Atomic!Recorded(es, r) = Recorded(es, r)
  BY DEF Atomic!Recorded, Recorded
<1>7. \A es, e : Atomic!InsertEvent(es, e) = InsertEvent(es, e)
  BY <1>6 DEF Atomic!InsertEvent, InsertEvent
<1> QED
  BY <1>1, <1>2, <1>3, <1>4, <1>5, <1>6, <1>7

LEMMA SameImport ==
  ASSUME NEW r, NEW record, NEW origin, NEW ss, NEW bundle,
         Store!ImportRunBundle(r, record, origin, ss, bundle)
  PROVE  Atomic!ImportRunBundle(r, record, origin, ss, bundle)
<1>1. Atomic!Fresh(r, bundle) = Store!Fresh(r, bundle)
  BY SameOperators, SameAtomicOperators DEF Atomic!Fresh, Store!Fresh
<1>2. \A S : Atomic!Cardinality(S) = Store!Cardinality(S)
  BY DEF Atomic!Cardinality, Store!Cardinality
<1>3. \A S : Atomic!SetToSeqs(S) = Store!SetToSeqs(S)
  BY <1>2 DEF Atomic!SetToSeqs, Store!SetToSeqs
<1>4. Atomic!Importable(r, origin)
  BY DEF Store!ImportRunBundle, Store!Importable, Atomic!Importable
<1> QED
  BY <1>1, <1>3, <1>4, SameOperators, SameAtomicOperators
     DEF Store!ImportRunBundle, Atomic!ImportRunBundle

LEMMA SameStep == Store!Next => Atomic!Next
<1> SUFFICES ASSUME Store!Next PROVE Atomic!Next
  OBVIOUS
<1>1. ASSUME NEW r \in Runs, NEW record \in Records, NEW origin \in Origins \cup {Null},
             Store!SaveRun(r, record, origin)
      PROVE  Atomic!Next
  <2>1. Atomic!SaveRun(r, record, origin)
    BY <1>1, SameOperators, SameAtomicOperators DEF Store!SaveRun, Atomic!SaveRun
  <2> QED
    BY <2>1 DEF Atomic!Next
<1>2. ASSUME NEW r \in Runs, NEW record \in Records,
             NEW kinds \in UNION {[1..n -> Kinds] : n \in 0..2},
             Store!SaveRunWithEvents(r, record, kinds)
      PROVE  Atomic!Next
  <2>1. Atomic!Unkeyed(r, kinds) = Store!Unkeyed(r, kinds)
    BY SameOperators, SameAtomicOperators DEF Atomic!Unkeyed, Store!Unkeyed
  <2>2. Atomic!SaveRunWithEvents(r, record, kinds)
    BY <1>2, <2>1, SameOperators, SameAtomicOperators
       DEF Store!SaveRunWithEvents, Atomic!SaveRunWithEvents
  <2> QED
    BY <2>2 DEF Atomic!Next
<1>3. ASSUME NEW s \in Sessions, NEW r \in Runs, Store!Bind(s, r)
      PROVE  Atomic!Next
  <2>1. Atomic!Bind(s, r)
    BY <1>3, SameOperators, SameAtomicOperators DEF Store!Bind, Atomic!Bind
  <2> QED
    BY <2>1 DEF Atomic!Next
<1>4. ASSUME NEW old \in Sessions, NEW new \in Sessions, Store!RotateSessionBinding(old, new)
      PROVE  Atomic!Next
  <2>1. Atomic!RotateSessionBinding(old, new)
    BY <1>4, SameOperators, SameAtomicOperators
       DEF Store!RotateSessionBinding, Atomic!RotateSessionBinding
  <2> QED
    BY <2>1 DEF Atomic!Next
<1>5. ASSUME NEW r \in Runs, NEW kind \in Kinds, NEW source \in Sources \cup {Null},
             Store!AppendEvent(r, kind, source)
      PROVE  Atomic!Next
  <2>1. Atomic!AppendEvent(r, kind, source)
    BY <1>5, SameOperators, SameAtomicOperators DEF Store!AppendEvent, Atomic!AppendEvent
  <2> QED
    BY <2>1 DEF Atomic!Next
<1>6. ASSUME Store!SomeImport PROVE Atomic!Next
  <2>1. Atomic!SomeImport
    BY <1>6, SameImport DEF Store!SomeImport, Atomic!SomeImport, Store!Bundles, Atomic!Bundles
  <2> QED
    BY <2>1 DEF Atomic!Next
<1> QED
  BY <1>1, <1>2, <1>3, <1>4, <1>5, <1>6 DEF Store!Next

LEMMA ImplementsAtomic == Spec => Atomic!Spec
<1>1. Store!Init => Atomic!Init
  BY DEF Store!Init, Atomic!Init
<1>2. [Store!Next]_(Store!vars) => [Atomic!Next]_(Atomic!vars)
  BY SameStep DEF Store!vars, Atomic!vars
<1> QED
  BY <1>1, <1>2, ImplementsAtomicStore, PTL DEF ImplementsStore, Store!Spec, Atomic!Spec

\* What an interrupted or conflicting transaction leaves behind still has a run
\* for every binding and event, and every idempotence key of a run once
\* (store.py, _transaction).
THEOREM DatabaseSound == Spec => [](ReferencesOK(runs, bindings, events) /\ KeysOK(events))
<1>1. Atomic!IsFiniteSet(Sources)
  BY SourcesAssumption DEF Atomic!IsFiniteSet, IsFiniteSet
<1>2. Null \notin Origins \cup Sources /\ MaxEvents \in Nat
  BY NullAssumption, MaxEventsAssumption
<1>3. Atomic!Spec => []Atomic!NoOrphans
  BY <1>1, <1>2, Atomic!NeverOrphans
<1>4. Atomic!Spec => []Atomic!KeyedEventsOnce
  BY <1>1, <1>2, Atomic!KeysRecordedOnce
<1>5. Atomic!NoOrphans /\ Atomic!KeyedEventsOnce
        => ReferencesOK(runs, bindings, events) /\ KeysOK(events)
  BY DEF Atomic!NoOrphans, Atomic!KeyedEventsOnce, Atomic!ReferencesOK, ReferencesOK,
         Atomic!KeysOK, KeysOK
<1> QED
  BY <1>3, <1>4, <1>5, ImplementsAtomic, PTL

\* No writer, whenever it is interrupted, moves a bound session to another run
\* ("never silently move a physical session to another run": store.py,
\* _bind_session).
THEOREM SessionsNeverMove ==
  Spec => [][\A s \in DOMAIN bindings :
               s \in DOMAIN bindings' /\ bindings'[s].run = bindings[s].run]_<<runs, bindings, events>>
<1>1. Atomic!IsFiniteSet(Sources)
  BY SourcesAssumption DEF Atomic!IsFiniteSet, IsFiniteSet
<1>2. Null \notin Origins \cup Sources /\ MaxEvents \in Nat
  BY NullAssumption, MaxEventsAssumption
<1>3. Atomic!Spec => Atomic!BindingsWriteOnce
  BY <1>1, <1>2, Atomic!BindingsNeverMove
<1> QED
  BY <1>3, ImplementsAtomic, PTL DEF Atomic!BindingsWriteOnce, Atomic!vars
=============================================================================
