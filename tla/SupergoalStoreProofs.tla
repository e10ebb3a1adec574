------------------------ MODULE SupergoalStoreProofs ------------------------
(***************************************************************************)
(* Proofs about SupergoalStore for every set of runs, sessions, records,   *)
(* event kinds and idempotence keys.                                       *)
(***************************************************************************)
EXTENDS SupergoalStore, TLAPS, SequenceTheorems, FiniteSetTheorems

-----------------------------------------------------------------------------
(***************************************************************************)
(* Tables.                                                                 *)
(***************************************************************************)
LEMMA UpsertRunTable ==
  ASSUME NEW rs, DOMAIN rs \subseteq Runs, rs \in [DOMAIN rs -> RunRow],
         NEW r \in Runs, NEW record \in Records, NEW origin \in Origins \cup {Null}
  PROVE  /\ DOMAIN UpsertRun(rs, r, record, origin) = DOMAIN rs \cup {r}
         /\ DOMAIN UpsertRun(rs, r, record, origin) \subseteq Runs
         /\ UpsertRun(rs, r, record, origin) \in [DOMAIN rs \cup {r} -> RunRow]
<1>1. Coalesce(rs, r, origin) \in Origins \cup {Null}
  BY DEF Coalesce, RunRow
<1> DEFINE row == [record |-> record, origin |-> Coalesce(rs, r, origin)]
<1>2. row \in RunRow
  BY <1>1 DEF RunRow
<1> HIDE DEF row
<1>3. /\ DOMAIN Upsert(rs, r, row) = DOMAIN rs \cup {r}
      /\ Upsert(rs, r, row) \in [DOMAIN rs \cup {r} -> RunRow]
  BY <1>2 DEF Upsert
<1>4. UpsertRun(rs, r, record, origin) = Upsert(rs, r, row)
  BY DEF UpsertRun, row
<1> QED
  BY <1>3, <1>4

-----------------------------------------------------------------------------
(***************************************************************************)
(* The ledger.                                                             *)
(***************************************************************************)
LEMMA EventIsRow ==
  ASSUME NEW r \in Runs, NEW kind \in Kinds, NEW source \in Sources \cup {Null}
  PROVE  /\ Event(r, kind, source) \in EventRow
         /\ Event(r, kind, source).run = r
         /\ Event(r, kind, source).source = source
BY DEF Event, EventRow

\* Rows that repeat no key among themselves and none of the ledger may follow it.
LEMMA ConcatKeys ==
  ASSUME NEW es \in Seq(EventRow), NEW rows \in Seq(EventRow),
         KeysOK(es), KeysOK(rows),
         \A i \in DOMAIN rows : rows[i].source \notin Recorded(es, rows[i].run)
  PROVE  KeysOK(es \o rows)
<1> DEFINE both == es \o rows
<1>1. /\ both \in Seq(EventRow)
      /\ Len(both) = Len(es) + Len(rows)
      /\ \A i \in 1..Len(both) :
           both[i] = IF i <= Len(es) THEN es[i] ELSE rows[i - Len(es)]
  BY ConcatProperties
<1> HIDE DEF both
<1> SUFFICES ASSUME NEW i \in DOMAIN both, NEW j \in DOMAIN both,
                    both[i].run = both[j].run, both[i].source = both[j].source,
                    both[i].source # Null
             PROVE  i = j
  BY DEF KeysOK, both
<1>2. \A k \in DOMAIN es : es[k].source # Null => es[k].source \in Recorded(es, es[k].run)
  BY DEF Recorded
<1>3. CASE i <= Len(es) /\ j <= Len(es)
  <2>1. /\ i \in DOMAIN es /\ j \in DOMAIN es
        /\ both[i] = es[i] /\ both[j] = es[j]
    BY <1>1, <1>3
  <2> QED
    BY <2>1 DEF KeysOK
<1>4. CASE i <= Len(es) /\ j > Len(es)
  <2>1. /\ i \in DOMAIN es /\ j - Len(es) \in DOMAIN rows
        /\ both[i] = es[i] /\ both[j] = rows[j - Len(es)]
    BY <1>1, <1>4
  <2> QED
    BY <2>1, <1>2
<1>5. CASE i > Len(es) /\ j <= Len(es)
  <2>1. /\ j \in DOMAIN es /\ i - Len(es) \in DOMAIN rows
        /\ both[j] = es[j] /\ both[i] = rows[i - Len(es)]
    BY <1>1, <1>5
  <2> QED
    BY <2>1, <1>2
<1>6. CASE i > Len(es) /\ j > Len(es)
  <2>1. /\ i - Len(es) \in DOMAIN rows /\ j - Len(es) \in DOMAIN rows
        /\ both[i] = rows[i - Len(es)] /\ both[j] = rows[j - Len(es)]
    BY <1>1, <1>6
  <2>2. i - Len(es) = j - Len(es)
    BY <2>1 DEF KeysOK
  <2> QED
    BY <2>2, <1>1
<1> QED
  BY <1>1, <1>3, <1>4, <1>5, <1>6

\* What a concatenation keeps: type, references, and the ledger as a prefix.
LEMMA ConcatLedger ==
  ASSUME NEW es \in Seq(EventRow), NEW rows \in Seq(EventRow), NEW S,
         \A i \in DOMAIN es : es[i].run \in S,
         \A i \in DOMAIN rows : rows[i].run \in S
  PROVE  /\ es \o rows \in Seq(EventRow)
         /\ \A i \in DOMAIN (es \o rows) : (es \o rows)[i].run \in S
         /\ IsPrefix(es, es \o rows)
<1> DEFINE both == es \o rows
<1>1. /\ both \in Seq(EventRow)
      /\ Len(both) = Len(es) + Len(rows)
      /\ \A i \in 1..Len(both) :
           both[i] = IF i <= Len(es) THEN es[i] ELSE rows[i - Len(es)]
  BY ConcatProperties
<1> HIDE DEF both
<1>2. ASSUME NEW i \in DOMAIN both PROVE both[i].run \in S
  <2>1. CASE i <= Len(es)
    BY <2>1, <1>1
  <2>2. CASE i > Len(es)
    <3>1. i - Len(es) \in DOMAIN rows /\ both[i] = rows[i - Len(es)]
      BY <2>2, <1>1
    <3> QED
      BY <3>1
  <2> QED
    BY <2>1, <2>2, <1>1
<1>3. IsPrefix(es, both)
  <2>1. Len(es) <= Len(both)
    BY <1>1
  <2>2. SubSeq(es, 1, Len(es)) = SubSeq(both, 1, Len(es))
    BY <1>1
  <2> QED
    BY <2>1, <2>2 DEF IsPrefix
<1> QED
  BY <1>1, <1>2, <1>3 DEF both

LEMMA PrefixReflexive ==
  ASSUME NEW S, NEW s \in Seq(S)
  PROVE  IsPrefix(s, s)
BY DEF IsPrefix

LEMMA InsertEventLedger ==
  ASSUME NEW es \in Seq(EventRow), NEW e \in EventRow, NEW S,
         KeysOK(es), \A i \in DOMAIN es : es[i].run \in S, e.run \in S
  PROVE  /\ InsertEvent(es, e) \in Seq(EventRow)
         /\ KeysOK(InsertEvent(es, e))
         /\ \A i \in DOMAIN InsertEvent(es, e) : InsertEvent(es, e)[i].run \in S
         /\ IsPrefix(es, InsertEvent(es, e))
<1>1. CASE e.source \in Recorded(es, e.run)
  <2>1. InsertEvent(es, e) = es
    BY <1>1 DEF InsertEvent
  <2> QED
    BY <2>1, PrefixReflexive
<1>2. CASE e.source \notin Recorded(es, e.run)
  <2> DEFINE row == <<e>>
  <2>1. InsertEvent(es, e) = es \o row
    BY <1>2, AppendIsConcat DEF InsertEvent
  <2>2. row \in Seq(EventRow) /\ DOMAIN row = {1} /\ row[1] = e
    OBVIOUS
  <2> HIDE DEF row
  <2>3. KeysOK(row)
    BY <2>2 DEF KeysOK
  <2>4. KeysOK(es \o row)
    BY <1>2, <2>2, <2>3, ConcatKeys
  <2>5. /\ es \o row \in Seq(EventRow)
        /\ \A i \in DOMAIN (es \o row) : (es \o row)[i].run \in S
        /\ IsPrefix(es, es \o row)
    <3>1. \A i \in DOMAIN row : row[i].run \in S
      BY <2>2
    <3> QED
      BY <2>2, <3>1, ConcatLedger
  <2> QED
    BY <2>1, <2>4, <2>5
<1> QED
  BY <1>1, <1>2

\* The unkeyed rows of save_run_with_events.
LEMMA UnkeyedRows ==
  ASSUME NEW r \in Runs, NEW n \in Nat, NEW kinds \in [1..n -> Kinds]
  PROVE  /\ Unkeyed(r, kinds) \in Seq(EventRow)
         /\ \A i \in DOMAIN Unkeyed(r, kinds) :
              Unkeyed(r, kinds)[i].run = r /\ Unkeyed(r, kinds)[i].source = Null
<1>1. kinds \in Seq(Kinds) /\ Len(kinds) = n
  OBVIOUS
<1>2. \A i \in 1..n : /\ Event(r, kinds[i], Null) \in EventRow
                      /\ Event(r, kinds[i], Null).run = r
                      /\ Event(r, kinds[i], Null).source = Null
  BY EventIsRow
<1>3. Unkeyed(r, kinds) \in [1..n -> EventRow]
  BY <1>1, <1>2 DEF Unkeyed
<1>4. Unkeyed(r, kinds) \in Seq(EventRow)
  BY <1>3
<1> QED
  BY <1>1, <1>2, <1>4 DEF Unkeyed

\* The rows an import inserts are finitely many, of one run, each with a key of
\* its own that the ledger does not hold.
LEMMA FreshRows ==
  ASSUME NEW r \in Runs, NEW S \in SUBSET Sources, NEW bundle \in [S -> Kinds],
         NEW rows \in SetToSeqs(Fresh(r, bundle))
  PROVE  /\ rows \in Seq(EventRow)
         /\ \A i \in DOMAIN rows : rows[i].run = r
         /\ \A i \in DOMAIN rows : rows[i].source \notin Recorded(events, r)
         /\ KeysOK(rows)
<1> DEFINE new == S \ Recorded(events, r)
           F == Fresh(r, bundle)
           f == [src \in new |-> Event(r, bundle[src], src)]
<1>1. IsFiniteSet(new)
  <2>1. new \in SUBSET Sources
    OBVIOUS
  <2> QED
    BY <2>1, SourcesAssumption, FS_Subset
<1>2. F = {Event(r, bundle[src], src) : src \in new}
  BY DEF Fresh
<1>3. f \in Surjection(new, F)
  BY <1>2 DEF Surjection
<1>4. IsFiniteSet(F)
  BY <1>1, <1>3, FS_Surjection
<1>5. Cardinality(F) \in Nat
  BY <1>4, FS_CardinalityType
<1>6. \A e \in F : \E src \in new : e = Event(r, bundle[src], src)
  BY <1>2
<1>7. /\ rows \in [1..Cardinality(F) -> F]
      /\ \A i, j \in 1..Cardinality(F) : i # j => rows[i] # rows[j]
  BY DEF SetToSeqs
<1>8. \A src \in new : /\ Event(r, bundle[src], src) \in EventRow
                       /\ Event(r, bundle[src], src).run = r
                       /\ Event(r, bundle[src], src).source = src
  BY EventIsRow
<1>9. F \subseteq EventRow
  BY <1>6, <1>8
<1>10. rows \in Seq(EventRow) /\ DOMAIN rows = 1..Cardinality(F)
  BY <1>5, <1>7, <1>9
<1>11. \A e \in F : e.run = r /\ e.source \in new /\ e = Event(r, bundle[e.source], e.source)
  BY <1>6, <1>8
<1> HIDE DEF F, f
<1>12. \A i \in DOMAIN rows : rows[i] \in F
  BY <1>7, <1>10
<1>13. KeysOK(rows)
  <2> SUFFICES ASSUME NEW i \in DOMAIN rows, NEW j \in DOMAIN rows,
                      rows[i].source = rows[j].source
               PROVE  i = j
    BY DEF KeysOK
  <2>1. rows[i] = rows[j]
    BY <1>11, <1>12
  <2> QED
    BY <2>1, <1>7, <1>10
<1> QED
  BY <1>10, <1>11, <1>12, <1>13

-----------------------------------------------------------------------------
(***************************************************************************)
(* The inductive invariant.  Neither conjunct is inductive alone: rows are *)
(* keyed only if they are typed, a binding copied by a rotation has a run  *)
(* only if the old binding had one.                                        *)
(***************************************************************************)
IInv == TypeOK /\ NoOrphans /\ KeyedEventsOnce

StillBound ==
  \A s \in DOMAIN bindings :
    s \in DOMAIN bindings' /\ bindings'[s].run = bindings[s].run

\* What every step keeps, and what every step may only extend.
Extends == IInv' /\ StillBound /\ IsPrefix(events, events')

LEMMA InitIInv == Init => IInv
<1> SUFFICES ASSUME Init PROVE IInv
  OBVIOUS
<1>1. /\ DOMAIN runs = {} /\ runs \in [{} -> RunRow]
      /\ DOMAIN bindings = {} /\ bindings \in [{} -> BindingRow]
      /\ events \in Seq(EventRow) /\ DOMAIN events = {}
  BY DEF Init
<1> QED
  BY <1>1 DEF IInv, TypeOK, TablesOK, NoOrphans, ReferencesOK, KeyedEventsOnce, KeysOK

LEMMA SaveRunStep ==
  ASSUME IInv, NEW r \in Runs, NEW record \in Records, NEW origin \in Origins \cup {Null},
         SaveRun(r, record, origin)
  PROVE  Extends
<1> USE DEF IInv, TypeOK, TablesOK, NoOrphans, ReferencesOK
<1>1. /\ runs' \in [DOMAIN runs \cup {r} -> RunRow]
      /\ DOMAIN runs' = DOMAIN runs \cup {r}
      /\ DOMAIN runs' \subseteq Runs
  BY UpsertRunTable DEF SaveRun
<1>2. bindings' = bindings /\ events' = events
  BY DEF SaveRun
<1>3. TypeOK'
  BY <1>1, <1>2
<1>4. NoOrphans'
  BY <1>1, <1>2
<1>5. KeyedEventsOnce'
  BY <1>2 DEF KeyedEventsOnce, KeysOK
<1>6. IsPrefix(events, events')
  BY <1>2, PrefixReflexive
<1> QED
  BY <1>2, <1>3, <1>4, <1>5, <1>6 DEF Extends, StillBound

LEMMA SaveRunWithEventsStep ==
  ASSUME IInv, NEW r \in Runs, NEW record \in Records,
         NEW n \in Nat, NEW kinds \in [1..n -> Kinds],
         SaveRunWithEvents(r, record, kinds)
  PROVE  Extends
<1> DEFINE rows == Unkeyed(r, kinds)
<1> USE DEF IInv, TypeOK, TablesOK, NoOrphans, ReferencesOK
<1>1. /\ runs' \in [DOMAIN runs \cup {r} -> RunRow]
      /\ DOMAIN runs' = DOMAIN runs \cup {r}
      /\ DOMAIN runs' \subseteq Runs
  BY UpsertRunTable DEF SaveRunWithEvents
<1>2. bindings' = bindings /\ events' = events \o rows
  BY DEF SaveRunWithEvents
<1>3. /\ rows \in Seq(EventRow)
      /\ \A i \in DOMAIN rows : rows[i].run = r /\ rows[i].source = Null
  BY UnkeyedRows
<1> HIDE DEF rows
<1>4. KeysOK(events')
  <2>1. KeysOK(rows)
    BY <1>3 DEF KeysOK
  <2>2. \A i \in DOMAIN rows : rows[i].source \notin Recorded(events, rows[i].run)
    BY <1>3 DEF Recorded
  <2> QED
    BY <1>2, <1>3, <2>1, <2>2, ConcatKeys DEF KeyedEventsOnce
<1>5. /\ events' \in Seq(EventRow)
      /\ \A i \in DOMAIN events' : events'[i].run \in DOMAIN runs'
      /\ IsPrefix(events, events')
  <2>1. \A i \in DOMAIN events : events[i].run \in DOMAIN runs'
    BY <1>1
  <2>2. \A i \in DOMAIN rows : rows[i].run \in DOMAIN runs'
    BY <1>1, <1>3
  <2> QED
    BY <1>2, <1>3, <2>1, <2>2, ConcatLedger
<1>6. TypeOK'
  BY <1>1, <1>2, <1>5
<1>7. NoOrphans'
  BY <1>1, <1>2, <1>5
<1> QED
  BY <1>2, <1>4, <1>5, <1>6, <1>7 DEF Extends, StillBound, KeyedEventsOnce

LEMMA BindStep ==
  ASSUME IInv, NEW s \in Sessions, NEW r \in Runs, Bind(s, r)
  PROVE  Extends
<1>0. DOMAIN bindings \subseteq Sessions /\ bindings \in [DOMAIN bindings -> BindingRow]
  BY DEF IInv, TypeOK, TablesOK
<1>1. /\ r \in DOMAIN runs
      /\ s \in DOMAIN bindings => bindings[s].run = r
      /\ runs' = runs /\ events' = events
      /\ bindings' = BindSession(bindings, s, r)
  BY DEF Bind, Bindable
<1>2. /\ DOMAIN bindings' = DOMAIN bindings \cup {s}
      /\ DOMAIN bindings' \subseteq Sessions
      /\ bindings' \in [DOMAIN bindings \cup {s} -> BindingRow]
      /\ bindings'[s].run = r
      /\ \A t \in DOMAIN bindings : t # s => bindings'[t] = bindings[t]
  BY <1>0, <1>1 DEF BindSession, Upsert, BindingRow
<1> USE DEF IInv, TypeOK, TablesOK, NoOrphans, ReferencesOK
<1>3. StillBound
  BY <1>1, <1>2 DEF StillBound
<1>4. TypeOK'
  BY <1>1, <1>2
<1>5. NoOrphans'
  BY <1>1, <1>2
<1>6. KeyedEventsOnce' /\ IsPrefix(events, events')
  BY <1>1, PrefixReflexive DEF KeyedEventsOnce, KeysOK
<1> QED
  BY <1>3, <1>4, <1>5, <1>6 DEF Extends

LEMMA RotateStep ==
  ASSUME IInv, NEW old \in Sessions, NEW new \in Sessions,
         RotateSessionBinding(old, new)
  PROVE  Extends
<1> DEFINE r == bindings[old].run
           demoted == Demote(bindings, old)
<1>0. DOMAIN bindings \subseteq Sessions /\ bindings \in [DOMAIN bindings -> BindingRow]
  BY DEF IInv, TypeOK, TablesOK
<1>1. /\ old \in DOMAIN bindings
      /\ r \in DOMAIN runs
      /\ new \in DOMAIN demoted => demoted[new].run = r
      /\ bindings' = BindSession(demoted, new, r)
      /\ runs' = runs /\ events' = events
  BY DEF RotateSessionBinding, Bindable
<1>2. /\ DOMAIN demoted = DOMAIN bindings
      /\ demoted \in [DOMAIN bindings -> BindingRow]
      /\ \A t \in DOMAIN bindings : demoted[t].run = bindings[t].run
  BY <1>0, <1>1 DEF Demote, BindingRow
<1>3. r \in Runs
  BY <1>0, <1>1 DEF BindingRow
<1> HIDE DEF r, demoted
<1>4. /\ DOMAIN bindings' = DOMAIN bindings \cup {new}
      /\ DOMAIN bindings' \subseteq Sessions
      /\ bindings' \in [DOMAIN bindings \cup {new} -> BindingRow]
      /\ bindings'[new].run = r
      /\ \A t \in DOMAIN bindings : t # new => bindings'[t] = demoted[t]
  BY <1>0, <1>1, <1>2, <1>3 DEF BindSession, Upsert, BindingRow
<1>5. StillBound
  BY <1>1, <1>2, <1>4 DEF StillBound
<1> USE DEF IInv, TypeOK, TablesOK, NoOrphans, ReferencesOK
<1>6. TypeOK'
  BY <1>1, <1>4
<1>7. NoOrphans'
  <2>1. ASSUME NEW t \in DOMAIN bindings' PROVE bindings'[t].run \in DOMAIN runs'
    <3>1. CASE t = new
      BY <3>1, <1>1, <1>4
    <3>2. CASE t # new
      BY <3>2, <1>1, <1>2, <1>4
    <3> QED
      BY <3>1, <3>2
  <2> QED
    BY <2>1, <1>1
<1>8. KeyedEventsOnce' /\ IsPrefix(events, events')
  BY <1>1, PrefixReflexive DEF KeyedEventsOnce, KeysOK
<1> QED
  BY <1>5, <1>6, <1>7, <1>8 DEF Extends

LEMMA AppendEventStep ==
  ASSUME IInv, NEW r \in Runs, NEW kind \in Kinds, NEW source \in Sources \cup {Null},
         AppendEvent(r, kind, source)
  PROVE  Extends
<1> USE DEF IInv, TypeOK, TablesOK, NoOrphans, ReferencesOK
<1>1. /\ r \in DOMAIN runs
      /\ runs' = runs /\ bindings' = bindings
      /\ events' = InsertEvent(events, Event(r, kind, source))
  BY DEF AppendEvent
<1>2. Event(r, kind, source) \in EventRow /\ Event(r, kind, source).run = r
  BY EventIsRow
<1>3. /\ events' \in Seq(EventRow)
      /\ KeysOK(events')
      /\ \A i \in DOMAIN events' : events'[i].run \in DOMAIN runs
      /\ IsPrefix(events, events')
  BY <1>1, <1>2, InsertEventLedger DEF KeyedEventsOnce
<1>4. TypeOK'
  BY <1>1, <1>3
<1>5. NoOrphans'
  BY <1>1, <1>3
<1> QED
  BY <1>1, <1>3, <1>4, <1>5 DEF Extends, StillBound, KeyedEventsOnce

LEMMA ImportStep ==
  ASSUME IInv, NEW r \in Runs, NEW record \in Records, NEW origin \in Origins \cup {Null},
         NEW ss \in SUBSET Sessions, NEW S \in SUBSET Sources, NEW bundle \in [S -> Kinds],
         ImportRunBundle(r, record, origin, ss, bundle)
  PROVE  Extends
<1>0. /\ DOMAIN bindings \subseteq Sessions /\ bindings \in [DOMAIN bindings -> BindingRow]
      /\ \A s \in DOMAIN bindings : bindings[s].run \in DOMAIN runs
  BY DEF IInv, TypeOK, TablesOK, NoOrphans, ReferencesOK
<1>1. /\ DOMAIN runs' = DOMAIN runs \cup {r}
      /\ DOMAIN runs' \subseteq Runs
      /\ runs' \in [DOMAIN runs' -> RunRow]
  <2>1. runs' = IF r \in DOMAIN runs THEN runs ELSE UpsertRun(runs, r, record, origin)
    BY DEF ImportRunBundle
  <2>2. DOMAIN runs \subseteq Runs /\ runs \in [DOMAIN runs -> RunRow]
    BY DEF IInv, TypeOK, TablesOK
  <2>3. CASE r \in DOMAIN runs
    BY <2>1, <2>2, <2>3
  <2>4. CASE r \notin DOMAIN runs
    <3>1. runs' = UpsertRun(runs, r, record, origin)
      BY <2>1, <2>4
    <3>2. /\ DOMAIN runs' = DOMAIN runs \cup {r}
          /\ DOMAIN runs' \subseteq Runs
          /\ runs' \in [DOMAIN runs \cup {r} -> RunRow]
      BY <2>2, <3>1, UpsertRunTable
    <3> QED
      BY <3>2
  <2> QED
    BY <2>3, <2>4
<1>2. /\ \A s \in ss : s \in DOMAIN bindings => bindings[s].run = r
      /\ bindings' = [s \in DOMAIN bindings \cup ss |->
                        IF s \in ss THEN [run |-> r, current |-> TRUE] ELSE bindings[s]]
  BY DEF ImportRunBundle, Bindable
<1>3. /\ DOMAIN bindings' = DOMAIN bindings \cup ss
      /\ DOMAIN bindings' \subseteq Sessions
      /\ bindings' \in [DOMAIN bindings' -> BindingRow]
      /\ \A s \in DOMAIN bindings' : bindings'[s].run = IF s \in ss THEN r ELSE bindings[s].run
  BY <1>0, <1>2 DEF BindingRow
<1>4. StillBound
  BY <1>2, <1>3 DEF StillBound
<1>5. PICK rows \in SetToSeqs(Fresh(r, bundle)) : events' = events \o rows
  BY DEF ImportRunBundle
<1>6. /\ rows \in Seq(EventRow)
      /\ \A i \in DOMAIN rows : rows[i].run = r
      /\ \A i \in DOMAIN rows : rows[i].source \notin Recorded(events, rows[i].run)
      /\ KeysOK(rows)
  BY FreshRows
<1> USE DEF IInv, TypeOK, TablesOK, NoOrphans, ReferencesOK
<1>7. KeysOK(events')
  BY <1>5, <1>6, ConcatKeys DEF KeyedEventsOnce
<1>8. /\ events' \in Seq(EventRow)
      /\ \A i \in DOMAIN events' : events'[i].run \in DOMAIN runs'
      /\ IsPrefix(events, events')
  <2>1. \A i \in DOMAIN events : events[i].run \in DOMAIN runs'
    BY <1>1
  <2>2. \A i \in DOMAIN rows : rows[i].run \in DOMAIN runs'
    BY <1>1, <1>6
  <2> QED
    BY <1>5, <1>6, <2>1, <2>2, ConcatLedger
<1>9. TypeOK'
  BY <1>1, <1>3, <1>8
<1>10. NoOrphans'
  BY <1>0, <1>1, <1>3, <1>8
<1> QED
  BY <1>4, <1>7, <1>8, <1>9, <1>10 DEF Extends, KeyedEventsOnce

\* Not an action of its own here: the run of a new mission and the binding of
\* its session, which the callers of the store write together.
LEMMA StartStep ==
  ASSUME IInv, NEW r \in Runs, NEW record \in Records, NEW s \in Sessions,
         r \notin DOMAIN runs, s \notin DOMAIN bindings,
         runs' = UpsertRun(runs, r, record, Null),
         bindings' = BindSession(bindings, s, r),
         events' = events
  PROVE  Extends
<1>1. /\ DOMAIN runs' = DOMAIN runs \cup {r}
      /\ DOMAIN runs' \subseteq Runs
      /\ runs' \in [DOMAIN runs \cup {r} -> RunRow]
  BY UpsertRunTable DEF IInv, TypeOK, TablesOK
<1>2. /\ DOMAIN bindings' = DOMAIN bindings \cup {s}
      /\ DOMAIN bindings' \subseteq Sessions
      /\ bindings' \in [DOMAIN bindings \cup {s} -> BindingRow]
      /\ bindings'[s].run = r
      /\ \A t \in DOMAIN bindings : bindings'[t] = bindings[t]
  BY DEF IInv, TypeOK, TablesOK, BindSession, Upsert, BindingRow
<1> USE DEF IInv, TypeOK, TablesOK, NoOrphans, ReferencesOK
<1>3. TypeOK'
  BY <1>1, <1>2
<1>4. NoOrphans'
  BY <1>1, <1>2
<1>5. KeyedEventsOnce' /\ IsPrefix(events, events')
  BY PrefixReflexive DEF KeyedEventsOnce, KeysOK
<1> QED
  BY <1>2, <1>3, <1>4, <1>5 DEF Extends, StillBound

-----------------------------------------------------------------------------
LEMMA StutterStep ==
  ASSUME IInv, UNCHANGED vars
  PROVE  Extends
<1>1. runs' = runs /\ bindings' = bindings /\ events' = events
  BY DEF vars
<1>2. IInv'
  BY <1>1 DEF IInv, TypeOK, TablesOK, NoOrphans, ReferencesOK, KeyedEventsOnce, KeysOK
<1>3. IsPrefix(events, events')
  BY <1>1, PrefixReflexive DEF IInv, TypeOK, TablesOK
<1> QED
  BY <1>1, <1>2, <1>3 DEF Extends, StillBound

LEMMA NextExtends == IInv /\ [Next]_vars => Extends
<1> SUFFICES ASSUME IInv, [Next]_vars PROVE Extends
  OBVIOUS
<1>1. CASE \E r \in Runs, record \in Records, origin \in Origins \cup {Null} :
             SaveRun(r, record, origin)
  BY <1>1, SaveRunStep
<1>2. CASE \E r \in Runs, record \in Records, kinds \in UNION {[1..n -> Kinds] : n \in 0..2} :
             SaveRunWithEvents(r, record, kinds)
  <2>1. PICK r \in Runs, record \in Records, kinds \in UNION {[1..n -> Kinds] : n \in 0..2} :
               SaveRunWithEvents(r, record, kinds)
    BY <1>2
  <2>2. PICK n \in 0..2 : kinds \in [1..n -> Kinds]
    OBVIOUS
  <2>3. n \in Nat
    BY <2>2
  <2> QED
    BY <2>1, <2>2, <2>3, SaveRunWithEventsStep
<1>3. CASE \E s \in Sessions, r \in Runs : Bind(s, r)
  BY <1>3, BindStep
<1>4. CASE \E old, new \in Sessions : RotateSessionBinding(old, new)
  BY <1>4, RotateStep
<1>5. CASE \E r \in Runs, kind \in Kinds, source \in Sources \cup {Null} :
             AppendEvent(r, kind, source)
  BY <1>5, AppendEventStep
<1>6. CASE SomeImport
  <2>1. PICK r \in Runs, record \in Records, origin \in Origins \cup {Null},
             ss \in SUBSET Sessions, bundle \in Bundles :
               ImportRunBundle(r, record, origin, ss, bundle)
    BY <1>6 DEF SomeImport
  <2>2. PICK S \in SUBSET Sources : bundle \in [S -> Kinds]
    BY DEF Bundles
  <2> QED
    BY <2>1, <2>2, ImportStep
<1>7. CASE UNCHANGED vars
  BY <1>7, StutterStep
<1> QED
  BY <1>1, <1>2, <1>3, <1>4, <1>5, <1>6, <1>7 DEF Next

-----------------------------------------------------------------------------
\* The inductive invariant holds in every reachable database.
THEOREM InductiveInvariant == Spec => []IInv
<1>1. IInv /\ [Next]_vars => IInv'
  BY NextExtends DEF Extends
<1> QED
  BY InitIInv, <1>1, PTL DEF Spec

\* The tables always have the shape of the schema (store.py, _SCHEMA_SQL).
THEOREM TypeCorrect == Spec => []TypeOK
<1>1. IInv => TypeOK
  BY DEF IInv
<1> QED
  BY InductiveInvariant, <1>1, PTL

\* No binding and no event ever refers to a run without a row (store.py,
\* append_event, _bind_session, import_run_bundle).
THEOREM NeverOrphans == Spec => []NoOrphans
<1>1. IInv => NoOrphans
  BY DEF IInv
<1> QED
  BY InductiveInvariant, <1>1, PTL

\* An idempotence key is recorded at most once for a run, whatever mixture of
\* tool hooks and imports delivers it (store.py, _insert_event).
THEOREM KeysRecordedOnce == Spec => []KeyedEventsOnce
<1>1. IInv => KeyedEventsOnce
  BY DEF IInv
<1> QED
  BY InductiveInvariant, <1>1, PTL

\* No physical session is ever moved to another run, nor its binding lost
\* (store.py, _bind_session, rotate_session_binding, import_run_bundle).
THEOREM BindingsNeverMove == Spec => BindingsWriteOnce
<1>1. IInv /\ [Next]_vars
        => [\A s \in DOMAIN bindings :
              s \in DOMAIN bindings' /\ bindings'[s].run = bindings[s].run]_vars
  BY NextExtends DEF Extends, StillBound
<1> QED
  BY InductiveInvariant, <1>1, PTL DEF Spec, BindingsWriteOnce

\* No operation removes or rewrites an event that was recorded (store.py, every
\* writer of events).
THEOREM LedgerNeverRewritten == Spec => LedgerAppendOnly
<1>1. IInv /\ [Next]_vars => [IsPrefix(events, events')]_vars
  BY NextExtends DEF Extends
<1> QED
  BY InductiveInvariant, <1>1, PTL DEF Spec, LedgerAppendOnly

LEMMA RotateHandsOver ==
  ASSUME IInv, NEW old \in Sessions, NEW new \in Sessions,
         RotateSessionBinding(old, new),
         NEW s \in DOMAIN bindings, bindings[s].current, ~bindings'[s].current
  PROVE  new \in CurrentSessions(bindings', bindings[s].run)
<1> DEFINE r == bindings[old].run
           demoted == Demote(bindings, old)
<1>1. bindings \in [DOMAIN bindings -> BindingRow] /\ old \in DOMAIN bindings
  BY DEF IInv, TypeOK, TablesOK, RotateSessionBinding
<1>2. bindings' = [t \in DOMAIN demoted \cup {new} |->
                     IF t = new THEN [run |-> r, current |-> TRUE] ELSE demoted[t]]
  BY DEF RotateSessionBinding, BindSession, Upsert
<1>3. /\ DOMAIN demoted = DOMAIN bindings
      /\ \A t \in DOMAIN bindings : t # old => demoted[t] = bindings[t]
  BY <1>1 DEF Demote
<1>4. bindings'[new] = [run |-> r, current |-> TRUE] /\ new \in DOMAIN bindings'
  BY <1>2
<1>5. s = old
  BY <1>2, <1>3, <1>4
<1> QED
  BY <1>4, <1>5 DEF CurrentSessions

LEMMA OnlyRotationDemotes ==
  ASSUME IInv, [Next]_vars,
         NEW s \in DOMAIN bindings, bindings[s].current, ~bindings'[s].current
  PROVE  \E old, new \in Sessions : RotateSessionBinding(old, new)
<1>1. ASSUME NEW t \in Sessions, NEW r \in Runs, Bind(t, r) PROVE FALSE
  BY <1>1 DEF Bind, BindSession, Upsert
<1>2. ASSUME NEW r \in Runs, NEW record \in Records, NEW origin \in Origins \cup {Null},
             NEW ss \in SUBSET Sessions, NEW bundle \in Bundles,
             ImportRunBundle(r, record, origin, ss, bundle)
      PROVE FALSE
  BY <1>2 DEF ImportRunBundle
<1>3. bindings' # bindings
  OBVIOUS
<1> QED
  BY <1>1, <1>2, <1>3
  DEF Next, SomeImport, SaveRun, SaveRunWithEvents, AppendEvent, vars

\* A session loses the driver role only to a session of the same mission that
\* holds it after the same transaction (store.py, rotate_session_binding).
THEOREM RotationHandsOver == Spec => DemotedHasSuccessor
<1>1. IInv /\ [Next]_vars
        => [\A s \in DOMAIN bindings :
              bindings[s].current /\ ~bindings'[s].current
                => CurrentSessions(bindings', bindings[s].run) # {}]_vars
  BY RotateHandsOver, OnlyRotationDemotes
<1> QED
  BY InductiveInvariant, <1>1, PTL DEF Spec, DemotedHasSuccessor

\* An import never rewrites a run that exists, of its own origin or of another
\* (store.py, import_run_bundle).
THEOREM ImportsKeepRuns == Spec => ImportKeepsRuns
<1>1. [Next]_vars => [SomeImport => \A r \in DOMAIN runs : runs'[r] = runs[r]]_vars
  <2> SUFFICES ASSUME SomeImport PROVE \A r \in DOMAIN runs : runs'[r] = runs[r]
    OBVIOUS
  <2>1. PICK r \in Runs, record \in Records, origin \in Origins \cup {Null} :
          \E ss \in SUBSET Sessions, bundle \in Bundles :
            ImportRunBundle(r, record, origin, ss, bundle)
    BY DEF SomeImport
  <2>2. runs' = IF r \in DOMAIN runs THEN runs ELSE UpsertRun(runs, r, record, origin)
    BY <2>1 DEF ImportRunBundle
  <2> QED
    BY <2>2 DEF UpsertRun, Upsert
<1> QED
  BY <1>1, PTL DEF Spec, ImportKeepsRuns
=============================================================================
