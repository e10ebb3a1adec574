------------------------- MODULE StoreClientsProofs -------------------------
(***************************************************************************)
(* Proofs about the two components that use the store beside the missions' *)
(* own handlers, on the lemmas of SupergoalStoreProofs: ToolHooks for any  *)
(* number of hooks and calls, LegacyMigration for any source.               *)
(***************************************************************************)
EXTENDS LegacyMigration, ToolHooks, SupergoalStoreProofs, WellFoundedInduction

-----------------------------------------------------------------------------
(***************************************************************************)
(* Migration: the order of the keys.                                       *)
(***************************************************************************)
LEMMA PlaceOfKey ==
  ASSUME NEW k \in Keys
  PROVE  Place(k) \in Nat /\ KeyOrder[Place(k)] = k
<1>1. Place(k) \in DOMAIN KeyOrder /\ KeyOrder[Place(k)] = k
  BY KeyOrderAssumption DEF Place
<1>2. DOMAIN KeyOrder \subseteq Nat
  BY KeyOrderAssumption
<1> QED
  BY <1>1, <1>2

\* The order of the numbers, by way of that of the intervals 1..n.
LEMMA LeastNumber ==
  ASSUME NEW T \in SUBSET Nat, T # {}
  PROVE  \E n \in T : \A m \in T : n <= m
<1> DEFINE U == {1..n : n \in T}
           R == StrictSubsetOrdering(Nat)
<1>1. U \subseteq FiniteSubsetsOf(Nat) /\ U # {}
  <2>1. \A n \in T : 1..n \in SUBSET Nat /\ IsFiniteSet(1..n)
    BY FS_Interval
  <2> QED
    BY <2>1 DEF FiniteSubsetsOf
<1>2. IsWellFoundedOn(R, FiniteSubsetsOf(Nat))
  BY FS_StrictSubsetOrderingWellFounded
<1>3. \A n, m \in Nat : m < n => <<1..m, 1..n>> \in R
  <2> SUFFICES ASSUME NEW n \in Nat, NEW m \in Nat, m < n PROVE <<1..m, 1..n>> \in R
    OBVIOUS
  <2>1. 1..m \subseteq 1..n /\ n \in 1..n /\ n \notin 1..m
    OBVIOUS
  <2> QED
    BY <2>1 DEF StrictSubsetOrdering
<1> HIDE DEF U, R
<1>4. PICK x \in U : \A y \in U : ~ (<<y, x>> \in R)
  BY <1>1, <1>2, WFMin
<1>5. PICK n \in T : x = 1..n
  BY DEF U
<1>6. \A m \in T : ~ (<<1..m, 1..n>> \in R)
  BY <1>4, <1>5 DEF U
<1>7. \A m \in T : n \in Nat /\ m \in Nat /\ ~ (m < n)
  BY <1>3, <1>6
<1>8. \A m \in T : n <= m
  BY <1>7
<1> QED
  BY <1>8

LEMMA FirstKeyOfSome ==
  ASSUME NEW names \in SUBSET Keys, names # {}
  PROVE  FirstKey(names) \in names
<1> DEFINE T == {Place(n) : n \in names}
<1>1. T \in SUBSET Nat /\ T # {}
  BY PlaceOfKey
<1>2. PICK least \in T : \A m \in T : least <= m
  BY <1>1, LeastNumber
<1>3. \E n \in names : \A x \in names : Place(n) <= Place(x)
  BY <1>2
<1> QED
  BY <1>3 DEF FirstKey

-----------------------------------------------------------------------------
(***************************************************************************)
(* Migration: the plan.                                                    *)
(***************************************************************************)
LEMMA MissionRow ==
  ASSUME NEW row \in Rows, IsMission(row)
  PROVE  row \in [run : Runs \cup {Null}, record : Records]
BY DEF Rows, IsMission

LEMMA MirroredRunIsRun ==
  ASSUME NEW src \in Database, NEW s \in Sessions, IsMission(src.goal[s])
  PROVE  MirroredRun(src, s) \in Runs
<1>1. src.goal[s] \in [run : Runs \cup {Null}, record : Records]
  BY MissionRow DEF Database
<1> QED
  BY <1>1, LegacyIdAssumption DEF MirroredRun

LEMMA PlannedTypes ==
  ASSUME NEW src \in Database
  PROVE  /\ PlannedRuns(src) \subseteq Runs
         /\ \A r \in PlannedRuns(src) :
              /\ PlannedRecord(src, r) \in Records
              /\ PlannedOrigin(src, r) \in Origins
         /\ \A r : PlannedSessions(src, r) \in SUBSET Sessions
<1>1. PlannedRuns(src) \subseteq Runs
  BY DEF PlannedRuns, Authorities
<1>2. ASSUME NEW r \in PlannedRuns(src)
      PROVE  PlannedRecord(src, r) \in Records /\ PlannedOrigin(src, r) \in Origins
  <2>1. CASE r \in Authorities(src)
    <3>1. r \in Runs /\ IsMission(src.goal_run[r]) /\ src.goal_run[r] \in Rows
      BY <2>1 DEF Authorities, Database
    <3>2. src.goal_run[r].record \in Records
      BY <3>1, MissionRow
    <3> QED
      BY <2>1, <3>1, <3>2, OriginsAssumption DEF PlannedRecord, PlannedOrigin
  <2>2. CASE r \notin Authorities(src)
    <3> DEFINE s == FirstKey(Mirrors(src, r))
    <3>1. Mirrors(src, r) # {} /\ Mirrors(src, r) \in SUBSET Keys
      BY <2>2 DEF PlannedRuns, Mirrors, Keys
    <3>2. s \in Mirrors(src, r)
      BY <3>1, FirstKeyOfSome
    <3>3. s \in Sessions /\ IsMission(src.goal[s]) /\ src.goal[s] \in Rows
      BY <3>2 DEF Mirrors, Database
    <3>4. src.goal[s].record \in Records
      BY <3>3, MissionRow
    <3> QED
      BY <2>2, <3>3, <3>4, OriginsAssumption DEF PlannedRecord, PlannedOrigin
  <2> QED
    BY <2>1, <2>2
<1> QED
  BY <1>1, <1>2 DEF PlannedSessions

\* An item that is kept has an index within its list.
LEMMA IndexInList ==
  ASSUME NEW src \in Database, NEW k \in Keys, NEW i \in Decodable(src, k)
  PROVE  /\ src.goal_events[k] \in Seq(Kinds \cup {Malformed})
         /\ src.goal_events[k] \notin {Absent, Malformed}
         /\ i \in DOMAIN src.goal_events[k]
         /\ src.goal_events[k][i] \in Kinds
         /\ Index(src, k, i) \in DOMAIN src.goal_events[k]
<1>1. /\ src.goal_events[k] \in Seq(Kinds \cup {Malformed})
      /\ src.goal_events[k] \notin {Absent, Malformed}
      /\ i \in DOMAIN src.goal_events[k] /\ src.goal_events[k][i] # Malformed
  BY DEF Decodable, Database, Ledgers
<1> DEFINE n == Len(src.goal_events[k])
           upto == {j \in Decodable(src, k) : j <= i}
<1>2. n \in Nat /\ DOMAIN src.goal_events[k] = 1..n /\ i \in 1..n
  BY <1>1
<1>3. upto \in SUBSET (1..n) /\ i \in upto
  BY <1>1, <1>2 DEF Decodable
<1> HIDE DEF n, upto
<1>4. IsFiniteSet(1..n) /\ Cardinality(1..n) = n
  BY <1>2, FS_Interval
<1>5. IsFiniteSet(upto) /\ Cardinality(upto) <= n /\ Cardinality(upto) \in Nat
  BY <1>3, <1>4, FS_Subset, FS_CardinalityType
<1>6. Cardinality(upto) # 0
  BY <1>3, <1>5, FS_EmptySet
<1>7. Index(src, k, i) \in 1..n
  BY <1>2, <1>5, <1>6 DEF Index, upto
<1> QED
  BY <1>1, <1>2, <1>7

LEMMA ItemTypes ==
  ASSUME NEW src \in Database, ItemsHaveSources(src), NEW r, NEW at \in Items(src, r)
  PROVE  at \in Sources /\ Content(src, at) \in Kinds
<1>1. PICK k \in LedgerKeys(src, r) : \E i \in Decodable(src, k) : at = <<k, Index(src, k, i)>>
  BY DEF Items
<1>2. k \in Keys
  BY DEF LedgerKeys
<1>3. at \in Sources
  BY <1>1, <1>2, IndexInList DEF ItemsHaveSources
<1>4. ItemPlace(src, at) \in Decodable(src, k)
  BY <1>1 DEF ItemPlace
<1> QED
  BY <1>1, <1>2, <1>3, <1>4, IndexInList DEF Content

LEMMA PlannedBundle ==
  ASSUME NEW src \in Database, ItemsHaveSources(src), NEW r
  PROVE  /\ DOMAIN PlannedEvents(src, r) \in SUBSET Sources
         /\ DOMAIN PlannedEvents(src, r) \subseteq Items(src, r)
         /\ PlannedEvents(src, r) \in [DOMAIN PlannedEvents(src, r) -> Kinds]
         /\ \A at \in DOMAIN PlannedEvents(src, r) : PlannedEvents(src, r)[at] = Content(src, at)
<1> DEFINE kept == {at \in Items(src, r) :
                      \A x \in Items(src, r) : Before(x, at) => Content(src, x) # Content(src, at)}
<1>1. PlannedEvents(src, r) = [at \in kept |-> Content(src, at)]
  BY DEF PlannedEvents
<1>2. kept \subseteq Items(src, r)
  OBVIOUS
<1>3. \A at \in kept : at \in Sources /\ Content(src, at) \in Kinds
  BY <1>2, ItemTypes
<1> HIDE DEF kept
<1> QED
  BY <1>1, <1>2, <1>3

\* Where nothing is dropped, the index of an item is its place.
LEMMA SoundItem ==
  ASSUME NEW src \in Database, ItemsSound(src), NEW r, NEW at \in Items(src, r)
  PROVE  \E k \in Keys, i \in Nat :
           /\ at = <<k, i>>
           /\ LedgerRun(src, k) = r
           /\ src.goal_events[k] \notin {Absent, Malformed}
           /\ i \in DOMAIN src.goal_events[k]
           /\ Content(src, at) = src.goal_events[k][i]
<1>1. PICK k \in LedgerKeys(src, r) : \E i \in Decodable(src, k) : at = <<k, Index(src, k, i)>>
  BY DEF Items
<1>2. k \in Keys /\ LedgerRun(src, k) = r
  BY DEF LedgerKeys
<1> DEFINE list == src.goal_events[k]
<1>3. list \in Seq(Kinds \cup {Malformed}) /\ list \notin {Absent, Malformed}
  BY <1>1, <1>2, IndexInList
<1>4. Decodable(src, k) = DOMAIN list
  BY <1>2, <1>3 DEF Decodable, ItemsSound
<1>5. ASSUME NEW j \in DOMAIN list PROVE Index(src, k, j) = j
  <2>1. j \in Int /\ j >= 1 /\ {m \in DOMAIN list : m <= j} = 1..j
    BY <1>3
  <2>2. Cardinality(1..j) = j
    BY <2>1, FS_Interval
  <2> QED
    BY <1>4, <2>1, <2>2 DEF Index
<1>6. PICK i \in DOMAIN list : at = <<k, i>> /\ i \in Nat
  BY <1>1, <1>3, <1>4, <1>5
<1>7. ItemPlace(src, at) = i
  BY <1>4, <1>5, <1>6 DEF ItemPlace
<1> QED
  BY <1>2, <1>3, <1>6, <1>7 DEF Content

-----------------------------------------------------------------------------
(***************************************************************************)
(* Migration: two snapshots of the source with the same plan: a ledger of  *)
(* no imported run may differ.                                             *)
(***************************************************************************)
SameRows(a, b) ==
  a.goal_run = b.goal_run /\ a.goal = b.goal /\ a.goal_session = b.goal_session

SamePlan(a, b) ==
  /\ SameRows(a, b)
  /\ \A k \in Keys : LedgerRun(a, k) # Null => a.goal_events[k] = b.goal_events[k]

LEMMA SameRuns ==
  ASSUME NEW a, NEW b, SameRows(a, b)
  PROVE  /\ Authorities(a) = Authorities(b)
         /\ PlannedRuns(a) = PlannedRuns(b)
         /\ \A r : Mirrors(a, r) = Mirrors(b, r)
         /\ \A r : PlannedOrigin(a, r) = PlannedOrigin(b, r)
         /\ \A r : PlannedSessions(a, r) = PlannedSessions(b, r)
         /\ \A k : LedgerRun(a, k) = LedgerRun(b, k)
         /\ \A r : LedgerKeys(a, r) = LedgerKeys(b, r)
<1>1. Authorities(a) = Authorities(b)
  BY DEF Authorities, SameRows
<1>2. \A s : MirroredRun(a, s) = MirroredRun(b, s)
  BY DEF MirroredRun, SameRows
<1>3. ASSUME NEW r PROVE Mirrors(a, r) = Mirrors(b, r)
  BY <1>2 DEF Mirrors, SameRows
<1>4. PlannedRuns(a) = PlannedRuns(b)
  BY <1>1, <1>3 DEF PlannedRuns
<1>5. \A r : PlannedOrigin(a, r) = PlannedOrigin(b, r)
  BY <1>1, <1>3 DEF PlannedOrigin
<1>6. \A s : PlannedRun(a, s) = PlannedRun(b, s)
  BY <1>2, <1>4 DEF PlannedRun, SameRows
<1>7. ASSUME NEW r PROVE PlannedSessions(a, r) = PlannedSessions(b, r)
  BY <1>6 DEF PlannedSessions
<1>8. \A k : LedgerRun(a, k) = LedgerRun(b, k)
  BY <1>4, <1>6 DEF LedgerRun
<1>9. ASSUME NEW r PROVE LedgerKeys(a, r) = LedgerKeys(b, r)
  BY <1>8 DEF LedgerKeys
<1> QED
  BY <1>1, <1>3, <1>4, <1>5, <1>7, <1>8, <1>9

LEMMA SameEvents ==
  ASSUME NEW a, NEW b, SamePlan(a, b), NEW r \in Runs
  PROVE  /\ PlannedEvents(a, r) = PlannedEvents(b, r)
         /\ \A at \in DOMAIN PlannedEvents(a, r) : Content(a, at) = Content(b, at)
<1>1. \A k \in LedgerKeys(a, r) : a.goal_events[k] = b.goal_events[k]
  BY NamesAssumption DEF LedgerKeys, SamePlan, Keys
<1>2. LedgerKeys(a, r) = LedgerKeys(b, r)
  BY SameRuns DEF SamePlan
<1>3. ASSUME NEW k \in LedgerKeys(a, r)
      PROVE  /\ Decodable(a, k) = Decodable(b, k)
             /\ \A i : Index(a, k, i) = Index(b, k, i)
  <2>1. Decodable(a, k) = Decodable(b, k)
    BY <1>1 DEF Decodable
  <2> QED
    BY <2>1 DEF Index
<1>4. Items(a, r) = Items(b, r)
  BY <1>2, <1>3 DEF Items
<1>5. ASSUME NEW at \in Items(a, r) PROVE Content(a, at) = Content(b, at)
  <2>1. PICK k \in LedgerKeys(a, r) : at[1] = k
    BY DEF Items
  <2>2. ItemPlace(a, at) = ItemPlace(b, at)
    BY <1>3, <2>1 DEF ItemPlace
  <2> QED
    BY <1>1, <2>1, <2>2 DEF Content
<1> DEFINE Kept(src) == {at \in Items(src, r) :
                           \A x \in Items(src, r) : Before(x, at) => Content(src, x) # Content(src, at)}
<1>6. Kept(a) = Kept(b)
  BY <1>4, <1>5
<1>7. /\ PlannedEvents(a, r) = [at \in Kept(a) |-> Content(a, at)]
      /\ PlannedEvents(b, r) = [at \in Kept(b) |-> Content(b, at)]
  BY DEF PlannedEvents
<1>8. Kept(a) \subseteq Items(a, r)
  OBVIOUS
<1> HIDE DEF Kept
<1> QED
  BY <1>5, <1>6, <1>7, <1>8

LEMMA SameFlaws ==
  ASSUME NEW a, NEW b, SamePlan(a, b)
  PROVE  Flawed(a) <=> Flawed(b)
<1>1. /\ Authorities(a) = Authorities(b)
      /\ \A k \in Keys : LedgerRun(a, k) = LedgerRun(b, k)
  BY SameRuns DEF SamePlan
<1>2. a.goal_run = b.goal_run /\ a.goal = b.goal
  BY DEF SamePlan, SameRows
<1>3. \A k \in Keys : LedgerRun(a, k) # Null => a.goal_events[k] = b.goal_events[k]
  BY DEF SamePlan
<1> QED
  BY <1>1, <1>2, <1>3 DEF Flawed

-----------------------------------------------------------------------------
(***************************************************************************)
(* Migration: what a bundle brings is in the tables, and stays.            *)
(***************************************************************************)
Arrived(rs, bs, es, src, r) ==
  /\ r \in DOMAIN rs
  /\ rs[r].origin = PlannedOrigin(src, r)
  /\ \A s \in PlannedSessions(src, r) : s \in DOMAIN bs /\ bs[s].run = r
  /\ \A at \in DOMAIN PlannedEvents(src, r) :
       \E i \in DOMAIN es : es[i].run = r /\ es[i].kind = Content(src, at)

LEMMA ArrivedSame ==
  ASSUME NEW rs, NEW bs, NEW es, NEW a, NEW b, SamePlan(a, b), NEW r \in Runs,
         Arrived(rs, bs, es, a, r)
  PROVE  Arrived(rs, bs, es, b, r)
<1>1. /\ PlannedOrigin(a, r) = PlannedOrigin(b, r)
      /\ PlannedSessions(a, r) = PlannedSessions(b, r)
  BY SameRuns DEF SamePlan
<1>2. /\ PlannedEvents(a, r) = PlannedEvents(b, r)
      /\ \A at \in DOMAIN PlannedEvents(a, r) : Content(a, at) = Content(b, at)
  BY SameEvents
<1> QED
  BY <1>1, <1>2 DEF Arrived

OriginsKept ==
  \A r \in DOMAIN runs : r \in DOMAIN runs' /\ runs'[r].origin = runs[r].origin

LEMMA PrefixKeeps ==
  ASSUME NEW s \in Seq(EventRow), NEW t \in Seq(EventRow), IsPrefix(s, t), NEW i \in DOMAIN s
  PROVE  i \in DOMAIN t /\ t[i] = s[i]
<1>1. Len(s) <= Len(t) /\ SubSeq(s, 1, Len(s)) = SubSeq(t, 1, Len(s))
  BY DEF IsPrefix
<1>2. i \in 1..Len(s) /\ i \in 1..Len(t)
  BY <1>1
<1>3. SubSeq(s, 1, Len(s))[i] = s[i] /\ SubSeq(t, 1, Len(s))[i] = t[i]
  BY <1>1, <1>2
<1> QED
  BY <1>1, <1>2, <1>3

LEMMA ArrivedStays ==
  ASSUME IInv, Extends, OriginsKept, NEW src, NEW r, Arrived(runs, bindings, events, src, r)
  PROVE  Arrived(runs', bindings', events', src, r)
<1>1. events \in Seq(EventRow) /\ events' \in Seq(EventRow) /\ IsPrefix(events, events')
  BY DEF Extends, IInv, TypeOK, TablesOK
<1>2. \A i \in DOMAIN events : i \in DOMAIN events' /\ events'[i] = events[i]
  BY <1>1, PrefixKeeps
<1> QED
  BY <1>2 DEF Arrived, Extends, StillBound, OriginsKept

\* The rows an import inserts are those of the bundle that are not there yet.
LEMMA FreshRowsCover ==
  ASSUME NEW r \in Runs, NEW S \in SUBSET Sources, NEW bundle \in [S -> Kinds],
         NEW rows \in SetToSeqs(Fresh(r, bundle))
  PROVE  /\ \A i \in DOMAIN rows : \E at \in S : rows[i] = Event(r, bundle[at], at)
         /\ \A at \in S : at \notin Recorded(events, r)
              => \E i \in DOMAIN rows : rows[i] = Event(r, bundle[at], at)
<1> DEFINE new == S \ Recorded(events, r)
           F == Fresh(r, bundle)
           n == Cardinality(F)
           f == [at \in new |-> Event(r, bundle[at], at)]
<1>1. IsFiniteSet(new)
  <2>1. new \in SUBSET Sources
    OBVIOUS
  <2> QED
    BY <2>1, SourcesAssumption, FS_Subset
<1>2. F = {Event(r, bundle[at], at) : at \in new}
  BY DEF Fresh
<1>3. f \in Surjection(new, F)
  BY <1>2 DEF Surjection
<1>4. IsFiniteSet(F) /\ n \in Nat
  BY <1>1, <1>3, FS_Surjection, FS_CardinalityType
<1>5. /\ rows \in [1..n -> F]
      /\ \A i, j \in 1..n : i # j => rows[i] # rows[j]
  BY DEF SetToSeqs
<1>6. IsFiniteSet(1..n) /\ Cardinality(1..n) = n
  BY <1>4, FS_Interval
<1> HIDE DEF F, f
<1>7. rows \in Injection(1..n, F)
  BY <1>5 DEF Injection, IsInjective
<1>8. rows \in Surjection(1..n, F)
  BY <1>4, <1>6, <1>7, FS_Injection
<1>9. \A e \in F : \E i \in 1..n : rows[i] = e
  BY <1>8 DEF Surjection
<1>10. DOMAIN rows = 1..n
  BY <1>5
<1>11. ASSUME NEW at \in S, at \notin Recorded(events, r)
       PROVE  \E i \in DOMAIN rows : rows[i] = Event(r, bundle[at], at)
  <2>1. Event(r, bundle[at], at) \in F
    BY <1>2, <1>11
  <2> QED
    BY <2>1, <1>9, <1>10
<1>12. ASSUME NEW i \in DOMAIN rows
       PROVE  \E at \in S : rows[i] = Event(r, bundle[at], at)
  <2>1. rows[i] \in F
    BY <1>5, <1>10
  <2> QED
    BY <2>1, <1>2
<1> QED
  BY <1>11, <1>12

-----------------------------------------------------------------------------
(***************************************************************************)
(* Migration: the inductive invariant.                                     *)
(***************************************************************************)
Intact == damage \in {"none", "rows"}

\* What repairs may do to a source whose items are intact.
RepairedOnly(old, new) ==
  /\ new.goal = old.goal /\ new.goal_session = old.goal_session
  /\ \A r \in Runs : old.goal_run[r] # Malformed => new.goal_run[r] = old.goal_run[r]
  /\ \A k \in Keys : old.goal_events[k] # Malformed => new.goal_events[k] = old.goal_events[k]

SourceOK(src) ==
  /\ src \in Database /\ ItemsHaveSources(src)
  /\ damage = "none" => NothingMalformed(src)
  /\ Intact => ItemsSound(src)

\* The snapshot of a running script falls behind the source by repairs only.
SourcesOK ==
  /\ SourceOK(legacy)
  /\ read # Null => SourceOK(read) /\ (Intact => RepairedOnly(read, legacy))

ScriptOK ==
  /\ damage \in DOMAIN InitialSources
  /\ marker \in BOOLEAN /\ failed \in BOOLEAN
  /\ IF read = Null THEN todo = {} ELSE todo \subseteq PlannedRuns(read)

\* Only the script writes events here; an event has the content its key names.
FromLedger(e) ==
  \E k \in Keys :
    /\ legacy.goal_events[k] \notin {Absent, Malformed}
    /\ \E i \in DOMAIN legacy.goal_events[k] :
         e.source = <<k, i>> /\ e.kind = legacy.goal_events[k][i]

EventsOK ==
  \A n \in DOMAIN events :
    /\ events[n].source # Null
    /\ Intact => FromLedger(events[n])

\* Of a sound source, only what the one plan there is keeps.
PlannedOnly ==
  damage = "none" =>
    \A n \in DOMAIN events :
      /\ events[n].source \in DOMAIN PlannedEvents(legacy, events[n].run)
      /\ events[n].kind = Content(legacy, events[n].source)

\* A script without an error so far has brought what it no longer has to do.
ReadImported ==
  Intact /\ read # Null /\ ~failed =>
    /\ ~Flawed(read)
    /\ \A r \in PlannedRuns(read) \ todo : Arrived(runs, bindings, events, read, r)

MarkerOK ==
  Intact /\ marker =>
    /\ ~Flawed(legacy)
    /\ \A r \in PlannedRuns(legacy) : Arrived(runs, bindings, events, legacy, r)

WholeOK ==
  damage = "none" =>
    \A r \in PlannedRuns(legacy) \cap DOMAIN runs :
      runs[r].origin # Null => Arrived(runs, bindings, events, legacy, r)

MigInv ==
  /\ IInv /\ SourcesOK /\ ScriptOK /\ EventsOK /\ PlannedOnly
  /\ ReadImported /\ MarkerOK /\ WholeOK

LEMMA InitMigInv == MigrationInit => MigInv
<1> SUFFICES ASSUME MigrationInit PROVE MigInv
  OBVIOUS
<1>1. IInv
  BY InitIInv DEF MigrationInit
<1>2. SourceOK(legacy)
  BY InitialSourcesAssumption DEF MigrationInit, SourceOK, Intact
<1>3. /\ runs = <<>> /\ events = <<>> /\ read = Null /\ todo = {}
      /\ marker = FALSE /\ failed = FALSE /\ damage \in DOMAIN InitialSources
  BY DEF MigrationInit, Init
<1>4. DOMAIN events = {} /\ DOMAIN runs = {}
  BY <1>3
<1>5. SourcesOK /\ ScriptOK
  BY <1>2, <1>3 DEF SourcesOK, ScriptOK
<1>6. EventsOK /\ PlannedOnly
  BY <1>4 DEF EventsOK, PlannedOnly
<1>7. ReadImported /\ MarkerOK /\ WholeOK
  BY <1>3, <1>4 DEF ReadImported, MarkerOK, WholeOK
<1> QED
  BY <1>1, <1>5, <1>6, <1>7 DEF MigInv

\* A script that has met no error imports what the source holds now.
LEMMA ReadIsSamePlan ==
  ASSUME SourcesOK, Intact, read # Null, ~Flawed(read)
  PROVE  SamePlan(read, legacy)
<1>1. /\ read \in Database /\ legacy \in Database /\ RepairedOnly(read, legacy)
  BY DEF SourcesOK, SourceOK
<1>2. read.goal_run = legacy.goal_run
  <2>1. \A r \in Runs : read.goal_run[r] = legacy.goal_run[r]
    BY <1>1 DEF Flawed, RepairedOnly
  <2>2. read.goal_run \in [Runs -> Rows] /\ legacy.goal_run \in [Runs -> Rows]
    BY <1>1 DEF Database
  <2> QED
    BY <2>1, <2>2
<1>3. ASSUME NEW k \in Keys, LedgerRun(read, k) # Null
      PROVE  read.goal_events[k] = legacy.goal_events[k]
  <2> SUFFICES ASSUME read.goal_events[k] = Malformed, read.goal_events[k] # legacy.goal_events[k]
               PROVE  FALSE
    BY <1>1 DEF RepairedOnly
  <2>1. \A x \in Keys : LedgerRun(read, x) # Null /\ read.goal_events[x] # Absent
                         => read.goal_events[x] # Malformed
    BY DEF Flawed
  <2>2. read.goal_events[k] = Absent
    BY <1>3, <2>1
  <2> QED
    BY <2>2, NamesAssumption
<1> QED
  BY <1>1, <1>2, <1>3 DEF SamePlan, SameRows, RepairedOnly

-----------------------------------------------------------------------------
(***************************************************************************)
(* Migration: steps of the script that leave the tables.                   *)
(***************************************************************************)
LEMMA TablesStand ==
  ASSUME MigInv, UNCHANGED <<vars, damage, legacy>>,
         SourcesOK', ScriptOK', ReadImported', MarkerOK'
  PROVE  MigInv'
<1>1. UNCHANGED vars /\ damage' = damage /\ legacy' = legacy
  OBVIOUS
<1>2. runs' = runs /\ bindings' = bindings /\ events' = events
  BY <1>1 DEF vars
<1>3. IInv'
  BY <1>1, StutterStep DEF MigInv, Extends
<1>4. EventsOK'
  BY <1>1, <1>2 DEF MigInv, EventsOK, FromLedger, Intact
<1>5. PlannedOnly'
  BY <1>1, <1>2 DEF MigInv, PlannedOnly
<1>6. WholeOK'
  BY <1>1, <1>2 DEF MigInv, WholeOK
<1> QED
  BY <1>3, <1>4, <1>5, <1>6 DEF MigInv

LEMMA MigrateStep ==
  ASSUME MigInv, NEW force \in BOOLEAN, Migrate(force)
  PROVE  MigInv'
<1>1. /\ read' = legacy /\ todo' = PlannedRuns(legacy) /\ failed' = Flawed(legacy)
      /\ UNCHANGED vars /\ damage' = damage /\ legacy' = legacy /\ marker' = marker
  BY DEF Migrate
<1>2. runs' = runs /\ bindings' = bindings /\ events' = events
  BY <1>1 DEF vars
<1>3. SourceOK(legacy) /\ legacy \in Database
  BY DEF MigInv, SourcesOK, SourceOK
<1>4. SourcesOK'
  BY <1>1, <1>3 DEF SourcesOK, SourceOK, Intact, RepairedOnly
<1>5. read' # Null
  BY <1>1, <1>3, NamesAssumption
<1>6. Flawed(legacy) \in BOOLEAN
  BY DEF Flawed
<1>7. ScriptOK'
  BY <1>1, <1>5, <1>6 DEF MigInv, ScriptOK
<1>8. ReadImported'
  BY <1>1 DEF ReadImported
<1>9. MarkerOK'
  BY <1>1, <1>2 DEF MigInv, MarkerOK, Intact
<1> QED
  BY <1>1, <1>4, <1>7, <1>8, <1>9, TablesStand

LEMMA RefuseStep ==
  ASSUME MigInv, RefuseNext
  PROVE  MigInv'
<1>1. /\ todo' = todo \ {FirstKey(todo)} /\ todo # {} /\ failed' = TRUE
      /\ UNCHANGED vars /\ damage' = damage /\ legacy' = legacy
      /\ marker' = marker /\ read' = read
  BY DEF RefuseNext
<1>2. runs' = runs /\ bindings' = bindings /\ events' = events
  BY <1>1 DEF vars
<1>3. SourcesOK'
  BY <1>1 DEF MigInv, SourcesOK, SourceOK, Intact
<1>4. ScriptOK'
  BY <1>1 DEF MigInv, ScriptOK
<1>5. ReadImported'
  BY <1>1 DEF ReadImported
<1>6. MarkerOK'
  BY <1>1, <1>2 DEF MigInv, MarkerOK, Intact
<1> QED
  BY <1>1, <1>3, <1>4, <1>5, <1>6, TablesStand

LEMMA DiesStep ==
  ASSUME MigInv, Dies
  PROVE  MigInv'
<1>1. /\ read' = Null /\ todo' = {} /\ failed' = FALSE
      /\ UNCHANGED vars /\ damage' = damage /\ legacy' = legacy /\ marker' = marker
  BY DEF Dies
<1>2. runs' = runs /\ bindings' = bindings /\ events' = events
  BY <1>1 DEF vars
<1>3. SourcesOK'
  BY <1>1 DEF MigInv, SourcesOK, SourceOK, Intact
<1>4. ScriptOK'
  BY <1>1 DEF MigInv, ScriptOK
<1>5. ReadImported'
  BY <1>1 DEF ReadImported
<1>6. MarkerOK'
  BY <1>1, <1>2 DEF MigInv, MarkerOK, Intact
<1> QED
  BY <1>1, <1>3, <1>4, <1>5, <1>6, TablesStand

\* The marker is set only by a script that brought its whole plan, which is
\* still the plan of the source.
LEMMA FinishStep ==
  ASSUME MigInv, Finish
  PROVE  MigInv'
<1>1. /\ read # Null /\ todo = {} /\ marker' = (marker \/ ~failed)
      /\ read' = Null /\ failed' = FALSE /\ todo' = todo
      /\ UNCHANGED vars /\ damage' = damage /\ legacy' = legacy
  BY DEF Finish
<1>2. runs' = runs /\ bindings' = bindings /\ events' = events
  BY <1>1 DEF vars
<1>3. SourcesOK'
  BY <1>1 DEF MigInv, SourcesOK, SourceOK, Intact
<1>4. ScriptOK'
  BY <1>1 DEF MigInv, ScriptOK
<1>5. ReadImported'
  BY <1>1 DEF ReadImported
<1>6. ASSUME Intact, ~failed
      PROVE  /\ ~Flawed(legacy)
             /\ \A r \in PlannedRuns(legacy) : Arrived(runs, bindings, events, legacy, r)
  <2>1. /\ ~Flawed(read)
        /\ \A r \in PlannedRuns(read) : Arrived(runs, bindings, events, read, r)
    BY <1>1, <1>6 DEF MigInv, ReadImported
  <2>2. SamePlan(read, legacy)
    BY <1>1, <1>6, <2>1, ReadIsSamePlan DEF MigInv
  <2>3. PlannedRuns(read) = PlannedRuns(legacy) /\ PlannedRuns(read) \subseteq Runs
    BY <1>1, <2>2, SameRuns, PlannedTypes DEF SamePlan, MigInv, SourcesOK, SourceOK
  <2>4. ~Flawed(legacy)
    BY <2>1, <2>2, SameFlaws
  <2> QED
    BY <2>1, <2>2, <2>3, <2>4, ArrivedSame
<1>7. MarkerOK'
  BY <1>1, <1>2, <1>6 DEF MigInv, MarkerOK, Intact
<1> QED
  BY <1>1, <1>3, <1>4, <1>5, <1>7, TablesStand

-----------------------------------------------------------------------------
(***************************************************************************)
(* Migration: steps of the plugin beside the script.                       *)
(***************************************************************************)
LEMMA LiveStep ==
  ASSUME MigInv, Extends, OriginsKept, events' = events,
         \A r \in DOMAIN runs' : r \notin DOMAIN runs => runs'[r].origin = Null,
         UNCHANGED <<damage, legacy, marker, migration>>
  PROVE  MigInv'
<1>1. /\ damage' = damage /\ legacy' = legacy /\ marker' = marker
      /\ read' = read /\ todo' = todo /\ failed' = failed
  BY DEF migration
<1>2. IInv /\ IInv'
  BY DEF MigInv, Extends
<1>3. SourcesOK' /\ ScriptOK'
  BY <1>1 DEF MigInv, SourcesOK, SourceOK, Intact, ScriptOK
<1>4. EventsOK' /\ PlannedOnly'
  BY <1>1 DEF MigInv, EventsOK, FromLedger, Intact, PlannedOnly
<1>5. ReadImported'
  BY <1>1, <1>2, ArrivedStays DEF MigInv, ReadImported, Intact
<1>6. MarkerOK'
  BY <1>1, <1>2, ArrivedStays DEF MigInv, MarkerOK, Intact
<1>7. WholeOK'
  <2> SUFFICES ASSUME damage = "none", NEW r \in PlannedRuns(legacy), r \in DOMAIN runs',
                      runs'[r].origin # Null
               PROVE  Arrived(runs', bindings', events', legacy, r)
    BY <1>1 DEF WholeOK
  <2>1. r \in DOMAIN runs /\ runs[r].origin # Null
    BY DEF OriginsKept
  <2>2. Arrived(runs, bindings, events, legacy, r)
    BY <2>1 DEF MigInv, WholeOK
  <2> QED
    BY <1>2, <2>2, ArrivedStays
<1> QED
  BY <1>2, <1>3, <1>4, <1>5, <1>6, <1>7 DEF MigInv

LEMMA LiveStartStep ==
  ASSUME MigInv, NEW s \in Sessions, NEW r \in LiveRuns, NEW record \in Records,
         LiveStart(s, r, record)
  PROVE  MigInv'
<1>1. /\ r \notin DOMAIN runs /\ s \notin DOMAIN bindings
      /\ runs' = UpsertRun(runs, r, record, Null)
      /\ bindings' = BindSession(bindings, s, r)
      /\ events' = events
      /\ UNCHANGED <<damage, legacy, marker, migration>>
  BY DEF LiveStart
<1>2. r \in Runs
  BY NamesAssumption
<1>3. Extends
  BY <1>1, <1>2, StartStep DEF MigInv
<1>4. OriginsKept /\ \A x \in DOMAIN runs' : x \notin DOMAIN runs => runs'[x].origin = Null
  BY <1>1 DEF UpsertRun, Upsert, Coalesce, OriginsKept
<1> QED
  BY <1>1, <1>3, <1>4, LiveStep

LEMMA LiveSaveStep ==
  ASSUME MigInv, NEW r \in Runs, NEW record \in Records, LiveSave(r, record)
  PROVE  MigInv'
<1>1. /\ r \in DOMAIN runs /\ SaveRun(r, record, Null)
      /\ runs' = UpsertRun(runs, r, record, Null) /\ events' = events
      /\ UNCHANGED <<damage, legacy, marker, migration>>
  BY DEF LiveSave, SaveRun
<1>2. Extends
  BY <1>1, SaveRunStep DEF MigInv
<1>3. OriginsKept /\ DOMAIN runs' = DOMAIN runs
  BY <1>1 DEF UpsertRun, Upsert, Coalesce, OriginsKept
<1> QED
  BY <1>1, <1>2, <1>3, LiveStep

LEMMA LiveRotateStep ==
  ASSUME MigInv, NEW old \in Sessions, NEW new \in Sessions, LiveRotate(old, new)
  PROVE  MigInv'
<1>1. /\ RotateSessionBinding(old, new)
      /\ runs' = runs /\ events' = events
      /\ UNCHANGED <<damage, legacy, marker, migration>>
  BY DEF LiveRotate, RotateSessionBinding
<1>2. Extends
  BY <1>1, RotateStep DEF MigInv
<1>3. OriginsKept
  BY <1>1 DEF OriginsKept
<1> QED
  BY <1>1, <1>2, <1>3, LiveStep

-----------------------------------------------------------------------------
(***************************************************************************)
(* Migration: repairs of the source.                                       *)
(***************************************************************************)
LEMMA RepairStep ==
  ASSUME MigInv, UNCHANGED <<vars, damage, marker, migration>>,
         SourcesOK', EventsOK', MarkerOK', damage # "none"
  PROVE  MigInv'
<1>1. /\ UNCHANGED vars /\ damage' = damage /\ marker' = marker
      /\ read' = read /\ todo' = todo /\ failed' = failed
  BY DEF migration
<1>2. runs' = runs /\ bindings' = bindings /\ events' = events
  BY <1>1 DEF vars
<1>3. IInv'
  BY <1>1, StutterStep DEF MigInv, Extends
<1>4. ScriptOK'
  BY <1>1 DEF MigInv, ScriptOK
<1>5. ReadImported'
  BY <1>1, <1>2 DEF MigInv, ReadImported, Intact
<1>6. PlannedOnly' /\ WholeOK'
  BY <1>1 DEF PlannedOnly, WholeOK
<1> QED
  BY <1>3, <1>4, <1>5, <1>6 DEF MigInv

LEMMA RepairRunStep ==
  ASSUME MigInv, NEW r \in Runs, NEW record \in Records, RepairRun(r, record)
  PROVE  MigInv'
<1> DEFINE row == [run |-> r, record |-> record]
<1>1. /\ legacy.goal_run[r] = Malformed
      /\ legacy' = [legacy EXCEPT !.goal_run[r] = row]
      /\ UNCHANGED <<vars, damage, marker, migration>>
      /\ UNCHANGED vars /\ damage' = damage /\ marker' = marker /\ read' = read
  BY DEF RepairRun, migration
<1>2. row \in Rows
  BY DEF Rows
<1>3. SourceOK(legacy) /\ legacy \in Database
  BY DEF MigInv, SourcesOK, SourceOK
<1> HIDE DEF row
<1>4. /\ legacy' \in Database
      /\ legacy'.goal = legacy.goal /\ legacy'.goal_session = legacy.goal_session
      /\ legacy'.goal_events = legacy.goal_events
      /\ \A x \in Runs : x # r => legacy'.goal_run[x] = legacy.goal_run[x]
  BY <1>1, <1>2, <1>3 DEF Database
<1>5. damage # "none"
  BY <1>1, <1>3 DEF SourceOK, NothingMalformed
<1>6. SourceOK(legacy)'
  BY <1>1, <1>3, <1>4, <1>5 DEF SourceOK, Intact, ItemsHaveSources, ItemsSound
<1>7. SourcesOK'
  BY <1>1, <1>4, <1>6 DEF MigInv, SourcesOK, SourceOK, Intact, RepairedOnly
<1>8. EventsOK'
  BY <1>1, <1>4 DEF MigInv, EventsOK, FromLedger, Intact, vars
<1>9. MarkerOK'
  <2>1. Flawed(legacy)
    BY <1>1 DEF Flawed
  <2> QED
    BY <1>1, <2>1 DEF MigInv, MarkerOK, Intact
<1> QED
  BY <1>1, <1>5, <1>7, <1>8, <1>9, RepairStep

LEMMA RepairLedgerStep ==
  ASSUME MigInv, NEW k \in Keys, NEW kind \in Kinds, RepairLedger(k, kind)
  PROVE  MigInv'
<1>1. /\ legacy.goal_events[k] = Malformed
      /\ legacy' = [legacy EXCEPT !.goal_events[k] = <<kind>>]
      /\ UNCHANGED <<vars, damage, marker, migration>>
      /\ UNCHANGED vars /\ damage' = damage /\ marker' = marker /\ read' = read
  BY DEF RepairLedger, migration
<1>2. SourceOK(legacy) /\ legacy \in Database
  BY DEF MigInv, SourcesOK, SourceOK
<1>3. <<kind>> \in Ledgers
  BY DEF Ledgers
<1>4. /\ legacy' \in Database
      /\ SameRows(legacy, legacy')
      /\ \A x \in Keys : x # k => legacy'.goal_events[x] = legacy.goal_events[x]
      /\ legacy'.goal_events[k] = <<kind>>
  BY <1>1, <1>2, <1>3 DEF Database, SameRows
<1>5. damage # "none"
  BY <1>1, <1>2 DEF SourceOK, NothingMalformed
<1>6. ItemsHaveSources(legacy')
  BY <1>2, <1>4, FirstItemsAssumption DEF SourceOK, ItemsHaveSources
<1>7. Intact => ItemsSound(legacy')
  BY <1>2, <1>4, NamesAssumption DEF SourceOK, ItemsSound
<1>8. SourceOK(legacy)'
  BY <1>1, <1>4, <1>5, <1>6, <1>7 DEF SourceOK, Intact
<1>9. SourcesOK'
  <2> SUFFICES ASSUME read # Null, Intact PROVE RepairedOnly(read, legacy')
    BY <1>1, <1>8 DEF MigInv, SourcesOK, SourceOK, Intact
  <2>1. RepairedOnly(read, legacy)
    BY DEF MigInv, SourcesOK
  <2>2. read.goal_events[k] = Malformed
    BY <1>1, <2>1 DEF RepairedOnly
  <2> QED
    BY <1>4, <2>1, <2>2 DEF RepairedOnly, SameRows
<1>10. EventsOK'
  <2>1. events' = events
    BY <1>1 DEF vars
  <2>2. ASSUME Intact, NEW n \in DOMAIN events PROVE FromLedger(events[n])'
    <3>1. PICK x \in Keys :
            /\ legacy.goal_events[x] \notin {Absent, Malformed}
            /\ \E i \in DOMAIN legacy.goal_events[x] :
                 events[n].source = <<x, i>> /\ events[n].kind = legacy.goal_events[x][i]
      BY <2>2 DEF MigInv, EventsOK, FromLedger
    <3>2. legacy'.goal_events[x] = legacy.goal_events[x]
      BY <1>1, <1>4, <3>1
    <3> QED
      BY <2>1, <3>1, <3>2 DEF FromLedger
  <2> QED
    BY <1>1, <2>1, <2>2 DEF MigInv, EventsOK, Intact
\* Under the marker only a ledger of no imported run is malformed.
<1>11. MarkerOK'
  <2> SUFFICES ASSUME Intact, marker
               PROVE  /\ ~Flawed(legacy')
                      /\ \A r \in PlannedRuns(legacy') : Arrived(runs, bindings, events, legacy', r)
    BY <1>1 DEF MarkerOK, Intact, vars
  <2>1. /\ ~Flawed(legacy)
        /\ \A r \in PlannedRuns(legacy) : Arrived(runs, bindings, events, legacy, r)
    BY DEF MigInv, MarkerOK
  <2>2. LedgerRun(legacy, k) = Null
    <3>1. \A x \in Keys : LedgerRun(legacy, x) # Null /\ legacy.goal_events[x] # Absent
                         => legacy.goal_events[x] # Malformed
      BY <2>1 DEF Flawed
    <3> QED
      BY <1>1, <3>1, NamesAssumption
  <2>3. SamePlan(legacy, legacy')
    BY <1>4, <2>2 DEF SamePlan
  <2>4. PlannedRuns(legacy) = PlannedRuns(legacy') /\ PlannedRuns(legacy) \subseteq Runs
    BY <1>2, <1>4, SameRuns, PlannedTypes
  <2>5. ~Flawed(legacy')
    BY <2>1, <2>3, SameFlaws
  <2> QED
    BY <2>1, <2>3, <2>4, <2>5, ArrivedSame
<1> QED
  BY <1>1, <1>5, <1>9, <1>10, <1>11, RepairStep

LEMMA RepairItemStep ==
  ASSUME MigInv, NEW k \in Keys, NEW kind \in Kinds, RepairItem(k, kind)
  PROVE  MigInv'
<1>1. PICK i \in DOMAIN legacy.goal_events[k] :
        /\ legacy.goal_events[k][i] = Malformed
        /\ legacy' = [legacy EXCEPT !.goal_events[k][i] = kind]
  BY DEF RepairItem
<1>2. /\ legacy.goal_events[k] \notin {Absent, Malformed}
      /\ UNCHANGED <<vars, damage, marker, migration>>
      /\ UNCHANGED vars /\ damage' = damage /\ marker' = marker /\ read' = read
  BY DEF RepairItem, migration
<1>3. SourceOK(legacy) /\ legacy \in Database
  BY DEF MigInv, SourcesOK, SourceOK
<1>4. ~Intact /\ damage # "none"
  BY <1>1, <1>2, <1>3 DEF SourceOK, ItemsSound, Intact
<1> DEFINE list == [legacy.goal_events[k] EXCEPT ![i] = kind]
<1>5. legacy.goal_events[k] \in Seq(Kinds \cup {Malformed})
  BY <1>2, <1>3 DEF Database, Ledgers
<1>6. /\ list \in Seq(Kinds \cup {Malformed})
      /\ DOMAIN list = DOMAIN legacy.goal_events[k]
  BY <1>5
<1>7. legacy' = [legacy EXCEPT !.goal_events[k] = list]
  BY <1>1, <1>3 DEF Database
<1>8. list \in Ledgers
  BY <1>6 DEF Ledgers
<1> HIDE DEF list
<1>9. /\ legacy' \in Database
      /\ \A x \in Keys : x # k => legacy'.goal_events[x] = legacy.goal_events[x]
      /\ legacy'.goal_events[k] = list
  BY <1>3, <1>7, <1>8 DEF Database
<1>10. ItemsHaveSources(legacy')
  BY <1>2, <1>3, <1>6, <1>9 DEF SourceOK, ItemsHaveSources
<1>11. SourceOK(legacy)'
  BY <1>2, <1>4, <1>9, <1>10 DEF SourceOK, Intact
<1>12. SourcesOK'
  BY <1>2, <1>4, <1>11 DEF MigInv, SourcesOK, SourceOK, Intact
<1>13. EventsOK' /\ MarkerOK'
  BY <1>2, <1>4 DEF MigInv, EventsOK, MarkerOK, Intact, vars
<1> QED
  BY <1>2, <1>4, <1>12, <1>13, RepairStep

-----------------------------------------------------------------------------
(***************************************************************************)
(* Migration: a bundle.                                                    *)
(***************************************************************************)
\* The rows of the bundle come after the ledger there was.
LEMMA AppendedRows ==
  ASSUME NEW es \in Seq(EventRow), NEW rows \in Seq(EventRow)
  PROVE  /\ \A n \in DOMAIN (es \o rows) :
              \/ n \in DOMAIN es /\ (es \o rows)[n] = es[n]
              \/ \E i \in DOMAIN rows : (es \o rows)[n] = rows[i]
         /\ \A n \in DOMAIN es : n \in DOMAIN (es \o rows) /\ (es \o rows)[n] = es[n]
         /\ \A i \in DOMAIN rows : \E n \in DOMAIN (es \o rows) : (es \o rows)[n] = rows[i]
<1> DEFINE both == es \o rows
<1>1. /\ both \in Seq(EventRow)
      /\ Len(both) = Len(es) + Len(rows)
      /\ \A n \in 1..Len(both) : both[n] = IF n <= Len(es) THEN es[n] ELSE rows[n - Len(es)]
  BY ConcatProperties
<1> HIDE DEF both
<1>2. ASSUME NEW n \in DOMAIN both
      PROVE  \/ n \in DOMAIN es /\ both[n] = es[n]
             \/ \E i \in DOMAIN rows : both[n] = rows[i]
  <2>1. CASE n <= Len(es)
    BY <1>1, <2>1
  <2>2. CASE n > Len(es)
    <3>1. n - Len(es) \in DOMAIN rows /\ both[n] = rows[n - Len(es)]
      BY <1>1, <2>2
    <3> QED
      BY <3>1
  <2> QED
    BY <1>1, <2>1, <2>2
<1>3. ASSUME NEW n \in DOMAIN es PROVE n \in DOMAIN both /\ both[n] = es[n]
  BY <1>1
<1>4. ASSUME NEW i \in DOMAIN rows PROVE \E n \in DOMAIN both : both[n] = rows[i]
  <2>1. Len(es) + i \in DOMAIN both /\ both[Len(es) + i] = rows[i]
    BY <1>1
  <2> QED
    BY <2>1
<1> QED
  BY <1>2, <1>3, <1>4 DEF both

\* An item of the plan is the item its key names in the source as it is now.
LEMMA PlannedFromLedger ==
  ASSUME MigInv, Intact, read # Null, NEW r, NEW at \in Items(read, r),
         NEW e, e.source = at, e.kind = Content(read, at)
  PROVE  FromLedger(e)
<1>1. read \in Database /\ ItemsSound(read) /\ RepairedOnly(read, legacy)
  BY DEF MigInv, SourcesOK, SourceOK
<1>2. PICK k \in Keys, i \in Nat :
        /\ at = <<k, i>>
        /\ read.goal_events[k] \notin {Absent, Malformed}
        /\ i \in DOMAIN read.goal_events[k]
        /\ Content(read, at) = read.goal_events[k][i]
  BY <1>1, SoundItem
<1>3. legacy.goal_events[k] = read.goal_events[k]
  BY <1>1, <1>2 DEF RepairedOnly
<1> QED
  BY <1>2, <1>3 DEF FromLedger

\* An event with the key of an item of the plan has its content.
LEMMA RecordedContent ==
  ASSUME MigInv, Intact, read # Null, NEW r, NEW at \in Items(read, r),
         NEW n \in DOMAIN events, events[n].source = at
  PROVE  events[n].kind = Content(read, at)
<1>1. \E k \in Keys : \E i \in DOMAIN legacy.goal_events[k] :
        events[n].source = <<k, i>> /\ events[n].kind = legacy.goal_events[k][i]
  BY DEF MigInv, EventsOK, FromLedger
<1>2. \E x \in Keys : \E j \in DOMAIN legacy.goal_events[x] :
        at = <<x, j>> /\ Content(read, at) = legacy.goal_events[x][j]
  <2> DEFINE e == [source |-> at, kind |-> Content(read, at)]
  <2>1. FromLedger(e)
    BY PlannedFromLedger
  <2> QED
    BY <2>1 DEF FromLedger
<1>3. PICK k, i : events[n].source = <<k, i>> /\ events[n].kind = legacy.goal_events[k][i]
  BY <1>1
<1>4. PICK x, j : at = <<x, j>> /\ Content(read, at) = legacy.goal_events[x][j]
  BY <1>2
<1>5. <<k, i>> = <<x, j>>
  BY <1>3, <1>4
<1>6. k = x /\ i = j
  BY <1>5
<1> QED
  BY <1>3, <1>4, <1>6

LEMMA ImportNextStep ==
  ASSUME MigInv, ImportNext
  PROVE  MigInv'
<1> DEFINE r == FirstKey(todo)
           S == DOMAIN PlannedEvents(read, r)
           bundle == PlannedEvents(read, r)
<1>1. /\ todo # {} /\ todo' = todo \ {r}
      /\ ImportRunBundle(r, PlannedRecord(read, r), PlannedOrigin(read, r),
                         PlannedSessions(read, r), bundle)
      /\ damage' = damage /\ legacy' = legacy /\ marker' = marker
      /\ read' = read /\ failed' = failed
  BY DEF ImportNext
<1>2. /\ read # Null /\ todo \subseteq PlannedRuns(read)
      /\ read \in Database /\ ItemsHaveSources(read)
  BY <1>1 DEF MigInv, ScriptOK, SourcesOK, SourceOK
<1>3. /\ PlannedRuns(read) \subseteq Runs
      /\ PlannedSessions(read, r) \in SUBSET Sessions
  BY <1>2, PlannedTypes
<1>4. r \in todo /\ r \in PlannedRuns(read) /\ r \in Runs
  <2>1. todo \in SUBSET Keys
    BY <1>2, <1>3 DEF Keys
  <2>2. r \in todo
    BY <1>1, <2>1, FirstKeyOfSome
  <2> QED
    BY <1>2, <1>3, <2>2
<1>5. PlannedRecord(read, r) \in Records /\ PlannedOrigin(read, r) \in Origins
  BY <1>2, <1>4, PlannedTypes
<1>6. /\ S \in SUBSET Sources /\ S \subseteq Items(read, r) /\ bundle \in [S -> Kinds]
      /\ \A at \in S : bundle[at] = Content(read, at)
  BY <1>2, PlannedBundle
<1> HIDE DEF r, S, bundle
<1>7. Extends
  BY <1>1, <1>3, <1>4, <1>5, <1>6, ImportStep DEF MigInv
<1>8. /\ r \in DOMAIN runs => runs[r].origin = PlannedOrigin(read, r)
      /\ runs' = IF r \in DOMAIN runs THEN runs
                 ELSE UpsertRun(runs, r, PlannedRecord(read, r), PlannedOrigin(read, r))
      /\ bindings' = [s \in DOMAIN bindings \cup PlannedSessions(read, r) |->
                        IF s \in PlannedSessions(read, r) THEN [run |-> r, current |-> TRUE]
                                                         ELSE bindings[s]]
  BY <1>1 DEF ImportRunBundle, Importable
<1>9. /\ OriginsKept
      /\ DOMAIN runs' = DOMAIN runs \cup {r}
      /\ runs'[r].origin = PlannedOrigin(read, r)
  BY <1>8 DEF OriginsKept, UpsertRun, Upsert, Coalesce
<1>10. PICK rows \in SetToSeqs(Fresh(r, bundle)) : events' = events \o rows
  BY <1>1 DEF ImportRunBundle
<1>11. /\ rows \in Seq(EventRow)
       /\ \A i \in DOMAIN rows : \E at \in S : rows[i] = Event(r, bundle[at], at)
       /\ \A at \in S : at \notin Recorded(events, r)
            => \E i \in DOMAIN rows : rows[i] = Event(r, bundle[at], at)
  BY <1>4, <1>6, FreshRows, FreshRowsCover
<1>12. events \in Seq(EventRow)
  BY DEF MigInv, IInv, TypeOK, TablesOK
<1>13. /\ \A n \in DOMAIN events' :
             \/ n \in DOMAIN events /\ events'[n] = events[n]
             \/ \E at \in S : events'[n] = Event(r, bundle[at], at)
       /\ \A n \in DOMAIN events : n \in DOMAIN events' /\ events'[n] = events[n]
       /\ \A at \in S : at \notin Recorded(events, r)
            => \E n \in DOMAIN events' : events'[n] = Event(r, bundle[at], at)
  <2>1. /\ \A n \in DOMAIN events' :
             \/ n \in DOMAIN events /\ events'[n] = events[n]
             \/ \E i \in DOMAIN rows : events'[n] = rows[i]
        /\ \A n \in DOMAIN events : n \in DOMAIN events' /\ events'[n] = events[n]
        /\ \A i \in DOMAIN rows : \E n \in DOMAIN events' : events'[n] = rows[i]
    BY <1>10, <1>11, <1>12, AppendedRows
  <2>2. ASSUME NEW at \in S, at \notin Recorded(events, r)
        PROVE  \E n \in DOMAIN events' : events'[n] = Event(r, bundle[at], at)
    <3>1. PICK i \in DOMAIN rows : rows[i] = Event(r, bundle[at], at)
      BY <1>11, <2>2
    <3> QED
      BY <2>1, <3>1
  <2>3. ASSUME NEW n \in DOMAIN events'
        PROVE  \/ n \in DOMAIN events /\ events'[n] = events[n]
               \/ \E at \in S : events'[n] = Event(r, bundle[at], at)
    <3>1. CASE \E i \in DOMAIN rows : events'[n] = rows[i]
      BY <1>11, <3>1
    <3> QED
      BY <2>1, <3>1
  <2> QED
    BY <2>1, <2>2, <2>3
<1>14. \A at \in S : /\ Event(r, bundle[at], at).run = r
                    /\ Event(r, bundle[at], at).kind = Content(read, at)
                    /\ Event(r, bundle[at], at).source = at
  BY <1>6 DEF Event
<1>15. SourcesOK' /\ ScriptOK'
  BY <1>1, <1>2 DEF MigInv, SourcesOK, SourceOK, Intact, ScriptOK
<1>16. EventsOK'
  <2>1. ASSUME NEW n \in DOMAIN events'
        PROVE  events'[n].source # Null /\ (Intact => FromLedger(events'[n]))
    <3>1. CASE n \in DOMAIN events /\ events'[n] = events[n]
      BY <3>1 DEF MigInv, EventsOK
    <3>2. CASE \E at \in S : events'[n] = Event(r, bundle[at], at)
      <4>1. PICK at \in S : events'[n] = Event(r, bundle[at], at)
        BY <3>2
      <4>2. events'[n].source = at /\ events'[n].kind = Content(read, at)
        BY <1>14, <4>1
      <4>3. at \in Items(read, r) /\ at # Null
        BY <1>6, NullAssumption
      <4> QED
        BY <1>2, <4>2, <4>3, PlannedFromLedger
    <3> QED
      BY <1>13, <3>1, <3>2
  <2> QED
    BY <1>1, <2>1 DEF EventsOK, FromLedger, Intact
<1>17. ASSUME Intact PROVE Arrived(runs', bindings', events', read, r)
  <2>1. ASSUME NEW at \in S
        PROVE  \E n \in DOMAIN events' : events'[n].run = r /\ events'[n].kind = Content(read, at)
    <3>1. CASE at \notin Recorded(events, r)
      BY <1>13, <1>14, <3>1
    <3>2. CASE at \in Recorded(events, r)
      <4>1. PICK n \in DOMAIN events : events[n].run = r /\ events[n].source = at
        BY <3>2 DEF Recorded
      <4>2. events[n].kind = Content(read, at)
        BY <1>2, <1>6, <1>17, <4>1, RecordedContent
      <4> QED
        BY <1>13, <4>1, <4>2
    <3> QED
      BY <3>1, <3>2
  <2>2. \A s \in PlannedSessions(read, r) : s \in DOMAIN bindings' /\ bindings'[s].run = r
    BY <1>8
  <2> QED
    BY <1>9, <2>1, <2>2 DEF Arrived, S
<1>18. ReadImported'
  <2> SUFFICES ASSUME Intact, ~failed
               PROVE  /\ ~Flawed(read)
                      /\ \A x \in PlannedRuns(read) \ (todo \ {r}) :
                           Arrived(runs', bindings', events', read, x)
    BY <1>1 DEF ReadImported, Intact
  <2>1. /\ ~Flawed(read)
        /\ \A x \in PlannedRuns(read) \ todo : Arrived(runs, bindings, events, read, x)
    BY <1>2 DEF MigInv, ReadImported
  <2> QED
    BY <1>7, <1>9, <1>17, <2>1, ArrivedStays DEF MigInv
<1>19. MarkerOK'
  BY <1>1, <1>7, <1>9, ArrivedStays DEF MigInv, MarkerOK, Intact
\* A sound source has one plan, and it is the one that was read.
<1>20. ASSUME damage = "none" PROVE SamePlan(read, legacy) /\ Intact
  <2>1. /\ Intact /\ NothingMalformed(read) /\ RepairedOnly(read, legacy)
        /\ read \in Database /\ legacy \in Database
    BY <1>2, <1>20 DEF MigInv, SourcesOK, SourceOK, Intact
  <2>2. /\ \A x \in Runs : read.goal_run[x] = legacy.goal_run[x]
        /\ \A k \in Keys : read.goal_events[k] = legacy.goal_events[k]
    BY <2>1 DEF NothingMalformed, RepairedOnly
  <2>3. read.goal_run \in [Runs -> Rows] /\ legacy.goal_run \in [Runs -> Rows]
    BY <2>1 DEF Database
  <2>4. read.goal_run = legacy.goal_run
    BY <2>2, <2>3
  <2> QED
    BY <2>1, <2>2, <2>4 DEF SamePlan, SameRows, RepairedOnly
<1>21. PlannedOnly'
  <2> SUFFICES ASSUME damage = "none", NEW n \in DOMAIN events'
               PROVE  /\ events'[n].source \in DOMAIN PlannedEvents(legacy, events'[n].run)
                      /\ events'[n].kind = Content(legacy, events'[n].source)
    BY <1>1 DEF PlannedOnly
  <2>1. CASE n \in DOMAIN events /\ events'[n] = events[n]
    BY <2>1 DEF MigInv, PlannedOnly
  <2>2. CASE \E at \in S : events'[n] = Event(r, bundle[at], at)
    <3>1. PICK at \in S : events'[n] = Event(r, bundle[at], at)
      BY <2>2
    <3>2. /\ S = DOMAIN PlannedEvents(legacy, r)
          /\ Content(read, at) = Content(legacy, at)
      BY <1>4, <1>20, SameEvents DEF S
    <3> QED
      BY <1>14, <3>1, <3>2
  <2> QED
    BY <1>13, <2>1, <2>2
<1>22. WholeOK'
  <2> SUFFICES ASSUME damage = "none", NEW x \in PlannedRuns(legacy), x \in DOMAIN runs',
                      runs'[x].origin # Null
               PROVE  Arrived(runs', bindings', events', legacy, x)
    BY <1>1 DEF WholeOK
  <2>1. CASE x = r
    BY <1>4, <1>17, <1>20, <2>1, ArrivedSame
  <2>2. CASE x # r
    <3>1. x \in DOMAIN runs /\ runs[x].origin # Null
      BY <1>9, <2>2 DEF OriginsKept
    <3>2. Arrived(runs, bindings, events, legacy, x)
      BY <3>1 DEF MigInv, WholeOK
    <3> QED
      BY <1>7, <1>9, <3>2, ArrivedStays DEF MigInv
  <2> QED
    BY <2>1, <2>2
<1> QED
  BY <1>7, <1>15, <1>16, <1>18, <1>19, <1>21, <1>22 DEF MigInv, Extends

-----------------------------------------------------------------------------
LEMMA NextMigInv == MigInv /\ [MigrationNext]_allVars => MigInv'
<1> SUFFICES ASSUME MigInv, [MigrationNext]_allVars PROVE MigInv'
  OBVIOUS
<1>1. CASE \E force \in BOOLEAN : Migrate(force)
  BY <1>1, MigrateStep
<1>2. CASE ImportNext
  BY <1>2, ImportNextStep
<1>3. CASE RefuseNext
  BY <1>3, RefuseStep
<1>4. CASE Finish
  BY <1>4, FinishStep
<1>5. CASE Dies
  BY <1>5, DiesStep
<1>6. CASE \E s \in Sessions, r \in LiveRuns, record \in Records : LiveStart(s, r, record)
  BY <1>6, LiveStartStep
<1>7. CASE \E r \in Runs, record \in Records : LiveSave(r, record)
  BY <1>7, LiveSaveStep
<1>8. CASE \E old, new \in Sessions : LiveRotate(old, new)
  BY <1>8, LiveRotateStep
<1>9. CASE \E r \in Runs, record \in Records : RepairRun(r, record)
  BY <1>9, RepairRunStep
<1>10. CASE \E k \in Keys, kind \in Kinds : RepairLedger(k, kind) \/ RepairItem(k, kind)
  BY <1>10, RepairLedgerStep, RepairItemStep
<1>11. CASE UNCHANGED allVars
  <2>1. /\ UNCHANGED vars /\ damage' = damage /\ legacy' = legacy /\ marker' = marker
        /\ read' = read /\ todo' = todo /\ failed' = failed
    BY <1>11 DEF allVars, vars
  <2>2. runs' = runs /\ bindings' = bindings /\ events' = events
    BY <2>1 DEF vars
  <2>3. SourcesOK' /\ ScriptOK'
    BY <2>1 DEF MigInv, SourcesOK, SourceOK, Intact, ScriptOK
  <2>4. ReadImported' /\ MarkerOK'
    BY <2>1, <2>2 DEF MigInv, ReadImported, MarkerOK, Intact
  <2> QED
    BY <2>1, <2>3, <2>4, TablesStand
<1> QED
  BY <1>1, <1>2, <1>3, <1>4, <1>5, <1>6, <1>7, <1>8, <1>9, <1>10, <1>11 DEF MigrationNext

\* The strengthening from which the invariants of the migration follow.
THEOREM MigrationInductive == MigrationSpec => []MigInv
BY InitMigInv, NextMigInv, PTL DEF MigrationSpec

\* Tables, references, idempotence keys and the work list of the script, in
\* any order of imports, deaths, repairs and live missions (migration.py).
THEOREM MigrationTypeCorrect == MigrationSpec => []MigrationOK
<1>1. MigInv => MigrationOK
  BY DEF MigInv, IInv, TypeOK, NoOrphans, KeyedEventsOnce, ScriptOK, MigrationOK
<1> QED
  BY MigrationInductive, <1>1, PTL

\* The marker is set only when every mission of the source is in the plugin
\* with all its sessions and events, and stays true of the source as it is
\* repaired (migration.py, migrate_legacy_state, set_meta).
THEOREM MarkerIsSuccess == MigrationSpec => []MarkerMeansImported
<1>1. MigInv => MarkerMeansImported
  <2> SUFFICES ASSUME MigInv, Intact, marker, NEW r \in PlannedRuns(legacy)
               PROVE  Imported(legacy, r)
    BY DEF MarkerMeansImported, AllImported, Intact
  <2>1. Arrived(runs, bindings, events, legacy, r)
    BY DEF MigInv, MarkerOK
  <2> QED
    BY <2>1 DEF Arrived, Imported
<1> QED
  BY MigrationInductive, <1>1, PTL

\* A mission of a sound source is in the plugin with all its sessions and all
\* its events, or is a live mission, or is not there (store.py,
\* import_run_bundle, "commit or roll back together").
THEOREM RunsArriveWhole == MigrationSpec => []RunsImportedWhole
<1>1. MigInv => RunsImportedWhole
  <2> SUFFICES ASSUME MigInv, damage = "none", NEW r \in PlannedRuns(legacy),
                      r \in DOMAIN runs, runs[r].origin # Null
               PROVE  Imported(legacy, r)
    BY DEF RunsImportedWhole
  <2>1. Arrived(runs, bindings, events, legacy, r)
    BY DEF MigInv, WholeOK
  <2> QED
    BY <2>1 DEF Arrived, Imported
<1> QED
  BY MigrationInductive, <1>1, PTL

\* Two items the plan keeps for a run differ in content: one of them comes
\* before the other.
LEMMA KeptOnce ==
  ASSUME NEW src \in Database, ItemsSound(src), NEW r,
         NEW a \in DOMAIN PlannedEvents(src, r), NEW b \in DOMAIN PlannedEvents(src, r),
         Content(src, a) = Content(src, b)
  PROVE  a = b
<1>1. /\ a \in Items(src, r) /\ b \in Items(src, r)
      /\ \A x \in Items(src, r) : Before(x, a) => Content(src, x) # Content(src, a)
      /\ \A x \in Items(src, r) : Before(x, b) => Content(src, x) # Content(src, b)
  BY DEF PlannedEvents
<1>2. ~Before(a, b) /\ ~Before(b, a)
  BY <1>1
<1>3. PICK k \in Keys, i \in Nat : a = <<k, i>>
  BY <1>1, SoundItem
<1>4. PICK x \in Keys, j \in Nat : b = <<x, j>>
  BY <1>1, SoundItem
<1>5. /\ Place(k) \in Nat /\ KeyOrder[Place(k)] = k
      /\ Place(x) \in Nat /\ KeyOrder[Place(x)] = x
  BY PlaceOfKey
<1>6. ~(Place(k) < Place(x)) /\ ~(Place(x) < Place(k))
  BY <1>2, <1>3, <1>4 DEF Before
<1>7. k = x
  BY <1>5, <1>6
<1>8. ~(i < j) /\ ~(j < i)
  BY <1>2, <1>3, <1>4, <1>7 DEF Before
<1> QED
  BY <1>3, <1>4, <1>7, <1>8

\* A content of a sound source is in the ledger of its run once, however often
\* it is listed or imported (migration.py, _plan_import; store.py,
\* _insert_event).
THEOREM ContentsArriveOnce == MigrationSpec => []LegacyEventsOnce
<1>1. MigInv => LegacyEventsOnce
  <2> SUFFICES ASSUME MigInv, damage = "none",
                      NEW i \in DOMAIN events, NEW j \in DOMAIN events,
                      events[i].run = events[j].run, events[i].kind = events[j].kind
               PROVE  i = j
    BY DEF LegacyEventsOnce, NoDuplicates
  <2>1. /\ events[i].source \in DOMAIN PlannedEvents(legacy, events[i].run)
        /\ events[j].source \in DOMAIN PlannedEvents(legacy, events[i].run)
        /\ Content(legacy, events[i].source) = Content(legacy, events[j].source)
    BY DEF MigInv, PlannedOnly
  <2>2. legacy \in Database /\ ItemsSound(legacy)
    BY DEF MigInv, SourcesOK, SourceOK, Intact
  <2>3. events[i].source = events[j].source /\ events[i].source # Null
    BY <2>1, <2>2, KeptOnce DEF MigInv, EventsOK
  <2> QED
    BY <2>3 DEF MigInv, IInv, KeyedEventsOnce, KeysOK
<1> QED
  BY MigrationInductive, <1>1, PTL

-----------------------------------------------------------------------------
(***************************************************************************)
(* Hooks: what a hook may rely on between its reads.                       *)
(***************************************************************************)
Bound(h) == h.session \in DOMAIN bindings /\ bindings[h.session].run = h.run

\* Its first read has succeeded.
Looked == {"pre current", "pre load", "post current", "post load", "append"}

\* The permission of a pre hook under way is noted as soon as there is one, so
\* the instant at which it would answer "run" is one of those noted.
SlotOK(p) ==
  /\ hooks[p].run # Null => Bound(hooks[p])
  /\ hooks[p].at \in Looked => Bound(hooks[p])
  /\ hooks[p].at # "idle" => hooks[p].session \in Sessions
  /\ hooks[p].at \notin PreReads \cup {"idle"} => hooks[p].outcome \in {"ran", "blocked"}
  /\ hooks[p].outcome = "ran" => permitted[p]
  /\ hooks[p].at \in PreReads
     /\ PermittedNow(runs, bindings, hooks[p].session, hooks[p].traits)
       => permitted[p]

HookInv == IInv /\ HooksOK /\ \A p \in Slots : SlotOK(p)

HookType ==
  [at : PreReads \cup PostReads \cup {"idle", "over", "append", "done"},
   session : Sessions \cup {Null}, call : Calls \cup {Null},
   traits : SUBSET Traits, outcome : {"none", "ran", "blocked"},
   run : Runs \cup {Null}]

LEMMA IdleHook ==
  /\ Idle \in HookType
  /\ Idle.at = "idle" /\ Idle.outcome = "none" /\ Idle.run = Null
  /\ Idle.at \notin PreReads /\ Idle.at \notin Looked
BY DEF Idle, HookType, PreReads, Looked

LEMMA InitHookInv == HooksInit => HookInv
<1> SUFFICES ASSUME HooksInit PROVE HookInv
  OBVIOUS
<1>1. IInv
  BY InitIInv DEF HooksInit
<1>2. HooksOK
  BY <1>1, IdleHook DEF HooksInit, HooksOK, IInv, TypeOK, NoOrphans, HookType
<1>3. ASSUME NEW p \in Slots PROVE SlotOK(p)
  <2>1. hooks[p] = Idle
    BY DEF HooksInit
  <2> QED
    BY <2>1 DEF SlotOK, Idle, Looked, PreReads
<1> QED
  BY <1>1, <1>2, <1>3 DEF HookInv

-----------------------------------------------------------------------------
(***************************************************************************)
(* Hooks: one step, seen from one slot.                                    *)
(***************************************************************************)
LEMMA NotedAlready ==
  ASSUME NEW p \in Slots, Notes, permitted[p], hooks'[p] # Idle
  PROVE  permitted'[p]
BY DEF Notes

LEMMA NotedNow ==
  ASSUME NEW p \in Slots, Notes, hooks'[p].at \in PreReads,
         PermittedNow(runs', bindings', hooks'[p].session, hooks'[p].traits)
  PROVE  permitted'[p]
<1>1. hooks'[p] # Idle
  BY IdleHook
<1> QED
  BY <1>1 DEF Notes

LEMMA BoundStays ==
  ASSUME StillBound, NEW h, Bound(h)
  PROVE  h.session \in DOMAIN bindings' /\ bindings'[h.session].run = h.run
BY DEF StillBound, Bound

\* A hook that stays where it is, or changes no more than where it is, which
\* outcome it has and which run it has found.
GoesOn(p) ==
  /\ hooks'[p].session = hooks[p].session
  /\ \/ hooks'[p].run = hooks[p].run
     \/ Bound(hooks[p])'
  /\ hooks'[p].at \in Looked
       => \/ hooks[p].at \in Looked /\ hooks'[p].run = hooks[p].run
          \/ Bound(hooks[p])'
  /\ hooks'[p].at # "idle" => hooks[p].at # "idle"
  /\ hooks'[p].at \notin PreReads \cup {"idle"} => hooks'[p].outcome \in {"ran", "blocked"}
  /\ hooks'[p].outcome = "ran" => permitted[p]

LEMMA SlotStep ==
  ASSUME StillBound, Notes, NEW p \in Slots, SlotOK(p), GoesOn(p)
  PROVE  SlotOK(p)'
<1> USE DEF GoesOn
<1>1. hooks'[p].run # Null => Bound(hooks[p])'
  BY BoundStays DEF SlotOK, Bound
<1>2. hooks'[p].at \in Looked => Bound(hooks[p])'
  BY BoundStays DEF SlotOK, Bound
<1>3. hooks'[p].outcome = "ran" => permitted'[p]
  <2> SUFFICES ASSUME hooks'[p].outcome = "ran" PROVE permitted'[p]
    OBVIOUS
  <2>1. hooks'[p] # Idle
    BY IdleHook
  <2> QED
    BY <2>1, NotedAlready
<1>4. hooks'[p].at \in PreReads
      /\ PermittedNow(runs', bindings', hooks'[p].session, hooks'[p].traits)
        => permitted'[p]
  BY NotedNow
<1> QED
  BY <1>1, <1>2, <1>3, <1>4 DEF SlotOK

-----------------------------------------------------------------------------
(***************************************************************************)
(* Hooks: a step of the store that leaves the hooks, a step of one hook.   *)
(***************************************************************************)
LEMMA OtherSlot ==
  ASSUME HookInv, Extends, Notes, NEW p \in Slots, hooks'[p] = hooks[p]
  PROVE  SlotOK(p)'
<1>1. hooks[p] \in HookType /\ SlotOK(p) /\ StillBound
  BY DEF HookInv, HooksOK, HookType, Extends
<1>2. /\ hooks[p].at \notin PreReads \cup {"idle"} => hooks[p].outcome \in {"ran", "blocked"}
      /\ hooks[p].outcome = "ran" => permitted[p]
  BY <1>1, Zenon DEF SlotOK
<1>3. GoesOn(p)
  BY <1>2 DEF GoesOn
<1> QED
  BY <1>1, <1>3, SlotStep

LEMMA HooksStand ==
  ASSUME HookInv, Extends, Notes, hooks' = hooks
  PROVE  HookInv'
<1>1. ASSUME NEW p \in Slots PROVE SlotOK(p)'
  BY OtherSlot
<1>2. HooksOK'
  BY DEF HookInv, HooksOK, Extends, IInv, TypeOK, NoOrphans
<1> QED
  BY <1>1, <1>2 DEF HookInv, Extends

LEMMA HookMoves ==
  ASSUME HookInv, Extends, Notes, NEW p \in Slots, NEW h \in HookType,
         hooks' = [hooks EXCEPT ![p] = h], SlotOK(p)'
  PROVE  HookInv'
<1>1. hooks \in [Slots -> HookType]
  BY DEF HookInv, HooksOK, HookType
<1>2. ASSUME NEW q \in Slots PROVE SlotOK(q)'
  <2>1. CASE q = p
    BY <2>1
  <2>2. CASE q # p
    <3>1. hooks'[q] = hooks[q]
      BY <1>1, <2>2
    <3> QED
      BY <3>1, OtherSlot
  <2> QED
    BY <2>1, <2>2
<1>3. hooks' \in [Slots -> HookType]
  BY <1>1
<1>4. HooksOK'
  BY <1>3 DEF HooksOK, HookType, Extends, IInv, TypeOK, NoOrphans
<1> QED
  BY <1>2, <1>4 DEF HookInv, Extends

-----------------------------------------------------------------------------
(***************************************************************************)
(* Hooks: the steps of a hook.                                             *)
(***************************************************************************)
LEMMA PreToolCallStep ==
  ASSUME HookInv, Notes, NEW p \in Slots, NEW s \in Sessions,
         NEW call \in Calls \cup {Null}, NEW traits \in SUBSET Traits,
         PreToolCall(p, s, call, traits)
  PROVE  HookInv'
<1> DEFINE h == [Idle EXCEPT !.at = "pre run", !.session = s, !.call = call, !.traits = traits]
<1>1. /\ h \in HookType
      /\ h.at = "pre run" /\ h.session = s /\ h.outcome = "none" /\ h.run = Null
  BY DEF Idle, HookType, PreReads
<1> HIDE DEF h
<1>2. hooks' = [hooks EXCEPT ![p] = h] /\ UNCHANGED vars
  BY DEF PreToolCall, h
<1>3. Extends
  BY <1>2, StutterStep DEF HookInv
<1>4. hooks'[p] = h
  BY <1>2 DEF HookInv, HooksOK
<1>5. hooks'[p].at \in PreReads
      /\ PermittedNow(runs', bindings', hooks'[p].session, hooks'[p].traits)
        => permitted'[p]
  BY NotedNow
<1>6. SlotOK(p)'
  BY <1>1, <1>4, <1>5 DEF SlotOK, Looked, PreReads
<1> QED
  BY <1>1, <1>2, <1>3, <1>6, HookMoves

\* A step of one hook that keeps its session and leaves the database.
LEMMA HookGoesOn ==
  ASSUME HookInv, Notes, NEW p \in Slots, NEW h \in HookType,
         hooks' = [hooks EXCEPT ![p] = h], UNCHANGED vars,
         h.session = hooks[p].session,
         h.run = hooks[p].run \/ Bound(h),
         h.at \in Looked => (hooks[p].at \in Looked /\ h.run = hooks[p].run) \/ Bound(h),
         h.at # "idle" => hooks[p].at # "idle",
         h.at \notin PreReads \cup {"idle"} => h.outcome \in {"ran", "blocked"},
         h.outcome = "ran" => permitted[p]
  PROVE  HookInv'
<1>1. Extends
  BY StutterStep DEF HookInv
<1>2. hooks'[p] = h
  BY DEF HookInv, HooksOK
<1>3. Bound(hooks[p])' <=> Bound(h)
  BY <1>2 DEF Bound, vars
<1>4. GoesOn(p)
  BY <1>2, <1>3 DEF GoesOn
<1>5. SlotOK(p)'
  BY <1>1, <1>4, SlotStep DEF HookInv, Extends
<1> QED
  BY <1>1, <1>5, HookMoves

\* What a hook under way has established, and where it may be.
LEMMA SlotFacts ==
  ASSUME HookInv, NEW p \in Slots
  PROVE  /\ hooks[p] \in HookType
         /\ hooks[p].run # Null => Bound(hooks[p])
         /\ hooks[p].at \in Looked => Bound(hooks[p])
         /\ hooks[p].at # "idle" => hooks[p].session \in Sessions
         /\ hooks[p].at \notin PreReads \cup {"idle"} => hooks[p].outcome \in {"ran", "blocked"}
         /\ hooks[p].outcome = "ran" => permitted[p]
         /\ hooks[p].at \in PreReads
            /\ PermittedNow(runs, bindings, hooks[p].session, hooks[p].traits)
              => permitted[p]
<1>1. SlotOK(p) /\ hooks[p] \in HookType
  BY DEF HookInv, HooksOK, HookType
<1> QED
  BY <1>1, Zenon DEF SlotOK

\* A bound hook has a run.
LEMMA BoundHook ==
  ASSUME HookInv, NEW h, Bound(h)
  PROVE  /\ h.session \in Sessions /\ h.run \in Runs /\ h.run \in DOMAIN runs
         /\ runs[h.run].record \in Records
BY DEF HookInv, IInv, TypeOK, TablesOK, NoOrphans, ReferencesOK, Bound, BindingRow, RunRow

LEMMA NoMissionStep ==
  ASSUME HookInv, Notes, NEW p \in Slots,
         hooks[p].at \in PreReads \cup PostReads,
         hooks' = [hooks EXCEPT ![p] = NoMission(hooks[p])], UNCHANGED vars,
         hooks[p].at \in PreReads
           => PermittedNow(runs, bindings, hooks[p].session, hooks[p].traits)
  PROVE  HookInv'
<1> DEFINE h == NoMission(hooks[p])
<1>1. CASE hooks[p].at \in PreReads
  <2>1. permitted[p] /\ hooks[p] \in HookType
    BY <1>1, SlotFacts
  <2>2. /\ h \in HookType
        /\ h.session = hooks[p].session /\ h.run = hooks[p].run
        /\ h.at = "over" /\ h.outcome = "ran"
    BY <1>1, <2>1 DEF NoMission, HookType
  <2> HIDE DEF h
  <2>3. h.at \notin Looked /\ hooks[p].at # "idle"
    BY <1>1, <2>2 DEF Looked, PreReads
  <2> QED
    BY <2>1, <2>2, <2>3, HookGoesOn DEF h
<1>2. CASE hooks[p].at \notin PreReads
  <2>1. /\ hooks[p] \in HookType /\ hooks[p].at \in PostReads
        /\ hooks[p].outcome \in {"ran", "blocked"}
        /\ hooks[p].outcome = "ran" => permitted[p]
    BY <1>2, SlotFacts DEF PostReads
  <2>2. /\ h \in HookType
        /\ h.session = hooks[p].session /\ h.run = hooks[p].run
        /\ h.at = "done" /\ h.outcome = hooks[p].outcome
    BY <1>2, <2>1 DEF NoMission, HookType
  <2> HIDE DEF h
  <2>3. h.at \notin Looked /\ hooks[p].at # "idle"
    BY <2>1, <2>2 DEF Looked, PostReads
  <2> QED
    BY <2>1, <2>2, <2>3, HookGoesOn DEF h
<1> QED
  BY <1>1, <1>2

LEMMA ReadRunStep ==
  ASSUME HookInv, Notes, NEW p \in Slots, AtRun(hooks[p]),
         hooks' = [hooks EXCEPT ![p] = ReadRun(hooks[p])], UNCHANGED vars
  PROVE  HookInv'
<1>0. /\ hooks[p].at \in PreReads \cup PostReads /\ hooks[p].at # "idle"
      /\ hooks[p].at = "pre run" \/ hooks[p].at = "post run"
  BY DEF AtRun, PreReads, PostReads
<1>1. CASE hooks[p].session \notin DOMAIN bindings
  <2>1. PermittedNow(runs, bindings, hooks[p].session, hooks[p].traits)
    BY <1>1 DEF PermittedNow
  <2>2. ReadRun(hooks[p]) = NoMission(hooks[p])
    BY <1>1 DEF ReadRun
  <2> QED
    BY <1>0, <2>1, <2>2, NoMissionStep
<1>2. CASE hooks[p].session \in DOMAIN bindings
  <2> DEFINE h == ReadRun(hooks[p])
  <2>1. /\ hooks[p] \in HookType
        /\ hooks[p].at \notin PreReads \cup {"idle"} => hooks[p].outcome \in {"ran", "blocked"}
        /\ hooks[p].outcome = "ran" => permitted[p]
    BY SlotFacts
  <2>2. bindings[hooks[p].session].run \in Runs
    BY <1>2 DEF HookInv, IInv, TypeOK, TablesOK, BindingRow
  <2>3. h = [hooks[p] EXCEPT !.run = bindings[hooks[p].session].run,
               !.at = IF hooks[p].at = "pre run" THEN "pre current" ELSE "post current"]
    BY <1>2 DEF ReadRun
  <2>4. /\ h \in HookType
        /\ h.session = hooks[p].session /\ h.outcome = hooks[p].outcome
        /\ h.run = bindings[hooks[p].session].run
        /\ h.at = IF hooks[p].at = "pre run" THEN "pre current" ELSE "post current"
    BY <2>1, <2>2, <2>3 DEF HookType, PreReads, PostReads
  <2> HIDE DEF h
  <2>5. Bound(h)
    BY <1>2, <2>4 DEF Bound
  <2>6. /\ h.at # "idle"
        /\ h.at \notin PreReads \cup {"idle"} => hooks[p].at \notin PreReads \cup {"idle"}
    BY <1>0, <2>4 DEF PreReads
  <2> QED
    BY <1>0, <2>1, <2>4, <2>5, <2>6, HookGoesOn DEF h
<1> QED
  BY <1>1, <1>2

LEMMA ReadCurrentStep ==
  ASSUME HookInv, Notes, NEW p \in Slots, AtCurrent(hooks[p]),
         hooks' = [hooks EXCEPT ![p] = ReadCurrent(hooks[p])], UNCHANGED vars
  PROVE  HookInv'
<1>0. /\ hooks[p].at \in PreReads \cup PostReads /\ hooks[p].at # "idle"
      /\ hooks[p].at = "pre current" \/ hooks[p].at = "post current"
      /\ hooks[p].at \in Looked
  BY DEF AtCurrent, PreReads, PostReads, Looked
<1>1. CASE ~bindings[hooks[p].session].current
  <2>1. PermittedNow(runs, bindings, hooks[p].session, hooks[p].traits)
    BY <1>1 DEF PermittedNow
  <2>2. ReadCurrent(hooks[p]) = NoMission(hooks[p])
    BY <1>1 DEF ReadCurrent
  <2> QED
    BY <1>0, <2>1, <2>2, NoMissionStep
<1>2. CASE bindings[hooks[p].session].current
  <2> DEFINE h == ReadCurrent(hooks[p])
  <2>1. /\ hooks[p] \in HookType
        /\ hooks[p].at \notin PreReads \cup {"idle"} => hooks[p].outcome \in {"ran", "blocked"}
        /\ hooks[p].outcome = "ran" => permitted[p]
    BY SlotFacts
  <2>2. h = [hooks[p] EXCEPT !.at = IF hooks[p].at = "pre current" THEN "pre load" ELSE "post load"]
    BY <1>2 DEF ReadCurrent
  <2>3. /\ h \in HookType
        /\ h.session = hooks[p].session /\ h.outcome = hooks[p].outcome
        /\ h.run = hooks[p].run
        /\ h.at = IF hooks[p].at = "pre current" THEN "pre load" ELSE "post load"
    BY <2>1, <2>2 DEF HookType, PreReads, PostReads
  <2> HIDE DEF h
  <2>4. /\ h.at # "idle"
        /\ h.at \notin PreReads \cup {"idle"} => hooks[p].at \notin PreReads \cup {"idle"}
    BY <1>0, <2>3 DEF PreReads
  <2> QED
    BY <1>0, <2>1, <2>3, <2>4, HookGoesOn DEF h
<1> QED
  BY <1>1, <1>2

\* The record the hook decides on is the one of the run its session is bound to.
LEMMA DecideStep ==
  ASSUME HookInv, Notes, NEW p \in Slots, hooks[p].at = "pre load",
         hooks' = [hooks EXCEPT ![p] = Decide(hooks[p])], UNCHANGED vars
  PROVE  HookInv'
<1> DEFINE h == Decide(hooks[p])
           record == runs[hooks[p].run].record
           block == record.active /\ Refuses(record, hooks[p].traits)
<1>1. /\ hooks[p] \in HookType /\ Bound(hooks[p])
      /\ hooks[p].at \in PreReads /\ hooks[p].at # "idle"
  BY SlotFacts DEF Looked, PreReads
<1>2. h = [hooks[p] EXCEPT !.at = "over", !.outcome = IF block THEN "blocked" ELSE "ran"]
  BY DEF Decide
<1>3. ~block => PermittedNow(runs, bindings, hooks[p].session, hooks[p].traits)
  BY <1>1 DEF PermittedNow, Bound
<1>4. ~block => permitted[p]
  BY <1>1, <1>3, SlotFacts
<1> HIDE DEF block
<1>5. /\ h \in HookType
      /\ h.session = hooks[p].session /\ h.run = hooks[p].run
      /\ h.at = "over"
      /\ h.outcome = IF block THEN "blocked" ELSE "ran"
  BY <1>1, <1>2 DEF HookType
<1> HIDE DEF h
<1>6. /\ h.at \notin Looked /\ h.outcome \in {"ran", "blocked"}
      /\ h.outcome = "ran" => permitted[p]
  BY <1>4, <1>5 DEF Looked
<1> QED
  BY <1>1, <1>5, <1>6, HookGoesOn DEF h

LEMMA ReadStep ==
  ASSUME HookInv, Notes, NEW p \in Slots, Read(p)
  PROVE  HookInv'
<1>1. /\ hooks[p] \in HookType
      /\ hooks \in [Slots -> HookType]
  BY DEF HookInv, HooksOK, HookType
<1>2. CASE AtRun(hooks[p]) /\ hooks' = [hooks EXCEPT ![p] = ReadRun(@)]
  BY <1>1, <1>2, ReadRunStep DEF Read
<1>3. CASE AtCurrent(hooks[p]) /\ hooks' = [hooks EXCEPT ![p] = ReadCurrent(@)]
  BY <1>1, <1>3, ReadCurrentStep DEF Read
<1>4. CASE hooks[p].at = "pre load" /\ hooks' = [hooks EXCEPT ![p] = Decide(@)]
  BY <1>1, <1>4, DecideStep DEF Read
<1> QED
  BY <1>2, <1>3, <1>4 DEF Read

LEMMA FailsStep ==
  ASSUME HookInv, Notes, NEW p \in Slots, Fails(p)
  PROVE  HookInv'
<1> DEFINE h == Failure(hooks[p])
<1>1. /\ hooks[p] \in HookType
      /\ hooks[p].at \in PreReads \cup PostReads \cup {"append"}
      /\ hooks' = [hooks EXCEPT ![p] = h] /\ UNCHANGED vars
  BY SlotFacts DEF Fails
<1>2. hooks[p].at # "idle"
  BY <1>1 DEF PreReads, PostReads
<1>3. /\ hooks[p].at \notin PreReads \cup {"idle"} => hooks[p].outcome \in {"ran", "blocked"}
      /\ hooks[p].outcome = "ran" => permitted[p]
  BY SlotFacts
<1>4. /\ h \in HookType
      /\ h.session = hooks[p].session /\ h.run = hooks[p].run
      /\ h.at \in {"over", "done"}
      /\ h.outcome = IF hooks[p].at \in PreReads THEN "blocked" ELSE hooks[p].outcome
  BY <1>1 DEF Failure, HookType
<1> HIDE DEF h
<1>5. h.at \notin Looked /\ h.at # "idle" /\ h.at \notin PreReads
  BY <1>4 DEF Looked, PreReads
<1>6. /\ h.outcome \in {"ran", "blocked"}
      /\ h.outcome = "ran" => permitted[p]
  BY <1>2, <1>3, <1>4
<1> QED
  BY <1>1, <1>2, <1>4, <1>5, <1>6, HookGoesOn

LEMMA PostToolCallStep ==
  ASSUME HookInv, Notes, NEW p \in Slots, PostToolCall(p)
  PROVE  HookInv'
<1> DEFINE h == [hooks[p] EXCEPT !.at = "post run"]
<1>1. /\ hooks[p] \in HookType /\ hooks[p].at \in {"over", "done"}
      /\ hooks' = [hooks EXCEPT ![p] = h] /\ UNCHANGED vars
  BY SlotFacts DEF PostToolCall
<1>2. /\ hooks[p].outcome \in {"ran", "blocked"}
      /\ hooks[p].outcome = "ran" => permitted[p]
  BY <1>1, SlotFacts DEF PreReads
<1>3. /\ h \in HookType
      /\ h.session = hooks[p].session /\ h.run = hooks[p].run
      /\ h.at = "post run" /\ h.outcome = hooks[p].outcome
  BY <1>1 DEF HookType, PostReads
<1> HIDE DEF h
<1>4. h.at \notin Looked /\ hooks[p].at # "idle"
  BY <1>1, <1>3 DEF Looked
<1> QED
  BY <1>1, <1>2, <1>3, <1>4, HookGoesOn

LEMMA ObserveStep ==
  ASSUME HookInv, Notes, NEW p \in Slots, Observe(p)
  PROVE  HookInv'
<1>1. PICK text \in BOOLEAN :
        hooks' = [hooks EXCEPT ![p].at = IF text /\ hooks[p].call # Null THEN "append" ELSE "done"]
  BY DEF Observe
<1> DEFINE next == IF text /\ hooks[p].call # Null THEN "append" ELSE "done"
           h == [hooks[p] EXCEPT !.at = next]
<1>2. /\ hooks[p] \in HookType /\ hooks[p].at = "post load"
      /\ hooks' = [hooks EXCEPT ![p] = h] /\ UNCHANGED vars
  BY <1>1, SlotFacts DEF Observe
<1>3. next \in {"append", "done"}
  OBVIOUS
<1> HIDE DEF next
<1>4. /\ hooks[p].outcome \in {"ran", "blocked"}
      /\ hooks[p].outcome = "ran" => permitted[p]
  BY <1>2, SlotFacts DEF PreReads
<1>5. /\ h \in HookType
      /\ h.session = hooks[p].session /\ h.run = hooks[p].run
      /\ h.at = next /\ h.outcome = hooks[p].outcome
  BY <1>2, <1>3 DEF HookType
<1> HIDE DEF h
<1>6. hooks[p].at \in Looked /\ hooks[p].at # "idle" /\ h.at # "idle"
  BY <1>2, <1>3, <1>5 DEF Looked
<1> QED
  BY <1>2, <1>4, <1>5, <1>6, HookGoesOn

LEMMA RecordStep ==
  ASSUME HookInv, Notes, NEW p \in Slots, Record(p)
  PROVE  HookInv'
<1> DEFINE h == [hooks[p] EXCEPT !.at = "done"]
<1>1. /\ hooks[p] \in HookType /\ hooks[p].at = "append"
      /\ hooks' = [hooks EXCEPT ![p] = h]
      /\ AppendEvent(hooks[p].run, hooks[p].outcome, hooks[p].call)
  BY SlotFacts DEF Record
<1>2. /\ hooks[p].outcome \in {"ran", "blocked"}
      /\ hooks[p].outcome = "ran" => permitted[p]
      /\ Bound(hooks[p])
  BY <1>1, SlotFacts DEF PreReads, Looked
<1>3. hooks[p].run \in Runs /\ hooks[p].outcome \in Kinds /\ hooks[p].call \in Sources \cup {Null}
  BY <1>1, <1>2, BoundHook, CallsAssumption DEF HookType
<1>4. Extends
  BY <1>1, <1>3, AppendEventStep DEF HookInv
<1>5. /\ h \in HookType
      /\ h.session = hooks[p].session /\ h.run = hooks[p].run
      /\ h.at = "done" /\ h.outcome = hooks[p].outcome
  BY <1>1 DEF HookType
<1> HIDE DEF h
<1>6. hooks'[p] = h
  BY <1>1 DEF HookInv, HooksOK
<1>7. GoesOn(p)
  BY <1>1, <1>2, <1>5, <1>6 DEF GoesOn, Looked
<1>8. SlotOK(p)'
  BY <1>4, <1>7, SlotStep DEF HookInv, Extends
<1> QED
  BY <1>1, <1>4, <1>5, <1>8, HookMoves

LEMMA ForgetStep ==
  ASSUME HookInv, Notes, NEW p \in Slots, Forget(p)
  PROVE  HookInv'
<1>1. hooks' = [hooks EXCEPT ![p] = Idle] /\ UNCHANGED vars
  BY DEF Forget
<1>2. Extends
  BY <1>1, StutterStep DEF HookInv
<1>3. hooks'[p] = Idle
  BY <1>1 DEF HookInv, HooksOK
<1>4. SlotOK(p)'
  BY <1>3, IdleHook DEF SlotOK
<1> QED
  BY <1>1, <1>2, <1>4, IdleHook, HookMoves

-----------------------------------------------------------------------------
(***************************************************************************)
(* Hooks: the inductive invariant.                                         *)
(***************************************************************************)
\* What the rest of the system does between two steps of a hook.
LEMMA DatabaseStep ==
  ASSUME HookInv, Notes,
         \/ \E s \in Sessions, r \in Runs, record \in Records : Start(s, r, record)
         \/ \E r \in Runs, record \in Records : Save(r, record)
         \/ \E old, new \in Sessions : Rotate(old, new)
  PROVE  HookInv'
<1>1. ASSUME NEW s \in Sessions, NEW r \in Runs, NEW record \in Records, Start(s, r, record)
      PROVE  HookInv'
  <2>1. Extends /\ hooks' = hooks
    BY <1>1, StartStep DEF Start, HookInv
  <2> QED
    BY <2>1, HooksStand
<1>2. ASSUME NEW r \in Runs, NEW record \in Records, Save(r, record)
      PROVE  HookInv'
  <2>1. Extends /\ hooks' = hooks
    BY <1>2, SaveRunStep DEF Save, HookInv
  <2> QED
    BY <2>1, HooksStand
<1>3. ASSUME NEW old \in Sessions, NEW new \in Sessions, Rotate(old, new)
      PROVE  HookInv'
  <2>1. Extends /\ hooks' = hooks
    BY <1>3, RotateStep DEF Rotate, HookInv
  <2> QED
    BY <2>1, HooksStand
<1> QED
  BY <1>1, <1>2, <1>3

LEMMA NextHookInv == HookInv /\ [HooksNext]_hookVars => HookInv'
<1> SUFFICES ASSUME HookInv, [HooksNext]_hookVars PROVE HookInv'
  OBVIOUS
<1>1. CASE UNCHANGED hookVars
  BY <1>1
  DEF HookInv, IInv, TypeOK, NoOrphans, TablesOK, ReferencesOK, KeyedEventsOnce, KeysOK,
      HooksOK, SlotOK, Bound, PermittedNow, hookVars
<1>2. CASE HooksNext
  <2>1. Step /\ Notes
    BY <1>2 DEF HooksNext
  <2>2. CASE \E p \in Slots, s \in Sessions, call \in Calls \cup {Null}, traits \in SUBSET Traits :
               PreToolCall(p, s, call, traits)
    BY <2>1, <2>2, PreToolCallStep
  <2>3. CASE \E p \in Slots : Read(p)
    BY <2>1, <2>3, ReadStep
  <2>4. CASE \E p \in Slots : Fails(p)
    BY <2>1, <2>4, FailsStep
  <2>5. CASE \E p \in Slots : PostToolCall(p)
    BY <2>1, <2>5, PostToolCallStep
  <2>6. CASE \E p \in Slots : Observe(p)
    BY <2>1, <2>6, ObserveStep
  <2>7. CASE \E p \in Slots : Record(p)
    BY <2>1, <2>7, RecordStep
  <2>8. CASE \E p \in Slots : Forget(p)
    BY <2>1, <2>8, ForgetStep
  <2> QED
    BY <2>1, <2>2, <2>3, <2>4, <2>5, <2>6, <2>7, <2>8, DatabaseStep DEF Step
<1> QED
  BY <1>1, <1>2

\* The strengthening from which the invariants of the hooks follow.
THEOREM HooksInductive == HooksSpec => []HookInv
BY InitHookInv, NextHookInv, PTL DEF HooksSpec

\* The database keeps its shape and its references, and a hook its record,
\* whatever the hooks and the rest of the system do (policy.py).
THEOREM HooksTypeCorrect == HooksSpec => []HooksOK
<1>1. HookInv => HooksOK
  BY DEF HookInv
<1> QED
  BY HooksInductive, <1>1, PTL

\* A call runs only if there was an instant of its pre hook at which one atomic
\* look would have let it, however many sessions, missions and hooks commit
\* between its three reads (policy.py, ToolHookHandler.pre_tool_call).
THEOREM CallsPermitted == HooksSpec => []RunsOnlyIfPermitted
<1>1. HookInv => RunsOnlyIfPermitted
  BY SlotFacts DEF RunsOnlyIfPermitted
<1> QED
  BY HooksInductive, <1>1, PTL

\* A recorded call is an event of the mission of its session: no rotation or
\* start between the read of the binding and the append moves it elsewhere
\* (policy.py, ToolHookHandler.post_tool_call).
THEOREM RecordsStayHome == HooksSpec => []RecordsInOwnMission
<1>1. HookInv => RecordsInOwnMission
  BY SlotFacts, BoundHook DEF RecordsInOwnMission, Bound
<1> QED
  BY HooksInductive, <1>1, PTL
=============================================================================
