-------------------------- MODULE ProjectionProofs --------------------------
(***************************************************************************)
(* What loads, replays and copies make of the lists of the record, for any *)
(* ledger, window and caps; from it, what EvidenceTurns promises.          *)
(***************************************************************************)
EXTENDS EvidenceTurns, TLAPS, SequenceTheorems, FiniteSetTheorems, WellFoundedInduction

-----------------------------------------------------------------------------
(***************************************************************************)
(* One item.                                                               *)
(***************************************************************************)
Distinct(list) == \A i, j \in DOMAIN list : list[i] = list[j] => i = j

\* The list is a window on the set: as many of its members as the cap lets in, and
\* nothing but members of all.
WindowOn(list, all, set, cap) ==
  /\ Range(list) \subseteq all
  /\ Distinct(list)
  /\ Len(list) <= cap
  /\ Len(list) < cap => set \subseteq Range(list)

Somethings(items) == Range(items) \ {Nothing}

Optional(set) == set \cup {Nothing}

With(set, item) == set \cup ({item} \ {Nothing})

LEMMA ShortLastN ==
  ASSUME NEW s, NEW n \in Nat, Len(s) <= n
  PROVE  LastN(s, n) = s
BY DEF LastN

LEMMA FullLastN ==
  ASSUME NEW T, NEW s \in Seq(T), NEW x \in T, NEW n \in Nat \ {0}, Len(s) = n
  PROVE  LastN(Append(s, x), n) = [i \in 1..n |-> IF i < n THEN s[i + 1] ELSE x]
<1> DEFINE a == Append(s, x)
<1>1. /\ a \in Seq(T) /\ Len(a) = n + 1
      /\ a[n + 1] = x /\ \A i \in 1..n : a[i] = s[i]
  BY AppendProperties
<1> HIDE DEF a
<1>2. LastN(a, n) = SubSeq(a, 2, n + 1)
  <2>1. ~ (Len(a) <= n)
    BY <1>1
  <2>2. LastN(a, n) = SubSeq(a, Len(a) - n + 1, Len(a))
    BY <2>1, Zenon DEF LastN
  <2>3. Len(a) - n + 1 = 2 /\ Len(a) = n + 1
    BY <1>1
  <2> QED
    BY <2>2, <2>3, Zenon
<1>3. /\ SubSeq(a, 2, n + 1) \in Seq(T) /\ Len(SubSeq(a, 2, n + 1)) = n
      /\ \A i \in 1..n : SubSeq(a, 2, n + 1)[i] = a[i + 1]
  BY <1>1, SubSeqProperties
<1>4. \A i \in 1..n : a[i + 1] = IF i < n THEN s[i + 1] ELSE x
  BY <1>1
<1>5. SubSeq(a, 2, n + 1) = [i \in 1..n |-> SubSeq(a, 2, n + 1)[i]]
  BY <1>3
<1> QED
  BY <1>2, <1>3, <1>4, <1>5 DEF a

LEMMA AppendToLastN ==
  ASSUME NEW T, NEW s \in Seq(T), NEW x \in T, NEW n \in Nat \ {0}, Len(s) <= n
  PROVE  \E r \in Seq(T) : /\ r = LastN(Append(s, x), n)
                           /\ Len(r) \in 1..n /\ r[Len(r)] = x
<1>1. /\ Append(s, x) \in Seq(T) /\ Len(s) \in Nat
      /\ Len(Append(s, x)) = Len(s) + 1 /\ Append(s, x)[Len(s) + 1] = x
  BY AppendProperties
<1>2. CASE Len(s) < n
  <2>1. LastN(Append(s, x), n) = Append(s, x)
    <3>1. Len(Append(s, x)) <= n /\ n \in Nat
      BY <1>1, <1>2
    <3> QED
      BY <3>1, ShortLastN, Zenon
  <2> QED
    BY <1>1, <1>2, <2>1
<1>3. CASE Len(s) = n
  <2> DEFINE r == [i \in 1..n |-> IF i < n THEN s[i + 1] ELSE x]
  <2>1. r \in Seq(T) /\ Len(r) = n /\ r[n] = x
    <3>1. \A i \in 1..n : (IF i < n THEN s[i + 1] ELSE x) \in T
      BY <1>3
    <3> QED
      BY <3>1
  <2>2. LastN(Append(s, x), n) = r
    BY <1>3, FullLastN
  <2> HIDE DEF r
  <2> QED
    BY <2>1, <2>2
<1> QED
  BY <1>1, <1>2, <1>3

LEMMA AppendKeepsWindow ==
  ASSUME NEW T, NEW list \in Seq(T), NEW item \in T, NEW all, NEW set,
         NEW cap \in Nat \ {0}, WindowOn(list, all, set, cap),
         ~ Contains(list, item),
         NEW merged, merged = LastN(Append(list, item), cap)
  PROVE  /\ merged \in Seq(T)
         /\ WindowOn(merged, all \cup {item}, set \cup {item}, cap)
         /\ item \in Range(merged)
<1>1. Len(list) \in Nat /\ cap \in Nat \ {0} /\ Len(list) <= cap
  BY ProjectionAssumption DEF WindowOn
<1>2. /\ DOMAIN list = 1..Len(list)
      /\ \A i \in 1..Len(list) : list[i] # item /\ list[i] \in all /\ list[i] \in T
      /\ \A i, j \in 1..Len(list) : list[i] = list[j] => i = j
  BY DEF Contains, WindowOn, Distinct, Range
<1>3. CASE Len(list) < cap
  <2>1. /\ Append(list, item) \in Seq(T) /\ Len(Append(list, item)) = Len(list) + 1
        /\ Append(list, item)[Len(list) + 1] = item
        /\ \A i \in 1..Len(list) : Append(list, item)[i] = list[i]
    BY AppendProperties
  <2>2. merged = Append(list, item)
    <3>1. Len(Append(list, item)) <= cap /\ cap \in Nat
      BY <1>1, <1>3, <2>1
    <3> QED
      BY <3>1, ShortLastN, Zenon
  <2>3. /\ merged \in Seq(T) /\ Len(merged) = Len(list) + 1
        /\ merged[Len(list) + 1] = item /\ DOMAIN merged = 1..Len(merged)
        /\ \A i \in 1..Len(list) : merged[i] = list[i]
    BY <2>1, <2>2
  <2>4. item \in Range(merged) /\ \A v \in Range(list) : v \in Range(merged)
    BY <1>1, <1>2, <2>3 DEF Range
  <2>5. \A i \in 1..Len(merged) : merged[i] \in all \cup {item}
    BY <1>1, <1>2, <2>3
  <2>6. \A i, j \in 1..Len(merged) : merged[i] = merged[j] => i = j
    BY <1>1, <1>2, <2>3
  <2>7. set \subseteq Range(merged) /\ Len(merged) <= cap
    BY <1>1, <1>3, <2>3, <2>4 DEF WindowOn
  <2> QED
    BY <2>3, <2>4, <2>5, <2>6, <2>7 DEF WindowOn, Distinct, Range
<1>4. CASE Len(list) = cap
  <2>1. merged = [i \in 1..cap |-> IF i < cap THEN list[i + 1] ELSE item]
    BY <1>1, <1>4, FullLastN
  <2>2. \A i \in 1..cap : merged[i] = IF i < cap THEN list[i + 1] ELSE item
    BY <2>1
  <2>3. \A i \in 1..cap : merged[i] \in all \cup {item} /\ merged[i] \in T
    BY <1>1, <1>2, <1>4, <2>2
  <2>4. \A i, j \in 1..cap : merged[i] = merged[j] => i = j
    BY <1>1, <1>2, <1>4, <2>2
  <2>5. DOMAIN merged = 1..cap
    BY <2>1
  <2>6. merged \in Seq(T) /\ Len(merged) = cap
    BY <1>1, <2>1, <2>3, <2>5
  <2>7. item \in Range(merged)
    BY <1>1, <2>2, <2>5 DEF Range
  <2> QED
    BY <1>1, <2>3, <2>4, <2>5, <2>6, <2>7 DEF WindowOn, Distinct, Range
<1> QED
  BY <1>1, <1>3, <1>4

\* A window and what may come into it.
Taking(T, list, item, all, set, cap) ==
  /\ Nothing \notin T /\ list \in Seq(T) /\ item \in Optional(T)
  /\ cap \in Nat \ {0} /\ WindowOn(list, all, set, cap)

LEMMA TakeKeepsWindow ==
  ASSUME NEW T, NEW list, NEW item, NEW all, NEW set, NEW cap,
         Taking(T, list, item, all, set, cap),
         NEW next, next = Take(list, item, cap, TRUE)
  PROVE  /\ next \in Seq(T)
         /\ WindowOn(next, With(all, item), With(set, item), cap)
         /\ item # Nothing => item \in Range(next)
         /\ item = Nothing => next = list
<1>0. /\ Nothing \notin T /\ list \in Seq(T) /\ item \in Optional(T)
      /\ cap \in Nat \ {0} /\ WindowOn(list, all, set, cap)
  BY DEF Taking
<1>1. CASE item = Nothing
  <2>1. next = list /\ With(all, item) = all /\ With(set, item) = set
    BY <1>0, <1>1 DEF Take, With
  <2> QED
    BY <1>0, <1>1, <2>1, Zenon
<1>2. CASE item # Nothing /\ Contains(list, item)
  <2>1. item \in Range(list) /\ item \in all
    BY <1>0, <1>2 DEF Contains, Range, WindowOn
  <2>2. next = list /\ With(all, item) = all /\ With(set, item) = set \cup {item}
    BY <1>0, <1>2, <2>1 DEF Take, With
  <2> QED
    BY <1>0, <1>2, <2>1, <2>2 DEF WindowOn
<1>3. CASE item # Nothing /\ ~ Contains(list, item)
  <2>1. item \in T /\ With(all, item) = all \cup {item} /\ With(set, item) = set \cup {item}
    BY <1>0, <1>3 DEF Optional, With
  <2>2. next = LastN(Append(list, item), cap)
    BY <1>0, <1>3 DEF Take
  <2>3. /\ next \in Seq(T)
        /\ WindowOn(next, all \cup {item}, set \cup {item}, cap)
        /\ item \in Range(next)
    BY <1>0, <1>3, <2>1, <2>2, AppendKeepsWindow
  <2> QED
    BY <1>0, <1>3, <2>1, <2>3
<1> QED
  BY <1>1, <1>2, <1>3

LEMMA TakeTyped ==
  ASSUME NEW T, NEW list \in Seq(T), NEW item \in Optional(T),
         NEW cap \in Nat \ {0}, Len(list) <= cap, NEW unique \in BOOLEAN,
         NEW next, next = Take(list, item, cap, unique)
  PROVE  next \in Seq(T) /\ Len(next) <= cap
<1>1. CASE next = list
  BY <1>1
<1>2. CASE item # Nothing /\ next = LastN(Append(list, item), cap)
  <2>1. item \in T
    BY <1>2 DEF Optional
  <2>2. next \in Seq(T) /\ Len(next) \in 1..cap
    BY <1>2, <2>1, AppendToLastN
  <2> QED
    BY <2>2
<1> QED
  BY <1>1, <1>2 DEF Take

-----------------------------------------------------------------------------
(***************************************************************************)
(* The loop over the items.                                                *)
(***************************************************************************)
\* The order of the numbers, by way of that of the intervals 1..n.
LEMMA LeastNumber ==
  ASSUME NEW T \in SUBSET Nat, T # {}
  PROVE  \E n \in T : \A m \in T : n <= m
<1> DEFINE U == {1..n : n \in T}
           R == StrictSubsetOrdering(Nat)
<1>1. U \subseteq FiniteSubsetsOf(Nat) /\ U # {}
  <2>1. \A n \in T : 1..n \in SUBSET Nat /\ IsFiniteSet(1..n)
    BY FS_Interval
  <2> QED
    BY <2>1 DEF FiniteSubsetsOf
<1>2. IsWellFoundedOn(R, FiniteSubsetsOf(Nat))
  BY FS_StrictSubsetOrderingWellFounded
<1>3. \A n, m \in Nat : m < n => <<1..m, 1..n>> \in R
  <2> SUFFICES ASSUME NEW n \in Nat, NEW m \in Nat, m < n PROVE <<1..m, 1..n>> \in R
    OBVIOUS
  <2>1. 1..m \subseteq 1..n /\ n \in 1..n /\ n \notin 1..m
    OBVIOUS
  <2> QED
    BY <2>1 DEF StrictSubsetOrdering
<1> HIDE DEF U, R
<1>4. PICK x \in U : \A y \in U : ~ (<<y, x>> \in R)
  BY <1>1, <1>2, WFMin
<1>5. PICK n \in T : x = 1..n
  BY <1>4 DEF U
<1>6. ASSUME NEW m \in T PROVE n <= m
  <2>1. 1..m \in U /\ n \in Nat /\ m \in Nat
    BY DEF U
  <2>2. ~ (m < n)
    BY <1>3, <1>4, <1>5, <2>1, Zenon
  <2> QED
    BY <2>1, <2>2
<1> QED
  BY <1>5, <1>6

\* f holds the list after each of the first n items.
LoopUpTo(f, list, items, cap, unique, n) ==
  f = [i \in 0..n |-> IF i = 0 THEN list ELSE Take(f[i - 1], items[i], cap, unique)]

Pass(list, items, cap, unique) == CHOOSE f : LoopUpTo(f, list, items, cap, unique, Len(items))

LEMMA TakeAllIsPass ==
  ASSUME NEW list, NEW items, NEW cap, NEW unique
  PROVE  TakeAll(list, items, cap, unique) = Pass(list, items, cap, unique)[Len(items)]
BY DEF TakeAll, Pass, LoopUpTo

\* A loop over some items goes on to one more.
LEMMA PassGoesOn ==
  ASSUME NEW list, NEW items, NEW cap, NEW unique, NEW n \in Nat \ {0},
         NEW f, LoopUpTo(f, list, items, cap, unique, n - 1)
  PROVE  \E g : LoopUpTo(g, list, items, cap, unique, n)
<1> DEFINE g == [i \in 0..n |-> IF i = n THEN Take(f[n - 1], items[n], cap, unique) ELSE f[i]]
           h == [i \in 0..n |-> IF i = 0 THEN list ELSE Take(g[i - 1], items[i], cap, unique)]
<1>0. f = [i \in 0..n - 1 |-> IF i = 0 THEN list ELSE Take(f[i - 1], items[i], cap, unique)]
  BY DEF LoopUpTo
<1>1. ASSUME NEW i \in 0..n PROVE g[i] = h[i]
  <2>1. CASE i = 0
    BY <1>0, <2>1
  <2>2. CASE i = n
    <3>1. g[n] = Take(f[n - 1], items[n], cap, unique) /\ n - 1 \in 0..n /\ n - 1 # n
      OBVIOUS
    <3>2. g[n - 1] = f[n - 1]
      BY <3>1
    <3> QED
      BY <2>2, <3>1, <3>2
  <2>3. CASE i \in 1..n - 1
    <3>1. i \in 0..n - 1 /\ i - 1 \in 0..n - 1 /\ i - 1 \in 0..n /\ i # n /\ i - 1 # n /\ i # 0
      BY <2>3
    <3>2. g[i] = f[i] /\ g[i - 1] = f[i - 1]
      BY <3>1
    <3>3. f[i] = Take(f[i - 1], items[i], cap, unique)
      BY <1>0, <3>1
    <3> QED
      BY <3>1, <3>2, <3>3
  <2> QED
    BY <2>1, <2>2, <2>3
<1>2. g = h
  BY <1>1
<1>3. LoopUpTo(g, list, items, cap, unique, n)
  BY <1>2 DEF LoopUpTo
<1> QED
  BY <1>3

LEMMA PassExists ==
  ASSUME NEW list, NEW items, NEW cap, NEW unique, NEW n \in Nat
  PROVE  \E f : LoopUpTo(f, list, items, cap, unique, n)
<1> DEFINE Exists(m) == \E f : LoopUpTo(f, list, items, cap, unique, m)
           T == {m \in Nat : ~ Exists(m)}
<1>1. Exists(0)
  <2> DEFINE f == [i \in 0..0 |-> list]
  <2>1. LoopUpTo(f, list, items, cap, unique, 0)
    BY DEF LoopUpTo
  <2> QED
    BY <2>1
<1>2. ASSUME NEW m \in Nat \ {0}, Exists(m - 1) PROVE Exists(m)
  BY <1>2, PassGoesOn
<1> HIDE DEF Exists
<1>3. T = {}
  <2> SUFFICES ASSUME T # {} PROVE FALSE
    OBVIOUS
  <2>1. PICK m \in T : \A k \in T : m <= k
    BY LeastNumber
  <2>2. m \in Nat \ {0}
    BY <1>1, <2>1
  <2>3. m - 1 \in Nat /\ m - 1 \notin T
    BY <2>1, <2>2
  <2> QED
    BY <1>2, <2>1, <2>2, <2>3
<1>4. Exists(n)
  BY <1>3
<1> QED
  BY <1>4 DEF Exists

LEMMA PassEquations ==
  ASSUME NEW list, NEW items, NEW cap, NEW unique, Len(items) \in Nat
  PROVE  /\ Pass(list, items, cap, unique)[0] = list
         /\ \A i \in 1..Len(items) :
              Pass(list, items, cap, unique)[i] = Take(Pass(list, items, cap, unique)[i - 1], items[i], cap, unique)
<1> DEFINE f == Pass(list, items, cap, unique)
<1>1. LoopUpTo(f, list, items, cap, unique, Len(items))
  BY PassExists DEF Pass
<1> HIDE DEF f
<1>2. f[0] = list /\ \A i \in 1..Len(items) : f[i] = Take(f[i - 1], items[i], cap, unique)
  BY <1>1 DEF LoopUpTo
<1> QED
  BY <1>2 DEF f

\* What every pass of the loop keeps holds after the last one.
LEMMA LoopInduction ==
  ASSUME NEW list, NEW items, Len(items) \in Nat, NEW cap, NEW unique,
         NEW G, <<0, list>> \in G,
         \A n \in 1..Len(items) : \A v :
           <<n - 1, v>> \in G => <<n, Take(v, items[n], cap, unique)>> \in G
  PROVE  <<Len(items), TakeAll(list, items, cap, unique)>> \in G
<1> DEFINE f == Pass(list, items, cap, unique)
           T == {m \in Nat : m <= Len(items) /\ <<m, f[m]>> \notin G}
<1>1. f[0] = list /\ \A i \in 1..Len(items) : f[i] = Take(f[i - 1], items[i], cap, unique)
  BY PassEquations
<1> HIDE DEF f
<1>2. T = {}
  <2> SUFFICES ASSUME T # {} PROVE FALSE
    OBVIOUS
  <2>1. PICK m \in T : \A k \in T : m <= k
    BY LeastNumber
  <2>2. m \in Nat \ {0} /\ m \in 1..Len(items) /\ m - 1 \in Nat /\ m - 1 <= Len(items)
    BY <1>1, <2>1
  <2>3. <<m - 1, f[m - 1]>> \in G
    <3>1. m - 1 \notin T
      BY <2>1, <2>2
    <3> QED
      BY <2>2, <3>1
  <2>4. <<m, f[m]>> \in G
    BY <1>1, <2>2, <2>3
  <2> QED
    BY <2>1, <2>4
<1>3. <<Len(items), f[Len(items)]>> \in G
  BY <1>2
<1> QED
  BY <1>3, TakeAllIsPass DEF f

LEMMA TakeAllWindow ==
  ASSUME NEW T, Nothing \notin T, NEW list \in Seq(T), NEW items \in Seq(Optional(T)),
         NEW all, NEW set, NEW cap \in Nat \ {0}, WindowOn(list, all, set, cap),
         NEW next, next = TakeAll(list, items, cap, TRUE)
  PROVE  /\ next \in Seq(T)
         /\ WindowOn(next, all \cup Somethings(items), set \cup Somethings(items), cap)
         /\ \A i \in DOMAIN items :
              items[i] # Nothing /\ (\A j \in DOMAIN items : j > i => items[j] = Nothing)
                => items[i] \in Range(next)
         /\ (\A i \in DOMAIN items : items[i] = Nothing) => next = list
<1> DEFINE UpTo(n) == {items[i] : i \in 1..n} \ {Nothing}
           Good(n, v) ==
             /\ WindowOn(v, all \cup UpTo(n), set \cup UpTo(n), cap)
             /\ \A i \in 1..n :
                  items[i] # Nothing /\ (\A j \in i + 1..n : items[j] = Nothing)
                    => items[i] \in Range(v)
             /\ (\A i \in 1..n : items[i] = Nothing) => v = list
           G == {p \in Nat \X Seq(T) : Good(p[1], p[2])}
<1>1. Len(items) \in Nat /\ DOMAIN items = 1..Len(items)
  OBVIOUS
<1>2. <<0, list>> \in G
  <2>1. UpTo(0) = {} /\ 1..0 = {}
    OBVIOUS
  <2>2. Good(0, list)
    BY <2>1
  <2> QED
    BY <2>2
<1>3. ASSUME NEW n \in 1..Len(items), NEW v \in Seq(T), Good(n - 1, v)
      PROVE  LET w == Take(v, items[n], cap, TRUE) IN w \in Seq(T) /\ Good(n, w)
  <2> DEFINE w == Take(v, items[n], cap, TRUE)
  <2>1. items[n] \in Optional(T) /\ n \in Nat /\ 1..n = 1..n - 1 \cup {n}
    BY <1>1
  <2>2. UpTo(n) = With(UpTo(n - 1), items[n])
    BY <2>1 DEF With
  <2>3. WindowOn(v, all \cup UpTo(n - 1), set \cup UpTo(n - 1), cap)
    BY <1>3
  <2>4. /\ w \in Seq(T)
        /\ WindowOn(w, With(all \cup UpTo(n - 1), items[n]), With(set \cup UpTo(n - 1), items[n]), cap)
        /\ items[n] # Nothing => items[n] \in Range(w)
        /\ items[n] = Nothing => w = v
    <3> DEFINE A == all \cup UpTo(n - 1)
               S == set \cup UpTo(n - 1)
               item == items[n]
    <3>1. Taking(T, v, item, A, S, cap) /\ w = Take(v, item, cap, TRUE)
      BY <2>1, <2>3 DEF Taking
    <3> HIDE DEF A, S, item, w
    <3>2. /\ w \in Seq(T)
          /\ WindowOn(w, With(A, item), With(S, item), cap)
          /\ item # Nothing => item \in Range(w)
          /\ item = Nothing => w = v
      BY <3>1, TakeKeepsWindow
    <3> QED
      BY <3>2 DEF A, S, item
  <2>5. WindowOn(w, all \cup UpTo(n), set \cup UpTo(n), cap)
    <3>1. /\ With(all \cup UpTo(n - 1), items[n]) = all \cup UpTo(n)
          /\ With(set \cup UpTo(n - 1), items[n]) = set \cup UpTo(n)
      BY <2>2 DEF With
    <3> HIDE DEF UpTo
    <3> QED
      BY <2>4, <3>1
  <2>6. ASSUME NEW i \in 1..n, items[i] # Nothing, \A j \in i + 1..n : items[j] = Nothing
        PROVE  items[i] \in Range(w)
    <3>1. CASE i = n
      BY <2>4, <2>6, <3>1
    <3>2. CASE i # n
      <4>1. i \in 1..n - 1 /\ n \in i + 1..n /\ \A j \in i + 1..n - 1 : j \in i + 1..n
        BY <3>2
      <4>2. items[i] \in Range(v) /\ items[n] = Nothing
        BY <1>3, <2>6, <4>1
      <4> QED
        BY <2>4, <4>2
    <3> QED
      BY <3>1, <3>2
  <2>7. ASSUME \A i \in 1..n : items[i] = Nothing PROVE w = list
    <3>1. n \in 1..n /\ \A i \in 1..n - 1 : i \in 1..n
      OBVIOUS
    <3> QED
      BY <1>3, <2>4, <2>7, <3>1
  <2> QED
    BY <2>4, <2>5, <2>6, <2>7
<1> HIDE DEF Good
<1>4. \A n \in 1..Len(items) : \A v :
        <<n - 1, v>> \in G => <<n, Take(v, items[n], cap, TRUE)>> \in G
  <2> SUFFICES ASSUME NEW n \in 1..Len(items), NEW v, <<n - 1, v>> \in G
               PROVE  <<n, Take(v, items[n], cap, TRUE)>> \in G
    OBVIOUS
  <2>1. v \in Seq(T) /\ Good(n - 1, v) /\ n \in Nat
    OBVIOUS
  <2> QED
    BY <1>3, <2>1
<1> HIDE DEF G
<1>5. <<Len(items), next>> \in G
  BY <1>1, <1>2, <1>4, LoopInduction
<1>6. next \in Seq(T) /\ Good(Len(items), next)
  BY <1>5 DEF G
<1>7. UpTo(Len(items)) = Somethings(items)
  BY <1>1 DEF Somethings, Range
<1>8. WindowOn(next, all \cup Somethings(items), set \cup Somethings(items), cap)
  BY <1>6, <1>7, Zenon DEF Good
<1>9. ASSUME NEW i \in DOMAIN items, items[i] # Nothing,
             \A j \in DOMAIN items : j > i => items[j] = Nothing
      PROVE  items[i] \in Range(next)
  <2>1. \A j \in i + 1..Len(items) : j \in DOMAIN items /\ j > i
    BY <1>1
  <2> QED
    BY <1>1, <1>6, <1>9, <2>1 DEF Good
<1> QED
  BY <1>1, <1>6, <1>8, <1>9 DEF Good

\* Items that are all Nothing leave any list alone.
LEMMA TakeAllNothing ==
  ASSUME NEW list, NEW items, Len(items) \in Nat, NEW cap, NEW unique,
         \A i \in 1..Len(items) : items[i] = Nothing
  PROVE  TakeAll(list, items, cap, unique) = list
<1> DEFINE G == Nat \X {list}
<1>1. <<0, list>> \in G
  OBVIOUS
<1>2. \A n \in 1..Len(items) : \A v :
        <<n - 1, v>> \in G => <<n, Take(v, items[n], cap, unique)>> \in G
  BY DEF Take
<1> HIDE DEF G
<1>3. <<Len(items), TakeAll(list, items, cap, unique)>> \in G
  BY <1>1, <1>2, LoopInduction
<1> QED
  BY <1>3 DEF G

LEMMA TakeAllTyped ==
  ASSUME NEW T, NEW list \in Seq(T), NEW items \in Seq(Optional(T)),
         NEW cap \in Nat \ {0}, Len(list) <= cap, NEW unique \in BOOLEAN,
         NEW next, next = TakeAll(list, items, cap, unique)
  PROVE  next \in Seq(T) /\ Len(next) <= cap
<1> DEFINE G == {p \in Nat \X Seq(T) : Len(p[2]) <= cap}
<1>1. <<0, list>> \in G
  OBVIOUS
<1>2. \A n \in 1..Len(items) : \A v :
        <<n - 1, v>> \in G => <<n, Take(v, items[n], cap, unique)>> \in G
  <2> SUFFICES ASSUME NEW n \in 1..Len(items), NEW v, <<n - 1, v>> \in G
               PROVE  <<n, Take(v, items[n], cap, unique)>> \in G
    OBVIOUS
  <2>1. v \in Seq(T) /\ Len(v) <= cap /\ n \in Nat /\ items[n] \in Optional(T)
    OBVIOUS
  <2>2. Take(v, items[n], cap, unique) \in Seq(T) /\ Len(Take(v, items[n], cap, unique)) <= cap
    BY <2>1, TakeTyped
  <2> QED
    BY <2>1, <2>2
<1> HIDE DEF G
<1>3. <<Len(items), next>> \in G
  BY <1>1, <1>2, LoopInduction
<1> QED
  BY <1>3 DEF G

\* A fresh list takes all items for which there is room.
LEMMA TakeAllRoom ==
  ASSUME NEW T, NEW items \in Seq(T), Nothing \notin T, NEW cap \in Nat, Len(items) <= cap,
         NEW next, next = TakeAll(<<>>, items, cap, TRUE)
  PROVE  /\ Range(items) \subseteq Range(next)
         /\ Distinct(items) => next = items
<1> DEFINE Good(n, v) ==
             /\ Len(v) <= n /\ \A i \in 1..n : items[i] \in Range(v)
             /\ Distinct(items) => Len(v) = n /\ \A i \in 1..n : v[i] = items[i]
           G == {p \in Nat \X Seq(T) : Good(p[1], p[2])}
<1>1. Len(items) \in Nat /\ DOMAIN items = 1..Len(items) /\ \A i \in 1..Len(items) : items[i] \in T
  OBVIOUS
<1>2. <<0, <<>> >> \in G
  <2>1. 1..0 = {} /\ Len(<<>>) = 0 /\ <<>> \in Seq(T)
    OBVIOUS
  <2>2. Good(0, <<>>)
    BY <2>1
  <2> DEFINE e == <<>>
  <2> HIDE DEF Good, e
  <2>3. e \in Seq(T) /\ Good(0, e)
    BY <2>1, <2>2 DEF e
  <2>4. <<0, e>> \in G
    BY <2>3
  <2> QED
    BY <2>4 DEF e
<1>3. ASSUME NEW n \in 1..Len(items), NEW v \in Seq(T), Good(n - 1, v)
      PROVE  LET w == Take(v, items[n], cap, TRUE) IN w \in Seq(T) /\ Good(n, w)
  <2> DEFINE w == Take(v, items[n], cap, TRUE)
             a == Append(v, items[n])
  <2> SUFFICES w \in Seq(T) /\ Good(n, w)
    OBVIOUS
  <2>1. /\ items[n] \in T /\ items[n] # Nothing /\ n \in Nat /\ n <= cap
        /\ DOMAIN v = 1..Len(v) /\ Len(v) \in Nat /\ Len(v) <= n - 1
        /\ \A i \in 1..n - 1 : items[i] \in Range(v)
        /\ Distinct(items) => Len(v) = n - 1 /\ \A i \in 1..n - 1 : v[i] = items[i]
    BY <1>1, <1>3
  <2>2. CASE Contains(v, items[n])
    <3>1. w = v /\ items[n] \in Range(v)
      BY <2>1, <2>2 DEF Take, Contains, Range
    <3>2. ~ Distinct(items)
      <4> SUFFICES ASSUME Distinct(items) PROVE FALSE
        OBVIOUS
      <4>1. PICK i \in 1..Len(v) : v[i] = items[n]
        BY <2>2 DEF Contains
      <4>2. i \in 1..n - 1 /\ items[i] = items[n] /\ i \in DOMAIN items /\ n \in DOMAIN items /\ i # n
        BY <1>1, <2>1, <4>1
      <4> QED
        BY <4>2 DEF Distinct
    <3>3. \A i \in 1..n : items[i] \in Range(v)
      BY <2>1, <3>1
    <3>4. Len(v) <= n
      BY <2>1
    <3> QED
      BY <3>1, <3>2, <3>3, <3>4
  <2>3. CASE ~ Contains(v, items[n])
    <3>1. /\ a \in Seq(T) /\ Len(a) = Len(v) + 1 /\ a[Len(v) + 1] = items[n]
          /\ \A i \in 1..Len(v) : a[i] = v[i]
      BY <2>1, AppendProperties
    <3> HIDE DEF a
    <3>2. w = a
      <4>1. Len(a) <= cap
        BY <2>1, <3>1
      <4>2. LastN(a, cap) = a
        BY <4>1, ShortLastN
      <4> QED
        BY <2>1, <2>3, <4>2 DEF Take, a
    <3> HIDE DEF w
    <3>3. DOMAIN a = 1..Len(v) + 1
      BY <3>1
    <3>4. \A i \in 1..n : items[i] \in Range(a)
      <4>1. items[n] \in Range(a)
        <5>1. Len(v) + 1 \in DOMAIN a
          BY <2>1, <3>3
        <5> QED
          BY <3>1, <5>1 DEF Range
      <4>2. \A i \in 1..Len(v) : i \in DOMAIN a
        BY <2>1, <3>3
      <4>3. \A x \in Range(v) : x \in Range(a)
        BY <2>1, <3>1, <4>2 DEF Range
      <4>4. \A i \in 1..n : i = n \/ i \in 1..n - 1
        BY <2>1
      <4> QED
        BY <2>1, <4>1, <4>3, <4>4
    <3>5. ASSUME Distinct(items) PROVE Len(a) = n /\ \A i \in 1..n : a[i] = items[i]
      BY <2>1, <3>1, <3>5
    <3>6. Len(a) <= n
      BY <2>1, <3>1
    <3> QED
      BY <3>1, <3>2, <3>4, <3>5, <3>6
  <2> QED
    BY <2>2, <2>3
<1> HIDE DEF Good
<1>4. \A n \in 1..Len(items) : \A v :
        <<n - 1, v>> \in G => <<n, Take(v, items[n], cap, TRUE)>> \in G
  <2> SUFFICES ASSUME NEW n \in 1..Len(items), NEW v, <<n - 1, v>> \in G
               PROVE  <<n, Take(v, items[n], cap, TRUE)>> \in G
    OBVIOUS
  <2>1. v \in Seq(T) /\ Good(n - 1, v) /\ n \in Nat
    OBVIOUS
  <2> QED
    BY <1>3, <2>1
<1> HIDE DEF G
<1>5. <<Len(items), next>> \in G
  BY <1>1, <1>2, <1>4, LoopInduction
<1>6. next \in Seq(T) /\ Good(Len(items), next)
  BY <1>5 DEF G
<1>7. Range(items) \subseteq Range(next)
  BY <1>1, <1>6 DEF Good, Range
<1>8. ASSUME Distinct(items) PROVE next = items
  <2>1. Len(next) = Len(items) /\ \A i \in 1..Len(items) : next[i] = items[i]
    BY <1>6, <1>8 DEF Good
  <2> QED
    BY <1>6, <2>1, SeqEqual
<1> QED
  BY <1>7, <1>8

-----------------------------------------------------------------------------
(***************************************************************************)
(* A layer.                                                                *)
(***************************************************************************)
LEMMA FormsHold ==
  ASSUME NEW s \in SUBSET Texts
  PROVE  /\ s \subseteq Forms(s) /\ Forms(s) \subseteq Texts
         /\ \A t \in Forms(s) : Cut[t] \in Forms(s)
         /\ AllShort(s) => Forms(s) = s
<1>1. \A t \in Texts : Cut[t] \in Texts /\ Cut[Cut[t]] \in Texts /\ Cut[Cut[Cut[t]]] = Cut[Cut[t]]
  BY ProjectionAssumption
<1>2. \A t : t \in Forms(s) <=> \E u \in s : t \in {u, Cut[u], Cut[Cut[u]]}
  BY DEF Forms
<1>3. s \subseteq Forms(s) /\ Forms(s) \subseteq Texts
  BY <1>1, <1>2
<1>4. ASSUME NEW t \in Forms(s) PROVE Cut[t] \in Forms(s)
  <2>1. PICK u \in s : t \in {u, Cut[u], Cut[Cut[u]]}
    BY <1>2
  <2>2. u \in Texts
    OBVIOUS
  <2>3. Cut[t] \in {Cut[u], Cut[Cut[u]]}
    BY <1>1, <2>1, <2>2
  <2> QED
    BY <1>2, <2>3
<1>5. ASSUME AllShort(s) PROVE Forms(s) = s
  BY <1>2, <1>5 DEF AllShort
<1> QED
  BY <1>3, <1>4, <1>5

LEMMA FormsGrow ==
  ASSUME NEW s, NEW more, s \subseteq more
  PROVE  Forms(s) \subseteq Forms(more) /\ (AllShort(more) => AllShort(s))
BY DEF Forms, AllShort

\* What a layer holds of the texts that were offered to it.
FitsLayer(layer, shown) ==
  WindowOn(layer, Forms(shown), IF AllShort(shown) THEN shown ELSE {}, LayerCap)

LEMMA WindowGrows ==
  ASSUME NEW list, NEW all, NEW set, NEW cap, WindowOn(list, all, set, cap),
         NEW larger, all \subseteq larger, NEW smaller, smaller \subseteq set
  PROVE  WindowOn(list, larger, smaller, cap)
BY DEF WindowOn

LEMMA FitsTake ==
  ASSUME NEW layer \in Seq(Texts), NEW shown \in SUBSET Texts, FitsLayer(layer, shown),
         NEW items \in Seq(Optional(Texts)),
         NEW next, next = TakeAll(layer, items, LayerCap, TRUE)
  PROVE  /\ next \in Seq(Texts)
         /\ FitsLayer(next, shown \cup Somethings(items))
         /\ HoldsLastOf(next, items)
<1> DEFINE more == shown \cup Somethings(items)
           short == IF AllShort(shown) THEN shown ELSE {}
<1>1. Nothing \notin Texts /\ LayerCap \in Nat \ {0}
  BY ProjectionAssumption
<1>2. Somethings(items) \subseteq Texts
  BY DEF Somethings, Range, Optional
<1>3. WindowOn(layer, Forms(shown), short, LayerCap)
  BY DEF FitsLayer
<1> HIDE DEF short
<1>4. /\ next \in Seq(Texts)
      /\ WindowOn(next, Forms(shown) \cup Somethings(items), short \cup Somethings(items), LayerCap)
      /\ \A i \in DOMAIN items :
           items[i] # Nothing /\ (\A j \in DOMAIN items : j > i => items[j] = Nothing)
             => items[i] \in Range(next)
  BY <1>1, <1>3, TakeAllWindow
<1>5. Forms(shown) \cup Somethings(items) \subseteq Forms(more)
  <2>1. Forms(shown) \subseteq Forms(more) /\ more \subseteq Forms(more)
    BY <1>2, FormsGrow, FormsHold
  <2> QED
    BY <2>1
<1>6. (IF AllShort(more) THEN more ELSE {}) \subseteq short \cup Somethings(items)
  <2>1. AllShort(more) => AllShort(shown)
    BY FormsGrow
  <2> QED
    BY <2>1 DEF short
<1>7. FitsLayer(next, more)
  BY <1>4, <1>5, <1>6, WindowGrows DEF FitsLayer
<1>8. ASSUME NEW i \in DOMAIN items, items[i] # Nothing,
             \A j \in DOMAIN items : j > i => items[j] = Nothing
      PROVE  Range(next) \cap Forms({items[i]}) # {}
  <2>1. items[i] \in Range(next)
    BY <1>4, <1>8
  <2>2. items[i] \in Forms({items[i]})
    BY DEF Forms
  <2> QED
    BY <2>1, <2>2
<1> QED
  BY <1>4, <1>7, <1>8 DEF HoldsLastOf

CutTexts(layer) == [i \in DOMAIN layer |-> Cut[layer[i]]]

\* What a layer held last of any items, it holds still, in one of its forms.
LastKept(layer, next) ==
  \A items \in Seq(Optional(Texts)) : HoldsLastOf(layer, items) => HoldsLastOf(next, items)

\* Loading a layer.
LEMMA FitsCut ==
  ASSUME NEW layer \in Seq(Texts), NEW shown \in SUBSET Texts, FitsLayer(layer, shown),
         NEW next, next = TakeAll(<<>>, CutTexts(layer), LayerCap, TRUE)
  PROVE  /\ next \in Seq(Texts)
         /\ FitsLayer(next, shown)
         /\ LastKept(layer, next)
<1> DEFINE items == CutTexts(layer)
           e == <<>>
<1>1. /\ Nothing \notin Texts /\ LayerCap \in Nat \ {0} /\ Len(layer) \in Nat
      /\ \A t \in Texts : Cut[t] \in Texts
  BY ProjectionAssumption
<1>2. /\ items \in Seq(Texts) /\ Len(items) = Len(layer) /\ DOMAIN items = DOMAIN layer
      /\ \A i \in DOMAIN items : items[i] = Cut[layer[i]]
  <2>1. DOMAIN layer = 1..Len(layer) /\ \A i \in 1..Len(layer) : layer[i] \in Texts
    OBVIOUS
  <2> QED
    BY <1>1, <2>1 DEF CutTexts
<1>3. Range(layer) \subseteq Forms(shown) /\ Distinct(layer) /\ Len(layer) <= LayerCap
  BY DEF FitsLayer, WindowOn
<1>4. WindowOn(e, {}, {}, LayerCap) /\ e \in Seq(Texts)
  BY <1>1 DEF WindowOn, Distinct, Range
<1>5. next = TakeAll(e, items, LayerCap, TRUE)
  OBVIOUS
<1> HIDE DEF items
<1>6. Range(items) \subseteq Range(next) /\ (Distinct(items) => next = items)
  BY <1>1, <1>2, <1>3, <1>5, TakeAllRoom
<1> HIDE DEF e
<1>7. items \in Seq(Optional(Texts)) /\ Somethings(items) \subseteq Range(items)
  BY <1>2 DEF Somethings, Optional
<1>8. /\ next \in Seq(Texts)
      /\ WindowOn(next, {} \cup Somethings(items), {} \cup Somethings(items), LayerCap)
  BY <1>1, <1>4, <1>5, <1>7, TakeAllWindow
<1>9. Range(items) \subseteq Forms(shown)
  <2>1. \A i \in DOMAIN items : layer[i] \in Forms(shown)
    BY <1>2, <1>3 DEF Range
  <2> QED
    BY <1>2, <2>1, FormsHold DEF Range
<1>10. Range(next) \subseteq Forms(shown) /\ Distinct(next) /\ Len(next) <= LayerCap
  BY <1>7, <1>8, <1>9 DEF WindowOn
<1>11. ASSUME AllShort(shown) PROVE next = layer
  <2>1. \A i \in DOMAIN layer : layer[i] \in shown
    BY <1>3, <1>11, FormsHold DEF Range
  <2>2. \A i \in DOMAIN layer : items[i] = layer[i]
    BY <1>2, <1>11, <2>1 DEF AllShort
  <2>3. items = layer
    BY <1>2, <2>2
  <2> QED
    BY <1>3, <1>6, <2>3
<1>12. FitsLayer(next, shown)
  BY <1>10, <1>11 DEF FitsLayer, WindowOn
<1>13. ASSUME NEW t \in Texts, Range(layer) \cap Forms({t}) # {}
       PROVE  Range(next) \cap Forms({t}) # {}
  <2>1. PICK i \in DOMAIN layer : layer[i] \in Forms({t})
    BY <1>13 DEF Range
  <2>2. Cut[layer[i]] \in Forms({t})
    BY <2>1, FormsHold
  <2>3. Cut[layer[i]] \in Range(next)
    BY <1>2, <1>6 DEF Range
  <2> QED
    BY <2>2, <2>3
<1>14. LastKept(layer, next)
  <2> SUFFICES ASSUME NEW its \in Seq(Optional(Texts)), HoldsLastOf(layer, its)
               PROVE  HoldsLastOf(next, its)
    BY DEF LastKept
  <2>1. SUFFICES ASSUME NEW i \in DOMAIN its, its[i] # Nothing,
                        \A j \in DOMAIN its : j > i => its[j] = Nothing
                 PROVE  Range(next) \cap Forms({its[i]}) # {}
    BY DEF HoldsLastOf
  <2> DEFINE t == its[i]
  <2>2. Range(layer) \cap Forms({t}) # {}
    BY <2>1 DEF HoldsLastOf
  <2>3. t \in Texts
    BY <2>1 DEF Optional
  <2> HIDE DEF t
  <2>4. Range(next) \cap Forms({t}) # {}
    BY <1>13, <2>2, <2>3
  <2> QED
    BY <2>4 DEF t
<1> QED
  BY <1>8, <1>12, <1>14

-----------------------------------------------------------------------------
(***************************************************************************)
(* The record.                                                             *)
(***************************************************************************)
LabelSet(findings) == {Label[f] : f \in findings \cap External}

NoClass(events) == \A i \in DOMAIN events : events[i].type # "class"

NoFailure(events) == \A i \in DOMAIN events : events[i].type # "failure"

BoardFits(b, shown) ==
  /\ ListsOK(b)
  /\ \A l \in Layers : FitsLayer(b.layers[l], shown[l])

\* Texts offered before, by events and as labels of findings.
ShownMore(shown, events, findings) ==
  [l \in Layers |-> shown[l] \cup Located(l, events)
                      \cup IF l = "external_prior" THEN LabelSet(findings) ELSE {}]

\* Layers without labels follow the events that are projected, if any.
NewestFollow(b, next, observed) ==
  \A l \in Layers \ {"external_prior"} :
    IF observed = <<>>
    THEN LastKept(b.layers[l], next.layers[l])
    ELSE HoldsLastOf(next.layers[l], TextsFor(l, Projecting(observed)))

\* The texts shown after events, and at most the labels of some findings.
ShowsMore(before, after, events, findings) ==
  \A l \in Layers : /\ before[l] \cup Located(l, events) \subseteq after[l]
                    /\ after[l] \subseteq ShownMore(before, events, findings)[l]

LEMMA Offers ==
  ASSUME NEW events \in Seq(Event)
  PROVE  /\ \A l \in Layers : /\ TextsFor(l, events) \in Seq(Optional(Texts))
                              /\ Somethings(TextsFor(l, events)) = Located(l, events)
                              /\ Located(l, events) \subseteq Texts
         /\ FindingsOf(events) \in Seq(Optional(Findings))
         /\ ClassesOf(events) \in Seq(Optional(Classes))
<1>1. Len(events) \in Nat /\ DOMAIN events = 1..Len(events) /\ \A i \in 1..Len(events) : events[i] \in Event
  OBVIOUS
<1>2. \A e \in Event : /\ e.type = "tool" => e.text \in Texts
                       /\ e.type \in {"tool", "plain"} => e.finding \in Optional(Findings)
                       /\ e.type = "class" => e.what \in Classes
  BY ProjectionAssumption DEF Event, ToolEvent, PlainEvent, ClassEvent, FailureEvent, Optional
<1> HIDE DEF Event
<1>3. ASSUME NEW l \in Layers
      PROVE  /\ TextsFor(l, events) \in Seq(Optional(Texts))
             /\ Somethings(TextsFor(l, events)) = Located(l, events)
             /\ Located(l, events) \subseteq Texts
  <2>1. \A i \in 1..Len(events) : TextsFor(l, events)[i] \in Optional(Texts)
    BY <1>1, <1>2 DEF TextsFor, Optional
  <2>2. TextsFor(l, events) \in Seq(Optional(Texts))
    BY <1>1, <2>1 DEF TextsFor
  <2> QED
    BY <2>2 DEF Somethings, Located, Range, Optional
<1>4. FindingsOf(events) \in Seq(Optional(Findings))
  <2>1. \A i \in 1..Len(events) : FindingsOf(events)[i] \in Optional(Findings)
    BY <1>1, <1>2 DEF FindingsOf, Optional
  <2> QED
    BY <1>1, <2>1 DEF FindingsOf
<1>5. ClassesOf(events) \in Seq(Optional(Classes))
  <2>1. \A i \in 1..Len(events) : ClassesOf(events)[i] \in Optional(Classes)
    BY <1>1, <1>2 DEF ClassesOf, Optional
  <2> QED
    BY <1>1, <2>1 DEF ClassesOf
<1> QED
  BY <1>3, <1>4, <1>5

LEMMA LabelsOffered ==
  ASSUME NEW findings \in Seq(Findings)
  PROVE  /\ LabelsOf(findings) \in Seq(Optional(Texts))
         /\ Somethings(LabelsOf(findings)) = LabelSet(Range(findings))
         /\ LabelSet(Range(findings)) \subseteq Texts
<1>1. Len(findings) \in Nat /\ DOMAIN findings = 1..Len(findings)
      /\ Nothing \notin Texts /\ \A f \in External : Label[f] \in Texts
  BY ProjectionAssumption
<1>2. \A i \in 1..Len(findings) : LabelsOf(findings)[i] \in Optional(Texts)
  BY <1>1 DEF LabelsOf, Optional
<1>3. LabelsOf(findings) \in Seq(Optional(Texts))
  BY <1>1, <1>2 DEF LabelsOf
<1>4. DOMAIN LabelsOf(findings) = 1..Len(findings)
      /\ \A i \in 1..Len(findings) : LabelsOf(findings)[i] =
           IF findings[i] \in External THEN Label[findings[i]] ELSE Nothing
  BY <1>1 DEF LabelsOf
<1>5. Somethings(LabelsOf(findings)) \subseteq LabelSet(Range(findings))
  <2> SUFFICES ASSUME NEW t \in Somethings(LabelsOf(findings)) PROVE t \in LabelSet(Range(findings))
    OBVIOUS
  <2>1. PICK i \in 1..Len(findings) : t = LabelsOf(findings)[i] /\ t # Nothing
    BY <1>4 DEF Somethings, Range
  <2>2. findings[i] \in External /\ t = Label[findings[i]]
    BY <1>4, <2>1
  <2>3. findings[i] \in Range(findings)
    BY <1>1 DEF Range
  <2> QED
    BY <2>2, <2>3 DEF LabelSet
<1>6. LabelSet(Range(findings)) \subseteq Somethings(LabelsOf(findings))
  <2> SUFFICES ASSUME NEW f \in Range(findings) \cap External
               PROVE  Label[f] \in Somethings(LabelsOf(findings))
    BY DEF LabelSet
  <2>1. PICK i \in 1..Len(findings) : f = findings[i]
    BY <1>1 DEF Range
  <2>2. LabelsOf(findings)[i] = Label[f] /\ Label[f] # Nothing
    BY <1>1, <1>4, <2>1
  <2> QED
    BY <1>4, <2>2 DEF Somethings, Range
<1> QED
  BY <1>1, <1>3, <1>5, <1>6 DEF LabelSet

LEMMA LoadFits ==
  ASSUME NEW shown \in [Layers -> SUBSET Texts], NEW b, BoardFits(b, shown),
         NEW next, next = LoadedLists(b)
  PROVE  /\ BoardFits(next, shown)
         /\ next.findings = b.findings
         /\ Distinct(next.history)
         /\ Distinct(b.history) => next.history = b.history
         /\ \A l \in Layers : LastKept(b.layers[l], next.layers[l])
<1>1. /\ b \in [layers : [Layers -> Seq(Texts)], findings : Seq(Findings), history : Seq(Classes)]
      /\ Len(b.findings) <= FindingCap /\ Len(b.history) <= HistoryCap
      /\ \A l \in Layers : b.layers[l] \in Seq(Texts) /\ FitsLayer(b.layers[l], shown[l])
  BY DEF BoardFits, ListsOK
<1>2. /\ next.findings = b.findings
      /\ next.history = TakeAll(<<>>, b.history, HistoryCap, TRUE)
      /\ DOMAIN next.layers = Layers
      /\ \A l \in Layers : next.layers[l] =
           TakeAll(<<>>, CutTexts(b.layers[l]), LayerCap, TRUE)
      /\ next = [layers |-> next.layers, findings |-> next.findings, history |-> next.history]
      /\ next.layers = [l \in Layers |-> next.layers[l]]
  BY DEF LoadedLists, CutTexts
<1>3. ASSUME NEW l \in Layers
      PROVE  /\ next.layers[l] \in Seq(Texts)
             /\ FitsLayer(next.layers[l], shown[l])
             /\ LastKept(b.layers[l], next.layers[l])
  <2> DEFINE layer == b.layers[l]
             known == shown[l]
             after == next.layers[l]
  <2>1. /\ layer \in Seq(Texts) /\ known \in SUBSET Texts /\ FitsLayer(layer, known)
        /\ after = TakeAll(<<>>, CutTexts(layer), LayerCap, TRUE)
    BY <1>1, <1>2
  <2> HIDE DEF layer, known, after
  <2>2. after \in Seq(Texts) /\ FitsLayer(after, known) /\ LastKept(layer, after)
    BY <2>1, FitsCut
  <2> QED
    BY <2>2 DEF layer, known, after
<1>4. /\ next.history \in Seq(Classes) /\ Len(next.history) <= HistoryCap
      /\ Distinct(next.history) /\ (Distinct(b.history) => next.history = b.history)
  <2> DEFINE e == <<>>
  <2>1. HistoryCap \in Nat \ {0} /\ Nothing \notin Classes /\ b.history \in Seq(Optional(Classes))
    BY <1>1, ProjectionAssumption DEF Optional
  <2>2. WindowOn(e, {}, {}, HistoryCap) /\ e \in Seq(Classes)
    BY <2>1 DEF WindowOn, Distinct, Range
  <2>3. Distinct(b.history) => next.history = b.history
    <3>1. b.history \in Seq(Classes) /\ HistoryCap \in Nat /\ Len(b.history) <= HistoryCap
      BY <1>1, <2>1
    <3> QED
      BY <1>2, <2>1, <3>1, TakeAllRoom
  <2>4. next.history = TakeAll(e, b.history, HistoryCap, TRUE)
    BY <1>2
  <2> HIDE DEF e
  <2>5. next.history \in Seq(Classes)
        /\ WindowOn(next.history, {} \cup Somethings(b.history), {} \cup Somethings(b.history), HistoryCap)
    BY <2>1, <2>2, <2>4, TakeAllWindow
  <2> QED
    BY <2>3, <2>5 DEF WindowOn
<1>5. \A l \in Layers : Len(next.layers[l]) <= LayerCap
  BY <1>3 DEF FitsLayer, WindowOn
<1>6. next \in [layers : [Layers -> Seq(Texts)], findings : Seq(Findings), history : Seq(Classes)]
  <2>1. next.layers \in [Layers -> Seq(Texts)]
    BY <1>2, <1>3
  <2>2. next.findings \in Seq(Findings)
    BY <1>1, <1>2
  <2> QED
    BY <1>2, <1>4, <2>1, <2>2
<1>7. BoardFits(next, shown)
  BY <1>1, <1>2, <1>3, <1>4, <1>5, <1>6 DEF BoardFits, ListsOK
<1> QED
  BY <1>2, <1>3, <1>4, <1>7

LEMMA SyncFits ==
  ASSUME NEW shown \in [Layers -> SUBSET Texts], NEW b, BoardFits(b, shown),
         NEW next, next = SyncedLists(b)
  PROVE  /\ BoardFits(next, ShownMore(shown, <<>>, Range(b.findings)))
         /\ next.findings = b.findings /\ next.history = b.history
         /\ \A l \in Layers \ {"external_prior"} : next.layers[l] = b.layers[l]
         /\ HoldsLastOf(next.layers["external_prior"], LabelsOf(b.findings))
<1> DEFINE more == ShownMore(shown, <<>>, Range(b.findings))
           ext == TakeAll(b.layers["external_prior"], LabelsOf(b.findings), LayerCap, TRUE)
<1>1. /\ b \in [layers : [Layers -> Seq(Texts)], findings : Seq(Findings), history : Seq(Classes)]
      /\ Len(b.findings) <= FindingCap /\ Len(b.history) <= HistoryCap
      /\ \A l \in Layers : b.layers[l] \in Seq(Texts) /\ FitsLayer(b.layers[l], shown[l])
  BY DEF BoardFits, ListsOK
<1>2. "external_prior" \in Layers
  BY DEF Layers
<1>3. /\ next = [b EXCEPT !.layers = [b.layers EXCEPT !["external_prior"] = ext]]
  BY DEF SyncedLists
<1> HIDE DEF ext
<1>4. /\ next.findings = b.findings /\ next.history = b.history
      /\ next.layers["external_prior"] = ext
      /\ \A l \in Layers \ {"external_prior"} : next.layers[l] = b.layers[l]
  BY <1>1, <1>2, <1>3
<1>5. /\ LabelsOf(b.findings) \in Seq(Optional(Texts))
      /\ Somethings(LabelsOf(b.findings)) = LabelSet(Range(b.findings))
  BY <1>1, LabelsOffered
<1>6. /\ b.layers["external_prior"] \in Seq(Texts) /\ shown["external_prior"] \in SUBSET Texts
      /\ FitsLayer(b.layers["external_prior"], shown["external_prior"])
  BY <1>1, <1>2
<1>7. /\ ext \in Seq(Texts)
      /\ FitsLayer(ext, shown["external_prior"] \cup LabelSet(Range(b.findings)))
      /\ HoldsLastOf(ext, LabelsOf(b.findings))
  BY <1>5, <1>6, FitsTake DEF ext
<1>8. \A l \in Layers : Located(l, <<>>) = {}
  BY DEF Located, TextsFor, Range
<1>9. \A l \in Layers : more[l] = shown[l] \cup IF l = "external_prior"
                                                THEN LabelSet(Range(b.findings)) ELSE {}
  BY <1>8 DEF ShownMore
<1>10. \A l \in Layers : next.layers[l] \in Seq(Texts) /\ FitsLayer(next.layers[l], more[l])
  BY <1>1, <1>4, <1>7, <1>9
<1>11. \A l \in Layers : Len(next.layers[l]) <= LayerCap
  BY <1>10 DEF FitsLayer, WindowOn
<1>12. next \in [layers : [Layers -> Seq(Texts)], findings : Seq(Findings), history : Seq(Classes)]
  BY <1>1, <1>3, <1>7
<1> QED
  BY <1>1, <1>4, <1>7, <1>10, <1>11, <1>12 DEF BoardFits, ListsOK

\* Members of a list after the loop are members before it, or items.
LEMMA TakeAllRange ==
  ASSUME NEW T, NEW list \in Seq(T), NEW items \in Seq(Optional(T)), Nothing \notin T,
         NEW cap \in Nat \ {0}, Len(list) <= cap, NEW unique \in BOOLEAN,
         NEW next, next = TakeAll(list, items, cap, unique)
  PROVE  Range(next) \subseteq Range(list) \cup Somethings(items)
<1> DEFINE U == Range(list) \cup Somethings(items)
<1>1. list \in Seq(U)
  <2>1. Len(list) \in Nat /\ DOMAIN list = 1..Len(list)
    OBVIOUS
  <2>2. \A i \in 1..Len(list) : list[i] \in U
    BY <2>1 DEF Range
  <2> QED
    BY <2>1, <2>2
<1>2. items \in Seq(Optional(U))
  <2>1. Len(items) \in Nat /\ DOMAIN items = 1..Len(items)
    OBVIOUS
  <2>2. \A i \in 1..Len(items) : items[i] \in Optional(U)
    BY <2>1 DEF Range, Somethings, Optional
  <2> HIDE DEF U
  <2> QED
    BY <2>1, <2>2
<1> HIDE DEF U
<1>3. next \in Seq(U)
  BY <1>1, <1>2, TakeAllTyped
<1>4. Range(next) \subseteq U
  BY <1>3 DEF Range
<1> QED
  BY <1>4 DEF U

LEMMA LastNTyped ==
  ASSUME NEW T, NEW s \in Seq(T), NEW n \in Nat
  PROVE  /\ LastN(s, n) \in Seq(T) /\ Len(LastN(s, n)) <= n
         /\ Range(LastN(s, n)) \subseteq Range(s)
<1>1. CASE Len(s) <= n
  <2>1. LastN(s, n) = s
    BY <1>1, ShortLastN
  <2> QED
    BY <1>1, <2>1
<1>2. CASE ~ (Len(s) <= n)
  <2> DEFINE from == Len(s) - n + 1
             r == SubSeq(s, from, Len(s))
  <2>1. LastN(s, n) = r
    BY <1>2 DEF LastN
  <2>2. Len(s) \in Nat /\ from \in 1..Len(s) + 1 /\ Len(s) \in from - 1..Len(s)
    BY <1>2
  <2>3. /\ r \in Seq(T) /\ Len(r) = Len(s) - from + 1
        /\ \A i \in 1..Len(s) - from + 1 : r[i] = s[from + i - 1]
    BY <2>2, SubSeqProperties
  <2>4. Len(r) = n
    BY <2>2, <2>3
  <2>5. \A i \in DOMAIN r : i \in 1..Len(s) - from + 1 /\ from + i - 1 \in DOMAIN s
    <3>1. DOMAIN r = 1..Len(r) /\ DOMAIN s = 1..Len(s)
      BY <2>3
    <3> QED
      BY <2>2, <2>3, <2>4, <3>1
  <2> HIDE DEF from, r
  <2>6. Range(r) \subseteq Range(s)
    BY <2>3, <2>5 DEF Range
  <2> QED
    BY <2>1, <2>3, <2>4, <2>6
<1> QED
  BY <1>1, <1>2

LEMMA ReplayFits ==
  ASSUME NEW shown \in [Layers -> SUBSET Texts], NEW b, BoardFits(b, shown),
         NEW events \in Seq(Event), NEW next, next = ReplayedLists(b, events)
  PROVE  /\ BoardFits(next, ShownMore(shown, events, {}))
         /\ \A l \in Layers : HoldsLastOf(next.layers[l], TextsFor(l, events))
         /\ Range(next.findings) \subseteq Range(b.findings) \cup Somethings(FindingsOf(events))
         /\ NoClass(events) => next.history = b.history
<1> DEFINE more == ShownMore(shown, events, {})
<1>1. /\ b \in [layers : [Layers -> Seq(Texts)], findings : Seq(Findings), history : Seq(Classes)]
      /\ Len(b.findings) <= FindingCap /\ Len(b.history) <= HistoryCap
      /\ \A l \in Layers : b.layers[l] \in Seq(Texts) /\ FitsLayer(b.layers[l], shown[l])
  BY DEF BoardFits, ListsOK
<1>2. /\ next.findings = TakeAll(b.findings, FindingsOf(events), FindingCap, TRUE)
      /\ next.history = TakeAll(b.history, ClassesOf(events), HistoryCap, FALSE)
      /\ \A l \in Layers : next.layers[l] =
           TakeAll(b.layers[l], TextsFor(l, events), LayerCap, TRUE)
      /\ next = [layers |-> next.layers, findings |-> next.findings, history |-> next.history]
      /\ next.layers = [l \in Layers |-> next.layers[l]]
  BY DEF ReplayedLists
<1>3. FindingCap \in Nat \ {0} /\ HistoryCap \in Nat \ {0} /\ Nothing \notin Findings
  BY ProjectionAssumption
<1>4. ASSUME NEW l \in Layers
      PROVE  /\ next.layers[l] \in Seq(Texts)
             /\ FitsLayer(next.layers[l], more[l])
             /\ HoldsLastOf(next.layers[l], TextsFor(l, events))
  <2>1. shown[l] \in SUBSET Texts /\ more[l] = shown[l] \cup Somethings(TextsFor(l, events))
    <3>1. LabelSet({}) = {}
      BY DEF LabelSet
    <3> QED
      BY <3>1, Offers DEF ShownMore
  <2>2. TextsFor(l, events) \in Seq(Optional(Texts))
    BY Offers
  <2> DEFINE layer == b.layers[l]
             known == shown[l]
             items == TextsFor(l, events)
             after == next.layers[l]
  <2>3. /\ layer \in Seq(Texts) /\ known \in SUBSET Texts /\ FitsLayer(layer, known)
        /\ items \in Seq(Optional(Texts)) /\ after = TakeAll(layer, items, LayerCap, TRUE)
    BY <1>1, <1>2, <2>1, <2>2
  <2> HIDE DEF more, layer, known, items, after
  <2>4. /\ after \in Seq(Texts) /\ FitsLayer(after, known \cup Somethings(items))
        /\ HoldsLastOf(after, items)
    BY <2>3, FitsTake
  <2>5. more[l] = known \cup Somethings(items)
    BY <2>1 DEF known, items
  <2> QED
    BY <2>4, <2>5 DEF after, items
<1>5. next.findings \in Seq(Findings) /\ Len(next.findings) <= FindingCap
  BY <1>1, <1>2, <1>3, Offers, TakeAllTyped
<1>6. Range(next.findings) \subseteq Range(b.findings) \cup Somethings(FindingsOf(events))
  BY <1>1, <1>2, <1>3, Offers, TakeAllRange
<1>7. next.history \in Seq(Classes) /\ Len(next.history) <= HistoryCap
  <2> DEFINE old == b.history
             items == ClassesOf(events)
             after == next.history
  <2>1. /\ old \in Seq(Classes) /\ items \in Seq(Optional(Classes)) /\ Len(old) <= HistoryCap
        /\ after = TakeAll(old, items, HistoryCap, FALSE) /\ FALSE \in BOOLEAN
    BY <1>1, <1>2, Offers
  <2> HIDE DEF old, items, after
  <2>2. after \in Seq(Classes) /\ Len(after) <= HistoryCap
    BY <1>3, <2>1, TakeAllTyped
  <2> QED
    BY <2>2 DEF after
<1>8. ASSUME NoClass(events) PROVE next.history = b.history
  <2> DEFINE items == ClassesOf(events)
  <2>1. DOMAIN items = 1..Len(events) /\ Len(events) \in Nat
        /\ \A i \in 1..Len(events) : items[i] = Nothing
    BY <1>8 DEF ClassesOf, NoClass
  <2>2. items \in Seq(Optional(Classes))
    BY Offers
  <2> HIDE DEF items
  <2>3. Len(items) \in Nat /\ \A i \in 1..Len(items) : items[i] = Nothing
    BY <2>1, <2>2
  <2>4. TakeAll(b.history, items, HistoryCap, FALSE) = b.history
    BY <2>3, TakeAllNothing
  <2> QED
    BY <1>2, <2>4 DEF items
<1>9. \A l \in Layers : Len(next.layers[l]) <= LayerCap
  BY <1>4 DEF FitsLayer, WindowOn
<1>10. next \in [layers : [Layers -> Seq(Texts)], findings : Seq(Findings), history : Seq(Classes)]
  <2>1. next.layers \in [Layers -> Seq(Texts)]
    BY <1>2, <1>4
  <2> QED
    BY <1>2, <1>5, <1>7, <2>1
<1> QED
  BY <1>4, <1>5, <1>6, <1>7, <1>8, <1>9, <1>10 DEF BoardFits, ListsOK

LEMMA ShownMoreTyped ==
  ASSUME NEW shown \in [Layers -> SUBSET Texts], NEW events \in Seq(Event),
         NEW findings \in SUBSET Findings
  PROVE  ShownMore(shown, events, findings) \in [Layers -> SUBSET Texts]
<1>1. LabelSet(findings) \subseteq Texts
  BY ProjectionAssumption DEF LabelSet
<1>2. \A l \in Layers : Located(l, events) \subseteq Texts
  BY Offers
<1> QED
  BY <1>1, <1>2 DEF ShownMore

LEMMA ShownMoreTwice ==
  ASSUME NEW shown, NEW events, NEW findings, NEW others
  PROVE  ShownMore(ShownMore(shown, events, findings), <<>>, others)
           = ShownMore(shown, events, findings \cup others)
<1>1. \A l \in Layers : Located(l, <<>>) = {}
  BY DEF Located, TextsFor, Range
<1>2. LabelSet(findings \cup others) = LabelSet(findings) \cup LabelSet(others)
  BY DEF LabelSet
<1> QED
  BY <1>1, <1>2 DEF ShownMore

\* A second evaluation of the gates finds the labels offered already.
LEMMA SyncFitsAgain ==
  ASSUME NEW shown \in [Layers -> SUBSET Texts], NEW events \in Seq(Event), NEW b,
         BoardFits(b, ShownMore(shown, events, Range(b.findings))),
         NEW next, next = SyncedLists(b)
  PROVE  /\ BoardFits(next, ShownMore(shown, events, Range(next.findings)))
         /\ next.findings = b.findings /\ next.history = b.history
         /\ \A l \in Layers \ {"external_prior"} : next.layers[l] = b.layers[l]
         /\ HoldsLastOf(next.layers["external_prior"], LabelsOf(next.findings))
<1> DEFINE F == Range(b.findings)
           more == ShownMore(shown, events, F)
<1>1. F \in SUBSET Findings
  BY DEF BoardFits, ListsOK, Range
<1> HIDE DEF F
<1>2. more \in [Layers -> SUBSET Texts]
  BY <1>1, ShownMoreTyped
<1>3. ShownMore(more, <<>>, F) = more
  <2>1. F \cup F = F
    OBVIOUS
  <2> QED
    BY <2>1, ShownMoreTwice
<1>4. BoardFits(b, more)
  BY DEF F
<1> HIDE DEF more
<1>5. /\ BoardFits(next, ShownMore(more, <<>>, F))
      /\ next.findings = b.findings /\ next.history = b.history
      /\ \A l \in Layers \ {"external_prior"} : next.layers[l] = b.layers[l]
      /\ HoldsLastOf(next.layers["external_prior"], LabelsOf(b.findings))
  BY <1>2, <1>4, SyncFits DEF F
<1>6. BoardFits(next, more) /\ more = ShownMore(shown, events, Range(next.findings))
  BY <1>3, <1>5 DEF more, F
<1> QED
  BY <1>5, <1>6

LEMMA CriticFits ==
  ASSUME NEW shown \in [Layers -> SUBSET Texts], NEW b, BoardFits(b, shown),
         NEW new \in Seq(Findings), NEW next, next = CriticLists(b, new)
  PROVE  /\ BoardFits(next, ShownMore(shown, <<>>, Range(next.findings)))
         /\ Range(next.findings) \subseteq Range(b.findings) \cup Range(new)
         /\ next.history = b.history
         /\ \A l \in Layers \ {"external_prior"} : next.layers[l] = b.layers[l]
         /\ HoldsLastOf(next.layers["external_prior"], LabelsOf(next.findings))
<1> DEFINE found == MergedFindings(b.findings, new)
           all == TakeAll(b.findings, new, FindingCap + Len(new), TRUE)
           merged == [b EXCEPT !.findings = found]
           once == SyncedLists(merged)
<1>1. /\ b \in [layers : [Layers -> Seq(Texts)], findings : Seq(Findings), history : Seq(Classes)]
      /\ Len(b.findings) <= FindingCap
      /\ FindingCap \in Nat \ {0} /\ Nothing \notin Findings
      /\ Len(b.findings) \in Nat /\ Len(new) \in Nat
  BY ProjectionAssumption DEF BoardFits, ListsOK
<1>2. all \in Seq(Findings) /\ Range(all) \subseteq Range(b.findings) \cup Range(new)
  <2> DEFINE room == FindingCap + Len(new)
             known == b.findings
  <2>1. /\ room \in Nat \ {0} /\ Len(known) <= room /\ known \in Seq(Findings)
        /\ all = TakeAll(known, new, room, TRUE) /\ TRUE \in BOOLEAN
    BY <1>1
  <2>2. new \in Seq(Optional(Findings)) /\ Somethings(new) \subseteq Range(new)
    BY DEF Somethings, Optional
  <2> HIDE DEF room, known, all
  <2>3. all \in Seq(Findings)
    BY <2>1, <2>2, TakeAllTyped
  <2>4. Range(all) \subseteq Range(known) \cup Somethings(new)
    BY <1>1, <2>1, <2>2, TakeAllRange
  <2> QED
    BY <2>2, <2>3, <2>4 DEF known
<1>3. /\ found \in Seq(Findings) /\ Len(found) <= FindingCap
      /\ Range(found) \subseteq Range(b.findings) \cup Range(new)
  <2>1. found = LastN(all, FindingCap)
    BY DEF MergedFindings
  <2> HIDE DEF all, found
  <2> QED
    BY <1>1, <1>2, <2>1, LastNTyped
<1> HIDE DEF found
<1>4. merged.findings = found /\ merged.layers = b.layers /\ merged.history = b.history
  BY <1>1
<1>5. BoardFits(merged, shown)
  BY <1>1, <1>3 DEF BoardFits, ListsOK
<1> HIDE DEF merged
<1>6. /\ BoardFits(once, ShownMore(shown, <<>>, Range(merged.findings)))
      /\ once.findings = merged.findings /\ once.history = merged.history
      /\ \A l \in Layers \ {"external_prior"} : once.layers[l] = merged.layers[l]
  BY <1>5, SyncFits
<1>7. next = SyncedLists(once)
  BY DEF CriticLists, merged, found
<1> HIDE DEF once
<1> DEFINE e == <<>>
<1>8. BoardFits(once, ShownMore(shown, e, Range(once.findings))) /\ e \in Seq(Event)
  BY <1>6
<1> HIDE DEF e
<1>9. /\ BoardFits(next, ShownMore(shown, e, Range(next.findings)))
      /\ next.findings = once.findings /\ next.history = once.history
      /\ \A l \in Layers \ {"external_prior"} : next.layers[l] = once.layers[l]
      /\ HoldsLastOf(next.layers["external_prior"], LabelsOf(next.findings))
  BY <1>7, <1>8, SyncFitsAgain
<1> QED
  BY <1>3, <1>4, <1>6, <1>9 DEF e

LEMMA LoadedEvents ==
  ASSUME NEW s \in Seq(Event)
  PROVE  Loaded(s) \in Seq(Event) /\ Len(Loaded(s)) <= Len(s)
         /\ \A i \in DOMAIN Loaded(s) : Loaded(s)[i] = s[i]
<1> DEFINE n == IF Len(s) < Window THEN Len(s) ELSE Window
<1>1. Len(s) \in Nat /\ Window \in Nat /\ n \in 0..Len(s)
  BY ProjectionAssumption
<1>2. Loaded(s) = SubSeq(s, 1, n)
  BY DEF Loaded
<1> HIDE DEF n
<1>3. /\ SubSeq(s, 1, n) \in Seq(Event) /\ Len(SubSeq(s, 1, n)) = n
      /\ \A i \in 1..n : SubSeq(s, 1, n)[i] = s[i]
  BY <1>1, SubSeqProperties
<1>4. DOMAIN SubSeq(s, 1, n) = 1..n
  BY <1>3
<1> QED
  BY <1>1, <1>2, <1>3, <1>4

\* The lists that the evaluators of a turn find.
LEMMA TurnFits ==
  ASSUME NEW shown \in [Layers -> SUBSET Texts], BoardFits(lists, shown),
         ledger \in Seq(Event), NEW observed \in Seq(Event),
         NEW next, next = TurnLists(observed)
  PROVE  /\ BoardFits(next, ShownMore(shown, Projecting(observed), Range(next.findings)))
         /\ HoldsLastOf(next.layers["external_prior"], LabelsOf(next.findings))
         /\ NewestFollow(lists, next, observed)
         /\ Range(next.findings)
              \subseteq Range(lists.findings) \cup Somethings(FindingsOf(Projecting(observed)))
         /\ NoClass(Projecting(observed))
              => /\ Distinct(next.history)
                 /\ Distinct(lists.history) => next.history = lists.history
<1> DEFINE b == LoadedLists(lists)
           events == Projecting(observed)
<1>1. /\ BoardFits(b, shown) /\ b.findings = lists.findings
      /\ Distinct(b.history) /\ (Distinct(lists.history) => b.history = lists.history)
      /\ \A l \in Layers : LastKept(lists.layers[l], b.layers[l])
  BY LoadFits
<1>2. events \in Seq(Event)
  <2>1. Loaded(ledger) \in Seq(Event)
    BY LoadedEvents
  <2> QED
    BY <2>1, ConcatProperties DEF Projecting
<1>3. CASE observed = <<>>
  <2>1. next = SyncedLists(b) /\ events = <<>>
    BY <1>3 DEF TurnLists, Projecting
  <2> HIDE DEF b, events
  <2>2. /\ BoardFits(next, ShownMore(shown, <<>>, Range(b.findings)))
        /\ next.findings = b.findings /\ next.history = b.history
        /\ \A l \in Layers \ {"external_prior"} : next.layers[l] = b.layers[l]
        /\ HoldsLastOf(next.layers["external_prior"], LabelsOf(b.findings))
    BY <1>1, <2>1, SyncFits
  <2>3. BoardFits(next, ShownMore(shown, events, Range(next.findings)))
    BY <2>1, <2>2
  <2>4. NewestFollow(lists, next, observed)
    BY <1>1, <1>3, <2>2 DEF NewestFollow
  <2>5. /\ HoldsLastOf(next.layers["external_prior"], LabelsOf(next.findings))
        /\ Range(next.findings) \subseteq Range(lists.findings)
    BY <1>1, <2>2
  <2>6. Distinct(next.history) /\ (Distinct(lists.history) => next.history = lists.history)
    BY <1>1, <2>2
  <2> QED
    BY <1>3, <2>3, <2>4, <2>5, <2>6 DEF events
<1>4. CASE observed # <<>>
  <2> DEFINE r == ReplayedLists(b, events)
             s == SyncedLists(r)
  <2>1. next = SyncedLists(s)
    BY <1>4 DEF TurnLists
  <2> HIDE DEF b, events
  <2>2. /\ BoardFits(r, ShownMore(shown, events, {}))
        /\ \A l \in Layers : HoldsLastOf(r.layers[l], TextsFor(l, events))
        /\ Range(r.findings) \subseteq Range(b.findings) \cup Somethings(FindingsOf(events))
        /\ NoClass(events) => r.history = b.history
    BY <1>1, <1>2, ReplayFits
  <2> HIDE DEF r
  <2> DEFINE more == ShownMore(shown, events, {})
  <2>3. more \in [Layers -> SUBSET Texts]
    <3>1. {} \in SUBSET Findings
      OBVIOUS
    <3> QED
      BY <1>2, <3>1, ShownMoreTyped
  <2>4. \A f : ShownMore(more, <<>>, f) = ShownMore(shown, events, f)
    <3>1. \A f : {} \cup f = f
      OBVIOUS
    <3> QED
      BY <3>1, ShownMoreTwice
  <2>5. BoardFits(r, more)
    BY <2>2
  <2> HIDE DEF more
  <2>6. /\ BoardFits(s, ShownMore(more, <<>>, Range(r.findings)))
        /\ s.findings = r.findings /\ s.history = r.history
        /\ \A l \in Layers \ {"external_prior"} : s.layers[l] = r.layers[l]
    BY <2>3, <2>5, SyncFits
  <2> HIDE DEF s
  <2>7. BoardFits(s, ShownMore(shown, events, Range(s.findings)))
    BY <2>4, <2>6
  <2>8. /\ BoardFits(next, ShownMore(shown, events, Range(next.findings)))
        /\ next.findings = s.findings /\ next.history = s.history
        /\ \A l \in Layers \ {"external_prior"} : next.layers[l] = s.layers[l]
        /\ HoldsLastOf(next.layers["external_prior"], LabelsOf(next.findings))
    BY <1>2, <2>1, <2>7, SyncFitsAgain
  <2>9. NewestFollow(lists, next, observed)
    BY <1>4, <2>2, <2>6, <2>8 DEF NewestFollow, events
  <2>10. Range(next.findings) \subseteq Range(lists.findings) \cup Somethings(FindingsOf(events))
    BY <1>1, <2>2, <2>6, <2>8
  <2>11. NoClass(events)
           => Distinct(next.history) /\ (Distinct(lists.history) => next.history = lists.history)
    BY <1>1, <2>2, <2>6, <2>8
  <2> QED
    BY <1>4, <2>8, <2>9, <2>10, <2>11 DEF events
<1> QED
  BY <1>3, <1>4

-----------------------------------------------------------------------------
(***************************************************************************)
(* The ledger.                                                             *)
(***************************************************************************)
LEMMA SavedLedger ==
  ASSUME NEW s \in Seq(Event), NEW events \in Seq(Event), NEW next, next = s \o events
  PROVE  /\ next \in Seq(Event) /\ Len(next) = Len(s) + Len(events)
         /\ DOMAIN next = 1..Len(next) /\ Len(s) \in Nat /\ Len(next) \in Nat
         /\ \A i \in 1..Len(s) : i \in 1..Len(next) /\ next[i] = s[i]
         /\ \A i \in 1..Len(next) : \/ i \in 1..Len(s)
                                    \/ /\ i > Len(s) /\ i - Len(s) \in 1..Len(events)
                                       /\ next[i] = events[i - Len(s)]
         /\ \A n \in 0..Len(s) : SubSeq(next, 1, n) = SubSeq(s, 1, n)
         /\ SubSeq(next, 1, Len(s)) = s
<1>1. Len(s) \in Nat /\ Len(events) \in Nat
  OBVIOUS
<1>2. /\ next \in Seq(Event) /\ Len(next) = Len(s) + Len(events)
      /\ \A i \in 1..Len(s) + Len(events) :
           next[i] = IF i <= Len(s) THEN s[i] ELSE events[i - Len(s)]
  BY ConcatProperties
<1>3. \A i \in 1..Len(s) : i \in 1..Len(next) /\ next[i] = s[i]
  BY <1>1, <1>2
<1>4. ASSUME NEW n \in 0..Len(s) PROVE SubSeq(next, 1, n) = SubSeq(s, 1, n)
  <2>1. 1 \in Int /\ n \in Int /\ \A i \in 1..n : next[i] \in Event /\ s[i] \in Event /\ next[i] = s[i]
    BY <1>1, <1>2, <1>3
  <2>2. /\ SubSeq(next, 1, n) \in Seq(Event) /\ Len(SubSeq(next, 1, n)) = n
        /\ \A i \in 1..n : SubSeq(next, 1, n)[i] = next[i]
    BY <2>1, SubSeqProperties
  <2>3. /\ SubSeq(s, 1, n) \in Seq(Event) /\ Len(SubSeq(s, 1, n)) = n
        /\ \A i \in 1..n : SubSeq(s, 1, n)[i] = s[i]
    BY <2>1, SubSeqProperties
  <2> QED
    BY <2>1, <2>2, <2>3, SeqEqual
<1>5. SubSeq(next, 1, Len(s)) = s
  <2>1. Len(s) \in 0..Len(s) /\ SubSeq(s, 1, Len(s)) = s
    BY <1>1, SubSeqFull
  <2> QED
    BY <1>4, <2>1
<1> QED
  BY <1>1, <1>2, <1>3, <1>4, <1>5

\* Failures of different turns, up to the given one.
FailuresApart(s, turn) ==
  /\ \A i \in DOMAIN s : s[i].type = "failure" => s[i].turn \in Nat /\ s[i].turn <= turn
  /\ \A i, j \in DOMAIN s :
       s[i].type = "failure" /\ s[j].type = "failure" /\ s[i].turn = s[j].turn => i = j

FailuresIn(s, c) == {i \in DOMAIN s : s[i].type = "failure" /\ s[i].what = c}

LEMMA NoFailureSaved ==
  ASSUME NEW s \in Seq(Event), NEW events \in Seq(Event), NEW next, next = s \o events,
         NoFailure(events),
         NEW turn \in Nat, NEW later \in Nat, later >= turn, FailuresApart(s, turn)
  PROVE  FailuresApart(next, later) /\ \A c : FailuresIn(next, c) = FailuresIn(s, c)
<1>1. /\ DOMAIN next = 1..Len(next) /\ DOMAIN s = 1..Len(s)
      /\ \A i \in 1..Len(s) : i \in 1..Len(next) /\ next[i] = s[i]
      /\ \A i \in 1..Len(next) : i \in 1..Len(s) \/ next[i].type # "failure"
  <2>1. /\ DOMAIN next = 1..Len(next)
        /\ \A i \in 1..Len(s) : i \in 1..Len(next) /\ next[i] = s[i]
        /\ \A i \in 1..Len(next) : \/ i \in 1..Len(s)
                                   \/ i - Len(s) \in 1..Len(events) /\ next[i] = events[i - Len(s)]
    BY SavedLedger
  <2>2. \A i \in 1..Len(events) : events[i].type # "failure"
    BY DEF NoFailure
  <2>3. DOMAIN s = 1..Len(s)
    OBVIOUS
  <2>4. \A i \in 1..Len(next) : i \in 1..Len(s) \/ next[i].type # "failure"
    BY <2>1, <2>2
  <2> QED
    BY <2>1, <2>3, <2>4
<1>2. \A i \in DOMAIN next :
        next[i].type = "failure" => i \in DOMAIN s /\ next[i] = s[i]
  BY <1>1
<1>3. \A c : FailuresIn(next, c) = FailuresIn(s, c)
  BY <1>1, <1>2 DEF FailuresIn
<1>4. \A i \in DOMAIN s : s[i].type = "failure" => s[i].turn \in Nat /\ s[i].turn <= later
  BY DEF FailuresApart
<1>5. FailuresApart(next, later)
  BY <1>2, <1>4 DEF FailuresApart
<1> QED
  BY <1>3, <1>5

LEMMA FailureSaved ==
  ASSUME NEW s \in Seq(Event), NEW events \in Seq(Event), NEW next, next = s \o events,
         NEW turn \in Nat, FailuresApart(s, turn),
         \A i \in DOMAIN events : events[i].type = "failure" => events[i].turn = turn + 1,
         \A i, j \in DOMAIN events :
           events[i].type = "failure" /\ events[j].type = "failure" => i = j
  PROVE  FailuresApart(next, turn + 1)
<1>1. /\ DOMAIN next = 1..Len(next) /\ DOMAIN s = 1..Len(s) /\ Len(s) \in Nat
      /\ DOMAIN events = 1..Len(events)
      /\ \A i \in 1..Len(s) : i \in 1..Len(next) /\ next[i] = s[i]
      /\ \A i \in 1..Len(next) : \/ i \in 1..Len(s)
                                 \/ /\ i > Len(s) /\ i - Len(s) \in 1..Len(events)
                                    /\ next[i] = events[i - Len(s)]
  <2>1. DOMAIN events = 1..Len(events) /\ DOMAIN s = 1..Len(s)
    OBVIOUS
  <2> QED
    BY <2>1, SavedLedger
<1>2. ASSUME NEW i \in 1..Len(next), next[i].type = "failure"
      PROVE  \/ i \in 1..Len(s) /\ next[i].turn \in Nat /\ next[i].turn <= turn
             \/ i \notin 1..Len(s) /\ next[i].turn = turn + 1
  <2>1. CASE i \in 1..Len(s)
    BY <1>1, <1>2, <2>1 DEF FailuresApart
  <2>2. CASE i \notin 1..Len(s)
    BY <1>1, <1>2, <2>2
  <2> QED
    BY <2>1, <2>2
<1>3. ASSUME NEW i \in 1..Len(next), NEW j \in 1..Len(next), next[i].type = "failure",
             next[j].type = "failure", next[i].turn = next[j].turn
      PROVE  i = j
  <2>1. i \in 1..Len(s) <=> j \in 1..Len(s)
    BY <1>2, <1>3
  <2>2. CASE i \in 1..Len(s)
    BY <1>1, <1>3, <2>1, <2>2 DEF FailuresApart
  <2>3. CASE i \notin 1..Len(s)
    <3>1. i - Len(s) = j - Len(s)
      BY <1>1, <1>3, <2>1, <2>3
    <3> QED
      BY <1>1, <3>1
  <2> QED
    BY <2>2, <2>3
<1>4. \A i \in 1..Len(next) : next[i].type = "failure" =>
        next[i].turn \in Nat /\ next[i].turn <= turn + 1
  BY <1>2
<1> QED
  BY <1>1, <1>3, <1>4 DEF FailuresApart

LEMMA FailureSets ==
  ASSUME NEW s \in Seq(Event), NEW turn, FailuresApart(s, turn), NEW c
  PROVE  /\ IsFiniteSet(FailuresIn(s, c))
         /\ Cardinality({e \in Range(s) : e.type = "failure" /\ e.what = c})
              = Cardinality(FailuresIn(s, c))
<1> DEFINE I == FailuresIn(s, c)
           F == {e \in Range(s) : e.type = "failure" /\ e.what = c}
           f == [i \in I |-> s[i]]
<1>1. IsFiniteSet(I)
  <2>1. Len(s) \in Int /\ 1 \in Int /\ I \in SUBSET (1..Len(s))
    BY DEF FailuresIn
  <2>2. IsFiniteSet(1..Len(s))
    BY <2>1, FS_Interval
  <2> QED
    BY <2>1, <2>2, FS_Subset
<1>2. \A i \in I : f[i] \in F
  BY DEF FailuresIn, Range
<1>3. \A i, j \in I : f[i] = f[j] => i = j
  BY DEF FailuresIn, FailuresApart
<1>4. \A e \in F : \E i \in I : f[i] = e
  BY DEF FailuresIn, Range
<1> HIDE DEF I, F
<1>5. f \in Bijection(I, F)
  <2>1. f \in [I -> F]
    BY <1>2
  <2> QED
    BY <1>3, <1>4, <2>1 DEF Bijection, Injection, IsInjective, Surjection
<1>6. Cardinality(F) = Cardinality(I)
  BY <1>1, <1>5, FS_Bijection DEF ExistsBijection
<1> QED
  BY <1>1, <1>6 DEF I, F

\* A response yields no tool calls, no external finding and one failure at most.
Response(observed) ==
  /\ observed \in Seq(Event)
  /\ \A i \in DOMAIN observed :
       /\ observed[i].type # "tool"
       /\ observed[i].type = "plain" => observed[i].finding \notin External
       /\ observed[i].type = "failure" => observed[i].turn = turns + 1
  /\ \A i, j \in DOMAIN observed :
       observed[i].type = "failure" /\ observed[j].type = "failure" => i = j

LEMMA ObservedResponse ==
  ASSUME NEW r \in Responses, turns \in Nat
  PROVE  Response(Observed(r))
<1> DEFINE o == Observed(r)
<1>1. /\ r \in Seq(Yield) /\ DOMAIN r = 1..Len(r) /\ Len(r) \in Nat
      /\ \A i, j \in DOMAIN r : r[i].type = "failure" /\ r[j].type = "failure" => i = j
  BY TurnAssumption
<1>2. \A i \in 1..Len(r) : r[i] \in Yield
  BY <1>1
<1>3. Nothing \notin External
  BY ProjectionAssumption
<1>4. ASSUME NEW i \in 1..Len(r)
      PROVE  /\ o[i] \in Event /\ o[i].type # "tool" /\ o[i].type = r[i].type
             /\ o[i].type = "plain" => o[i].finding \notin External
             /\ o[i].type = "failure" => o[i].turn = turns + 1
  <2>1. CASE r[i] \in PlainEvent
    <3>1. o[i] = r[i] /\ r[i].type = "plain" /\ r[i].finding \in (Findings \ External) \cup {Nothing}
      BY <1>1, <2>1 DEF Observed, PlainEvent
    <3>2. o[i] \in Event
      BY <2>1, <3>1 DEF Event
    <3> QED
      BY <1>3, <3>1, <3>2
  <2>2. CASE r[i] \in ClassEvent
    <3>1. o[i] = r[i] /\ r[i].type = "class"
      BY <1>1, <2>2 DEF Observed, ClassEvent
    <3>2. o[i] \in Event
      BY <2>2, <3>1 DEF Event
    <3> QED
      BY <3>1, <3>2
  <2>3. CASE r[i] \in [type : {"failure"}, what : Categories]
    <3>1. r[i].type = "failure" /\ r[i].what \in Categories
      BY <2>3
    <3>2. o[i] = [type |-> "failure", what |-> r[i].what, turn |-> turns + 1]
      BY <1>1, <3>1 DEF Observed
    <3>3. o[i] \in FailureEvent
      BY <3>1, <3>2 DEF FailureEvent
    <3> QED
      BY <3>1, <3>2, <3>3 DEF Event
  <2> QED
    BY <1>2, <2>1, <2>2, <2>3 DEF Yield
<1>5. DOMAIN o = 1..Len(r)
  BY <1>1 DEF Observed
<1>6. o \in Seq(Event)
  <2>1. o = [i \in 1..Len(r) |-> o[i]]
    BY <1>1 DEF Observed
  <2> QED
    BY <1>1, <1>4, <2>1
<1> HIDE DEF o
<1>7. \A i, j \in DOMAIN o : o[i].type = "failure" /\ o[j].type = "failure" => i = j
  BY <1>1, <1>4, <1>5
<1>8. Response(o)
  BY <1>4, <1>5, <1>6, <1>7 DEF Response
<1> QED
  BY <1>8 DEF o

LEMMA SilentEvent == Silent \in Event /\ Silent.type = "plain" /\ Silent.finding = Nothing
BY DEF Silent, Event, PlainEvent

LEMMA LoadedGrows ==
  ASSUME NEW s \in Seq(Event), NEW n \in 0..Len(s)
  PROVE  /\ SubSeq(s, 1, n) \in Seq(Event)
         /\ DOMAIN Loaded(SubSeq(s, 1, n)) \subseteq DOMAIN Loaded(s)
         /\ \A i \in DOMAIN Loaded(SubSeq(s, 1, n)) : Loaded(SubSeq(s, 1, n))[i] = Loaded(s)[i]
<1> DEFINE t == SubSeq(s, 1, n)
           LoadedLen(x) == IF x < Window THEN x ELSE Window
<1>1. Len(s) \in Nat /\ n \in Nat /\ n <= Len(s) /\ Window \in Nat
  BY ProjectionAssumption
<1>2. t \in Seq(Event) /\ Len(t) = n /\ \A i \in 1..n : t[i] = s[i]
  <2>1. 1 \in Int /\ n \in Int /\ \A i \in 1..n : s[i] \in Event
    BY <1>1
  <2> QED
    BY <1>1, <2>1, SubSeqProperties
<1> HIDE DEF t
<1>3. ASSUME NEW u \in Seq(Event)
      PROVE  /\ DOMAIN Loaded(u) = 1..LoadedLen(Len(u)) /\ LoadedLen(Len(u)) \in 0..Len(u)
             /\ \A i \in 1..LoadedLen(Len(u)) : Loaded(u)[i] = u[i]
  <2> DEFINE m == LoadedLen(Len(u))
  <2>1. m \in 0..Len(u) /\ Loaded(u) = SubSeq(u, 1, m)
    BY <1>1 DEF Loaded
  <2> HIDE DEF m
  <2>2. 1 \in Int /\ m \in Int /\ m \in Nat /\ \A i \in 1..m : u[i] \in Event
    BY <2>1
  <2>3. /\ SubSeq(u, 1, m) \in Seq(Event) /\ Len(SubSeq(u, 1, m)) = m
        /\ \A i \in 1..m : SubSeq(u, 1, m)[i] = u[i]
    BY <2>2, SubSeqProperties
  <2>4. DOMAIN SubSeq(u, 1, m) = 1..m
    BY <2>3
  <2> QED
    BY <2>1, <2>3, <2>4 DEF m
<1>4. 1..LoadedLen(n) \subseteq 1..LoadedLen(Len(s)) /\ \A i \in 1..LoadedLen(n) : i \in 1..n
  BY <1>1
<1>5. /\ DOMAIN Loaded(t) = 1..LoadedLen(n) /\ \A i \in 1..LoadedLen(n) : Loaded(t)[i] = t[i]
  BY <1>2, <1>3
<1>6. /\ DOMAIN Loaded(s) = 1..LoadedLen(Len(s))
      /\ \A i \in 1..LoadedLen(Len(s)) : Loaded(s)[i] = s[i]
  BY <1>3
<1> HIDE DEF LoadedLen
<1>7. DOMAIN Loaded(t) \subseteq DOMAIN Loaded(s) /\ \A i \in DOMAIN Loaded(t) : Loaded(t)[i] = Loaded(s)[i]
  BY <1>2, <1>4, <1>5, <1>6
<1> QED
  BY <1>2, <1>7 DEF t

\* A prefix offers no more than the whole.
LEMMA OffersGrow ==
  ASSUME NEW s, NEW t, DOMAIN t \subseteq DOMAIN s, \A i \in DOMAIN t : t[i] = s[i]
  PROVE  /\ \A l \in Layers : Located(l, t) \subseteq Located(l, s)
         /\ Range(FindingsOf(t)) \subseteq Range(FindingsOf(s))
<1>1. ASSUME NEW l \in Layers PROVE Located(l, t) \subseteq Located(l, s)
  <2>1. /\ DOMAIN TextsFor(l, t) = DOMAIN t /\ DOMAIN TextsFor(l, s) = DOMAIN s
        /\ \A i \in DOMAIN t : TextsFor(l, t)[i] = TextsFor(l, s)[i]
    BY DEF TextsFor
  <2> QED
    BY <2>1 DEF Located, Range
<1>2. /\ DOMAIN FindingsOf(t) = DOMAIN t /\ DOMAIN FindingsOf(s) = DOMAIN s
      /\ \A i \in DOMAIN t : FindingsOf(t)[i] = FindingsOf(s)[i]
  BY DEF FindingsOf
<1>3. Range(FindingsOf(t)) \subseteq Range(FindingsOf(s))
  BY <1>2 DEF Range
<1> QED
  BY <1>1, <1>3

\* A projection sees of the ledger what the window shows, and of the response no
\* tool call.
LEMMA ProjectedEvents ==
  ASSUME ledger \in Seq(Event), NEW observed, Response(observed), observed # <<>>,
         NEW events, events = Projecting(observed)
  PROVE  /\ events \in Seq(Event)
         /\ \A l \in Layers : Located(l, events) = Located(l, Loaded(ledger))
         /\ Somethings(FindingsOf(events)) \cap External
              \subseteq Range(FindingsOf(Loaded(ledger)))
         /\ \A l \in Layers : \A layer :
              HoldsLastOf(layer, TextsFor(l, events)) => HoldsLastOf(layer, TextsFor(l, Loaded(ledger)))
<1> DEFINE s == Loaded(ledger)
<1>1. s \in Seq(Event) /\ DOMAIN s = 1..Len(s) /\ Len(s) \in Nat
  BY LoadedEvents
<1>2. /\ observed \in Seq(Event) /\ DOMAIN observed = 1..Len(observed)
      /\ \A i \in 1..Len(observed) :
           /\ observed[i].type # "tool"
           /\ observed[i].type = "plain" => observed[i].finding \notin External
  BY DEF Response
<1>3. events = s \o observed
  BY DEF Projecting
<1> HIDE DEF s
<1>4. /\ events \in Seq(Event) /\ DOMAIN events = 1..Len(events)
      /\ \A i \in 1..Len(s) : i \in 1..Len(events) /\ events[i] = s[i]
      /\ \A i \in 1..Len(events) : \/ i \in 1..Len(s)
                                   \/ /\ i > Len(s) /\ i - Len(s) \in 1..Len(observed)
                                      /\ events[i] = observed[i - Len(s)]
  BY <1>1, <1>2, <1>3, SavedLedger
<1>5. \A i \in DOMAIN events :
        i \notin DOMAIN s => /\ events[i].type # "tool"
                             /\ events[i].type = "plain" => events[i].finding \notin External
  BY <1>1, <1>2, <1>4
<1>6. DOMAIN s \subseteq DOMAIN events /\ \A i \in DOMAIN s : events[i] = s[i]
  BY <1>1, <1>4
<1>7. ASSUME NEW l \in Layers
      PROVE  /\ DOMAIN TextsFor(l, events) = DOMAIN events
             /\ DOMAIN TextsFor(l, s) = DOMAIN s
             /\ \A i \in DOMAIN s : TextsFor(l, events)[i] = TextsFor(l, s)[i]
             /\ \A i \in DOMAIN events : i \notin DOMAIN s => TextsFor(l, events)[i] = Nothing
  BY <1>5, <1>6 DEF TextsFor
<1>8. \A l \in Layers : Located(l, events) = Located(l, s)
  BY <1>6, <1>7 DEF Located, Range
<1>9. Somethings(FindingsOf(events)) \cap External \subseteq Range(FindingsOf(s))
  <2> SUFFICES ASSUME NEW f \in Somethings(FindingsOf(events)), f \in External
               PROVE  f \in Range(FindingsOf(s))
    OBVIOUS
  <2>1. PICK i \in DOMAIN events : f = FindingsOf(events)[i] /\ f # Nothing
    BY DEF Somethings, Range, FindingsOf
  <2>2. events[i].type \in {"tool", "plain"} /\ f = events[i].finding
    BY <2>1 DEF FindingsOf
  <2>3. i \in DOMAIN s
    BY <1>5, <2>2
  <2>4. FindingsOf(s)[i] = f /\ DOMAIN FindingsOf(s) = DOMAIN s
    BY <1>6, <2>2, <2>3 DEF FindingsOf
  <2> QED
    BY <2>3, <2>4 DEF Range
<1>10. ASSUME NEW l \in Layers, NEW layer, HoldsLastOf(layer, TextsFor(l, events))
       PROVE  HoldsLastOf(layer, TextsFor(l, s))
  <2> SUFFICES ASSUME NEW i \in DOMAIN TextsFor(l, s), TextsFor(l, s)[i] # Nothing,
                      \A j \in DOMAIN TextsFor(l, s) : j > i => TextsFor(l, s)[j] = Nothing
               PROVE  Range(layer) \cap Forms({TextsFor(l, s)[i]}) # {}
    BY DEF HoldsLastOf
  <2>1. i \in DOMAIN TextsFor(l, events) /\ TextsFor(l, events)[i] = TextsFor(l, s)[i]
    BY <1>6, <1>7
  <2>2. \A j \in DOMAIN TextsFor(l, events) : j > i => TextsFor(l, events)[j] = Nothing
    BY <1>7
  <2>3. Range(layer) \cap Forms({TextsFor(l, events)[i]}) # {}
    BY <1>10, <2>1, <2>2 DEF HoldsLastOf
  <2> QED
    BY <2>1, <2>3
<1> QED
  BY <1>4, <1>8, <1>9, <1>10 DEF s

-----------------------------------------------------------------------------
(***************************************************************************)
(* Evidence and failures.                                                  *)
(***************************************************************************)
WitnessOK ==
  witness \in [projected : Nat, shown : [Layers -> SUBSET Texts],
               known : [Layers -> SUBSET Texts], asserted : SUBSET Findings,
               grew : BOOLEAN, repeats : Nat, fresh : BOOLEAN]

LedgerInv ==
  /\ ledger \in Seq(Event) /\ turns \in Nat
  /\ WitnessOK /\ witness.projected \in 0..Len(ledger)
  /\ FailuresApart(ledger, turns)
  /\ taxonomy \in [Categories -> Nat]
  /\ Len(ledger) <= Window
       => \A c \in Categories : taxonomy[c] = Cardinality(FailuresIn(ledger, c))

ListsInv ==
  /\ BoardFits(lists, witness.shown)
  /\ \A l \in Layers : Located(l, Seen) \subseteq witness.shown[l]
                       /\ witness.shown[l] \subseteq Evidenced(l)
  /\ LabelSet(Range(lists.findings)) \subseteq witness.shown["external_prior"]
  /\ Range(lists.findings) \cap External \subseteq FindingsSeen
  /\ NewestEvidenceStays

\* What was seen when the last turn projected.
LEMMA SeenAfter ==
  ASSUME LedgerInv, NEW observed, Response(observed),
         NEW saved \in Seq(Event), ledger' = ledger \o saved,
         witness'.projected = ProjectedAfter(observed)
  PROVE  /\ Seen' = IF observed = <<>> THEN Seen ELSE Loaded(ledger)
         /\ Seen \in Seq(Event) /\ Loaded(ledger) \in Seq(Event)
         /\ \A l \in Layers : Located(l, Seen) \subseteq Located(l, Seen')
         /\ Range(FindingsOf(Seen)) \subseteq Range(FindingsOf(Seen'))
         /\ witness'.projected \in 0..Len(ledger')
<1>1. ledger \in Seq(Event) /\ witness.projected \in 0..Len(ledger) /\ Len(ledger) \in Nat
  BY DEF LedgerInv
<1>2. /\ SubSeq(ledger', 1, witness.projected) = SubSeq(ledger, 1, witness.projected)
      /\ SubSeq(ledger', 1, Len(ledger)) = ledger
      /\ Len(ledger') = Len(ledger) + Len(saved) /\ Len(saved) \in Nat
  BY <1>1, SavedLedger
<1>3. Seen' = Loaded(SubSeq(ledger', 1, witness'.projected))
  BY DEF Seen
<1>4. Seen' = IF observed = <<>> THEN Seen ELSE Loaded(ledger)
  BY <1>2, <1>3 DEF Seen, ProjectedAfter
<1>5. Seen \in Seq(Event) /\ Loaded(ledger) \in Seq(Event)
  <2>1. SubSeq(ledger, 1, witness.projected) \in Seq(Event)
    BY <1>1, LoadedGrows
  <2> QED
    BY <1>1, <2>1, LoadedEvents DEF Seen
<1>6. /\ \A l \in Layers : Located(l, Seen) \subseteq Located(l, Loaded(ledger))
      /\ Range(FindingsOf(Seen)) \subseteq Range(FindingsOf(Loaded(ledger)))
  <2>1. /\ DOMAIN Seen \subseteq DOMAIN Loaded(ledger)
        /\ \A i \in DOMAIN Seen : Seen[i] = Loaded(ledger)[i]
    BY <1>1, LoadedGrows DEF Seen
  <2> QED
    BY <2>1, OffersGrow
<1>7. witness'.projected \in 0..Len(ledger')
  BY <1>1, <1>2 DEF ProjectedAfter
<1> QED
  BY <1>4, <1>5, <1>6, <1>7

\* A step that adds to the texts shown what it offers, keeps the lists in step with
\* the ledger: F are findings whose labels it may offer, new those of the critic.
LEMMA ListsGoOn ==
  ASSUME LedgerInv, ListsInv, WitnessOK', NEW observed, Response(observed),
         NEW saved \in Seq(Event), ledger' = ledger \o saved,
         witness'.projected = ProjectedAfter(observed),
         NEW new \in SUBSET Findings, witness'.asserted = witness.asserted \cup new,
         NEW events, events = Projecting(observed),
         NEW F, F \subseteq Range(lists.findings) \cup Somethings(FindingsOf(events)) \cup new,
         BoardFits(lists', witness'.shown),
         ShowsMore(witness.shown, witness'.shown, events, F),
         LabelSet(Range(lists.findings')) \subseteq witness'.shown["external_prior"],
         Range(lists.findings') \subseteq Range(lists.findings) \cup F,
         HoldsLastOf(lists.layers["external_prior"]', LabelsOf(lists.findings')),
         NewestFollow(lists, lists', observed)
  PROVE  ListsInv'
<1>1. /\ Seen' = IF observed = <<>> THEN Seen ELSE Loaded(ledger)
      /\ Seen \in Seq(Event) /\ Loaded(ledger) \in Seq(Event)
      /\ \A l \in Layers : Located(l, Seen) \subseteq Located(l, Seen')
      /\ Range(FindingsOf(Seen)) \subseteq Range(FindingsOf(Seen'))
  BY SeenAfter
<1>2. /\ \A l \in Layers : Located(l, events) \subseteq Located(l, Seen')
      /\ \A l \in Layers : Located(l, Seen') \subseteq Located(l, Seen) \cup Located(l, events)
      /\ Somethings(FindingsOf(events)) \cap External \subseteq Range(FindingsOf(Seen'))
      /\ \A l \in Layers : \A layer :
           observed # <<>> /\ HoldsLastOf(layer, TextsFor(l, events))
             => HoldsLastOf(layer, TextsFor(l, Seen'))
  <2>1. CASE observed = <<>>
    <3>1. events = <<>>
      BY <2>1 DEF Projecting
    <3>2. \A l \in Layers : Located(l, events) = {}
      BY <3>1 DEF Located, TextsFor, Range
    <3>3. Somethings(FindingsOf(events)) = {}
      BY <3>1 DEF Somethings, FindingsOf, Range
    <3> QED
      BY <1>1, <2>1, <3>2, <3>3
  <2>2. CASE observed # <<>>
    <3>1. /\ \A l \in Layers : Located(l, events) = Located(l, Loaded(ledger))
          /\ Somethings(FindingsOf(events)) \cap External \subseteq Range(FindingsOf(Loaded(ledger)))
          /\ \A l \in Layers : \A layer :
               HoldsLastOf(layer, TextsFor(l, events)) => HoldsLastOf(layer, TextsFor(l, Loaded(ledger)))
      BY <2>2, ProjectedEvents DEF LedgerInv
    <3>2. Seen' = Loaded(ledger)
      BY <1>1, <2>2
    <3> QED
      BY <3>1, <3>2
  <2> QED
    BY <2>1, <2>2
<1>3. FindingsSeen' = (Range(FindingsOf(Seen')) \cup witness'.asserted) \cap External
  BY DEF FindingsSeen
<1>4. \A l \in Layers : Evidenced(l)' = Located(l, Seen')
        \cup IF l = "external_prior" THEN LabelSet(FindingsSeen') ELSE {}
  BY <1>3 DEF Evidenced, LabelSet, FindingsSeen
<1>5. \A l \in Layers : Evidenced(l) = Located(l, Seen)
        \cup IF l = "external_prior" THEN LabelSet(FindingsSeen) ELSE {}
  BY DEF Evidenced, LabelSet, FindingsSeen
<1>6. FindingsSeen \subseteq FindingsSeen'
  BY <1>1, <1>3 DEF FindingsSeen
<1>7. F \cap External \subseteq FindingsSeen'
  <2>1. Range(lists.findings) \cap External \subseteq FindingsSeen
    BY DEF ListsInv
  <2> QED
    BY <1>2, <1>3, <1>6, <2>1
<1>8. LabelSet(F) \subseteq LabelSet(FindingsSeen') /\ LabelSet(FindingsSeen) \subseteq LabelSet(FindingsSeen')
  BY <1>3, <1>6, <1>7 DEF LabelSet, FindingsSeen
<1>9. ASSUME NEW l \in Layers
      PROVE  /\ Located(l, Seen') \subseteq witness'.shown[l]
             /\ witness'.shown[l] \subseteq Evidenced(l)'
  <2>1. Located(l, Seen) \subseteq witness.shown[l] /\ witness.shown[l] \subseteq Evidenced(l)
    BY DEF ListsInv
  <2>2. /\ witness.shown[l] \cup Located(l, events) \subseteq witness'.shown[l]
        /\ witness'.shown[l] \subseteq witness.shown[l] \cup Located(l, events)
              \cup IF l = "external_prior" THEN LabelSet(F) ELSE {}
    BY DEF ShownMore, ShowsMore
  <2>3. Located(l, Seen') \subseteq witness'.shown[l]
    BY <1>2, <2>1, <2>2
  <2>4. witness'.shown[l] \subseteq Evidenced(l)'
    <3>1. Evidenced(l) \subseteq Evidenced(l)'
      BY <1>1, <1>4, <1>5, <1>8
    <3>2. Located(l, events) \subseteq Evidenced(l)'
      BY <1>2, <1>4
    <3>3. (IF l = "external_prior" THEN LabelSet(F) ELSE {}) \subseteq Evidenced(l)'
      BY <1>4, <1>8
    <3> QED
      BY <2>1, <2>2, <3>1, <3>2, <3>3
  <2> QED
    BY <2>3, <2>4
<1>10. Range(lists.findings') \cap External \subseteq FindingsSeen'
  <2>1. Range(lists.findings) \cap External \subseteq FindingsSeen
    BY DEF ListsInv
  <2> QED
    BY <1>6, <1>7, <2>1
<1>11. NewestEvidenceStays'
  <2>1. ASSUME NEW l \in Layers \ {"external_prior"}
        PROVE  HoldsLastOf(lists.layers[l]', TextsFor(l, Seen'))
    <3>1. CASE observed = <<>>
      <4>1. TextsFor(l, Seen) \in Seq(Optional(Texts))
        BY <1>1, Offers
      <4>2. HoldsLastOf(lists.layers[l], TextsFor(l, Seen))
        BY DEF ListsInv, NewestEvidenceStays
      <4>3. LastKept(lists.layers[l], lists'.layers[l])
        BY <3>1 DEF NewestFollow
      <4>4. HoldsLastOf(lists'.layers[l], TextsFor(l, Seen))
        BY <4>1, <4>2, <4>3 DEF LastKept
      <4> QED
        BY <1>1, <3>1, <4>4
    <3>2. CASE observed # <<>>
      BY <1>2, <3>2 DEF NewestFollow
    <3> QED
      BY <3>1, <3>2
  <2> QED
    BY <2>1 DEF NewestEvidenceStays
<1> QED
  BY <1>9, <1>10, <1>11 DEF ListsInv

\* What a step does that saves no failure and projects nothing.
LEMMA LedgerGoesOn ==
  ASSUME LedgerInv, WitnessOK', NEW saved \in Seq(Event), ledger' = ledger \o saved,
         NoFailure(saved),
         UNCHANGED taxonomy, turns' \in Nat, turns' >= turns,
         witness'.projected = witness.projected
  PROVE  LedgerInv'
<1>1. /\ ledger' \in Seq(Event) /\ Len(ledger') = Len(ledger) + Len(saved)
      /\ Len(ledger) \in Nat /\ Len(saved) \in Nat
  BY SavedLedger DEF LedgerInv
<1>2. FailuresApart(ledger', turns') /\ \A c : FailuresIn(ledger', c) = FailuresIn(ledger, c)
  <2>1. ledger \in Seq(Event) /\ turns \in Nat /\ FailuresApart(ledger, turns)
    BY DEF LedgerInv
  <2> QED
    BY <2>1, NoFailureSaved
<1>3. Len(ledger') <= Window => Len(ledger) <= Window
  BY <1>1, ProjectionAssumption
<1>4. witness'.projected \in 0..Len(ledger')
  BY <1>1 DEF LedgerInv
<1> QED
  BY <1>1, <1>2, <1>3, <1>4 DEF LedgerInv

\* The observation of a turn counts its failure once.
LEMMA LedgerObserve ==
  ASSUME LedgerInv, WitnessOK', NEW observed, Response(observed), NEW passing,
         Observe(observed, passing), witness'.projected = ProjectedAfter(observed)
  PROVE  LedgerInv' /\ ledger' = ledger \o Append(observed, Silent)
         /\ Append(observed, Silent) \in Seq(Event)
<1> DEFINE saved == Append(observed, Silent)
<1>1. /\ ledger' = ledger \o saved /\ turns' = turns + 1
      /\ taxonomy' = IF observed = <<>> THEN taxonomy
                     ELSE TaxonomyAfter(taxonomy, Projecting(observed))
  BY DEF Observe, Saved
<1>2. /\ ledger \in Seq(Event) /\ turns \in Nat /\ observed \in Seq(Event)
      /\ FailuresApart(ledger, turns) /\ Len(ledger) \in Nat /\ Window \in Nat
      /\ <<Silent>> \in Seq(Event) /\ NoFailure(<<Silent>>)
  BY SilentEvent, ProjectionAssumption DEF LedgerInv, Response, NoFailure
<1>3. saved = observed \o <<Silent>> /\ saved \in Seq(Event)
  <2>1. saved = observed \o <<Silent>>
    BY <1>2, AppendIsConcat, SilentEvent
  <2>2. observed \o <<Silent>> \in Seq(Event)
    BY <1>2, ConcatProperties
  <2> QED
    BY <2>1, <2>2, Zenon
<1>4. CASE observed = <<>>
  <2>1. /\ UNCHANGED taxonomy /\ turns' \in Nat /\ turns' >= turns
        /\ witness'.projected = witness.projected
    BY <1>1, <1>2, <1>4 DEF ProjectedAfter
  <2>2. saved = <<Silent>>
    BY <1>4
  <2>3. NoFailure(saved)
    BY <1>2, <2>2
  <2> HIDE DEF saved
  <2>4. LedgerInv'
    BY <1>1, <1>3, <2>1, <2>3, LedgerGoesOn
  <2> QED
    BY <1>1, <1>3, <2>4 DEF saved
<1>5. CASE observed # <<>>
  <2> DEFINE mid == ledger \o observed
             events == Loaded(ledger) \o observed
  <2>1. mid \in Seq(Event) /\ ledger' = mid \o <<Silent>>
    <3>1. mid \in Seq(Event)
      BY <1>2, ConcatProperties
    <3>2. (ledger \o observed) \o <<Silent>> = ledger \o (observed \o <<Silent>>)
      BY <1>2, ConcatAssociative
    <3> QED
      BY <1>1, <1>3, <3>1, <3>2, Zenon
  <2>2. /\ \A i \in DOMAIN observed : observed[i].type = "failure" => observed[i].turn = turns + 1
        /\ \A i, j \in DOMAIN observed :
             observed[i].type = "failure" /\ observed[j].type = "failure" => i = j
    BY DEF Response
  <2>3. FailuresApart(mid, turns + 1)
    BY <1>2, <2>2, FailureSaved
  <2> HIDE DEF mid
  <2>4. FailuresApart(ledger', turns + 1) /\ \A c : FailuresIn(ledger', c) = FailuresIn(mid, c)
    <3>1. turns + 1 \in Nat /\ turns + 1 >= turns + 1
      BY <1>2
    <3> QED
      BY <1>2, <2>1, <2>3, <3>1, NoFailureSaved
  <2>5. events \in Seq(Event) /\ FailuresApart(events, turns + 1)
    <3>1. Loaded(ledger) \in Seq(Event) /\ FailuresApart(Loaded(ledger), turns)
      <4>1. /\ Loaded(ledger) \in Seq(Event) /\ Len(Loaded(ledger)) <= Len(ledger)
            /\ \A i \in DOMAIN Loaded(ledger) : Loaded(ledger)[i] = ledger[i]
        BY <1>2, LoadedEvents
      <4>2. DOMAIN Loaded(ledger) \subseteq DOMAIN ledger
        BY <1>2, <4>1
      <4> QED
        BY <1>2, <4>1, <4>2 DEF FailuresApart
    <3>2. events \in Seq(Event)
      BY <1>2, <3>1, ConcatProperties
    <3> QED
      BY <1>2, <2>2, <3>1, <3>2, FailureSaved
  <2>6. taxonomy' = [c \in Categories |->
                       Cardinality({e \in Range(events) : e.type = "failure" /\ e.what = c})]
    BY <1>1, <1>5 DEF TaxonomyAfter, Projecting
  <2>7. ASSUME Len(ledger') <= Window PROVE events = mid
    <3>1. Len(ledger) <= Window
      <4>1. /\ Len(ledger') = Len(mid) + 1 /\ Len(mid) = Len(ledger) + Len(observed)
            /\ Len(observed) \in Nat
        BY <1>2, <2>1, SavedLedger DEF mid
      <4> QED
        BY <1>2, <2>7, <4>1
    <3>2. Loaded(ledger) = SubSeq(ledger, 1, Len(ledger))
      <4>1. (IF Len(ledger) < Window THEN Len(ledger) ELSE Window) = Len(ledger)
        BY <1>2, <3>1
      <4> QED
        BY <4>1, Zenon DEF Loaded
    <3>3. Loaded(ledger) = ledger
      BY <1>2, <3>2, SubSeqFull
    <3> QED
      BY <3>3 DEF mid
  <2> HIDE DEF events
  <2>8. taxonomy' \in [Categories -> Nat]
    <3>1. \A c \in Categories :
            Cardinality({e \in Range(events) : e.type = "failure" /\ e.what = c}) \in Nat
      BY <2>5, FailureSets, FS_CardinalityType
    <3> QED
      BY <2>6, <3>1
  <2>9. ASSUME Len(ledger') <= Window, NEW c \in Categories
        PROVE  taxonomy'[c] = Cardinality(FailuresIn(ledger', c))
    <3>1. events = mid
      BY <2>7, <2>9
    <3> QED
      BY <2>4, <2>5, <2>6, <3>1, FailureSets
  <2>10. ledger' \in Seq(Event) /\ witness'.projected \in 0..Len(ledger')
    <3>1. ledger' \in Seq(Event) /\ Len(ledger') = Len(ledger) + Len(saved) /\ Len(saved) \in Nat
      BY <1>1, <1>2, <1>3, SavedLedger
    <3> QED
      BY <1>2, <1>5, <3>1 DEF ProjectedAfter
  <2>11. turns' \in Nat /\ FailuresApart(ledger', turns')
    BY <1>1, <1>2, <2>4
  <2>12. LedgerInv'
    BY <2>8, <2>9, <2>10, <2>11 DEF LedgerInv
  <2> QED
    BY <1>1, <1>3, <2>12
<1> QED
  BY <1>4, <1>5

-----------------------------------------------------------------------------
(***************************************************************************)
(* What the guard counts.                                                  *)
(***************************************************************************)
\* Texts that a layer holds when it has been shown the set and cut none.
Held(set) == IF Cardinality(set) < LayerCap THEN Cardinality(set) ELSE LayerCap

LEMMA HeldTyped ==
  ASSUME NEW set \in SUBSET Texts
  PROVE  IsFiniteSet(set) /\ Cardinality(set) \in Nat /\ Held(set) \in Nat
<1>1. IsFiniteSet(set)
  BY ProjectionAssumption, FS_Subset
<1>2. Cardinality(set) \in Nat
  BY <1>1, FS_CardinalityType
<1> QED
  BY <1>1, <1>2, ProjectionAssumption DEF Held

LEMMA WindowLength ==
  ASSUME NEW list \in Seq(Texts), NEW set \in SUBSET Texts, WindowOn(list, set, set, LayerCap)
  PROVE  Len(list) = Held(set)
<1>1. /\ Len(list) \in Nat /\ list \in [1..Len(list) -> Texts]
      /\ LayerCap \in Nat /\ Len(list) <= LayerCap /\ Range(list) \in SUBSET set
  BY ProjectionAssumption DEF WindowOn
<1>2. IsFiniteSet(1..Len(list)) /\ Cardinality(1..Len(list)) = Len(list)
  <2>1. 1 \in Int /\ Len(list) \in Int /\ (1 > Len(list) => Len(list) = 0)
        /\ (~ (1 > Len(list)) => Len(list) - 1 + 1 = Len(list))
    BY <1>1
  <2> QED
    BY <2>1, FS_Interval
<1>3. list \in Bijection(1..Len(list), Range(list))
  <2>1. list \in [1..Len(list) -> Range(list)] /\ \A y \in Range(list) : \E i \in 1..Len(list) : list[i] = y
    BY <1>1 DEF Range
  <2>2. \A i, j \in 1..Len(list) : list[i] = list[j] => i = j
    BY <1>1 DEF WindowOn, Distinct
  <2> QED
    BY <2>1, <2>2 DEF Bijection, Injection, IsInjective, Surjection
<1>4. Cardinality(Range(list)) = Len(list)
  BY <1>2, <1>3, FS_Bijection DEF ExistsBijection
<1>5. Cardinality(Range(list)) <= Cardinality(set) /\ Cardinality(set) \in Nat
  BY <1>1, HeldTyped, FS_Subset
<1>6. Len(list) < LayerCap => Range(list) = set
  BY <1>1 DEF WindowOn
<1> QED
  <2>1. CASE Len(list) < LayerCap
    <3>1. Cardinality(set) = Len(list)
      BY <1>4, <1>6, <2>1, Zenon
    <3> QED
      BY <2>1, <3>1 DEF Held
  <2>2. CASE Len(list) = LayerCap
    <3>1. ~ (Cardinality(set) < LayerCap)
      BY <1>1, <1>4, <1>5, <2>2
    <3> QED
      BY <2>2, <3>1 DEF Held
  <2>3. Len(list) < LayerCap \/ Len(list) = LayerCap
    <3>1. \A m, k \in Nat : m <= k => m < k \/ m = k
      OBVIOUS
    <3> QED
      BY <1>1, <3>1, Zenon
  <2> QED
    BY <2>1, <2>2, <2>3, Zenon

LEMMA HeldGrows ==
  ASSUME NEW shown \in SUBSET Texts, NEW known \in SUBSET shown,
         Cardinality(shown) <= LayerCap
  PROVE  Held(known) <= Held(shown) /\ (known # shown => Held(known) < Held(shown))
<1>1. /\ Cardinality(known) <= Cardinality(shown)
      /\ Cardinality(known) = Cardinality(shown) => known = shown
      /\ Cardinality(known) \in Nat /\ Cardinality(shown) \in Nat /\ LayerCap \in Nat
  BY HeldTyped, FS_Subset, ProjectionAssumption
<1>2. Held(known) = Cardinality(known) /\ Held(shown) = Cardinality(shown)
  BY <1>1 DEF Held
<1> QED
  BY <1>1, <1>2

Portfolio(p) == p \in Seq(0..MaxArtifacts)

LEMMA PortfolioTyped ==
  ASSUME NEW p, Portfolio(p)
  PROVE  /\ DOMAIN p = 1..Len(p) /\ Len(p) \in Nat
         /\ \A i \in 1..Len(p) : p[i] \in 0..MaxArtifacts /\ p[i] \in Nat
BY TurnAssumption DEF Portfolio

\* The merged hypotheses are the old ones and the new ones but the first d.
Shifted(found, old, new, d) ==
  /\ Len(found) + d = Len(old) + Len(new)
  /\ \A i \in 1..Len(found) :
       found[i] = IF i + d <= Len(old) THEN old[i + d] ELSE new[(i + d) - Len(old)]

\* What ArtifactCount counts.
ArtifactsOf(portfolio) == UNION {{i} \X (1..portfolio[i]) : i \in DOMAIN portfolio}

LEMMA ArtifactsTyped ==
  ASSUME NEW portfolio, Portfolio(portfolio)
  PROVE  /\ IsFiniteSet(ArtifactsOf(portfolio)) /\ ArtifactCount(portfolio) \in Nat
         /\ ArtifactCount(portfolio) = Cardinality(ArtifactsOf(portfolio))
         /\ ArtifactsOf(portfolio) = {x \in Nat \X Nat :
              x[1] \in DOMAIN portfolio /\ x[2] \in 1..portfolio[x[1]]}
<1>1. /\ Len(portfolio) \in Nat /\ DOMAIN portfolio = 1..Len(portfolio) /\ MaxArtifacts \in Nat
      /\ \A i \in 1..Len(portfolio) : portfolio[i] \in 0..MaxArtifacts
  BY TurnAssumption DEF Portfolio
<1>2. ArtifactsOf(portfolio) = {x \in Nat \X Nat :
        x[1] \in DOMAIN portfolio /\ x[2] \in 1..portfolio[x[1]]}
  BY <1>1 DEF ArtifactsOf
<1>3. IsFiniteSet((1..Len(portfolio)) \X (1..MaxArtifacts))
  <2>1. IsFiniteSet(1..Len(portfolio)) /\ IsFiniteSet(1..MaxArtifacts)
    BY <1>1, FS_Interval
  <2> QED
    BY <2>1, FS_Product
<1>4. ArtifactsOf(portfolio) \in SUBSET ((1..Len(portfolio)) \X (1..MaxArtifacts))
  <2>1. \A i \in 1..Len(portfolio) : 1..portfolio[i] \subseteq 1..MaxArtifacts
    BY <1>1
  <2> QED
    BY <1>1, <2>1 DEF ArtifactsOf
<1>5. IsFiniteSet(ArtifactsOf(portfolio))
  BY <1>3, <1>4, FS_Subset
<1> QED
  BY <1>2, <1>5, FS_CardinalityType DEF ArtifactCount, ArtifactsOf

LEMMA MergedPortfolio ==
  ASSUME NEW old, Portfolio(old), NEW new, Portfolio(new),
         NEW found, found = MergedHypotheses(old, new)
  PROVE  /\ Portfolio(found) /\ Len(found) <= PortfolioCap
         /\ \E d \in Nat : Shifted(found, old, new, d)
         /\ Len(found) < PortfolioCap => Shifted(found, old, new, 0)
<1> DEFINE all == old \o new
           d == Len(all) - PortfolioCap
<1>1. /\ all \in Seq(0..MaxArtifacts) /\ Len(all) = Len(old) + Len(new)
      /\ \A i \in 1..Len(old) + Len(new) : all[i] = IF i <= Len(old) THEN old[i] ELSE new[i - Len(old)]
      /\ Len(old) \in Nat /\ Len(new) \in Nat /\ PortfolioCap \in Nat \ {0}
  BY ConcatProperties, BoardAssumption DEF Portfolio
<1> HIDE DEF all
<1>2. CASE Len(all) <= PortfolioCap
  <2>1. found = all
    BY <1>2 DEF MergedHypotheses, all
  <2>2. /\ Len(found) + 0 = Len(old) + Len(new)
        /\ \A i \in 1..Len(found) :
             found[i] = IF i + 0 <= Len(old) THEN old[i + 0] ELSE new[(i + 0) - Len(old)]
    BY <1>1, <2>1
  <2>3. Portfolio(found) /\ Len(found) <= PortfolioCap
    BY <1>1, <1>2, <2>1 DEF Portfolio
  <2>4. Shifted(found, old, new, 0) /\ 0 \in Nat
    BY <2>2 DEF Shifted
  <2> QED
    BY <2>3, <2>4
<1>3. CASE ~ (Len(all) <= PortfolioCap)
  <2>1. found = SubSeq(all, d + 1, Len(all))
    BY <1>3 DEF MergedHypotheses, all
  <2>2. d \in Nat /\ d + 1 \in Int /\ Len(all) \in Int /\ Len(all) - (d + 1) + 1 = PortfolioCap
        /\ d + 1 <= Len(all) /\ \A i \in d + 1..Len(all) : all[i] \in 0..MaxArtifacts
    <3>1. Len(all) \in Nat /\ \A i \in 1..Len(all) : all[i] \in 0..MaxArtifacts
      <4>1. Portfolio(all)
        BY <1>1 DEF Portfolio
      <4> QED
        BY <4>1, PortfolioTyped
    <3>2. d \in Nat /\ d + 1 \in Int /\ Len(all) - (d + 1) + 1 = PortfolioCap /\ d + 1 <= Len(all)
      BY <1>1, <1>3, <3>1
    <3>3. \A i \in d + 1..Len(all) : i \in 1..Len(all)
      BY <3>1, <3>2
    <3> QED
      BY <3>1, <3>2, <3>3
  <2> HIDE DEF d
  <2>3. /\ found \in Seq(0..MaxArtifacts) /\ Len(found) = PortfolioCap
        /\ \A i \in 1..PortfolioCap : found[i] = all[d + 1 + i - 1]
    BY <2>1, <2>2, SubSeqProperties
  <2>4. Len(found) + d = Len(old) + Len(new)
    BY <1>1, <2>2, <2>3
  <2>5. \A i \in 1..Len(found) :
          found[i] = IF i + d <= Len(old) THEN old[i + d] ELSE new[(i + d) - Len(old)]
    <3> SUFFICES ASSUME NEW i \in 1..Len(found)
                 PROVE  found[i] = IF i + d <= Len(old) THEN old[i + d] ELSE new[(i + d) - Len(old)]
      OBVIOUS
    <3>1. i + d \in 1..Len(old) + Len(new) /\ d + 1 + i - 1 = i + d /\ i \in 1..PortfolioCap
      BY <1>1, <2>2, <2>3, <2>4
    <3>2. found[i] = all[i + d]
      BY <2>3, <3>1
    <3> DEFINE Nth(j) == IF j <= Len(old) THEN old[j] ELSE new[j - Len(old)]
    <3>3. \A j \in 1..Len(old) + Len(new) : all[j] = Nth(j)
      BY <1>1
    <3> HIDE DEF Nth
    <3>4. all[i + d] = Nth(i + d)
      BY <3>1, <3>3, Zenon
    <3> QED
      BY <3>2, <3>4, Zenon DEF Nth
  <2>6. Portfolio(found) /\ Len(found) <= PortfolioCap /\ ~ (Len(found) < PortfolioCap)
    BY <1>1, <2>3 DEF Portfolio
  <2>7. Shifted(found, old, new, d)
    BY <2>4, <2>5 DEF Shifted
  <2> QED
    BY <2>2, <2>6, <2>7
<1> QED
  BY <1>2, <1>3

\* The critic's answer does not raise the count unless it marks a hypothesis.
LEMMA ArtifactsShrink ==
  ASSUME NEW old, Portfolio(old), NEW new, Portfolio(new), \A i \in DOMAIN new : ~ (new[i] > 0),
         NEW found, found = MergedHypotheses(old, new)
  PROVE  ArtifactCount(found) <= ArtifactCount(old)
<1>0. PICK d \in Nat : Shifted(found, old, new, d)
  BY MergedPortfolio
<1>1. /\ Len(found) + d = Len(old) + Len(new)
      /\ \A i \in 1..Len(found) :
           found[i] = IF i + d <= Len(old) THEN old[i + d] ELSE new[(i + d) - Len(old)]
  BY <1>0 DEF Shifted
<1>2. /\ Portfolio(found) /\ DOMAIN found = 1..Len(found) /\ Len(found) \in Nat
      /\ DOMAIN old = 1..Len(old) /\ Len(old) \in Nat
      /\ DOMAIN new = 1..Len(new) /\ Len(new) \in Nat
      /\ \A i \in 1..Len(new) : new[i] \in Nat
  <2>1. Portfolio(found)
    BY MergedPortfolio
  <2> QED
    BY <2>1, PortfolioTyped
<1> DEFINE S == ArtifactsOf(found)
           T == ArtifactsOf(old)
           f == [x \in S |-> <<x[1] + d, x[2]>>]
<1>3. /\ S = {x \in Nat \X Nat : x[1] \in DOMAIN found /\ x[2] \in 1..found[x[1]]}
      /\ T = {x \in Nat \X Nat : x[1] \in DOMAIN old /\ x[2] \in 1..old[x[1]]}
      /\ IsFiniteSet(T) /\ ArtifactCount(found) = Cardinality(S) /\ ArtifactCount(old) = Cardinality(T)
  BY <1>2, ArtifactsTyped
<1> HIDE DEF S, T
<1>4. ASSUME NEW x \in S PROVE f[x] \in T /\ x[1] \in Nat /\ x = <<x[1], x[2]>>
  <2>1. x \in Nat \X Nat /\ x[1] \in 1..Len(found) /\ x[2] \in 1..found[x[1]]
    BY <1>2, <1>3
  <2> DEFINE i == x[1]
             k == x[2]
  <2>2. i \in 1..Len(found) /\ k \in 1..found[i] /\ i \in Nat /\ k \in Nat
    BY <2>1
  <2> HIDE DEF i, k
  <2>3. i + d <= Len(old)
    <3> SUFFICES ASSUME ~ (i + d <= Len(old)) PROVE FALSE
      OBVIOUS
    <3>1. i + d - Len(old) \in 1..Len(new) /\ found[i] = new[(i + d) - Len(old)]
      BY <1>1, <1>2, <2>2
    <3> QED
      BY <1>2, <2>2, <3>1
  <2>4. i + d \in DOMAIN old /\ k \in 1..old[i + d] /\ i + d \in Nat
    BY <1>1, <1>2, <2>2, <2>3
  <2>5. <<i + d, k>> \in T
    BY <1>3, <2>2, <2>4
  <2> QED
    BY <2>1, <2>5 DEF i, k
<1>5. \A x, y \in S : f[x] = f[y] => x = y
  <2> SUFFICES ASSUME NEW x \in S, NEW y \in S, f[x] = f[y] PROVE x = y
    OBVIOUS
  <2>1. x[1] + d = y[1] + d /\ x[2] = y[2]
    OBVIOUS
  <2>2. x[1] = y[1]
    BY <1>4, <2>1
  <2> QED
    BY <1>4, <2>1, <2>2
<1>6. f \in Injection(S, T)
  <2>1. f \in [S -> T]
    BY <1>4
  <2> QED
    BY <1>5, <2>1 DEF Injection, IsInjective
<1> HIDE DEF f
<1> QED
  BY <1>3, <1>6, FS_Injection

\* While none is dropped, hypotheses add to the count, marked ones for sure.
LEMMA ArtifactsGrow ==
  ASSUME NEW old, Portfolio(old), NEW new, Portfolio(new),
         NEW found, found = MergedHypotheses(old, new), Len(found) < PortfolioCap
  PROVE  /\ ArtifactCount(old) <= ArtifactCount(found)
         /\ (\E i \in DOMAIN new : new[i] > 0) => ArtifactCount(old) < ArtifactCount(found)
<1>1. /\ Len(found) = Len(old) + Len(new)
      /\ \A i \in 1..Len(found) :
           found[i] = IF i <= Len(old) THEN old[i] ELSE new[i - Len(old)]
      /\ Portfolio(found) /\ DOMAIN found = 1..Len(found) /\ Len(found) \in Nat
      /\ DOMAIN old = 1..Len(old) /\ Len(old) \in Nat
      /\ DOMAIN new = 1..Len(new) /\ Len(new) \in Nat
      /\ \A i \in 1..Len(new) : new[i] \in Nat
  <2>1. Portfolio(found)
    BY MergedPortfolio
  <2>2. /\ DOMAIN found = 1..Len(found) /\ Len(found) \in Nat
        /\ DOMAIN old = 1..Len(old) /\ Len(old) \in Nat
        /\ DOMAIN new = 1..Len(new) /\ Len(new) \in Nat
        /\ \A i \in 1..Len(new) : new[i] \in Nat
    BY <2>1, PortfolioTyped
  <2>3. Shifted(found, old, new, 0)
    BY MergedPortfolio
  <2>4. Len(found) + 0 = Len(old) + Len(new)
        /\ \A i \in 1..Len(found) :
             found[i] = IF i + 0 <= Len(old) THEN old[i + 0] ELSE new[(i + 0) - Len(old)]
    BY <2>3 DEF Shifted
  <2>5. Len(found) = Len(old) + Len(new) /\ \A i \in 1..Len(found) : i + 0 = i
    <3>1. Len(found) \in Nat /\ Len(found) + 0 = Len(old) + Len(new)
      BY <2>2, <2>4, Zenon
    <3> QED
      BY <3>1
  <2>6. \A i \in 1..Len(found) :
           found[i] = IF i <= Len(old) THEN old[i] ELSE new[i - Len(old)]
    BY <2>4, <2>5
  <2> QED
    BY <2>1, <2>2, <2>5, <2>6
<1> DEFINE S == ArtifactsOf(found)
           T == ArtifactsOf(old)
<1>2. /\ S = {x \in Nat \X Nat : x[1] \in DOMAIN found /\ x[2] \in 1..found[x[1]]}
      /\ T = {x \in Nat \X Nat : x[1] \in DOMAIN old /\ x[2] \in 1..old[x[1]]}
      /\ IsFiniteSet(S) /\ ArtifactCount(found) = Cardinality(S) /\ ArtifactCount(old) = Cardinality(T)
      /\ ArtifactCount(found) \in Nat /\ ArtifactCount(old) \in Nat
  BY <1>1, ArtifactsTyped
<1> HIDE DEF S, T
<1>3. T \in SUBSET S
  <2>1. \A i \in DOMAIN old : i \in DOMAIN found /\ found[i] = old[i]
    BY <1>1
  <2> QED
    BY <1>2, <2>1
<1>4. Cardinality(T) <= Cardinality(S) /\ (Cardinality(S) = Cardinality(T) => S = T)
  BY <1>2, <1>3, FS_Subset
<1>5. ASSUME NEW i \in DOMAIN new, new[i] > 0 PROVE S # T
  <2> DEFINE j == Len(old) + i
  <2>1. j \in DOMAIN found /\ found[j] = new[i] /\ j \notin DOMAIN old /\ j \in Nat
    BY <1>1
  <2>2. 1 \in 1..found[j]
    BY <1>1, <1>5, <2>1
  <2> HIDE DEF j
  <2>3. <<j, 1>> \in S /\ <<j, 1>> \notin T
    BY <1>2, <2>1, <2>2
  <2> QED
    BY <2>3
<1> QED
  BY <1>2, <1>4, <1>5

-----------------------------------------------------------------------------
(***************************************************************************)
(* The guard.                                                              *)
(***************************************************************************)
TextCount(shown) ==
  Held(shown["artifact"]) + Held(shown["verification"]) + Held(shown["external_prior"])

GuardVarsOK ==
  /\ Portfolio(hyps) /\ Len(hyps) <= PortfolioCap
  /\ open \subseteq OpenAtStart
  /\ stalls \in Nat /\ lastCount \in Nat
  /\ hard \in {"none", "target", "infra", "streak", "stall"}
  /\ noEdge \in BOOLEAN
  /\ proposed \in Classes \cup {"unknown"}

\* A class that was new when it was proposed is the history's last one.
HistoryKnown ==
  witness.fresh /\ Unclassified /\ open # {} /\ proposed # "unknown"
    => Distinct(lists.history) /\ lists.history # <<>> /\ Last(lists.history) = proposed

RepeatsCounted ==
  witness.fresh /\ Unclassified /\ ShortTexts /\ witness.repeats > 0
    => /\ stalls + 1 >= witness.repeats
       /\ witness.repeats > MaxStalls => hard # "none"

GuardInv ==
  /\ GuardVarsOK
  /\ \A l \in Layers : witness.known[l] \subseteq witness.shown[l]
  /\ ShortTexts => lastCount = TextCount(witness.known) + ArtifactCount(hyps)
  /\ EvidenceResetsStalls
  /\ HistoryKnown
  /\ RepeatsCounted

\* Without cuts the count is that of the texts shown.
LEMMA EvidenceCounted ==
  ASSUME NEW shown \in [Layers -> SUBSET Texts], NEW b, BoardFits(b, shown),
         \A l \in CountedLayers : AllShort(shown[l]), NEW portfolio
  PROVE  EvidenceCount(b.layers, portfolio) = TextCount(shown) + ArtifactCount(portfolio)
<1>1. ASSUME NEW l \in CountedLayers PROVE Len(b.layers[l]) = Held(shown[l])
  <2>1. l \in Layers
    BY DEF CountedLayers, Layers
  <2>2. b.layers[l] \in Seq(Texts) /\ FitsLayer(b.layers[l], shown[l]) /\ shown[l] \in SUBSET Texts
    BY <2>1 DEF BoardFits, ListsOK
  <2>3. Forms(shown[l]) = shown[l] /\ AllShort(shown[l])
    BY <2>2, FormsHold
  <2>4. WindowOn(b.layers[l], shown[l], shown[l], LayerCap)
    BY <2>2, <2>3 DEF FitsLayer
  <2> QED
    BY <2>2, <2>4, WindowLength
<1>2. /\ Len(b.layers["artifact"]) = Held(shown["artifact"])
      /\ Len(b.layers["verification"]) = Held(shown["verification"])
      /\ Len(b.layers["external_prior"]) = Held(shown["external_prior"])
  BY <1>1 DEF CountedLayers
<1> QED
  BY <1>2 DEF EvidenceCount, TextCount

\* While the guard does not run, what it found stays; its guarantees only weaken as
\* more is shown.
LEMMA GuardStays ==
  ASSUME LedgerInv, GuardInv, WitnessOK', UNCHANGED guardVars, open' \subseteq open,
         NEW saved \in Seq(Event), ledger' = ledger \o saved,
         witness'.known = witness.known, witness'.grew = witness.grew,
         witness'.repeats = witness.repeats, witness'.fresh = witness.fresh,
         \A l \in Layers : witness.shown[l] \subseteq witness'.shown[l],
         Unclassified' /\ Distinct(lists.history) => lists.history' = lists.history
  PROVE  GuardInv'
<1>1. /\ hyps' = hyps /\ stalls' = stalls /\ lastCount' = lastCount /\ hard' = hard
      /\ noEdge' = noEdge /\ proposed' = proposed
  BY DEF guardVars
<1>2. Unclassified' => Unclassified
  <2>1. ledger \in Seq(Event) /\ DOMAIN ledger = 1..Len(ledger)
    BY DEF LedgerInv
  <2>2. DOMAIN ledger' = 1..Len(ledger')
        /\ \A i \in 1..Len(ledger) : i \in 1..Len(ledger') /\ ledger'[i] = ledger[i]
    BY <2>1, SavedLedger
  <2> QED
    BY <2>1, <2>2 DEF Unclassified
<1>3. CountedLayers \subseteq Layers
  BY DEF CountedLayers, Layers
<1>4. ShortTexts' => ShortTexts
  BY <1>3 DEF ShortTexts, AllShort
<1>5. GuardVarsOK'
  BY <1>1 DEF GuardInv, GuardVarsOK
<1>6. \A l \in Layers : witness'.known[l] \subseteq witness'.shown[l]
  BY DEF GuardInv
<1>7. ShortTexts' => lastCount' = TextCount(witness'.known) + ArtifactCount(hyps')
  BY <1>1, <1>4 DEF GuardInv
<1>8. EvidenceResetsStalls'
  <2> SUFFICES ASSUME witness.grew, ShortTexts', Len(hyps) < PortfolioCap,
                      \A l \in CountedLayers : Cardinality(witness'.shown[l]) <= LayerCap
               PROVE  stalls = 0
    BY <1>1 DEF EvidenceResetsStalls
  <2>1. ASSUME NEW l \in CountedLayers PROVE Cardinality(witness.shown[l]) <= LayerCap
    <3>1. witness'.shown[l] \in SUBSET Texts /\ witness.shown[l] \in SUBSET witness'.shown[l]
      BY <1>3 DEF WitnessOK
    <3>2. /\ Cardinality(witness.shown[l]) <= Cardinality(witness'.shown[l])
          /\ Cardinality(witness.shown[l]) \in Nat /\ Cardinality(witness'.shown[l]) \in Nat
      BY <3>1, HeldTyped, FS_Subset
    <3>3. Cardinality(witness'.shown[l]) <= LayerCap /\ LayerCap \in Nat
      BY ProjectionAssumption
    <3> QED
      BY <3>2, <3>3
  <2> QED
    BY <1>4, <2>1 DEF GuardInv, EvidenceResetsStalls
<1>9. HistoryKnown'
  <2> SUFFICES ASSUME witness.fresh, Unclassified', open' # {}, proposed # "unknown"
               PROVE  /\ Distinct(lists.history') /\ lists.history' # <<>>
                      /\ Last(lists.history') = proposed
    BY <1>1 DEF HistoryKnown
  <2>1. Distinct(lists.history) /\ lists.history # <<>> /\ Last(lists.history) = proposed
    BY <1>2 DEF GuardInv, HistoryKnown
  <2> QED
    BY <2>1
<1>10. RepeatsCounted'
  BY <1>1, <1>2, <1>4 DEF GuardInv, RepeatsCounted
<1> QED
  BY <1>5, <1>6, <1>7, <1>8, <1>9, <1>10 DEF GuardInv

LEMMA HistoryStep ==
  ASSUME NEW past \in Seq(Classes), Len(past) <= HistoryCap,
         NEW class \in Classes \cup {"unknown"},
         NEW next, next = HistoryWith(past, class)
  PROVE  /\ next \in Seq(Classes) /\ Len(next) <= HistoryCap
         /\ class # "unknown" => next # <<>> /\ Last(next) = class
         /\ ~ ChangesClass(past, class) => next = past
         /\ Distinct(past) /\ class \notin Range(past) => Distinct(next)
<1>1. HistoryCap \in Nat \ {0}
  BY ProjectionAssumption
<1>2. CASE ChangesClass(past, class)
  <2>1. class \in Classes
    BY <1>2 DEF ChangesClass
  <2>2. PICK r \in Seq(Classes) : /\ r = LastN(Append(past, class), HistoryCap)
                                  /\ Len(r) \in 1..HistoryCap /\ r[Len(r)] = class
    BY <1>1, <2>1, AppendToLastN
  <2>3. next = r
    BY <1>2, <2>2, Zenon DEF HistoryWith
  <2>4. next \in Seq(Classes) /\ Len(next) <= HistoryCap /\ Len(next) # 0 /\ next[Len(next)] = class
    BY <1>1, <2>2, <2>3
  <2>5. ASSUME Distinct(past), class \notin Range(past) PROVE Distinct(next)
    <3> DEFINE members == Range(past)
               none == {}
    <3>1. WindowOn(past, members, none, HistoryCap)
      BY <2>5 DEF WindowOn
    <3>2. ~ Contains(past, class)
      BY <2>5 DEF Contains, Range
    <3>3. next = LastN(Append(past, class), HistoryCap)
      BY <2>2, <2>3
    <3> HIDE DEF members, none
    <3>4. WindowOn(next, members \cup {class}, none \cup {class}, HistoryCap)
      BY <1>1, <2>1, <3>1, <3>2, <3>3, AppendKeepsWindow
    <3> QED
      BY <3>4 DEF WindowOn
  <2> QED
    BY <1>2, <2>4, <2>5 DEF Last
<1>3. CASE ~ ChangesClass(past, class)
  BY <1>3 DEF HistoryWith, ChangesClass
<1> QED
  BY <1>2, <1>3

LEMMA ReasonKinds ==
  ASSUME NEW left, NEW p, NEW past, NEW count
  PROVE  /\ HardReason(left, p, past, count) \in {"none", "target", "infra", "streak", "stall"}
         /\ count >= MaxStalls => HardReason(left, p, past, count) # "none"
BY DEF HardReason

-----------------------------------------------------------------------------
(***************************************************************************)
(* The steps.                                                              *)
(***************************************************************************)
Inv == LedgerInv /\ ListsInv /\ GuardInv

LEMMA ShownWithIs ==
  ASSUME NEW events, NEW findings
  PROVE  ShownWith(events, findings) = ShownMore(witness.shown, events, findings)
BY DEF ShownWith, ShownMore, LabelSet

LEMMA ClosedFits ==
  ASSUME NEW shown \in [Layers -> SUBSET Texts], NEW events \in Seq(Event), NEW b,
         BoardFits(b, ShownMore(shown, events, Range(b.findings))),
         HoldsLastOf(b.layers["external_prior"], LabelsOf(b.findings)),
         NEW closing \in BOOLEAN, NEW next, next = Closed(b, closing)
  PROVE  /\ BoardFits(next, ShownMore(shown, events, Range(next.findings)))
         /\ next.findings = b.findings /\ next.history = b.history
         /\ \A l \in Layers \ {"external_prior"} : next.layers[l] = b.layers[l]
         /\ HoldsLastOf(next.layers["external_prior"], LabelsOf(next.findings))
<1>1. CASE closing
  <2>1. next = SyncedLists(b)
    BY <1>1 DEF Closed
  <2> QED
    BY <2>1, SyncFitsAgain
<1>2. CASE ~ closing
  <2>1. next = b
    BY <1>2 DEF Closed
  <2> QED
    BY <2>1
<1> QED
  BY <1>1, <1>2

LEMMA NoResponse == Response(<<>>)
BY DEF Response

LEMMA InitStep == Init => Inv
<1> SUFFICES ASSUME Init PROVE Inv
  OBVIOUS
<1> DEFINE e == <<>>
<1>1. /\ ledger = <<Silent>> /\ taxonomy = [c \in Categories |-> 0] /\ turns = 0
      /\ lists.layers = [l \in Layers |-> e] /\ lists.findings = e /\ lists.history = e
      /\ lists \in [layers : [Layers -> {e}], findings : {e}, history : {e}]
      /\ hyps = e /\ open = OpenAtStart /\ stalls = 0 /\ lastCount = 0 /\ hard = "none"
      /\ noEdge = FALSE /\ proposed = "unknown"
      /\ witness = [projected |-> 0, shown |-> NoTexts, known |-> NoTexts, asserted |-> {},
                    grew |-> FALSE, repeats |-> 0, fresh |-> TRUE]
  BY DEF Init
<1>2. /\ Len(e) = 0 /\ DOMAIN e = {} /\ Range(e) = {} /\ Distinct(e)
      /\ e \in Seq(Texts) /\ e \in Seq(Findings) /\ e \in Seq(Classes) /\ e \in Seq(0..MaxArtifacts)
  BY DEF Range, Distinct
<1> HIDE DEF e
<1>3. /\ {LayerCap, FindingCap, HistoryCap, PortfolioCap, Window} \subseteq Nat \ {0}
  BY ProjectionAssumption, BoardAssumption
<1>4. WitnessOK /\ \A l \in Layers : witness.shown[l] = {} /\ witness.known[l] = {}
  BY <1>1 DEF WitnessOK, NoTexts
<1>5. Forms({}) = {} /\ LabelSet({}) = {}
  BY DEF Forms, LabelSet
<1>6. LedgerInv
  <2>1. /\ ledger \in Seq(Event) /\ Len(ledger) = 1 /\ DOMAIN ledger = {1}
        /\ ledger[1] = Silent /\ Silent.type # "failure"
    BY <1>1, SilentEvent
  <2>2. FailuresApart(ledger, turns) /\ \A c : FailuresIn(ledger, c) = {}
    BY <2>1 DEF FailuresApart, FailuresIn
  <2>3. \A c \in Categories : taxonomy[c] = 0 /\ Cardinality(FailuresIn(ledger, c)) = 0
    BY <1>1, <2>2, FS_EmptySet
  <2>4. witness.projected \in 0..Len(ledger)
    BY <1>1, <2>1
  <2>5. taxonomy \in [Categories -> Nat] /\ turns \in Nat
    BY <1>1
  <2> QED
    BY <1>4, <2>1, <2>2, <2>3, <2>4, <2>5 DEF LedgerInv
<1>7. ListsInv
  <2>1. \A l \in Layers : lists.layers[l] = e
    BY <1>1
  <2>2. \A l \in Layers : FitsLayer(lists.layers[l], witness.shown[l])
    BY <1>2, <1>3, <1>4, <1>5, <2>1 DEF FitsLayer, WindowOn
  <2>3. ListsOK(lists)
    <3>1. /\ lists.layers \in [Layers -> Seq(Texts)] /\ lists.findings \in Seq(Findings)
          /\ lists.history \in Seq(Classes)
      BY <1>1, <1>2
    <3>2. lists \in [layers : [Layers -> Seq(Texts)], findings : Seq(Findings), history : Seq(Classes)]
      BY <1>1, <3>1
    <3>3. /\ \A l \in Layers : Len(lists.layers[l]) <= LayerCap
          /\ Len(lists.findings) <= FindingCap /\ Len(lists.history) <= HistoryCap
      BY <1>1, <1>2, <1>3, <2>1
    <3> QED
      BY <3>2, <3>3, Zenon DEF ListsOK
  <2>4. witness.projected = 0 /\ SubSeq(ledger, 1, 0) = <<>>
    BY <1>1, SubSeqEmpty
  <2>5. Seen = Loaded(<<>>)
    BY <2>4 DEF Seen
  <2>6. Loaded(<<>>) = <<>>
    <3>1. (IF Len(<<>>) < Window THEN Len(<<>>) ELSE Window) = 0
      BY <1>3
    <3>2. SubSeq(<<>>, 1, 0) = <<>>
      BY SubSeqEmpty
    <3> QED
      BY <3>1, <3>2, Zenon DEF Loaded
  <2>7. \A l \in Layers : TextsFor(l, Seen) = <<>> /\ Located(l, Seen) = {}
    BY <2>5, <2>6 DEF TextsFor, Located, Range
  <2>8. LabelSet(Range(lists.findings)) = {} /\ Range(lists.findings) = {}
        /\ DOMAIN LabelsOf(lists.findings) = {}
    BY <1>1, <1>2, <1>5 DEF LabelsOf
  <2>9. NewestEvidenceStays
    BY <2>7, <2>8 DEF NewestEvidenceStays, HoldsLastOf
  <2> QED
    BY <1>4, <2>2, <2>3, <2>7, <2>8, <2>9 DEF ListsInv, BoardFits
<1>8. GuardInv
  <2>1. GuardVarsOK
    <3>1. Portfolio(hyps) /\ Len(hyps) <= PortfolioCap
      BY <1>1, <1>2, <1>3 DEF Portfolio
    <3>2. /\ open \subseteq OpenAtStart /\ stalls \in Nat /\ lastCount \in Nat
          /\ hard \in {"none", "target", "infra", "streak", "stall"}
          /\ noEdge \in BOOLEAN /\ proposed \in Classes \cup {"unknown"}
      BY <1>1
    <3> QED
      BY <3>1, <3>2 DEF GuardVarsOK
  <2>2. ~ witness.grew /\ witness.repeats = 0
    BY <1>1
  <2>3. lastCount = TextCount(witness.known) + ArtifactCount(hyps)
    <3>1. \A l \in Layers : Held(witness.known[l]) = 0
      BY <1>3, <1>4, FS_EmptySet DEF Held
    <3>2. ArtifactCount(hyps) = 0
      <4>1. UNION {{i} \X (1..hyps[i]) : i \in DOMAIN hyps} = {}
        BY <1>1, <1>2
      <4> QED
        BY <4>1, FS_EmptySet DEF ArtifactCount
    <3> QED
      BY <1>1, <3>1, <3>2 DEF TextCount, Layers
  <2> QED
    BY <1>1, <1>4, <2>1, <2>2, <2>3 DEF GuardInv, EvidenceResetsStalls, HistoryKnown, RepeatsCounted
<1> QED
  BY <1>6, <1>7, <1>8 DEF Inv

\* Texts shown already are in the lists' bounds without a replay.
LEMMA ShownStays ==
  ASSUME NEW shown, NEW F
  PROVE  ShowsMore(shown, shown, <<>>, F)
BY DEF ShowsMore, ShownMore, Located, TextsFor, Range

LEMMA RecordStep ==
  ASSUME Inv, NEW e \in ToolEvents, RecordTool(e)
  PROVE  Inv'
<1> DEFINE saved == <<e>>
<1>1. /\ ledger' = ledger \o saved
      /\ UNCHANGED <<lists, taxonomy, open, turns, witness>> /\ UNCHANGED guardVars
  BY DEF RecordTool, Saved
<1>2. saved \in Seq(Event) /\ NoFailure(saved)
  <2>1. e \in ToolEvent
    BY TurnAssumption
  <2>2. e \in Event /\ e.type = "tool"
    BY <2>1 DEF Event, ToolEvent
  <2> QED
    BY <2>2 DEF NoFailure
<1> HIDE DEF saved
<1>3. WitnessOK' /\ turns \in Nat /\ WitnessOK
  BY <1>1 DEF Inv, LedgerInv, WitnessOK
<1>4. LedgerInv'
  BY <1>1, <1>2, <1>3, LedgerGoesOn DEF Inv
<1>5. ListsInv'
  <2> DEFINE o == <<>>
             none == {}
  <2>1. Response(o) /\ Projecting(o) = <<>> /\ ProjectedAfter(o) = witness.projected
    BY NoResponse DEF Projecting, ProjectedAfter
  <2>2. ShowsMore(witness.shown, witness'.shown, Projecting(o), none)
    BY <1>1, <1>3, <2>1, ShownStays
  <2>3. none \in SUBSET Findings /\ none \subseteq Range(lists.findings) \cup Somethings(FindingsOf(Projecting(o))) \cup none
        /\ witness'.projected = ProjectedAfter(o) /\ witness'.asserted = witness.asserted \cup none
        /\ Range(lists.findings') \subseteq Range(lists.findings) \cup none
    BY <1>1, <2>1
  <2>4. /\ BoardFits(lists', witness'.shown)
        /\ LabelSet(Range(lists.findings')) \subseteq witness'.shown["external_prior"]
        /\ HoldsLastOf(lists.layers["external_prior"]', LabelsOf(lists.findings'))
    BY <1>1 DEF Inv, ListsInv, NewestEvidenceStays
  <2>5. NewestFollow(lists, lists', o)
    BY <1>1 DEF NewestFollow, LastKept
  <2> HIDE DEF o, none
  <2> QED
    BY <1>1, <1>2, <1>3, <2>1, <2>2, <2>3, <2>4, <2>5, ListsGoOn DEF Inv
<1>6. GuardInv'
  BY <1>1, <1>2, <1>3, GuardStays DEF Inv
<1> QED
  BY <1>4, <1>5, <1>6 DEF Inv

\* Commands and the turns that do not project load the record, no more.
LEMMA CommandStep ==
  ASSUME Inv, NEW events \in {<<>>, <<Silent>>}, Command(events)
  PROVE  Inv'
<1>1. /\ ledger' = ledger \o events /\ lists' = LoadedLists(lists)
      /\ UNCHANGED <<taxonomy, open, turns, witness>> /\ UNCHANGED guardVars
  BY DEF Command, Saved
<1>2. events \in Seq(Event) /\ NoFailure(events)
  <2>1. CASE events = <<>>
    BY <2>1 DEF NoFailure
  <2>2. CASE events = <<Silent>>
    BY <2>2, SilentEvent DEF NoFailure
  <2> QED
    BY <2>1, <2>2
<1>3. WitnessOK' /\ WitnessOK /\ turns \in Nat
  BY <1>1 DEF Inv, LedgerInv, WitnessOK
<1>4. LedgerInv'
  BY <1>1, <1>2, <1>3, LedgerGoesOn DEF Inv
<1>5. /\ BoardFits(lists', witness.shown) /\ lists.findings' = lists.findings
      /\ Distinct(lists.history) => lists.history' = lists.history
      /\ \A l \in Layers : LastKept(lists.layers[l], lists'.layers[l])
  <2>1. witness.shown \in [Layers -> SUBSET Texts] /\ BoardFits(lists, witness.shown)
    BY <1>3 DEF Inv, ListsInv, WitnessOK
  <2> QED
    BY <1>1, <2>1, LoadFits
<1>6. ListsInv'
  <2> DEFINE o == <<>>
             none == {}
  <2>1. Response(o) /\ Projecting(o) = <<>> /\ ProjectedAfter(o) = witness.projected
    BY NoResponse DEF Projecting, ProjectedAfter
  <2>2. ShowsMore(witness.shown, witness'.shown, Projecting(o), none)
    BY <1>1, <1>3, <2>1, ShownStays
  <2>3. none \in SUBSET Findings /\ none \subseteq Range(lists.findings) \cup Somethings(FindingsOf(Projecting(o))) \cup none
        /\ witness'.projected = ProjectedAfter(o) /\ witness'.asserted = witness.asserted \cup none
        /\ Range(lists.findings') \subseteq Range(lists.findings) \cup none
    BY <1>1, <1>5, <2>1
  <2>4. /\ BoardFits(lists', witness'.shown)
        /\ LabelSet(Range(lists.findings')) \subseteq witness'.shown["external_prior"]
    BY <1>1, <1>5 DEF Inv, ListsInv
  <2>5. HoldsLastOf(lists.layers["external_prior"]', LabelsOf(lists.findings'))
    <3>1. "external_prior" \in Layers /\ LabelsOf(lists.findings) \in Seq(Optional(Texts))
      BY LabelsOffered DEF Layers, Inv, ListsInv, BoardFits, ListsOK
    <3>2. HoldsLastOf(lists.layers["external_prior"], LabelsOf(lists.findings))
      BY DEF Inv, ListsInv, NewestEvidenceStays
    <3> QED
      BY <1>5, <3>1, <3>2 DEF LastKept
  <2>6. NewestFollow(lists, lists', o)
    BY <1>5 DEF NewestFollow
  <2> HIDE DEF o, none
  <2> QED
    BY <1>1, <1>2, <1>3, <2>1, <2>2, <2>3, <2>4, <2>5, <2>6, ListsGoOn DEF Inv
<1>7. GuardInv'
  BY <1>1, <1>2, <1>3, <1>5, GuardStays DEF Inv
<1> QED
  BY <1>4, <1>6, <1>7 DEF Inv

\* resume offers the labels of the findings once more.
LEMMA ResumeStep ==
  ASSUME Inv, NEW passing, Resume(passing)
  PROVE  Inv'
<1> DEFINE saved == <<Silent>>
           loaded == LoadedLists(lists)
           F == Range(lists.findings)
           shown == ShownMore(witness.shown, <<>>, F)
<1>1. /\ ledger' = ledger \o saved /\ lists' = SyncedLists(loaded) /\ open' \subseteq open
      /\ witness' = [witness EXCEPT !.shown = shown]
      /\ UNCHANGED <<taxonomy, turns>> /\ UNCHANGED guardVars
  BY ShownWithIs DEF Resume, Saved
<1>2. saved \in Seq(Event) /\ NoFailure(saved)
  BY SilentEvent DEF NoFailure
<1>3. WitnessOK /\ turns \in Nat /\ witness.shown \in [Layers -> SUBSET Texts]
      /\ BoardFits(lists, witness.shown) /\ F \in SUBSET Findings
  BY DEF Inv, LedgerInv, ListsInv, WitnessOK, BoardFits, ListsOK, Range
<1>4. shown \in [Layers -> SUBSET Texts]
  <2> DEFINE e == <<>>
  <2>1. e \in Seq(Event) /\ shown = ShownMore(witness.shown, e, F)
    OBVIOUS
  <2> HIDE DEF e, F, shown
  <2> QED
    BY <1>3, <2>1, ShownMoreTyped
<1>5. /\ BoardFits(loaded, witness.shown) /\ loaded.findings = lists.findings
      /\ Distinct(lists.history) => loaded.history = lists.history
      /\ \A l \in Layers : LastKept(lists.layers[l], loaded.layers[l])
  BY <1>3, LoadFits
<1> HIDE DEF loaded
<1>6. /\ BoardFits(lists', shown) /\ lists.findings' = lists.findings
      /\ Distinct(lists.history) => lists.history' = lists.history
      /\ \A l \in Layers \ {"external_prior"} : lists.layers[l]' = loaded.layers[l]
      /\ HoldsLastOf(lists.layers["external_prior"]', LabelsOf(lists.findings'))
  BY <1>1, <1>3, <1>5, SyncFits
<1> HIDE DEF saved, shown, F
<1>7. /\ WitnessOK' /\ witness'.shown = shown /\ witness'.projected = witness.projected
      /\ witness'.asserted = witness.asserted /\ witness'.known = witness.known
      /\ witness'.grew = witness.grew /\ witness'.repeats = witness.repeats
      /\ witness'.fresh = witness.fresh
  BY <1>1, <1>3, <1>4 DEF WitnessOK
<1>8. LedgerInv'
  BY <1>1, <1>2, <1>3, <1>7, LedgerGoesOn DEF Inv
<1>9. \A l \in Layers : witness.shown[l] \subseteq shown[l]
  BY DEF shown, ShownMore
<1>10. ListsInv'
  <2> DEFINE o == <<>>
             none == {}
  <2>1. Response(o) /\ Projecting(o) = <<>> /\ ProjectedAfter(o) = witness.projected
    BY NoResponse DEF Projecting, ProjectedAfter
  <2>2. ShowsMore(witness.shown, witness'.shown, Projecting(o), F)
    <3>1. \A l \in Layers : Located(l, Projecting(o)) = {}
      BY <2>1 DEF Located, TextsFor, Range
    <3> QED
      BY <1>7, <1>9, <2>1, <3>1 DEF shown, ShowsMore
  <2>3. none \in SUBSET Findings /\ F \subseteq Range(lists.findings) \cup Somethings(FindingsOf(Projecting(o))) \cup none
        /\ witness'.projected = ProjectedAfter(o) /\ witness'.asserted = witness.asserted \cup none
        /\ Range(lists.findings') \subseteq Range(lists.findings) \cup F
    BY <1>6, <1>7, <2>1 DEF F
  <2>4. /\ BoardFits(lists', witness'.shown)
        /\ LabelSet(Range(lists.findings')) \subseteq witness'.shown["external_prior"]
    <3>1. LabelSet(F) \subseteq shown["external_prior"]
      BY DEF shown, ShownMore, Layers
    <3> QED
      BY <1>6, <1>7, <3>1 DEF F
  <2>5. NewestFollow(lists, lists', o)
    BY <1>5, <1>6 DEF NewestFollow
  <2> HIDE DEF o, none
  <2> QED
    BY <1>1, <1>2, <1>6, <1>7, <2>1, <2>2, <2>3, <2>4, <2>5, ListsGoOn DEF Inv
<1>11. GuardInv'
  BY <1>1, <1>2, <1>6, <1>7, <1>9, GuardStays DEF Inv
<1> QED
  BY <1>8, <1>10, <1>11 DEF Inv

\* No class in the new ledger, none in what was projected.
LEMMA UnclassifiedEvents ==
  ASSUME ledger \in Seq(Event), NEW observed, Response(observed),
         ledger' = ledger \o Append(observed, Silent), Unclassified',
         NEW events, events = Projecting(observed)
  PROVE  NoClass(events)
<1>1. observed \in Seq(Event) /\ Silent \in Event /\ Append(observed, Silent) \in Seq(Event)
      /\ Len(observed) \in Nat /\ DOMAIN observed = 1..Len(observed)
      /\ Len(ledger) \in Nat /\ DOMAIN ledger = 1..Len(ledger)
  BY SilentEvent DEF Response
<1>2. /\ Len(Append(observed, Silent)) = Len(observed) + 1
      /\ \A i \in 1..Len(observed) : Append(observed, Silent)[i] = observed[i]
  BY <1>1, AppendProperties
<1>3. /\ Len(ledger') = Len(ledger) + Len(observed) + 1 /\ DOMAIN ledger' = 1..Len(ledger')
      /\ \A i \in 1..Len(ledger) : ledger'[i] = ledger[i]
      /\ \A i \in 1..Len(observed) : ledger'[Len(ledger) + i] = observed[i]
  <2> DEFINE saved == Append(observed, Silent)
  <2>1. /\ Len(ledger \o saved) = Len(ledger) + Len(saved) /\ ledger \o saved \in Seq(Event)
        /\ \A i \in 1..Len(ledger) + Len(saved) :
             (ledger \o saved)[i] = IF i <= Len(ledger) THEN ledger[i] ELSE saved[i - Len(ledger)]
    BY <1>1, ConcatProperties
  <2>2. ledger' = ledger \o saved
    OBVIOUS
  <2> HIDE DEF saved
  <2>3. /\ Len(saved) = Len(observed) + 1 /\ \A i \in 1..Len(observed) : saved[i] = observed[i]
    BY <1>2 DEF saved
  <2>4. DOMAIN ledger' = 1..Len(ledger')
    BY <2>1, <2>2
  <2>5. \A i \in 1..Len(observed) :
          /\ Len(ledger) + i \in 1..Len(ledger) + Len(saved) /\ ~ (Len(ledger) + i <= Len(ledger))
          /\ Len(ledger) + i - Len(ledger) = i
    BY <1>1, <2>3
  <2>6. \A i \in 1..Len(observed) : ledger'[Len(ledger) + i] = observed[i]
    BY <2>1, <2>2, <2>3, <2>5
  <2>7. \A i \in 1..Len(ledger) : i \in 1..Len(ledger) + Len(saved) /\ i <= Len(ledger)
    BY <1>1, <2>3
  <2>8. \A i \in 1..Len(ledger) : ledger'[i] = ledger[i]
    BY <2>1, <2>2, <2>7
  <2>9. Len(ledger') = Len(ledger) + Len(observed) + 1
    BY <1>1, <2>1, <2>2, <2>3
  <2> QED
    BY <2>4, <2>6, <2>8, <2>9
<1>4. \A i \in 1..Len(ledger) : i \in DOMAIN ledger' /\ \A j \in 1..Len(observed) : Len(ledger) + j \in DOMAIN ledger'
  BY <1>1, <1>3
<1>5. /\ \A i \in DOMAIN ledger : ledger[i].type # "class"
      /\ \A i \in DOMAIN observed : observed[i].type # "class"
  <2>1. \A i \in DOMAIN ledger' : ledger'[i].type # "class"
    BY DEF Unclassified
  <2>2. \A j \in 1..Len(observed) : Len(ledger) + j \in DOMAIN ledger'
    BY <1>1, <1>3
  <2> QED
    BY <1>1, <1>3, <1>4, <2>1, <2>2
<1>6. CASE observed = <<>>
  BY <1>6 DEF Projecting, NoClass
<1>7. CASE observed # <<>>
  <2> DEFINE s == Loaded(ledger)
  <2>1. s \in Seq(Event) /\ Len(s) <= Len(ledger) /\ \A i \in DOMAIN s : s[i] = ledger[i]
    BY LoadedEvents
  <2>2. events = s \o observed
    BY <1>7 DEF Projecting
  <2> HIDE DEF s
  <2>3. \A i \in 1..Len(s) : s[i].type # "class"
    BY <1>1, <1>5, <2>1
  <2>4. /\ DOMAIN events = 1..Len(events)
        /\ \A i \in 1..Len(s) : i \in 1..Len(events) /\ events[i] = s[i]
        /\ \A i \in 1..Len(events) : \/ i \in 1..Len(s)
                                     \/ i - Len(s) \in 1..Len(observed) /\ events[i] = observed[i - Len(s)]
    BY <1>1, <2>1, <2>2, SavedLedger
  <2> QED
    BY <1>1, <1>5, <2>3, <2>4 DEF NoClass
<1> QED
  BY <1>6, <1>7

\* A turn without the guard shows more and changes nothing of what the guard found.
LEMMA UnguidedStep ==
  ASSUME Inv, NEW observed, Response(observed), NEW passing, NEW closing \in BOOLEAN,
         UnguidedTurn(observed, passing, closing)
  PROVE  Inv'
<1> DEFINE b == TurnLists(observed)
           synced == SyncedLists(b)
           events == Projecting(observed)
           F == Range(b.findings)
           shown == ShownMore(witness.shown, events, F)
           saved == Append(observed, Silent)
<1>1. /\ Observe(observed, passing) /\ lists' = Closed(synced, closing)
      /\ witness' = [witness EXCEPT !.projected = ProjectedAfter(observed), !.shown = shown]
      /\ UNCHANGED guardVars
  BY ShownWithIs DEF UnguidedTurn
<1>2. /\ WitnessOK /\ turns \in Nat /\ ledger \in Seq(Event) /\ observed \in Seq(Event)
      /\ witness.projected \in 0..Len(ledger) /\ Len(ledger) \in Nat
      /\ witness.shown \in [Layers -> SUBSET Texts] /\ BoardFits(lists, witness.shown)
  BY DEF Inv, LedgerInv, ListsInv, WitnessOK, Response
<1>3. events \in Seq(Event)
  <2>1. Loaded(ledger) \in Seq(Event)
    BY <1>2, LoadedEvents
  <2> QED
    BY <1>2, <2>1, ConcatProperties DEF Projecting
<1>4. /\ BoardFits(b, shown)
      /\ NewestFollow(lists, b, observed)
      /\ F \subseteq Range(lists.findings) \cup Somethings(FindingsOf(events))
      /\ NoClass(events) /\ Distinct(lists.history)
           => b.history = lists.history
  BY <1>2, TurnFits
<1> HIDE DEF b, events
<1>5. /\ BoardFits(synced, ShownMore(witness.shown, events, Range(synced.findings)))
      /\ synced.findings = b.findings /\ synced.history = b.history
      /\ \A l \in Layers \ {"external_prior"} : synced.layers[l] = b.layers[l]
      /\ HoldsLastOf(synced.layers["external_prior"], LabelsOf(synced.findings))
  BY <1>2, <1>3, <1>4, SyncFitsAgain
<1> HIDE DEF synced
<1>6. /\ BoardFits(lists', ShownMore(witness.shown, events, Range(lists.findings')))
      /\ lists.findings' = b.findings /\ lists.history' = b.history
      /\ \A l \in Layers \ {"external_prior"} : lists.layers[l]' = b.layers[l]
      /\ HoldsLastOf(lists.layers["external_prior"]', LabelsOf(lists.findings'))
  BY <1>1, <1>2, <1>3, <1>5, ClosedFits
<1>7. F \in SUBSET Findings
  BY <1>4 DEF BoardFits, ListsOK, Range
<1>8. shown \in [Layers -> SUBSET Texts]
  BY <1>2, <1>3, <1>7, ShownMoreTyped
<1> HIDE DEF shown
<1>9. ProjectedAfter(observed) \in Nat
  BY <1>2 DEF ProjectedAfter
<1>10. /\ WitnessOK' /\ witness'.shown = shown /\ witness'.projected = ProjectedAfter(observed)
       /\ witness'.asserted = witness.asserted /\ witness'.known = witness.known
       /\ witness'.grew = witness.grew /\ witness'.repeats = witness.repeats
       /\ witness'.fresh = witness.fresh
  BY <1>1, <1>2, <1>8, <1>9 DEF WitnessOK
<1>11. LedgerInv' /\ ledger' = ledger \o saved /\ saved \in Seq(Event)
  BY <1>1, <1>10, LedgerObserve DEF Inv
<1>12. \A l \in Layers : /\ witness.shown[l] \cup Located(l, events) \subseteq shown[l]
                         /\ witness.shown[l] \subseteq shown[l]
  BY DEF shown, ShownMore
<1>13. LabelSet(F) \subseteq shown["external_prior"]
  BY DEF shown, ShownMore, Layers
<1> HIDE DEF saved, F
<1>14. ListsInv'
  <2> DEFINE none == {}
  <2>1. none \in SUBSET Findings
        /\ F \subseteq Range(lists.findings) \cup Somethings(FindingsOf(events)) \cup none
        /\ witness'.asserted = witness.asserted \cup none
        /\ Range(lists.findings') \subseteq Range(lists.findings) \cup F
    BY <1>4, <1>6, <1>10 DEF F
  <2>2. ShowsMore(witness.shown, witness'.shown, events, F)
    BY <1>10, <1>12 DEF shown, ShowsMore
  <2>3. /\ BoardFits(lists', witness'.shown)
        /\ LabelSet(Range(lists.findings')) \subseteq witness'.shown["external_prior"]
    BY <1>6, <1>10, <1>13 DEF shown, F
  <2>4. NewestFollow(lists, lists', observed)
    BY <1>4, <1>6 DEF NewestFollow
  <2>5. events = Projecting(observed)
    BY DEF events
  <2> HIDE DEF none
  <2> QED
    BY <1>6, <1>10, <1>11, <2>1, <2>2, <2>3, <2>4, <2>5, ListsGoOn DEF Inv
<1>15. Unclassified' /\ Distinct(lists.history) => lists.history' = lists.history
  <2> SUFFICES ASSUME Unclassified', Distinct(lists.history)
               PROVE  lists.history' = lists.history
    OBVIOUS
  <2>1. NoClass(events)
    BY <1>2, <1>11, UnclassifiedEvents DEF events, saved
  <2> QED
    BY <1>4, <1>6, <2>1
<1>16. open' \subseteq open
  BY <1>1 DEF Observe
<1>17. GuardInv'
  BY <1>1, <1>10, <1>11, <1>12, <1>15, <1>16, GuardStays DEF Inv
<1> QED
  BY <1>11, <1>14, <1>17 DEF Inv

\* A run of the guard, part by part: what the critic's answer makes of the lists and
\* of the hypotheses, what was shown by then, and the new history, count and stalls.
GuardedWith(observed, passing, p, closing, merged, shown, past, found, count, stalled) ==
  /\ merged = CriticLists(TurnLists(observed), p.findings)
  /\ shown = ShownMore(witness.shown, Projecting(observed),
                       Range(TurnLists(observed).findings) \cup Range(merged.findings))
  /\ past = HistoryWith(merged.history, p.class)
  /\ Observe(observed, passing)
  /\ hyps' = found /\ proposed' = p.class /\ lastCount' = count
  /\ open' = {} => stalls' = 0 /\ hard' = "none" /\ noEdge' = noEdge
                   /\ lists' = Closed(merged, closing)
  /\ open' # {} => /\ stalls' = stalled /\ hard' = HardReason(open', p, past, stalled)
                   /\ lists' = Closed([merged EXCEPT !.history = past], closing)
                   /\ noEdge' = (noEdge \/ ReportsNoEdge(open', p, hard'))
  /\ witness'.projected = ProjectedAfter(observed)
  /\ witness'.shown = shown /\ witness'.known = shown
  /\ witness'.asserted = witness.asserted \cup Range(p.findings)
  /\ witness'.grew = (\/ \E l \in CountedLayers : shown[l] # witness.known[l]
                      \/ \E i \in DOMAIN p.hyps : p.hyps[i] > 0)
  /\ witness'.repeats = IF open' = {} THEN 0
                        ELSE IF p.class = proposed /\ ~ witness'.grew THEN witness.repeats + 1
                        ELSE 1
  /\ witness'.fresh = IF p.class = proposed THEN witness.fresh
                      ELSE p.class \notin Range(merged.history)
  /\ witness' = [projected |-> witness'.projected, shown |-> witness'.shown,
                 known |-> witness'.known, asserted |-> witness'.asserted,
                 grew |-> witness'.grew, repeats |-> witness'.repeats,
                 fresh |-> witness'.fresh]

LEMMA GuardedParts ==
  ASSUME NEW observed, NEW passing, NEW p, NEW closing,
         GuardedTurn(observed, p, passing, closing),
         NEW merged, merged = CriticLists(TurnLists(observed), p.findings),
         NEW shown, shown = ShownMore(witness.shown, Projecting(observed),
                              Range(TurnLists(observed).findings) \cup Range(merged.findings)),
         NEW past, past = HistoryWith(merged.history, p.class),
         NEW found, found = MergedHypotheses(hyps, p.hyps),
         NEW count, count = EvidenceCount(merged.layers, found),
         NEW stalled, stalled = StallsAfter(stalls, ChangesClass(merged.history, p.class),
                                            count, lastCount)
  PROVE  GuardedWith(observed, passing, p, closing, merged, shown, past, found, count, stalled)
<1> DEFINE left == open \ passing
           grew == \/ \E l \in CountedLayers : shown[l] # witness.known[l]
                   \/ \E i \in DOMAIN p.hyps : p.hyps[i] > 0
           repeats == IF left = {} THEN 0
                      ELSE IF p.class = proposed /\ ~grew THEN witness.repeats + 1 ELSE 1
           fresh == IF p.class = proposed THEN witness.fresh ELSE p.class \notin Range(merged.history)
           reason == HardReason(left, p, past, stalled)
<1>1. shown = ShownWith(Projecting(observed),
                        Range(TurnLists(observed).findings) \cup Range(merged.findings))
  BY ShownWithIs
<1>2. /\ Observe(observed, passing)
      /\ hyps' = found /\ proposed' = p.class /\ lastCount' = count
      /\ IF left = {}
         THEN /\ stalls' = 0 /\ hard' = "none" /\ lists' = Closed(merged, closing)
              /\ UNCHANGED noEdge
         ELSE /\ stalls' = stalled /\ hard' = reason
              /\ lists' = Closed([merged EXCEPT !.history = past], closing)
              /\ noEdge' = (noEdge \/ ReportsNoEdge(left, p, reason))
      /\ witness' = [projected |-> ProjectedAfter(observed), shown |-> shown, known |-> shown,
                     asserted |-> witness.asserted \cup Range(p.findings), grew |-> grew,
                     repeats |-> repeats, fresh |-> fresh]
  BY <1>1, Zenon DEF GuardedTurn
<1>3. open' = left
  BY <1>2, Zenon DEF Observe
<1> HIDE DEF grew, fresh, repeats, reason, left
<1>4. /\ witness'.projected = ProjectedAfter(observed)
      /\ witness'.shown = shown /\ witness'.known = shown
      /\ witness'.asserted = witness.asserted \cup Range(p.findings)
      /\ witness'.grew = grew /\ witness'.repeats = repeats /\ witness'.fresh = fresh
          /\ witness' = [projected |-> witness'.projected, shown |-> witness'.shown,
                     known |-> witness'.known, asserted |-> witness'.asserted,
                     grew |-> witness'.grew, repeats |-> witness'.repeats,
                     fresh |-> witness'.fresh]
  BY <1>2
<1>5. open' = {} => stalls' = 0 /\ hard' = "none" /\ noEdge' = noEdge
                    /\ lists' = Closed(merged, closing)
  BY <1>2, <1>3, Zenon
<1>6. open' # {} => /\ stalls' = stalled /\ hard' = HardReason(open', p, past, stalled)
                    /\ lists' = Closed([merged EXCEPT !.history = past], closing)
                    /\ noEdge' = (noEdge \/ ReportsNoEdge(open', p, hard'))
  BY <1>2, <1>3, Zenon DEF reason
<1>7. witness'.grew = (\/ \E l \in CountedLayers : shown[l] # witness.known[l]
                       \/ \E i \in DOMAIN p.hyps : p.hyps[i] > 0)
  BY <1>4, Zenon DEF grew
<1>8. witness'.repeats = IF open' = {} THEN 0
                         ELSE IF p.class = proposed /\ ~ witness'.grew THEN witness.repeats + 1 ELSE 1
  BY <1>3, <1>4, Zenon DEF repeats
<1>9. witness'.fresh = IF p.class = proposed THEN witness.fresh
                       ELSE p.class \notin Range(merged.history)
  BY <1>4, Zenon DEF fresh
<1> QED
  BY <1>2, <1>4, <1>5, <1>6, <1>7, <1>8, <1>9, Zenon DEF GuardedWith

\* A turn with the guard shows what its projection and the critic's findings offer.
LEMMA GuardedLists ==
  ASSUME Inv, NEW observed, Response(observed), NEW passing, NEW p \in Answers,
         NEW closing \in BOOLEAN,
         NEW merged, NEW shown, NEW past, NEW found, NEW count, NEW stalled,
         GuardedWith(observed, passing, p, closing, merged, shown, past, found, count, stalled)
  PROVE  /\ LedgerInv' /\ ListsInv'
         /\ shown \in [Layers -> SUBSET Texts] /\ BoardFits(merged, shown)
         /\ \A l \in Layers : witness.shown[l] \subseteq shown[l]
         /\ lists.history' = IF open' = {} THEN merged.history ELSE past
         /\ Unclassified' => /\ Unclassified /\ Distinct(merged.history)
                             /\ Distinct(lists.history) => merged.history = lists.history
<1> DEFINE b == TurnLists(observed)
           events == Projecting(observed)
           F1 == Range(b.findings)
           F2 == Range(merged.findings)
           new == Range(p.findings)
           S1 == ShownMore(witness.shown, events, F1)
           saved == Append(observed, Silent)
           none == <<>>
           F == F1 \cup F2
<1>0. /\ merged = CriticLists(TurnLists(observed), p.findings)
      /\ shown = ShownMore(witness.shown, Projecting(observed),
                           Range(TurnLists(observed).findings) \cup Range(merged.findings))
      /\ past = HistoryWith(merged.history, p.class)
  BY Zenon DEF GuardedWith
<1>1. /\ Observe(observed, passing)
      /\ open' = {} => lists' = Closed(merged, closing)
      /\ open' # {} => lists' = Closed([merged EXCEPT !.history = past], closing)
      /\ witness'.projected = ProjectedAfter(observed)
      /\ witness'.shown = shown /\ witness'.known = shown
      /\ witness'.asserted = witness.asserted \cup new
      /\ witness'.grew \in BOOLEAN
      /\ witness'.repeats \in {0, 1, witness.repeats + 1}
      /\ witness'.fresh \in {witness.fresh, TRUE, FALSE}
      /\ witness' = [projected |-> witness'.projected, shown |-> witness'.shown,
                     known |-> witness'.known, asserted |-> witness'.asserted,
                     grew |-> witness'.grew, repeats |-> witness'.repeats,
                     fresh |-> witness'.fresh]
  <2>1. witness'.grew \in BOOLEAN
    BY Zenon DEF GuardedWith
  <2>2. witness'.repeats \in {0, 1, witness.repeats + 1}
    BY DEF GuardedWith
  <2>3. witness'.fresh \in {witness.fresh, TRUE, FALSE}
    BY Zenon DEF GuardedWith
  <2> QED
    BY <2>1, <2>2, <2>3, Zenon DEF GuardedWith
<1>2. /\ WitnessOK /\ turns \in Nat /\ ledger \in Seq(Event) /\ observed \in Seq(Event)
      /\ witness.projected \in 0..Len(ledger) /\ Len(ledger) \in Nat
      /\ witness.shown \in [Layers -> SUBSET Texts] /\ BoardFits(lists, witness.shown)
  BY DEF Inv, LedgerInv, ListsInv, WitnessOK, Response
<1>3. events \in Seq(Event) /\ none \in Seq(Event)
  <2>1. Loaded(ledger) \in Seq(Event)
    BY <1>2, LoadedEvents
  <2> QED
    BY <1>2, <2>1, ConcatProperties DEF Projecting
<1>4. /\ BoardFits(b, S1)
      /\ NewestFollow(lists, b, observed)
      /\ F1 \subseteq Range(lists.findings) \cup Somethings(FindingsOf(events))
      /\ NoClass(events) => /\ Distinct(b.history)
                            /\ Distinct(lists.history) => b.history = lists.history
  BY <1>2, TurnFits
<1>5. p.findings \in Seq(Findings) /\ p.class \in Classes \cup {"unknown"}
  BY TurnAssumption DEF Answer
<1>6. new \in SUBSET Findings
  BY <1>5 DEF Range
<1> HIDE DEF b, events
<1>7. F1 \in SUBSET Findings
  BY <1>4 DEF BoardFits, ListsOK, Range
<1>8. S1 \in [Layers -> SUBSET Texts]
  BY <1>2, <1>3, <1>7, ShownMoreTyped
<1> HIDE DEF S1
<1>9. merged = CriticLists(b, p.findings)
  BY <1>0 DEF b
<1>10. /\ BoardFits(merged, ShownMore(S1, <<>>, F2))
       /\ F2 \subseteq F1 \cup new
       /\ merged.history = b.history
       /\ \A l \in Layers \ {"external_prior"} : merged.layers[l] = b.layers[l]
       /\ HoldsLastOf(merged.layers["external_prior"], LabelsOf(merged.findings))
  BY <1>4, <1>5, <1>8, <1>9, CriticFits
<1>11. shown = ShownMore(witness.shown, events, F) /\ shown = ShownMore(S1, <<>>, F2)
  BY <1>0, ShownMoreTwice DEF S1, b, events
<1>12. BoardFits(merged, shown)
  BY <1>10, <1>11
<1>13. F2 \in SUBSET Findings /\ F \in SUBSET Findings
  <2>1. F2 \in SUBSET Findings
    BY <1>12 DEF BoardFits, ListsOK, Range
  <2> QED
    BY <1>7, <2>1
<1>14. shown \in [Layers -> SUBSET Texts]
  <2>1. F \in SUBSET Findings /\ shown = ShownMore(witness.shown, events, F)
    BY <1>11, <1>13
  <2> HIDE DEF F
  <2>2. ShownMore(witness.shown, events, F) \in [Layers -> SUBSET Texts]
    BY <1>2, <1>3, <2>1, ShownMoreTyped
  <2> QED
    BY <2>1, <2>2, Zenon
<1>15. \A l \in Layers : /\ witness.shown[l] \cup Located(l, events) \subseteq shown[l]
                         /\ witness.shown[l] \subseteq shown[l]
  BY <1>11 DEF ShownMore
<1>16. LabelSet(F2) \subseteq shown["external_prior"]
  BY <1>11 DEF ShownMore, Layers
<1>17. merged.history \in Seq(Classes) /\ Len(merged.history) <= HistoryCap
       /\ past \in Seq(Classes) /\ Len(past) <= HistoryCap
  <2>1. merged.history \in Seq(Classes) /\ Len(merged.history) <= HistoryCap
    BY <1>12 DEF BoardFits, ListsOK
  <2> QED
    BY <1>0, <1>5, <2>1, HistoryStep
<1>18. ASSUME NEW m, m = merged \/ m = [merged EXCEPT !.history = past],
              lists' = Closed(m, closing)
       PROVE  /\ BoardFits(lists', ShownMore(S1, <<>>, Range(lists.findings')))
              /\ lists.findings' = merged.findings /\ lists.history' = m.history
              /\ \A l \in Layers \ {"external_prior"} : lists.layers[l]' = b.layers[l]
              /\ HoldsLastOf(lists.layers["external_prior"]', LabelsOf(lists.findings'))
  <2>1. /\ m.findings = merged.findings /\ m.layers = merged.layers
        /\ BoardFits(m, shown)
    BY <1>12, <1>17, <1>18 DEF BoardFits, ListsOK
  <2>2. BoardFits(m, ShownMore(S1, none, Range(m.findings)))
    BY <1>11, <2>1
  <2>3. HoldsLastOf(m.layers["external_prior"], LabelsOf(m.findings))
    BY <1>10, <2>1
  <2> HIDE DEF none
  <2>4. /\ BoardFits(lists', ShownMore(S1, none, Range(lists.findings')))
        /\ lists.findings' = m.findings /\ lists.history' = m.history
        /\ \A l \in Layers \ {"external_prior"} : lists.layers[l]' = m.layers[l]
        /\ HoldsLastOf(lists.layers["external_prior"]', LabelsOf(lists.findings'))
    BY <1>3, <1>8, <1>18, <2>2, <2>3, ClosedFits
  <2> QED
    BY <1>10, <2>1, <2>4 DEF none
<1>19. /\ BoardFits(lists', ShownMore(S1, <<>>, Range(lists.findings')))
       /\ lists.findings' = merged.findings
       /\ lists.history' = IF open' = {} THEN merged.history ELSE past
       /\ \A l \in Layers \ {"external_prior"} : lists.layers[l]' = b.layers[l]
       /\ HoldsLastOf(lists.layers["external_prior"]', LabelsOf(lists.findings'))
  <2>1. CASE open' = {}
    BY <1>1, <1>18, <2>1
  <2>2. CASE open' # {}
    <3> DEFINE m == [merged EXCEPT !.history = past]
    <3>1. lists' = Closed(m, closing) /\ m = [merged EXCEPT !.history = past]
      BY <1>1, <2>2
    <3>2. m.history = past
      BY <1>12 DEF BoardFits, ListsOK
    <3> HIDE DEF m
    <3> QED
      BY <1>18, <2>2, <3>1, <3>2
  <2> QED
    BY <2>1, <2>2
<1>20. ProjectedAfter(observed) \in Nat
  BY <1>2 DEF ProjectedAfter
<1>21. WitnessOK'
  <2>1. witness.repeats \in Nat /\ witness.fresh \in BOOLEAN /\ witness.asserted \subseteq Findings
    BY <1>2 DEF WitnessOK
  <2>0. witness'.repeats \in Nat
    BY <1>1, <2>1
  <2>2. /\ witness'.projected \in Nat /\ witness'.shown \in [Layers -> SUBSET Texts]
        /\ witness'.known \in [Layers -> SUBSET Texts] /\ witness'.asserted \in SUBSET Findings
    BY <1>1, <1>6, <1>14, <1>20, <2>1
  <2>3. witness'.grew \in BOOLEAN /\ witness'.fresh \in BOOLEAN
    BY <1>1, <2>1, Zenon
  <2> QED
    BY <1>1, <2>0, <2>2, <2>3 DEF WitnessOK
<1>22. LedgerInv' /\ ledger' = ledger \o saved /\ saved \in Seq(Event)
  BY <1>1, <1>21, LedgerObserve DEF Inv
<1> HIDE DEF saved, F
<1>23. ListsInv'
  <2>1. /\ F \subseteq Range(lists.findings) \cup Somethings(FindingsOf(events)) \cup new
        /\ Range(lists.findings') \subseteq Range(lists.findings) \cup F
    BY <1>4, <1>10, <1>19 DEF F
  <2>2. ShowsMore(witness.shown, witness'.shown, events, F)
    BY <1>1, <1>11, <1>15 DEF ShowsMore
  <2>3. BoardFits(lists', witness'.shown)
    BY <1>1, <1>11, <1>19
  <2>4. LabelSet(Range(lists.findings')) \subseteq witness'.shown["external_prior"]
    BY <1>1, <1>16, <1>19
  <2>5. NewestFollow(lists, lists', observed)
    BY <1>4, <1>19 DEF NewestFollow
  <2>6. events = Projecting(observed)
    BY DEF events
  <2> HIDE DEF new
  <2> QED
    BY <1>1, <1>6, <1>19, <1>21, <1>22, <2>1, <2>2, <2>3, <2>4, <2>5, <2>6, ListsGoOn DEF Inv
<1>24. ASSUME Unclassified'
       PROVE  /\ Unclassified /\ Distinct(merged.history)
              /\ Distinct(lists.history) => merged.history = lists.history
  <2>1. NoClass(events)
    BY <1>2, <1>22, <1>24, UnclassifiedEvents DEF events, saved
  <2>2. ledger \in Seq(Event) /\ DOMAIN ledger = 1..Len(ledger)
    BY <1>2
  <2>3. DOMAIN ledger' = 1..Len(ledger')
        /\ \A i \in 1..Len(ledger) : i \in 1..Len(ledger') /\ ledger'[i] = ledger[i]
    BY <1>22, <2>2, SavedLedger
  <2>4. Unclassified
    BY <1>24, <2>2, <2>3 DEF Unclassified
  <2> QED
    BY <1>4, <1>10, <2>1, <2>4
<1> QED
  BY <1>12, <1>14, <1>15, <1>19, <1>22, <1>23, <1>24

\* A run of the guard: growth resets, and a repetition counts on.
LEMMA GuardedStep ==
  ASSUME Inv, NEW observed, Response(observed), NEW passing, NEW p \in Answers,
         NEW closing \in BOOLEAN, GuardedTurn(observed, p, passing, closing)
  PROVE  Inv'
<1> DEFINE merged == CriticLists(TurnLists(observed), p.findings)
           shown == ShownMore(witness.shown, Projecting(observed),
                              Range(TurnLists(observed).findings) \cup Range(merged.findings))
           past == HistoryWith(merged.history, p.class)
           found == MergedHypotheses(hyps, p.hyps)
           count == EvidenceCount(merged.layers, found)
           changed == ChangesClass(merged.history, p.class)
           stalled == StallsAfter(stalls, changed, count, lastCount)
           portfolio == p.hyps
           class == p.class
           before == lists.history
           after == merged.history
<1>1. /\ merged = CriticLists(TurnLists(observed), p.findings)
      /\ shown = ShownMore(witness.shown, Projecting(observed),
                           Range(TurnLists(observed).findings) \cup Range(merged.findings))
      /\ past = HistoryWith(merged.history, p.class) /\ past = HistoryWith(after, class)
      /\ found = MergedHypotheses(hyps, p.hyps) /\ found = MergedHypotheses(hyps, portfolio)
      /\ count = EvidenceCount(merged.layers, found)
      /\ changed = ChangesClass(after, class)
      /\ stalled = StallsAfter(stalls, ChangesClass(merged.history, p.class), count, lastCount)
      /\ stalled = IF ~ changed /\ count <= lastCount THEN stalls + 1 ELSE 0
  BY DEF StallsAfter
<1> HIDE DEF shown, past, found, count, stalled, changed
<1>2. GuardedWith(observed, passing, p, closing, merged, shown, past, found, count, stalled)
  <2> HIDE DEF merged
  <2> QED
    BY <1>1, GuardedParts
<1>3. /\ LedgerInv' /\ ListsInv'
      /\ shown \in [Layers -> SUBSET Texts] /\ BoardFits(merged, shown)
      /\ \A l \in Layers : witness.shown[l] \subseteq shown[l]
      /\ lists.history' = IF open' = {} THEN after ELSE past
      /\ Unclassified' => /\ Unclassified /\ Distinct(after)
                          /\ Distinct(before) => after = before
  <2> HIDE DEF merged
  <2> QED
    BY <1>2, GuardedLists
<1> HIDE DEF merged
<1>4. p \in Answer /\ class \in Classes \cup {"unknown"} /\ Portfolio(portfolio)
  BY TurnAssumption DEF Answer, Portfolio
<1> HIDE DEF portfolio, class, before, after
<1>5. /\ Observe(observed, passing)
      /\ hyps' = found /\ proposed' = class /\ lastCount' = count
      /\ open' = {} => stalls' = 0 /\ hard' = "none" /\ noEdge' = noEdge
      /\ open' # {} => stalls' = stalled /\ hard' = HardReason(open', p, past, stalled)
                       /\ (noEdge' = noEdge \/ noEdge' \in BOOLEAN)
      /\ witness'.shown = shown /\ witness'.known = shown
      /\ witness'.grew = (\/ \E l \in CountedLayers : shown[l] # witness.known[l]
                          \/ \E i \in DOMAIN portfolio : portfolio[i] > 0)
      /\ witness'.repeats = IF open' = {} THEN 0
                            ELSE IF class = proposed /\ ~ witness'.grew THEN witness.repeats + 1
                            ELSE 1
      /\ witness'.fresh = IF class = proposed THEN witness.fresh ELSE class \notin Range(after)
  BY <1>2, Zenon DEF GuardedWith, portfolio, class, after
<1>6. /\ GuardVarsOK /\ Portfolio(hyps) /\ Len(hyps) <= PortfolioCap /\ open \subseteq OpenAtStart
      /\ stalls \in Nat /\ lastCount \in Nat /\ noEdge \in BOOLEAN
      /\ \A l \in Layers : witness.known[l] \subseteq witness.shown[l]
      /\ MaxStalls \in Nat \ {0} /\ witness.repeats \in Nat
  BY TurnAssumption DEF Inv, GuardInv, GuardVarsOK, LedgerInv, WitnessOK
<1>7. /\ Portfolio(found) /\ Len(found) <= PortfolioCap
      /\ ArtifactCount(found) \in Nat /\ ArtifactCount(hyps) \in Nat
  <2>1. Portfolio(found) /\ Len(found) <= PortfolioCap
    BY <1>1, <1>4, <1>6, MergedPortfolio
  <2> QED
    BY <1>6, <2>1, ArtifactsTyped
<1>8. /\ after \in Seq(Classes) /\ Len(after) <= HistoryCap
  BY <1>3 DEF BoardFits, ListsOK, after
<1>9. /\ class # "unknown" => past # <<>> /\ Last(past) = class
      /\ ~ changed => past = after
      /\ Distinct(after) /\ class \notin Range(after) => Distinct(past)
  BY <1>1, <1>4, <1>8, HistoryStep
<1>10. /\ HardReason(open', p, past, stalled) \in {"none", "target", "infra", "streak", "stall"}
       /\ stalled >= MaxStalls => HardReason(open', p, past, stalled) # "none"
  BY ReasonKinds
<1>11. stalled \in Nat
  BY <1>1, <1>6
<1>12. CountedLayers \subseteq Layers /\ {"artifact", "verification", "external_prior"} = CountedLayers
  BY DEF CountedLayers, Layers
<1>13. /\ \A l \in CountedLayers : Held(shown[l]) \in Nat /\ Held(witness.known[l]) \in Nat
       /\ \A l \in CountedLayers : shown[l] \in SUBSET Texts /\ witness.known[l] \in SUBSET shown[l]
  <2>1. \A l \in CountedLayers : shown[l] \in SUBSET Texts /\ witness.known[l] \in SUBSET shown[l]
    BY <1>3, <1>6, <1>12
  <2>2. \A l \in CountedLayers : witness.known[l] \in SUBSET Texts
    BY <2>1
  <2> QED
    BY <2>1, <2>2, HeldTyped
<1>14. TextCount(shown) \in Nat /\ TextCount(witness.known) \in Nat
  BY <1>12, <1>13 DEF TextCount
<1>15. ASSUME ShortTexts'
       PROVE  /\ ShortTexts /\ count = TextCount(shown) + ArtifactCount(found)
              /\ lastCount = TextCount(witness.known) + ArtifactCount(hyps)
  <2>1. \A l \in CountedLayers : AllShort(shown[l])
    BY <1>5, <1>15 DEF ShortTexts
  <2>2. ShortTexts
    BY <1>3, <1>12, <2>1 DEF ShortTexts, AllShort
  <2>3. count = TextCount(shown) + ArtifactCount(found)
    BY <1>1, <1>3, <2>1, EvidenceCounted
  <2> QED
    BY <2>2, <2>3 DEF Inv, GuardInv
<1>16. count \in Nat
  <2>1. merged.layers \in [Layers -> Seq(Texts)]
    BY <1>3 DEF BoardFits, ListsOK
  <2>2. /\ Len(merged.layers["artifact"]) \in Nat /\ Len(merged.layers["verification"]) \in Nat
        /\ Len(merged.layers["external_prior"]) \in Nat
    BY <2>1 DEF Layers
  <2> DEFINE x == Len(merged.layers["artifact"])
             y == Len(merged.layers["verification"])
             z == Len(merged.layers["external_prior"])
             artifacts == ArtifactCount(found)
  <2>3. x \in Nat /\ y \in Nat /\ z \in Nat /\ artifacts \in Nat
    BY <1>7, <2>2, Zenon
  <2>4. EvidenceCount(merged.layers, found) = x + y + z + artifacts
    BY DEF EvidenceCount
  <2> HIDE DEF x, y, z, artifacts
  <2> QED
    BY <1>1, <2>3, <2>4
<1>17. open' \subseteq open
  BY <1>5 DEF Observe
<1>18. GuardVarsOK'
  <2>1. stalls' \in Nat /\ hard' \in {"none", "target", "infra", "streak", "stall"}
    BY <1>5, <1>10, <1>11
  <2>2. noEdge' \in BOOLEAN
    BY <1>5, <1>6, Zenon
  <2>3. Portfolio(hyps') /\ Len(hyps') <= PortfolioCap
    BY <1>5, <1>7
  <2>4. open' \subseteq OpenAtStart /\ lastCount' \in Nat /\ proposed' \in Classes \cup {"unknown"}
    BY <1>4, <1>5, <1>6, <1>16, <1>17
  <2> QED
    BY <2>1, <2>2, <2>3, <2>4 DEF GuardVarsOK
<1>19. ShortTexts' => lastCount' = TextCount(witness'.known) + ArtifactCount(hyps')
  BY <1>5, <1>15
<1>20. EvidenceResetsStalls'
  <2> SUFFICES ASSUME witness'.grew, \A l \in CountedLayers : Cardinality(shown[l]) <= LayerCap,
                      Len(found) < PortfolioCap, ShortTexts', open' # {}
               PROVE  lastCount < count
    <3>1. open' = {} => stalls' = 0
      BY <1>5
    <3>2. open' # {} /\ lastCount < count => stalls' = 0
      BY <1>1, <1>5, <1>6, <1>16
    <3> QED
      BY <1>5, <3>1, <3>2, Zenon DEF EvidenceResetsStalls
  <2>1. \A l \in CountedLayers :
          /\ Held(witness.known[l]) <= Held(shown[l])
          /\ shown[l] # witness.known[l] => Held(witness.known[l]) < Held(shown[l])
    BY <1>13, HeldGrows
  <2>2. /\ TextCount(witness.known) <= TextCount(shown)
        /\ (\E l \in CountedLayers : shown[l] # witness.known[l])
             => TextCount(witness.known) < TextCount(shown)
    BY <1>12, <1>13, <2>1 DEF TextCount
  <2>3. /\ ArtifactCount(hyps) <= ArtifactCount(found)
        /\ (\E i \in DOMAIN portfolio : portfolio[i] > 0) => ArtifactCount(hyps) < ArtifactCount(found)
    BY <1>1, <1>4, <1>6, ArtifactsGrow
  <2>4. \/ TextCount(witness.known) < TextCount(shown)
        \/ ArtifactCount(hyps) < ArtifactCount(found)
    BY <1>5, <2>2, <2>3, Zenon
  <2> QED
    BY <1>7, <1>14, <1>15, <2>2, <2>3, <2>4
<1>21. ASSUME class = proposed, witness.fresh, Unclassified', open' # {}, class # "unknown"
       PROVE  /\ Distinct(after) /\ after # <<>> /\ Last(after) = class
              /\ ~ changed
  <2>1. open # {} /\ Unclassified
    BY <1>3, <1>17, <1>21
  <2>2. Distinct(before) /\ before # <<>> /\ Last(before) = proposed
    BY <1>21, <2>1 DEF Inv, GuardInv, HistoryKnown, before
  <2>3. after = before
    BY <1>3, <1>21, <2>2
  <2> QED
    BY <1>1, <1>21, <2>2, <2>3, Zenon DEF ChangesClass
<1>22. HistoryKnown'
  <2> SUFFICES ASSUME witness'.fresh, Unclassified', open' # {}, class # "unknown"
               PROVE  Distinct(past) /\ past # <<>> /\ Last(past) = class
    BY <1>3, <1>5 DEF HistoryKnown
  <2>1. CASE class = proposed
    <3>1. witness.fresh
      BY <1>5, <2>1, Zenon
    <3> QED
      BY <1>9, <1>21, <2>1, <3>1
  <2>2. CASE class # proposed
    <3>1. class \notin Range(after)
      BY <1>5, <2>2, Zenon
    <3> QED
      BY <1>3, <1>9, <3>1
  <2> QED
    BY <2>1, <2>2
<1>23. RepeatsCounted'
  <2> DEFINE repeats == witness'.repeats
  <2> SUFFICES ASSUME witness'.fresh, Unclassified', ShortTexts', repeats > 0
               PROVE  stalls' + 1 >= repeats /\ (repeats > MaxStalls => hard' # "none")
    BY DEF RepeatsCounted
  <2>1. open' # {} /\ stalls' = stalled /\ repeats \in Nat
    BY <1>5, <1>6
  <2>2. stalled + 1 >= repeats
    <3>1. CASE class = proposed /\ ~ witness'.grew /\ witness.repeats > 0
      <4>1. repeats = witness.repeats + 1 /\ (witness'.fresh = witness.fresh)
        BY <1>5, <2>1, <3>1, Zenon
      <4>2. witness.fresh /\ Unclassified /\ ShortTexts
        BY <1>3, <1>15, <4>1
      <4>3. stalls + 1 >= witness.repeats
        BY <3>1, <4>2 DEF Inv, GuardInv, RepeatsCounted
      <4>4. ~ changed
        <5>1. CASE class = "unknown"
          BY <1>1, <5>1, Zenon DEF ChangesClass
        <5>2. CASE class # "unknown"
          BY <1>21, <2>1, <3>1, <4>2, <5>2
        <5> QED
          BY <5>1, <5>2
      <4>5. /\ \A l \in CountedLayers : shown[l] = witness.known[l]
            /\ \A i \in DOMAIN portfolio : ~ (portfolio[i] > 0)
        BY <1>5, <3>1, Zenon
      <4>6. TextCount(shown) = TextCount(witness.known)
        BY <1>12, <4>5 DEF TextCount
      <4>7. ArtifactCount(found) <= ArtifactCount(hyps)
        BY <1>1, <1>4, <1>6, <4>5, ArtifactsShrink
      <4>8. count <= lastCount
        BY <1>7, <1>14, <1>15, <4>6, <4>7
      <4>9. stalled = stalls + 1
        BY <1>1, <4>4, <4>8
      <4> QED
        BY <1>6, <4>1, <4>3, <4>9
    <3>2. CASE ~ (class = proposed /\ ~ witness'.grew /\ witness.repeats > 0)
      <4>1. repeats = 1
        BY <1>5, <1>6, <2>1, <3>2
      <4> QED
        BY <1>11, <4>1
    <3> QED
      BY <3>1, <3>2
  <2>3. ASSUME repeats > MaxStalls PROVE hard' # "none"
    <3>1. stalled >= MaxStalls
      BY <1>6, <1>11, <2>1, <2>2, <2>3
    <3> QED
      BY <1>5, <1>10, <2>1, <3>1
  <2> QED
    BY <2>1, <2>2, <2>3
<1>24. \A l \in Layers : witness'.known[l] \subseteq witness'.shown[l]
  BY <1>5
<1> QED
  BY <1>3, <1>18, <1>19, <1>20, <1>22, <1>23, <1>24, Zenon DEF Inv, GuardInv

LEMMA StutterStep ==
  ASSUME Inv, UNCHANGED vars
  PROVE  Inv'
<1>1. /\ UNCHANGED <<ledger, lists, taxonomy, open, turns, witness>> /\ UNCHANGED guardVars
      /\ UNCHANGED <<hyps, stalls, lastCount, hard, noEdge, proposed>>
  BY DEF vars, guardVars
<1>2. LedgerInv'
  BY <1>1 DEF Inv, LedgerInv, WitnessOK, FailuresApart, FailuresIn
<1>3. ListsInv'
  <2>1. Seen' = Seen
    BY <1>1 DEF Seen
  <2>2. FindingsSeen' = FindingsSeen
    BY <1>1, <2>1 DEF FindingsSeen
  <2>3. \A l \in Layers : Evidenced(l)' = Evidenced(l)
    BY <2>1, <2>2 DEF Evidenced
  <2>4. NewestEvidenceStays'
    BY <1>1, <2>1 DEF Inv, ListsInv, NewestEvidenceStays
  <2> QED
    BY <1>1, <2>1, <2>2, <2>3, <2>4 DEF Inv, ListsInv
<1>4. GuardInv'
  <2>1. Unclassified' = Unclassified /\ ShortTexts' = ShortTexts
    BY <1>1 DEF Unclassified, ShortTexts
  <2>2. EvidenceResetsStalls' /\ HistoryKnown' /\ RepeatsCounted' /\ GuardVarsOK'
    BY <1>1, <2>1 DEF Inv, GuardInv, EvidenceResetsStalls, HistoryKnown, RepeatsCounted, GuardVarsOK
  <2> QED
    BY <1>1, <2>1, <2>2 DEF Inv, GuardInv
<1> QED
  BY <1>2, <1>3, <1>4 DEF Inv

\* The strengthening from which the properties of EvidenceTurns follow.
THEOREM Inductive == Spec => []Inv
<1>1. Init => Inv
  BY InitStep
<1>2. Inv /\ [Next]_vars => Inv'
  <2> SUFFICES ASSUME Inv, [Next]_vars PROVE Inv'
    OBVIOUS
  <2>1. ASSUME NEW e \in ToolEvents, RecordTool(e) PROVE Inv'
    BY <2>1, RecordStep
  <2>2. ASSUME NEW events \in {<<>>, <<Silent>>}, Command(events) PROVE Inv'
    BY <2>2, CommandStep
  <2>3. ASSUME NEW passing \in SUBSET open, Resume(passing) PROVE Inv'
    BY <2>3, ResumeStep
  <2>4. \A r \in Responses : Response(Observed(r))
    BY ObservedResponse DEF Inv, LedgerInv
  <2>5. ASSUME NEW r \in Responses, NEW passing \in SUBSET open, NEW closing \in BOOLEAN,
               UnguidedTurn(Observed(r), passing, closing)
        PROVE  Inv'
    <3> DEFINE observed == Observed(r)
    <3>1. Response(observed) /\ UnguidedTurn(observed, passing, closing)
      BY <2>4, <2>5
    <3> HIDE DEF observed
    <3> QED
      BY <3>1, UnguidedStep
  <2>6. ASSUME NEW r \in Responses, NEW passing \in SUBSET open, NEW closing \in BOOLEAN,
               NEW p \in Answers, GuardedTurn(Observed(r), p, passing, closing)
        PROVE  Inv'
    <3> DEFINE observed == Observed(r)
    <3>1. Response(observed) /\ GuardedTurn(observed, p, passing, closing)
      BY <2>4, <2>6
    <3> HIDE DEF observed
    <3> QED
      BY <3>1, GuardedStep
  <2>7. CASE UNCHANGED vars
    BY <2>7, StutterStep
  <2> QED
    BY <2>1, <2>2, <2>3, <2>5, <2>6, <2>7, Zenon DEF Next
<1> QED
  BY <1>1, <1>2, PTL DEF Spec

\* The record, the ledger and the history variables hold what they are declared to
\* hold (domain.py, the record's fields; gates.py, apply_inertia_guard).
THEOREM TypeCorrect == Spec => []TypeOK
<1>1. Inv => TypeOK
  BY DEF Inv, LedgerInv, ListsInv, GuardInv, GuardVarsOK, WitnessOK, BoardFits, Portfolio, TypeOK
<1> QED
  BY <1>1, Inductive, PTL

\* A layer holds evidence and nothing else, nothing twice, and all of it while there is
\* room and nothing is cut (projection.py, add_evidence_layer; gates.py,
\* sync_evidence_layers_from_findings; domain.py, from_json).
THEOREM LayersHold == Spec => []LayersHoldEvidence
<1>1. Inv => LayersHoldEvidence
  <2> SUFFICES ASSUME Inv, NEW l \in Layers
               PROVE  LET layer == lists.layers[l]
                      IN  /\ Range(layer) \subseteq Forms(Evidenced(l))
                          /\ \A i, j \in DOMAIN layer : layer[i] = layer[j] => i = j
                          /\ Len(layer) <= LayerCap
                          /\ Len(layer) < LayerCap /\ AllShort(Evidenced(l))
                               => /\ Located(l, Seen) \subseteq Range(layer)
                                  /\ l = "external_prior"
                                       => Range(LabelsOf(lists.findings)) \ {Nothing}
                                            \subseteq Range(layer)
    BY DEF LayersHoldEvidence
  <2> DEFINE layer == lists.layers[l]
             shown == witness.shown[l]
             evidence == Evidenced(l)
  <2>1. /\ FitsLayer(layer, shown) /\ Located(l, Seen) \subseteq shown /\ shown \subseteq evidence
        /\ LabelSet(Range(lists.findings)) \subseteq witness.shown["external_prior"]
        /\ lists.findings \in Seq(Findings)
    BY DEF Inv, ListsInv, BoardFits, ListsOK
  <2> HIDE DEF layer, evidence
  <2>2. Forms(shown) \subseteq Forms(evidence) /\ (AllShort(evidence) => AllShort(shown))
    BY <2>1, FormsGrow
  <2>3. /\ Range(layer) \subseteq Forms(shown) /\ Distinct(layer) /\ Len(layer) <= LayerCap
        /\ Len(layer) < LayerCap /\ AllShort(shown) => shown \subseteq Range(layer)
    BY <2>1 DEF FitsLayer, WindowOn
  <2>4. Range(LabelsOf(lists.findings)) \ {Nothing} \subseteq witness.shown["external_prior"]
    BY <2>1, LabelsOffered DEF Somethings
  <2> QED
    BY <2>1, <2>2, <2>3, <2>4 DEF layer, evidence, Distinct
<1> QED
  BY <1>1, Inductive, PTL

\* Neither a replay nor a load pushes out what was seen last (projection.py and
\* gates.py, merged[-max_items:]).
THEOREM NewestStays == Spec => []NewestEvidenceStays
<1>1. Inv => NewestEvidenceStays
  BY DEF Inv, ListsInv
<1> QED
  BY <1>1, Inductive, PTL

\* Replays of the whole ledger count each failure once, up to the window
\* (projection.py, increment_failure_taxonomy).
THEOREM FailuresOnce == Spec => []FailuresCountedOnce
<1>1. Inv => FailuresCountedOnce
  BY DEF Inv, LedgerInv, FailuresIn, FailuresCountedOnce
<1> QED
  BY <1>1, Inductive, PTL

\* New evidence resets the stalls, of tools or of the critic, while none of it is
\* evicted or cut (gates.py, gate_eligible_evidence_count, apply_inertia_guard).
THEOREM EvidenceResets == Spec => []EvidenceResetsStalls
<1>1. Inv => EvidenceResetsStalls
  BY DEF Inv, GuardInv
<1> QED
  BY <1>1, Inductive, PTL

\* A mission that proposes a class for the first time, and again and again without
\* growth, is blocked (gates.py, max_same_gate_stalls).
THEOREM FirstRepetitionBlocked == Spec => []FirstRepetitionIsBlocked
<1>1. Inv => FirstRepetitionIsBlocked
  <2> SUFFICES ASSUME Inv, witness.repeats > MaxStalls, witness.fresh, ShortTexts, Unclassified
               PROVE  hard # "none"
    BY DEF FirstRepetitionIsBlocked
  <2>1. witness.repeats \in Nat /\ MaxStalls \in Nat
    BY TurnAssumption DEF Inv, LedgerInv, WitnessOK
  <2>2. witness.repeats > 0
    BY <2>1
  <2> QED
    BY <2>2 DEF Inv, GuardInv, RepeatsCounted
<1> QED
  BY <1>1, Inductive, PTL

\* The gate blamed first is one of the open ones, and none before it is open.
LEMMA FirstGate ==
  ASSUME NEW gates, gates \subseteq GateIds("strategy"), gates # {}
  PROVE  /\ FirstOf(gates) \in gates
         /\ FirstOf(gates) \in StrategyGates => gates \cap {"G1", "G2"} = {}
<1> DEFINE I == {i \in DOMAIN GateOrder : GateOrder[i] \in gates}
           first == Min(I)
<1>1. /\ DOMAIN GateOrder = 1..8
      /\ GateOrder[1] = "G1" /\ GateOrder[2] = "G2"
      /\ GateOrder[3] = "SG-1" /\ GateOrder[4] = "SG-2" /\ GateOrder[5] = "SG-3"
      /\ GateOrder[6] = "SG-4" /\ GateOrder[7] = "G3" /\ GateOrder[8] = "G4"
  BY DEF GateOrder
<1>2. PICK g \in gates : TRUE
  OBVIOUS
<1>3. g \in {"G1", "G2", "SG-1", "SG-2", "SG-3", "SG-4", "G3", "G4"}
  BY <1>2 DEF GateIds, StrategyGates
<1>4. I \in SUBSET Nat /\ I # {}
  BY <1>1, <1>2, <1>3
<1>5. first \in I /\ \A i \in I : first <= i
  BY <1>4, LeastNumber DEF Min
<1> HIDE DEF first
<1>6. FirstOf(gates) = GateOrder[first]
  BY DEF FirstOf, first
<1>7. ASSUME FirstOf(gates) \in StrategyGates PROVE gates \cap {"G1", "G2"} = {}
  <2>1. first # 1 /\ first # 2 /\ first \in 1..8
    BY <1>1, <1>5, <1>6, <1>7 DEF StrategyGates
  <2>2. 1 \notin I /\ 2 \notin I
    BY <1>5, <2>1
  <2> QED
    BY <1>1, <2>2
<1> QED
  BY <1>5, <1>6, <1>7

\* The guard writes "no edge" only where the board's model leaves it to it
\* (gates.py, apply_inertia_guard; MissionBoard, MayReportNoEdge).
THEOREM NoEdgeWithinBoard == Spec => ReportsWithinBoard
<1> DEFINE Within ==
      noEdge' # noEdge =>
        MayReportNoEdge([EmptyBoard("strategy") EXCEPT
          !.passed = GateIds("strategy") \ open',
          !.action = IF proposed' = "infra" THEN "infra" ELSE "other"])
<1>1. Inv /\ [Next]_vars => [Within]_vars
  <2> SUFFICES ASSUME Inv, Next, noEdge' # noEdge PROVE Within
    OBVIOUS
  <2> HIDE DEF Within
  <2>1. PICK r \in Responses, passing \in SUBSET open, closing \in BOOLEAN, p \in Answers :
          GuardedTurn(Observed(r), p, passing, closing)
    BY DEF Next, RecordTool, Command, Resume, UnguidedTurn, guardVars
  <2> DEFINE left == open \ passing
             observed == Observed(r)
             merged == CriticLists(TurnLists(observed), p.findings)
             past == HistoryWith(merged.history, p.class)
             found == MergedHypotheses(hyps, p.hyps)
             count == EvidenceCount(merged.layers, found)
             stalled == StallsAfter(stalls, ChangesClass(merged.history, p.class), count, lastCount)
             reason == HardReason(left, p, past, stalled)
  <2>2. /\ open' = left /\ left # {} /\ proposed' = p.class
        /\ ReportsNoEdge(left, p, reason)
    <3>1. /\ Observe(observed, passing) /\ proposed' = p.class
          /\ left = {} => noEdge' = noEdge
          /\ left # {} => noEdge' = (noEdge \/ ReportsNoEdge(left, p, reason))
      BY <2>1, Zenon DEF GuardedTurn
    <3> HIDE DEF reason, observed
    <3>2. open' = left
      BY <3>1, Zenon DEF Observe
    <3>3. noEdge \in BOOLEAN
      BY DEF Inv, GuardInv, GuardVarsOK
    <3> HIDE DEF left
    <3>4. left # {} /\ ReportsNoEdge(left, p, reason)
      BY <3>1, <3>3, Zenon
    <3> QED
      BY <3>1, <3>2, <3>4, Zenon
  <2> HIDE DEF reason
  <2>3. left \subseteq GateIds("strategy")
    BY TurnAssumption DEF Inv, GuardInv, GuardVarsOK
  <2>4. Blamed(left, p.class) \in StrategyGates
    BY <2>2 DEF ReportsNoEdge
  <2> HIDE DEF left
  <2>5. /\ StrategyGates \cap left # {}
        /\ left \cap {"G1", "G2"} = {} \/ p.class = "infra"
    <3>1. CASE p.class = "infra" /\ left \cap StrategyGates # {}
      BY <3>1
    <3>2. CASE ~ (p.class = "infra" /\ left \cap StrategyGates # {})
      <4>1. FirstOf(left) \in StrategyGates
        BY <2>4, <3>2 DEF Blamed
      <4> QED
        BY <2>2, <2>3, <4>1, FirstGate
    <3> QED
      BY <3>1, <3>2
  <2> DEFINE b == [EmptyBoard("strategy") EXCEPT
                     !.passed = GateIds("strategy") \ open',
                     !.action = IF proposed' = "infra" THEN "infra" ELSE "other"]
  <2>6. /\ b.domain = "strategy" /\ b.passed = GateIds("strategy") \ left
        /\ b.action = IF p.class = "infra" THEN "infra" ELSE "other"
    BY <2>2 DEF EmptyBoard
  <2> HIDE DEF b
  <2>7. OpenBlocking(b) = left
    BY <2>3, <2>6 DEF OpenBlocking, BlockingGates
  <2>8. MayReportNoEdge(b)
    BY <2>5, <2>6, <2>7 DEF MayReportNoEdge
  <2> QED
    BY <2>8 DEF Within, b
<1> QED
  BY <1>1, Inductive, PTL DEF Spec, ReportsWithinBoard
=============================================================================
