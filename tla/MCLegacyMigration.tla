-------------------------- MODULE MCLegacyMigration --------------------------
(***************************************************************************)
(* Small sources for LegacyMigration: missions a and b, a mission c that   *)
(* the plugin starts itself, sessions s and t of the source and a session  *)
(* u that only the plugin makes.                                           *)
(***************************************************************************)
EXTENDS LegacyMigration

MCRuns == {"a", "b", "c"}
MCSessions == {"s", "t", "u"}
MCOrigins == {"goal_run"} \X MCRuns \cup {"goal"} \X MCSessions
MCSources == (MCRuns \cup MCSessions) \X (1..2)
MCLegacyId == [x \in MCSessions |-> IF x = "t" THEN "b" ELSE "a"]
MCKeyOrder == <<"a", "b", "c", "s", "t", "u">>

Row(r) == [run |-> r, record |-> "j"]

\* goal_run a, mirrors of s and t, explicit bindings of s and t, and the
\* ledgers of a and s vary; b is known from its mirror only.
Shapes(authorities, ledgers, mirrors, bound) ==
  {[goal_run |-> [r \in MCRuns |-> IF r = "a" THEN row ELSE Absent],
    goal |-> [x \in MCSessions |->
                CASE x = "s" -> ms [] x = "t" -> mt [] OTHER -> Absent],
    goal_session |-> [x \in MCSessions |->
                CASE x = "s" -> bs [] x = "t" -> bt [] OTHER -> Absent],
    goal_events |-> [k \in MCRuns \cup MCSessions |->
                CASE k = "a" -> la [] k = "s" -> ls [] OTHER -> Absent]] :
     row \in authorities, ms \in {Absent, Row(Null), Row("a")},
     mt \in mirrors,
     bs \in {Absent, "a"}, bt \in bound,
     la \in ledgers, ls \in ledgers}

MCSoundSources ==
  Shapes({Absent, Row("a"), Row("b")}, {Absent, <<"k1", "k1">>, <<"k2", "k1">>},
         {Absent, Ordinary, Row(Null), Row("a")}, {Absent, "a", "b"})

MCDamagedSources ==
  Shapes({Malformed, Row("a")}, {Malformed, <<"k1">>}, {Absent, Row(Null)}, {Absent, "b"})

MCDamagedItems ==
  Shapes({Row("a")}, {Absent, <<Malformed, "k1">>}, {Absent, Row(Null)}, {Absent, "b"})
MCInitialSources ==
  [none |-> MCSoundSources, rows |-> MCDamagedSources, items |-> MCDamagedItems]
MCSoundOnly == [none |-> MCSoundSources]
MCRowsOnly == [rows |-> MCDamagedSources]
MCItemsOnly == [items |-> MCDamagedItems]
=============================================================================
