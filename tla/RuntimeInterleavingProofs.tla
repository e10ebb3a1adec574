---------------------- MODULE RuntimeInterleavingProofs ----------------------
(***************************************************************************)
(* Proofs about RuntimeInterleaving for any number of threads, sessions,   *)
(* missions and processes, with and without a careful host.                *)
(***************************************************************************)
EXTENDS RuntimeInterleaving, TLAPS, FiniteSetTheorems

(***************************************************************************)
(* What a stored record may hold, when limit turns are paid for: an active *)
(* mission still has one left.                                             *)
(***************************************************************************)
Affordable(c, limit) ==
  /\ c.turns <= limit
  /\ c.status = "active" => c.turns < limit

Limit == MaxTurns + resumes

\* A handler past its first read holds the run of its session.
Knows(h, bs) == h.session \in DOMAIN bs /\ h.run = bs[h.session].run

\* What a handler writes is affordable; a resume pays only when it writes.
HandlerOK(h, bs, limit) ==
  /\ h \in Handler
  /\ IF h.op = "start" /\ h.step = "write"
     THEN h.run = Null
     ELSE Knows(h, bs)
  /\ h.op # "start" /\ h.step = "write"
       => /\ h.record \in Control
          /\ h.record.turns <= limit
          /\ h.op # "resume" => Affordable(h.record, limit)

TablesInv ==
  /\ DOMAIN runs \subseteq Runs
  /\ runs \in [DOMAIN runs -> [record : Control, origin : {Null}]]
  /\ DOMAIN bindings \subseteq Sessions
  /\ bindings \in [DOMAIN bindings -> [run : Runs, current : BOOLEAN]]
  /\ \A s \in DOMAIN bindings : bindings[s].run \in DOMAIN runs

HandlersInv ==
  /\ handlers \in [Threads -> Handler \cup {Null}]
  /\ \A t \in Threads : handlers[t] # Null => HandlerOK(handlers[t], bindings, Limit)

BudgetInv ==
  /\ resumes \in Nat
  /\ \A r \in DOMAIN runs : Affordable(runs[r].record, Limit)

IInv == TablesInv /\ HandlersInv /\ BudgetInv /\ NoStrayRuns /\ alive \subseteq Pids

\* What every step leaves alone: bindings stay on their run, resumes add up.
Kept ==
  /\ \A s \in DOMAIN bindings :
       s \in DOMAIN bindings' /\ bindings'[s].run = bindings[s].run
  /\ resumes' \in Nat /\ resumes' >= resumes

-----------------------------------------------------------------------------
(***************************************************************************)
(* Records.                                                                *)
(***************************************************************************)
LEMMA StartedOK == Started \in Control /\ Started.turns = 0
  BY DEF Started, Control, Statuses

LEMMA EvaluatedOK ==
  ASSUME NEW c \in Control, NEW limit \in Nat, limit >= MaxTurns,
         Affordable(c, limit), c.status = "active", NEW d \in Evaluated(c)
  PROVE  d \in Control /\ Affordable(d, limit)
<1> DEFINE counted == Counted(c, alive)
<1>1. counted \in Control /\ counted.turns = c.turns + 1
  BY DEF Counted, Released, Unwaited, Control
<1> HIDE DEF counted
<1>2. PICK terminal, complete \in BOOLEAN :
        d = [counted EXCEPT !.status = StatusAfter(Verdict(counted, terminal, complete))]
  BY DEF Evaluated, counted
<1> DEFINE verdict == Verdict(counted, terminal, complete)
<1>3. /\ verdict \in {"blocked", "done", "budget", "continue"}
      /\ verdict = "continue" => ~(counted.turns >= MaxTurns)
  BY DEF Verdict
<1>4. /\ StatusAfter(verdict) \in Statuses
      /\ StatusAfter(verdict) = "active" => verdict = "continue"
  BY <1>3 DEF StatusAfter, Statuses
<1> HIDE DEF verdict
<1>5. d \in Control /\ d.turns = c.turns + 1 /\ d.status = StatusAfter(verdict)
  BY <1>1, <1>2, <1>4 DEF Control, verdict
<1>6. c.turns \in Nat /\ MaxTurns \in Nat
  BY MaxTurnsAssumption DEF Control
<1> QED
  BY <1>1, <1>3, <1>4, <1>5, <1>6 DEF Affordable

LEMMA ResultsOK ==
  ASSUME NEW op \in Operations, NEW c \in Control, NEW limit \in Nat, limit >= MaxTurns,
         Affordable(c, limit), NEW d \in Results(op, c)
  PROVE  /\ op # "start"
         /\ d \in Control
         /\ d.turns <= limit
         /\ op # "resume" => Affordable(d, limit)
<1>1. CASE op = "turn" /\ ~Ignores(c) /\ ~Barred(c, alive)
  BY <1>1, EvaluatedOK DEF Results, Ignores, Affordable
<1>2. CASE op = "turn" /\ (Ignores(c) \/ Barred(c, alive))
  BY <1>2 DEF Results, Affordable
<1>3. CASE op # "turn"
  BY <1>3 DEF Results, Operations, Commands, Turns, Control, Statuses, Paused, Resumed,
              Cleared, Waiting, Unwaited, Affordable
<1> QED
  BY <1>1, <1>2, <1>3

-----------------------------------------------------------------------------
(***************************************************************************)
(* Handlers.  A handler stays right when other threads only bind more      *)
(* sessions, start more missions and accept more resumes.                  *)
(***************************************************************************)
LEMMA LimitArithmetic ==
  ASSUME NEW m \in Nat, NEW a \in Nat, NEW b \in Nat, b >= a
  PROVE  /\ m + a \in Nat /\ m + b \in Nat /\ m + b >= m + a
         /\ m + a >= m
         /\ b > a => m + b > m + a
  OBVIOUS

LEMMA LimitGrows ==
  ASSUME resumes \in Nat, Kept
  PROVE  /\ Limit \in Nat /\ Limit' \in Nat /\ Limit' >= Limit
         /\ Limit >= MaxTurns
         /\ resumes' > resumes => Limit' > Limit
<1>1. MaxTurns \in Nat
  BY MaxTurnsAssumption
<1>2. resumes' \in Nat /\ resumes' >= resumes
  BY DEF Kept
<1> QED
  BY <1>1, <1>2, LimitArithmetic DEF Limit

LEMMA AffordableStays ==
  ASSUME NEW c \in Control, NEW m \in Nat, NEW n \in Nat, n >= m, Affordable(c, m)
  PROVE  Affordable(c, n)
  BY DEF Control, Affordable

LEMMA HandlerStays ==
  ASSUME NEW h, HandlerOK(h, bindings, Limit), Kept, resumes \in Nat
  PROVE  HandlerOK(h, bindings', Limit')
<1>1. Knows(h, bindings) => Knows(h, bindings')
  BY DEF Knows, Kept
<1>2. ASSUME h.record \in Control, h.record.turns <= Limit
      PROVE  /\ h.record.turns <= Limit'
             /\ Affordable(h.record, Limit) => Affordable(h.record, Limit')
  BY <1>2, LimitGrows, AffordableStays DEF Control
<1> QED
  BY <1>1, <1>2 DEF HandlerOK

\* One thread moves to h, the others stay.
LEMMA GotoStep ==
  ASSUME HandlersInv, Kept, resumes \in Nat, NEW t \in Threads, NEW h,
         h = Null \/ HandlerOK(h, bindings', Limit'), Goto(t, h)
  PROVE  HandlersInv'
<1>1. h \in Handler \cup {Null}
  BY DEF HandlerOK
<1>2. /\ handlers' \in [Threads -> Handler \cup {Null}]
      /\ handlers'[t] = h
      /\ \A u \in Threads : u # t => handlers'[u] = handlers[u]
  BY <1>1 DEF Goto, HandlersInv
<1>3. ASSUME NEW u \in Threads, handlers'[u] # Null
      PROVE  HandlerOK(handlers'[u], bindings', Limit')
  <2>1. CASE u = t
    BY <1>2, <1>3, <2>1
  <2>2. CASE u # t
    BY <1>2, <1>3, <2>2, HandlerStays DEF HandlersInv
  <2> QED
    BY <2>1, <2>2
<1> QED
  BY <1>2, <1>3 DEF HandlersInv

-----------------------------------------------------------------------------
(***************************************************************************)
(* Steps that only read: the tables stay, one handler moves.               *)
(***************************************************************************)
ReadOnly == UNCHANGED <<runs, bindings, alive, resumes>>

LEMMA ReadStep ==
  ASSUME IInv, ReadOnly, NEW t \in Threads, NEW h,
         h = Null \/ HandlerOK(h, bindings, Limit), Goto(t, h)
  PROVE  IInv' /\ Kept
<1>1. Kept
  BY DEF ReadOnly, Kept, IInv, BudgetInv
<1>2. Limit' = Limit /\ bindings' = bindings
  BY DEF ReadOnly, Limit
<1>3. HandlersInv'
  BY <1>1, <1>2, GotoStep DEF IInv, BudgetInv
<1>4. TablesInv' /\ BudgetInv' /\ NoStrayRuns' /\ alive' \subseteq Pids
  BY <1>2 DEF IInv, ReadOnly, TablesInv, BudgetInv, NoStrayRuns
<1> QED
  BY <1>1, <1>3, <1>4 DEF IInv

\* Not finding a mission sends start on to its import and ends the others.
LEMMA NoStateStep ==
  ASSUME IInv, ReadOnly, NEW t \in Threads, NEW op \in Operations, NEW s \in Sessions,
         NoState(t, op, s)
  PROVE  IInv' /\ Kept
<1> DEFINE h == [op |-> "start", session |-> s, step |-> "write", run |-> Null, record |-> Null]
<1>1. CASE op = "start"
  <2>1. HandlerOK(h, bindings, Limit)
    BY <1>1 DEF HandlerOK, Handler, Steps
  <2> QED
    BY <1>1, <2>1, ReadStep DEF NoState
<1>2. CASE op # "start"
  BY <1>2, ReadStep DEF NoState, Return
<1> QED
  BY <1>1, <1>2

LEMMA GetGoalRunIdStep ==
  ASSUME IInv, NEW t \in Threads, NEW op \in Operations, NEW s \in Sessions,
         GetGoalRunId(t, op, s)
  PROVE  IInv' /\ Kept
<1> DEFINE h == [op |-> op, session |-> s, step |-> "is_current_session",
                 run |-> bindings[s].run, record |-> Null]
<1>1. CASE s \in DOMAIN bindings
  <2>1. HandlerOK(h, bindings, Limit)
    BY <1>1 DEF HandlerOK, Handler, Steps, Knows, IInv, TablesInv
  <2> QED
    BY <1>1, <2>1, ReadStep DEF GetGoalRunId, ReadOnly
<1>2. CASE s \notin DOMAIN bindings
  BY <1>2, NoStateStep DEF GetGoalRunId, ReadOnly
<1> QED
  BY <1>1, <1>2

LEMMA IsCurrentSessionStep ==
  ASSUME IInv, NEW t \in Threads, IsCurrentSession(t)
  PROVE  IInv' /\ Kept
<1> DEFINE h == handlers[t]
           next == [h EXCEPT !.step = "load_run"]
<1>1. h.step = "is_current_session" /\ h \in Handler /\ HandlerOK(h, bindings, Limit)
  BY DEF IsCurrentSession, At, IInv, HandlersInv, HandlerOK
<1>2. CASE bindings[h.session].current
  <2>1. HandlerOK(next, bindings, Limit)
    BY <1>1 DEF HandlerOK, Handler, Steps, Knows
  <2> QED
    BY <1>2, <2>1, ReadStep DEF IsCurrentSession, ReadOnly
<1>3. CASE ~bindings[h.session].current
  <2>1. h.op \in Operations /\ h.session \in Sessions
    BY <1>1 DEF Handler
  <2> QED
    BY <1>3, <2>1, NoStateStep DEF IsCurrentSession, ReadOnly
<1> QED
  BY <1>2, <1>3

LEMMA LoadRunStep ==
  ASSUME IInv, NEW t \in Threads, LoadRun(t)
  PROVE  IInv' /\ Kept
<1> DEFINE h == handlers[t]
           results == Results(h.op, runs[h.run].record)
<1>1. h.step = "load_run" /\ h \in Handler /\ HandlerOK(h, bindings, Limit)
  BY DEF LoadRun, At, IInv, HandlersInv, HandlerOK
<1>2. h.run \in DOMAIN runs /\ h.op \in Operations
  BY <1>1 DEF HandlerOK, Knows, IInv, TablesInv, Handler
<1>3. runs[h.run].record \in Control /\ Affordable(runs[h.run].record, Limit)
  BY <1>2 DEF IInv, TablesInv, BudgetInv
<1>4. CASE results = {} /\ Return(t)
  BY <1>4, ReadStep DEF LoadRun, ReadOnly, Return
<1>5. ASSUME NEW record \in results, Goto(t, [h EXCEPT !.step = "write", !.record = record])
      PROVE  IInv' /\ Kept
  <2> DEFINE next == [h EXCEPT !.step = "write", !.record = record]
  <2>1. Limit \in Nat /\ Limit >= MaxTurns
    BY MaxTurnsAssumption DEF Limit, IInv, BudgetInv
  <2>2. /\ h.op # "start"
        /\ record \in Control
        /\ record.turns <= Limit
        /\ h.op # "resume" => Affordable(record, Limit)
    BY <1>2, <1>3, <2>1, ResultsOK
  <2>3. HandlerOK(next, bindings, Limit)
    BY <1>1, <2>2 DEF HandlerOK, Handler, Steps, Knows
  <2> QED
    BY <1>5, <2>3, ReadStep DEF LoadRun, ReadOnly
<1> QED
  BY <1>4, <1>5 DEF LoadRun

-----------------------------------------------------------------------------
(***************************************************************************)
(* Steps that write.                                                       *)
(***************************************************************************)
LEMMA RecordsStayAffordable ==
  ASSUME IInv, Kept, NEW r \in DOMAIN runs
  PROVE  Affordable(runs[r].record, Limit')
<1>1. runs[r].record \in Control /\ Affordable(runs[r].record, Limit)
  BY DEF IInv, TablesInv, BudgetInv
<1> QED
  BY <1>1, LimitGrows, AffordableStays DEF IInv, BudgetInv

LEMMA SaveStateStep ==
  ASSUME IInv, NEW t \in Threads, SaveState(t)
  PROVE  IInv' /\ Kept
<1> DEFINE h == handlers[t]
           row == [record |-> h.record, origin |-> Null]
<1>1. h.step = "write" /\ h.op # "start" /\ HandlerOK(h, bindings, Limit)
  BY DEF SaveState, At, IInv, HandlersInv
<1>2. /\ h.run \in DOMAIN runs
      /\ h.record \in Control
      /\ h.record.turns <= Limit
      /\ h.op # "resume" => Affordable(h.record, Limit)
  BY <1>1 DEF HandlerOK, Knows, IInv, TablesInv
<1>3. /\ DOMAIN runs' = DOMAIN runs
      /\ runs'[h.run] = row
      /\ \A r \in DOMAIN runs : r # h.run => runs'[r] = runs[r]
      /\ runs' \in [DOMAIN runs -> [record : Control, origin : {Null}]]
  <2>1. Tables!Coalesce(runs, h.run, Null) = Null
    BY <1>2 DEF Tables!Coalesce, IInv, TablesInv
  <2>2. runs' = [r \in DOMAIN runs |-> IF r = h.run THEN row ELSE runs[r]]
    BY <1>2, <2>1 DEF SaveState, Tables!UpsertRun, Tables!Upsert
  <2> QED
    BY <1>2, <2>2 DEF IInv, TablesInv
<1>4. Kept /\ (h.op = "resume" => resumes' = resumes + 1)
  BY DEF SaveState, Kept, IInv, BudgetInv
<1>5. Affordable(h.record, Limit')
  <2>1. CASE h.op = "resume"
    <3>1. Limit' > Limit /\ Limit \in Nat /\ Limit' \in Nat
      BY <1>4, <2>1, LimitGrows DEF IInv, BudgetInv
    <3>2. h.record.turns \in Nat
      BY <1>2 DEF Control
    <3> QED
      BY <1>2, <3>1, <3>2 DEF Affordable
  <2>2. CASE h.op # "resume"
    BY <1>2, <1>4, <2>2, LimitGrows, AffordableStays DEF IInv, BudgetInv
  <2> QED
    BY <2>1, <2>2
<1>6. HandlersInv'
  BY <1>4, GotoStep DEF SaveState, Return, IInv, BudgetInv
<1>7. TablesInv' /\ NoStrayRuns' /\ alive' \subseteq Pids
  BY <1>3 DEF SaveState, IInv, TablesInv, NoStrayRuns
<1>8. BudgetInv'
  <2>1. ASSUME NEW r \in DOMAIN runs' PROVE Affordable(runs'[r].record, Limit')
    BY <1>3, <1>4, <1>5, RecordsStayAffordable
  <2> QED
    BY <1>4, <2>1 DEF BudgetInv, Kept
<1> QED
  BY <1>4, <1>6, <1>7, <1>8 DEF IInv

\* A session that can be bound to a fresh run is not bound at all.
LEMMA FreshRunFreeSession ==
  ASSUME IInv, NEW r \in Runs, r \notin DOMAIN runs, NEW rs, NEW s,
         Tables!Bindable(rs, bindings, s, r)
  PROVE  s \notin DOMAIN bindings
  BY DEF Tables!Bindable, IInv, TablesInv

LEMMA StartMissionStep ==
  ASSUME IInv, NEW t \in Threads, NEW r \in Runs, StartMission(t, r)
  PROVE  IInv' /\ Kept
<1> DEFINE s == handlers[t].session
           inserted == Tables!UpsertRun(runs, r, Started, Null)
<1>1. s \in Sessions /\ r \notin DOMAIN runs /\ UNCHANGED <<alive, resumes>> /\ Return(t)
  BY DEF StartMission, At, IInv, HandlersInv, HandlerOK, Handler
<1>2. CASE UNCHANGED <<runs, bindings>>
  BY <1>1, <1>2, ReadStep DEF ReadOnly, Return
<1>3. CASE /\ Tables!Bindable(inserted, bindings, s, r)
           /\ runs' = inserted
           /\ bindings' = Tables!BindSession(bindings, s, r)
  <2>1. s \notin DOMAIN bindings
    BY <1>1, <1>3, FreshRunFreeSession
  <2>2. /\ DOMAIN bindings' = DOMAIN bindings \cup {s}
        /\ bindings'[s] = [run |-> r, current |-> TRUE]
        /\ \A x \in DOMAIN bindings : bindings'[x] = bindings[x]
        /\ bindings' \in [DOMAIN bindings \cup {s} -> [run : Runs, current : BOOLEAN]]
    BY <1>3, <2>1 DEF Tables!BindSession, Tables!Upsert, IInv, TablesInv
  <2>3. /\ DOMAIN runs' = DOMAIN runs \cup {r}
        /\ runs'[r].record = Started
        /\ \A x \in DOMAIN runs : runs'[x] = runs[x]
        /\ runs' \in [DOMAIN runs \cup {r} -> [record : Control, origin : {Null}]]
    BY <1>1, <1>3, StartedOK
    DEF Tables!UpsertRun, Tables!Upsert, Tables!Coalesce, IInv, TablesInv
  <2>4. Kept
    BY <1>1, <2>2 DEF Kept, IInv, BudgetInv
  <2>5. HandlersInv'
    BY <1>1, <2>4, GotoStep DEF Return, IInv, BudgetInv
  <2>6. TablesInv' /\ NoStrayRuns' /\ alive' \subseteq Pids
    BY <1>1, <2>2, <2>3 DEF IInv, TablesInv, NoStrayRuns
  <2>7. Affordable(Started, Limit')
    <3>1. Limit' = MaxTurns + resumes /\ MaxTurns \in Nat /\ MaxTurns # 0 /\ resumes \in Nat
      BY <1>1, MaxTurnsAssumption DEF Limit, IInv, BudgetInv
    <3> QED
      BY <3>1, StartedOK DEF Affordable
  <2>8. BudgetInv'
    <3>1. ASSUME NEW x \in DOMAIN runs' PROVE Affordable(runs'[x].record, Limit')
      BY <2>3, <2>4, <2>7, RecordsStayAffordable
    <3> QED
      BY <2>4, <3>1 DEF BudgetInv, Kept
  <2> QED
    BY <2>4, <2>5, <2>6, <2>8 DEF IInv
<1> QED
  BY <1>2, <1>3 DEF StartMission

LEMMA RotateBindings ==
  ASSUME IInv, NEW old \in Sessions, NEW new \in Sessions, Rotate(old, new)
  PROVE  /\ old \in DOMAIN bindings
         /\ new \in DOMAIN bindings => bindings[new].run = bindings[old].run
         /\ bindings' = [x \in DOMAIN bindings \cup {new} |->
                           IF x = new THEN [run |-> bindings[old].run, current |-> TRUE]
                           ELSE IF x = old THEN [run |-> bindings[old].run, current |-> FALSE]
                           ELSE bindings[x]]
<1> DEFINE demoted == Tables!Demote(bindings, old)
<1>1. old \in DOMAIN bindings /\ bindings \in [DOMAIN bindings -> [run : Runs, current : BOOLEAN]]
  BY DEF Rotate, IInv, TablesInv
<1>2. /\ DOMAIN demoted = DOMAIN bindings
      /\ demoted[old] = [run |-> bindings[old].run, current |-> FALSE]
      /\ \A x \in DOMAIN bindings : x # old => demoted[x] = bindings[x]
  BY <1>1 DEF Tables!Demote
<1>3. /\ Tables!Bindable(runs, demoted, new, bindings[old].run)
      /\ bindings' = Tables!BindSession(demoted, new, bindings[old].run)
  BY DEF Rotate
<1> HIDE DEF demoted
<1>4. new \in DOMAIN bindings => bindings[new].run = bindings[old].run
  BY <1>2, <1>3 DEF Tables!Bindable
<1>5. bindings' = [x \in DOMAIN bindings \cup {new} |->
                    IF x = new THEN [run |-> bindings[old].run, current |-> TRUE]
                    ELSE IF x = old THEN [run |-> bindings[old].run, current |-> FALSE]
                    ELSE bindings[x]]
  BY <1>2, <1>3 DEF Tables!BindSession, Tables!Upsert
<1> QED
  BY <1>1, <1>4, <1>5

LEMMA RotateStep ==
  ASSUME IInv, NEW old \in Sessions, NEW new \in Sessions, Rotate(old, new)
  PROVE  IInv' /\ Kept
<1>1. UNCHANGED <<runs, handlers, alive, resumes>>
  BY DEF Rotate
<1>2. /\ DOMAIN bindings' = DOMAIN bindings \cup {new}
      /\ \A x \in DOMAIN bindings : bindings'[x].run = bindings[x].run
      /\ bindings'[new].run \in DOMAIN runs
      /\ bindings' \in [DOMAIN bindings \cup {new} -> [run : Runs, current : BOOLEAN]]
  <2> DEFINE r == bindings[old].run
  <2>1. /\ bindings \in [DOMAIN bindings -> [run : Runs, current : BOOLEAN]]
        /\ old \in DOMAIN bindings
        /\ new \in DOMAIN bindings => bindings[new].run = r
        /\ r \in Runs /\ r \in DOMAIN runs
    BY RotateBindings DEF IInv, TablesInv
  <2>2. bindings' = [x \in DOMAIN bindings \cup {new} |->
                       IF x = new THEN [run |-> r, current |-> TRUE]
                       ELSE IF x = old THEN [run |-> r, current |-> FALSE]
                       ELSE bindings[x]]
    BY RotateBindings
  <2> HIDE DEF r
  <2>3. \A x \in DOMAIN bindings : bindings'[x].run = bindings[x].run
    BY <2>1, <2>2 DEF r
  <2> QED
    BY <2>1, <2>2, <2>3
<1>3. Kept
  BY <1>1, <1>2 DEF Kept, IInv, BudgetInv
<1>4. HandlersInv'
  BY <1>1, <1>3, HandlerStays DEF HandlersInv, IInv, BudgetInv
<1>5. TablesInv' /\ NoStrayRuns' /\ alive' \subseteq Pids
  BY <1>1, <1>2 DEF IInv, TablesInv, NoStrayRuns
<1>6. BudgetInv'
  <2>1. Limit' = Limit
    BY <1>1 DEF Limit
  <2> QED
    BY <1>1, <2>1 DEF IInv, BudgetInv
<1> QED
  BY <1>3, <1>4, <1>5, <1>6 DEF IInv

-----------------------------------------------------------------------------
LEMMA InitIInv == Init => IInv
<1> SUFFICES ASSUME Init PROVE IInv
  OBVIOUS
<1>1. runs = <<>> /\ bindings = <<>> /\ handlers = [t \in Threads |-> Null]
  BY DEF Init
<1>2. DOMAIN runs = {} /\ DOMAIN bindings = {}
  BY <1>1
<1>3. TablesInv /\ NoStrayRuns
  BY <1>1, <1>2 DEF TablesInv, NoStrayRuns
<1>4. HandlersInv
  BY <1>1 DEF HandlersInv
<1>5. BudgetInv /\ alive \subseteq Pids
  BY <1>2 DEF Init, BudgetInv
<1> QED
  BY <1>3, <1>4, <1>5 DEF IInv

LEMMA QuietStep ==
  ASSUME IInv, UNCHANGED <<runs, bindings, handlers, resumes>>, alive' \subseteq Pids
  PROVE  IInv' /\ Kept
<1>1. Limit' = Limit
  BY DEF Limit
<1> QED
  BY <1>1 DEF IInv, TablesInv, HandlersInv, BudgetInv, NoStrayRuns, Kept

LEMMA NextStep == IInv /\ [Next]_vars => IInv' /\ Kept
<1> SUFFICES ASSUME IInv, [Next]_vars PROVE IInv' /\ Kept
  OBVIOUS
<1>1. ASSUME NEW t \in Threads, NEW op \in Operations, NEW s \in Sessions,
             GetGoalRunId(t, op, s)
      PROVE  IInv' /\ Kept
  BY <1>1, GetGoalRunIdStep
<1>2. ASSUME NEW t \in Threads, IsCurrentSession(t) \/ LoadRun(t) \/ SaveState(t)
      PROVE  IInv' /\ Kept
  BY <1>2, IsCurrentSessionStep, LoadRunStep, SaveStateStep
<1>3. ASSUME NEW t \in Threads, NEW r \in Runs, StartMission(t, r)
      PROVE  IInv' /\ Kept
  BY <1>3, StartMissionStep
<1>4. ASSUME NEW old \in Sessions, NEW new \in Sessions, Rotate(old, new)
      PROVE  IInv' /\ Kept
  BY <1>4, RotateStep
<1>5. ASSUME NEW pid \in Pids, ProcessExits(pid)
      PROVE  IInv' /\ Kept
  BY <1>5, QuietStep DEF ProcessExits, IInv
<1>6. ASSUME UNCHANGED vars PROVE IInv' /\ Kept
  BY <1>6, QuietStep DEF vars, IInv
<1> QED
  BY <1>1, <1>2, <1>3, <1>4, <1>5, <1>6 DEF Next

\* The inductive invariant holds in every interleaving.
THEOREM InductiveInvariant == Spec => []IInv
<1>1. IInv /\ [Next]_vars => IInv'
  BY NextStep
<1> QED
  BY InitIInv, <1>1, PTL DEF Spec

\* The tables keep their shape and every handler that is about to load holds a
\* run that exists (runtime.py, load_state_for_session).
THEOREM TypeCorrect == Spec => []TypeOK
<1>1. IInv => TypeOK
  <2> SUFFICES ASSUME IInv PROVE TypeOK
    OBVIOUS
  <2>1. Tables!TablesOK(runs, bindings, <<>>)
    BY DEF IInv, TablesInv, Tables!TablesOK, Tables!RunRow, Tables!BindingRow
  <2>2. \A t \in Threads : At(t, "load_run") => handlers[t].run \in DOMAIN runs
    BY DEF IInv, TablesInv, HandlersInv, HandlerOK, Knows, At
  <2> QED
    BY <2>1, <2>2 DEF IInv, HandlersInv, BudgetInv, TypeOK
<1> QED
  BY InductiveInvariant, <1>1, PTL

\* However many threads start missions at once, none is left without a session
\* (runtime.py, start; store.py, import_run_bundle).
THEOREM NoMissionStrays == Spec => []NoStrayRuns
<1>1. IInv => NoStrayRuns
  BY DEF IInv
<1> QED
  BY InductiveInvariant, <1>1, PTL

\* Three separate reads and any number of rotations later, a handler still
\* writes to the mission of its own session (runtime.py, load_state_for_session
\* and save_state; store.py, _bind_session).
THEOREM HandlersWriteOwnMission == Spec => []WritesOwnMission
<1>1. IInv => WritesOwnMission
  BY DEF IInv, HandlersInv, HandlerOK, Knows, WritesOwnMission, Idle
<1> QED
  BY InductiveInvariant, <1>1, PTL

\* Lost updates never let a mission take more turns than its budget and the
\* resumes that were accepted pay for (runtime.py, after_turn and resume).
THEOREM BudgetHolds == Spec => []BudgetOverdrawnByResumeOnly
<1>1. IInv => BudgetOverdrawnByResumeOnly
  BY DEF IInv, BudgetInv, Affordable, Limit, BudgetOverdrawnByResumeOnly
<1> QED
  BY InductiveInvariant, <1>1, PTL

-----------------------------------------------------------------------------
(***************************************************************************)
(* One driver per mission, when the host rotates only the driving session, *)
(* and only to a session that is not bound.                                *)
(***************************************************************************)
Drives(bs, s, r) == s \in DOMAIN bs /\ bs[s].run = r /\ bs[s].current

OnlyDriver(bs, s, r) == Drives(bs, s, r) /\ \A x : Drives(bs, x, r) => x = s

OneDriverInv ==
  \A r \in DOMAIN runs :
    \E s : OnlyDriver(bindings, s, r)

LEMMA StartOneDriver ==
  ASSUME IInv, OneDriverInv, NEW t \in Threads, NEW r \in Runs, StartMission(t, r)
  PROVE  OneDriverInv'
<1> DEFINE s == handlers[t].session
           inserted == Tables!UpsertRun(runs, r, Started, Null)
<1>1. CASE UNCHANGED <<runs, bindings>>
  BY <1>1 DEF OneDriverInv, OnlyDriver, Drives
<1>2. CASE /\ Tables!Bindable(inserted, bindings, s, r)
           /\ runs' = inserted
           /\ bindings' = Tables!BindSession(bindings, s, r)
  <2>1. r \notin DOMAIN runs /\ s \notin DOMAIN bindings
    BY <1>2, FreshRunFreeSession DEF StartMission
  <2>2. /\ DOMAIN bindings' = DOMAIN bindings \cup {s}
        /\ bindings'[s] = [run |-> r, current |-> TRUE]
        /\ \A x \in DOMAIN bindings : bindings'[x] = bindings[x]
        /\ DOMAIN runs' = DOMAIN runs \cup {r}
    BY <1>2, <2>1 DEF Tables!BindSession, Tables!UpsertRun, Tables!Upsert
  <2>3. \A x \in DOMAIN bindings : bindings[x].run # r
    BY <2>1 DEF IInv, TablesInv
  <2>4. ASSUME NEW q \in DOMAIN runs'
        PROVE  \E y : OnlyDriver(bindings', y, q)
    <3>1. CASE q = r
      <4>1. OnlyDriver(bindings', s, q)
        BY <2>2, <2>3, <3>1 DEF Drives, OnlyDriver
      <4> QED
        BY <4>1
    <3>2. CASE q # r
      <4>1. \A x : Drives(bindings', x, q) <=> Drives(bindings, x, q)
        BY <2>1, <2>2, <3>2 DEF Drives
      <4> QED
        BY <2>2, <3>2, <4>1 DEF OneDriverInv, OnlyDriver
    <3> QED
      BY <3>1, <3>2
  <2> QED
    BY <2>4 DEF OneDriverInv, OnlyDriver
<1> QED
  BY <1>1, <1>2 DEF StartMission

LEMMA RotateOneDriver ==
  ASSUME CarefulHost, IInv, OneDriverInv, NEW old \in Sessions, NEW new \in Sessions,
         Rotate(old, new)
  PROVE  OneDriverInv'
<1> DEFINE r == bindings[old].run
<1>1. /\ old \in DOMAIN bindings /\ bindings[old].current /\ new \notin DOMAIN bindings
      /\ runs' = runs
  BY DEF Rotate
<1>2. bindings' = [x \in DOMAIN bindings \cup {new} |->
                    IF x = new THEN [run |-> r, current |-> TRUE]
                    ELSE IF x = old THEN [run |-> r, current |-> FALSE]
                    ELSE bindings[x]]
  BY RotateBindings
<1>3. Drives(bindings, old, r)
  BY <1>1 DEF Drives, IInv, TablesInv
<1>4. r \in DOMAIN runs
  BY <1>1 DEF IInv, TablesInv
<1> HIDE DEF r
<1>5. ASSUME NEW q \in DOMAIN runs
      PROVE  \E y : OnlyDriver(bindings', y, q)
  <2>1. CASE q = r
    <3>1. \A x : Drives(bindings, x, r) => x = old
      BY <1>3, <1>4 DEF OneDriverInv, OnlyDriver
    <3>2. Drives(bindings', new, r)
      BY <1>2 DEF Drives
    <3>3. \A x : Drives(bindings', x, r) => x = new
      BY <1>2, <3>1 DEF Drives
    <3> QED
      BY <2>1, <3>2, <3>3 DEF OnlyDriver
  <2>2. CASE q # r
    <3>1. ~Drives(bindings, old, q)
      BY <1>3, <2>2 DEF Drives
    <3>2. \A x : Drives(bindings', x, q) <=> Drives(bindings, x, q)
      BY <1>1, <1>2, <2>2, <3>1 DEF Drives
    <3> QED
      BY <3>2 DEF OneDriverInv, OnlyDriver
  <2> QED
    BY <2>1, <2>2
<1> QED
  BY <1>1, <1>5 DEF OneDriverInv, OnlyDriver

LEMMA NextOneDriver ==
  ASSUME CarefulHost, IInv, OneDriverInv, [Next]_vars
  PROVE  OneDriverInv'
<1>1. ASSUME DOMAIN runs' = DOMAIN runs, bindings' = bindings PROVE OneDriverInv'
  BY <1>1 DEF OneDriverInv, OnlyDriver, Drives
<1>2. ASSUME NEW t \in Threads, SaveState(t) PROVE OneDriverInv'
  <2>1. handlers[t].run \in DOMAIN runs
    BY <1>2 DEF SaveState, At, IInv, HandlersInv, HandlerOK, Knows, TablesInv
  <2>2. DOMAIN runs' = DOMAIN runs /\ bindings' = bindings
    BY <1>2, <2>1 DEF SaveState, Tables!UpsertRun, Tables!Upsert
  <2> QED
    BY <1>1, <2>2
<1>3. ASSUME NEW t \in Threads,
             \/ \E op \in Operations, s \in Sessions : GetGoalRunId(t, op, s)
             \/ IsCurrentSession(t) \/ LoadRun(t)
      PROVE  OneDriverInv'
  BY <1>1, <1>3 DEF GetGoalRunId, IsCurrentSession, LoadRun
<1>4. CASE UNCHANGED vars \/ \E pid \in Pids : ProcessExits(pid)
  BY <1>1, <1>4 DEF vars, ProcessExits
<1>5. ASSUME NEW t \in Threads, NEW r \in Runs, StartMission(t, r) PROVE OneDriverInv'
  BY <1>5, StartOneDriver
<1>6. ASSUME NEW old \in Sessions, NEW new \in Sessions, Rotate(old, new) PROVE OneDriverInv'
  BY <1>6, RotateOneDriver
<1> QED
  BY <1>2, <1>3, <1>4, <1>5, <1>6 DEF Next

LEMMA OneDriverCardinality == OneDriverInv /\ IInv => OneDriver
<1> SUFFICES ASSUME OneDriverInv, IInv, NEW r \in DOMAIN runs
             PROVE  Cardinality(Tables!CurrentSessions(bindings, r)) = 1
  BY DEF OneDriver
<1>1. PICK s : OnlyDriver(bindings, s, r)
  BY DEF OneDriverInv, OnlyDriver
<1>2. \A x : x \in Tables!CurrentSessions(bindings, r) <=> Drives(bindings, x, r)
  BY DEF Tables!CurrentSessions, Drives
<1>3. Tables!CurrentSessions(bindings, r) = {s}
  BY <1>1, <1>2 DEF OnlyDriver
<1> QED
  BY <1>3, FS_Singleton

\* Exactly one session drives a mission, whatever the handlers of other threads
\* are doing during the rotation, as long as the host rotates the driving
\* session to a new one (store.py, rotate_session_binding).
THEOREM OneDriverPerMission == CarefulHost => (Spec => []OneDriver)
<1>1. Init => OneDriverInv
  BY DEF Init, OneDriverInv
<1>2. CarefulHost /\ IInv /\ OneDriverInv /\ [Next]_vars => OneDriverInv'
  BY NextOneDriver
<1>3. CASE CarefulHost
  <2>1. IInv /\ OneDriverInv /\ [Next]_vars => OneDriverInv'
    BY <1>2, <1>3
  <2> QED
    BY <1>1, <2>1, InductiveInvariant, OneDriverCardinality, PTL DEF Spec
<1> QED
  BY <1>3

-----------------------------------------------------------------------------
(***************************************************************************)
(* Stopped missions, when handlers do not overlap.                         *)
(***************************************************************************)
OneAtATime == \A t, u \in Threads : t = u

\* What is about to be written makes no mission active that is not active now,
\* unless a resume writes it.
UpToDate(h) ==
  h.op \notin {"start", "resume"} /\ h.step = "write" /\ h.record.status = "active"
    => runs[h.run].record.status = "active"

SerialInv == \A t \in Threads : ~Idle(t) => UpToDate(handlers[t])

\* No answer of the evaluators and no command but resume activates a record.
LEMMA OnlyResumeActivates ==
  ASSUME NEW op \in Operations, op # "resume", NEW c \in Control, NEW d \in Results(op, c),
         d.status = "active"
  PROVE  c.status = "active"
BY DEF Results, Operations, Commands, Turns, Control, Ignores, Paused, Cleared, Waiting, Unwaited

\* The record a thread has just loaded is up to date.
LEMMA LoadRunSerial ==
  ASSUME IInv, OneAtATime, NEW t \in Threads, LoadRun(t)
  PROVE  SerialInv'
<1> DEFINE h == handlers[t]
           results == Results(h.op, runs[h.run].record)
<1>1. h \in Handler /\ HandlerOK(h, bindings, Limit) /\ h.step = "load_run"
  BY DEF LoadRun, At, IInv, HandlersInv, HandlerOK
<1>2. h.op \in Operations /\ h.run \in DOMAIN runs /\ runs[h.run].record \in Control
  BY <1>1 DEF HandlerOK, Knows, IInv, TablesInv, Handler
<1>3. handlers \in [Threads -> Handler \cup {Null}]
  BY DEF IInv, HandlersInv
<1>4. CASE Return(t)
  <2>1. \A u \in Threads : handlers'[u] = Null
    BY <1>3, <1>4 DEF Return, Goto, OneAtATime
  <2> QED
    BY <2>1 DEF SerialInv, Idle
<1>5. ASSUME NEW record \in results, Goto(t, [h EXCEPT !.step = "write", !.record = record])
      PROVE  SerialInv'
  <2> DEFINE next == [h EXCEPT !.step = "write", !.record = record]
  <2>1. \A u \in Threads : handlers'[u] = next
    BY <1>3, <1>5 DEF Goto, OneAtATime
  <2>2. next.op = h.op /\ next.run = h.run /\ next.record = record
    BY <1>1 DEF Handler
  <2>3. h.op # "resume" /\ record.status = "active" => runs[h.run].record.status = "active"
    BY <1>2, <1>5, OnlyResumeActivates
  <2>4. runs' = runs
    BY DEF LoadRun
  <2> HIDE DEF next
  <2> QED
    BY <2>1, <2>2, <2>3, <2>4 DEF SerialInv, UpToDate
<1> QED
  BY <1>4, <1>5 DEF LoadRun

\* After its write the only thread is idle.
LEMMA ReturnSerial ==
  ASSUME IInv, OneAtATime, NEW t \in Threads, Return(t)
  PROVE  SerialInv'
<1>1. \A u \in Threads : handlers'[u] = Null
  BY DEF Return, Goto, OneAtATime, IInv, HandlersInv
<1> QED
  BY <1>1 DEF SerialInv, Idle

\* A handler that has not reached its write has nothing to be wrong about.
LEMMA EarlierSerial ==
  ASSUME IInv, SerialInv, NEW t \in Threads, NEW h,
         h = Null \/ h.op = "start" \/ h.step # "write", Goto(t, h), runs' = runs
  PROVE  SerialInv'
<1>1. ASSUME NEW u \in Threads PROVE handlers'[u] = IF u = t THEN h ELSE handlers[u]
  BY DEF Goto, IInv, HandlersInv
<1> QED
  BY <1>1 DEF SerialInv, UpToDate, Idle

LEMMA NextSerial ==
  ASSUME IInv, OneAtATime, SerialInv, [Next]_vars
  PROVE  SerialInv'
<1>1. ASSUME NEW t \in Threads, NEW op \in Operations, NEW s \in Sessions, NoState(t, op, s),
             runs' = runs
      PROVE  SerialInv'
  BY <1>1, EarlierSerial, ReturnSerial DEF NoState
<1>2. ASSUME NEW t \in Threads, NEW op \in Operations, NEW s \in Sessions,
             GetGoalRunId(t, op, s)
      PROVE  SerialInv'
  <2>1. CASE s \in DOMAIN bindings
    BY <1>2, <2>1, EarlierSerial DEF GetGoalRunId
  <2>2. CASE s \notin DOMAIN bindings
    BY <1>1, <1>2, <2>2 DEF GetGoalRunId
  <2> QED
    BY <2>1, <2>2
<1>3. ASSUME NEW t \in Threads, IsCurrentSession(t) PROVE SerialInv'
  <2> DEFINE h == handlers[t]
  <2>1. h \in Handler
    BY <1>3 DEF IsCurrentSession, At, IInv, HandlersInv
  <2>2. CASE bindings[h.session].current
    <3>1. [h EXCEPT !.step = "load_run"].step # "write"
      BY <2>1 DEF Handler
    <3> QED
      BY <1>3, <2>2, <3>1, EarlierSerial DEF IsCurrentSession
  <2>3. CASE ~bindings[h.session].current
    BY <1>1, <1>3, <2>1, <2>3 DEF IsCurrentSession, Handler
  <2> QED
    BY <2>2, <2>3
<1>4. ASSUME NEW t \in Threads,
             LoadRun(t) \/ SaveState(t) \/ \E r \in Runs : StartMission(t, r)
      PROVE  SerialInv'
  BY <1>4, LoadRunSerial, ReturnSerial DEF SaveState, StartMission
<1>5. ASSUME UNCHANGED <<runs, handlers>> PROVE SerialInv'
  BY <1>5 DEF SerialInv, UpToDate, Idle
<1>6. CASE \E old, new \in Sessions : Rotate(old, new)
  BY <1>5, <1>6 DEF Rotate
<1>7. CASE UNCHANGED vars \/ \E pid \in Pids : ProcessExits(pid)
  BY <1>5, <1>7 DEF vars, ProcessExits
<1> QED
  BY <1>2, <1>3, <1>4, <1>6, <1>7 DEF Next

\* Of all steps only the write of a resume makes a stopped mission active.
LEMMA StoppedStep ==
  ASSUME IInv, SerialInv, [Next]_vars, NEW r \in DOMAIN runs, Stopped(r),
         runs'[r].record.status = "active"
  PROVE  resumes' > resumes
<1>1. runs' # runs
  BY DEF Stopped
<1>2. ASSUME NEW t \in Threads, NEW q \in Runs, StartMission(t, q) PROVE FALSE
  <2>1. runs'[r] = runs[r]
    BY <1>1, <1>2 DEF StartMission, Tables!UpsertRun, Tables!Upsert
  <2> QED
    BY <2>1 DEF Stopped
<1>3. PICK t \in Threads : SaveState(t)
  BY <1>1, <1>2 DEF Next, vars, GetGoalRunId, IsCurrentSession, LoadRun, Rotate, ProcessExits
<1> DEFINE h == handlers[t]
<1>4. /\ ~Idle(t) /\ h.step = "write" /\ h.op # "start"
      /\ runs' = Tables!UpsertRun(runs, h.run, h.record, Null)
  BY <1>3 DEF SaveState, At, Idle
<1>5. h.run = r /\ h.record.status = "active"
  BY <1>4 DEF Tables!UpsertRun, Tables!Upsert, Stopped
<1>6. h.op = "resume"
  BY <1>4, <1>5 DEF SerialInv, UpToDate, Stopped
<1> QED
  BY <1>3, <1>6 DEF SaveState, IInv, BudgetInv

\* One handler at a time, a paused, cleared or finished mission runs again only
\* because a resume was accepted, whatever sessions are bound and rotated
\* meanwhile: what lost_update shows needs two handlers that overlap
\* (runtime.py, after_turn; save_state).
THEOREM SerialHandlersStayStopped == OneAtATime => (Spec => StoppedUntilResumed)
<1>1. Init => SerialInv
  BY DEF Init, SerialInv, Idle
<1>2. OneAtATime /\ IInv /\ SerialInv /\ [Next]_vars => SerialInv'
  BY NextSerial
<1>3. IInv /\ SerialInv /\ [Next]_vars
        => [\A r \in DOMAIN runs :
              Stopped(r) /\ runs'[r].record.status = "active" => resumes' > resumes]_vars
  BY StoppedStep
<1>4. CASE OneAtATime
  <2>1. IInv /\ SerialInv /\ [Next]_vars => SerialInv'
    BY <1>2, <1>4
  <2> QED
    BY <1>1, <1>3, <2>1, InductiveInvariant, PTL DEF Spec, StoppedUntilResumed
<1> QED
  BY <1>4
=============================================================================
