------------------------- MODULE RuntimeInterleaving -------------------------
(***************************************************************************)
(* The handlers of RuntimeManager (runtime.py) on the store, without the   *)
(* atomicity that MissionRuntime gives them.  A handler finds its mission  *)
(* with three separate reads, works on the record it loaded (for a turn,   *)
(* while the judge and the critic are asked), and writes the whole record  *)
(* back; SQLite serialises the statements, nothing serialises the          *)
(* handlers.  Threads are the workers of the host, or other processes on   *)
(* the same profile: commands are registered as busy-safe, so they run     *)
(* while a turn is being evaluated.                                        *)
(*                                                                         *)
(* The answers of the evaluators are drawn when the record is loaded: they *)
(* depend on it and on nothing that is read later.                         *)
(***************************************************************************)
EXTENDS MissionControl, FiniteSets

CONSTANTS
  Threads,
  Sessions,
  Runs,
  Null,           \* nothing: no run, no record, an idle thread
  CarefulHost,    \* the host rotates only the session that drives the mission
  ResumeBound,    \* bound on accepted resumes, for TLC only
  TurnBound       \* bound on turns_used, for TLC only

ASSUME NullAssumption == Null \notin Runs \cup Control
ASSUME BoundsAssumption == ResumeBound \in Nat /\ TurnBound \in Nat
ASSUME CarefulHostAssumption == CarefulHost \in BOOLEAN

Tables == INSTANCE StoreTables
            WITH Records <- Control, Kinds <- {}, Origins <- {}, Sources <- {}

VARIABLES
  runs, bindings,  \* the tables, as in StoreTables
  handlers,        \* what each thread is executing
  alive,           \* live processes (external)
  resumes          \* history: resumes accepted

vars == <<runs, bindings, handlers, alive, resumes>>

Commands == {"pause", "resume", "clear", "wait", "unwait", "replan"}
Turns == {"turn", "preempted_turn"}
Operations == {"start"} \cup Commands \cup Turns

Steps == {"is_current_session", "load_run", "write"}  \* what the handler does next

Idle(t) == handlers[t] = Null
At(t, step) == handlers[t] # Null /\ handlers[t].step = step
Goto(t, h) == handlers' = [handlers EXCEPT ![t] = h]
Return(t) == Goto(t, Null)

Init ==
  /\ runs = <<>>
  /\ bindings = <<>>
  /\ handlers = [t \in Threads |-> Null]
  /\ alive = Pids
  /\ resumes = 0

-----------------------------------------------------------------------------
\* load_state_for_session gave None: start goes on, the others return.
NoState(t, op, s) ==
  IF op = "start"
  THEN Goto(t, [op |-> op, session |-> s, step |-> "write", run |-> Null, record |-> Null])
  ELSE Return(t)

\* A handler starts.  A session has one turn at a time; commands come any time.
GetGoalRunId(t, op, s) ==
  /\ Idle(t)
  /\ op \in Turns =>
       \A u \in Threads : ~Idle(u) /\ handlers[u].op \in Turns => handlers[u].session # s
  /\ IF s \in DOMAIN bindings
     THEN Goto(t, [op |-> op, session |-> s, step |-> "is_current_session",
                   run |-> bindings[s].run, record |-> Null])
     ELSE NoState(t, op, s)
  /\ UNCHANGED <<runs, bindings, alive, resumes>>

IsCurrentSession(t) ==
  /\ At(t, "is_current_session")
  /\ LET h == handlers[t]
     IN  IF bindings[h.session].current
         THEN Goto(t, [h EXCEPT !.step = "load_run"])
         ELSE NoState(t, h.op, h.session)
  /\ UNCHANGED <<runs, bindings, alive, resumes>>

Evaluated(c) ==
  LET counted == Counted(c, alive)
  IN  {[counted EXCEPT !.status = StatusAfter(Verdict(counted, terminal, complete))] :
         terminal, complete \in BOOLEAN}

\* The records a handler may write back for the record c it loaded.
Results(op, c) ==
  CASE op = "pause"  -> IF PauseAccepts(c) THEN {Paused(c)} ELSE {}
    [] op = "resume" -> IF ResumeAccepts(c) THEN {Resumed(c)} ELSE {}
    [] op = "clear"  -> IF ClearAccepts(c) THEN {Cleared(c)} ELSE {}
    [] op = "wait"   -> {Waiting(c, pid) : pid \in Pids}
    [] op = "unwait" -> {Unwaited(c)}
    [] op = "replan" -> {c}
    [] op = "preempted_turn" -> IF Ignores(c) THEN {} ELSE {Paused(c)}
    [] op = "turn"   -> IF Ignores(c) THEN {} ELSE IF Barred(c, alive) THEN {c} ELSE Evaluated(c)
    [] op = "start"  -> {}

LoadRun(t) ==
  /\ At(t, "load_run")
  /\ LET h == handlers[t]
         results == Results(h.op, runs[h.run].record)
     IN  \/ results = {} /\ Return(t)
         \/ \E record \in results :
              /\ record.turns <= TurnBound
              /\ Goto(t, [h EXCEPT !.step = "write", !.record = record])
  /\ UNCHANGED <<runs, bindings, alive, resumes>>

\* save_run_with_events replaces the record, whatever it holds by now.
SaveState(t) ==
  /\ At(t, "write")
  /\ LET h == handlers[t]
     IN  /\ h.op # "start"
         /\ h.op = "resume" => resumes < ResumeBound
         /\ runs' = Tables!UpsertRun(runs, h.run, h.record, Null)
         /\ resumes' = IF h.op = "resume" THEN resumes + 1 ELSE resumes
  /\ Return(t)
  /\ UNCHANGED <<bindings, alive>>

\* Fault: the run and its binding are written by two transactions.
StartInTwoTransactions(t, r) ==
  /\ At(t, "write")
  /\ handlers[t].op = "start"
  /\ r \notin DOMAIN runs
  /\ runs' = Tables!UpsertRun(runs, r, Started, Null)
  /\ LET s == handlers[t].session
     IN  bindings' = IF Tables!Bindable(runs', bindings, s, r)
                     THEN Tables!BindSession(bindings, s, r) ELSE bindings
  /\ Return(t)
  /\ UNCHANGED <<alive, resumes>>

\* start imports the run, its binding and its first event in one transaction;
\* a session that is bound by now raises and rolls the run back.
StartMission(t, r) ==
  /\ At(t, "write")
  /\ handlers[t].op = "start"
  /\ r \notin DOMAIN runs
  /\ LET s == handlers[t].session
         inserted == Tables!UpsertRun(runs, r, Started, Null)
     IN  IF Tables!Bindable(inserted, bindings, s, r)
         THEN /\ runs' = inserted
              /\ bindings' = Tables!BindSession(bindings, s, r)
         ELSE UNCHANGED <<runs, bindings>>
  /\ Return(t)
  /\ UNCHANGED <<alive, resumes>>

\* on_session_rotate: one transaction of the store, in the thread of the host.
Rotate(old, new) ==
  /\ old \in DOMAIN bindings
  /\ CarefulHost => bindings[old].current /\ new \notin DOMAIN bindings
  /\ LET r == bindings[old].run
         demoted == Tables!Demote(bindings, old)
     IN  /\ Tables!Bindable(runs, demoted, new, r)
         /\ bindings' = Tables!BindSession(demoted, new, r)
  /\ UNCHANGED <<runs, handlers, alive, resumes>>

\* External: a process a mission may wait for ends.
ProcessExits(pid) ==
  /\ pid \in alive
  /\ alive' = alive \ {pid}
  /\ UNCHANGED <<runs, bindings, handlers, resumes>>

Next ==
  \/ \E t \in Threads, op \in Operations, s \in Sessions : GetGoalRunId(t, op, s)
  \/ \E t \in Threads : IsCurrentSession(t) \/ LoadRun(t) \/ SaveState(t)
  \/ \E t \in Threads, r \in Runs : StartMission(t, r)
  \/ \E old, new \in Sessions : Rotate(old, new)
  \/ \E pid \in Pids : ProcessExits(pid)

Spec == Init /\ [][Next]_vars

-----------------------------------------------------------------------------
Handler ==
  [op : Operations, session : Sessions, step : Steps,
   run : Runs \cup {Null}, record : Control \cup {Null}]

\* The tables keep their shape, and a handler past its first read holds a run.
TypeOK ==
  /\ Tables!TablesOK(runs, bindings, <<>>)
  /\ handlers \in [Threads -> Handler \cup {Null}]
  /\ \A t \in Threads : At(t, "load_run") => handlers[t].run \in DOMAIN runs
  /\ alive \subseteq Pids
  /\ resumes \in Nat

\* Two starts that race for a session leave no half-started mission: every run
\* belongs to some session (runtime.py, start; store.py, import_run_bundle).
NoStrayRuns ==
  \A r \in DOMAIN runs : \E s \in DOMAIN bindings : bindings[s].run = r

\* What a handler looked up stays true until it writes: it writes to the run
\* its session is bound to, whatever was started or rotated in between
\* (runtime.py, load_state_for_session; store.py, _bind_session).
WritesOwnMission ==
  \A t \in Threads :
    ~Idle(t) /\ handlers[t].run # Null
      => /\ handlers[t].session \in DOMAIN bindings
         /\ bindings[handlers[t].session].run = handlers[t].run

\* Lost updates may roll turns_used back, but never push it past the budget by
\* more than one turn for each accepted resume (runtime.py, after_turn).
BudgetOverdrawnByResumeOnly ==
  \A r \in DOMAIN runs : runs[r].record.turns <= MaxTurns + resumes

\* Under a careful host exactly one session drives a mission: rotation demotes
\* the old binding and inserts the new one in one transaction
\* (docs/architecture.md:40; store.py, rotate_session_binding).
OneDriver ==
  \A r \in DOMAIN runs : Cardinality(Tables!CurrentSessions(bindings, r)) = 1

Stopped(r) == runs[r].record.status # "active"

\* A mission that was paused, cleared or done runs again only because a resume
\* was accepted: "pause, done and noop must not produce a hidden continuation"
\* (docs/repository-cleanup-and-plugin-migration-spec.md:212).
StoppedUntilResumed ==
  [][\A r \in DOMAIN runs :
       Stopped(r) /\ runs'[r].record.status = "active" => resumes' > resumes]_vars
=============================================================================
