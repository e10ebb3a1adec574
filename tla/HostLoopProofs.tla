--------------------------- MODULE HostLoopProofs ---------------------------
(***************************************************************************)
(* Proofs about HostLoop for every number of commands, messages, turns and *)
(* processes, every answer of the evaluators and every fault.              *)
(***************************************************************************)
EXTENDS HostLoop, MissionControlProofs

-----------------------------------------------------------------------------
(***************************************************************************)
(* The record.                                                             *)
(***************************************************************************)
LifeStatus(c) == IF c = NoMission THEN "none" ELSE c.status
LifeTurns(c) == IF c = NoMission THEN 0 ELSE c.turns

\* A step of the lifecycle between two values of the variable control.
LifeMoves(c, d) ==
  /\ d \in Control \cup {NoMission}
  /\ Moves(LifeStatus(c), LifeTurns(c), LifeStatus(d), LifeTurns(d))

LEMMA LifeOfRecord ==
  ASSUME NEW c \in Control, NEW d \in Control, RecordMoves(c, d)
  PROVE  LifeMoves(c, d)
  BY LoopAssumption DEF LifeMoves, LifeStatus, LifeTurns, RecordMoves

LEMMA NoLifeStep ==
  ASSUME NEW c \in Control \cup {NoMission}
  PROVE  LifeMoves(c, c)
  BY DEF LifeMoves, Moves

LEMMA EvaluatedRecord ==
  ASSUME TypeOK, NEW terminal \in BOOLEAN, NEW complete \in BOOLEAN, NEW again \in BOOLEAN,
         EvaluateTurn(terminal, complete, again)
  PROVE  /\ control \in Control /\ control' \in Control
         /\ RecordMoves(control, control')
         /\ control'.turns = control.turns + 1
         /\ Counted(control, alive).turns = control.turns + 1
         /\ control'.status = "active" <=>
              ActionOf(Verdict(Counted(control, alive), terminal, complete)) = "continue"
<1>1. control \in Control /\ ~Ignores(control)
  BY DEF TypeOK, EvaluateTurn, Serves, Bound
<1>2. control' = [Counted(control, alive) EXCEPT
                    !.status = StatusAfter(Verdict(Counted(control, alive), terminal, complete))]
  BY DEF EvaluateTurn
<1>3. Counted(control, alive).turns = control.turns + 1
  BY <1>1, CountedRecord
<1> QED
  BY <1>1, <1>2, <1>3, EvaluatedMoves

\* What a step does to the record: nothing, the start of a mission, a command
\* or a preemption, or an evaluated turn.
LEMMA RecordStep ==
  ASSUME TypeOK, [Next]_vars
  PROVE  \/ UNCHANGED control
         \/ control = NoMission /\ control' = Started
         \/ /\ control \in Control /\ control' \in Control
            /\ RecordMoves(control, control') /\ control'.turns = control.turns
         \/ \E terminal, complete, again \in BOOLEAN : EvaluateTurn(terminal, complete, again)
<1>1. Bound => control \in Control
  BY DEF TypeOK, Bound
<1>3. ASSUME NEW accepted \in Enqueues, Start(accepted)
      PROVE  control = NoMission /\ control' = Started
  BY <1>3 DEF Start, Bound
<1>4. ASSUME NEW accepted \in Enqueues, Resume(accepted)
      PROVE  /\ control \in Control /\ control' \in Control
             /\ RecordMoves(control, control') /\ control'.turns = control.turns
  BY <1>1, <1>4, CommandMoves DEF Resume, Resumed, Control
<1>5. ASSUME Pause \/ Clear \/ Unwait
      PROVE  /\ control \in Control /\ control' \in Control
             /\ RecordMoves(control, control') /\ control'.turns = control.turns
  BY <1>1, <1>5, CommandMoves DEF Pause, Clear, Unwait, SaveOnly, Paused, Cleared, Unwaited, Control
<1>6. ASSUME NEW pid \in Pids, Wait(pid)
      PROVE  /\ control \in Control /\ control' \in Control
             /\ RecordMoves(control, control') /\ control'.turns = control.turns
  BY <1>1, <1>6, WaitingMoves DEF Wait, SaveOnly, Waiting, Control
<1>7. ASSUME NEW interrupted \in BOOLEAN, NEW again \in BOOLEAN, PreemptTurn(interrupted, again)
      PROVE  /\ control \in Control /\ control' \in Control
             /\ RecordMoves(control, control') /\ control'.turns = control.turns
  BY <1>1, <1>7, CommandMoves DEF PreemptTurn, Serves, Paused, Control
<1>8. ASSUME NEW accepted \in Enqueues, Replan(accepted) PROVE UNCHANGED control
  BY <1>8 DEF Replan
<1>9. ASSUME NEW again \in BOOLEAN, IgnoreTurn(again) \/ BarredTurn(again) \/ FailTurn(again)
      PROVE  UNCHANGED control
  BY <1>9 DEF IgnoreTurn, BarredTurn, FailTurn
<1>10. ASSUME SendMessage \/ BeginTurn \/ SkipControllers \/ OrdinaryGoal \/ Restart
              \/ \E pid \in Pids : ProcessExits(pid)
       PROVE  UNCHANGED control
  BY <1>10 DEF SendMessage, BeginTurn, SkipControllers, OrdinaryGoal, Restart, ProcessExits
<1>11. CASE UNCHANGED vars
  BY <1>11 DEF vars
<1> QED
  BY <1>3, <1>4, <1>5, <1>6, <1>7, <1>8, <1>9, <1>10, <1>11 DEF Next, EndTurn

LEMMA ControlStep == TypeOK /\ [Next]_vars => LifeMoves(control, control')
<1> SUFFICES ASSUME TypeOK, [Next]_vars PROVE LifeMoves(control, control')
  OBVIOUS
<1>1. CASE UNCHANGED control
  BY <1>1, NoLifeStep DEF TypeOK
<1>2. CASE control = NoMission /\ control' = Started
  BY <1>2, StartedTyped, LoopAssumption DEF LifeMoves, LifeStatus, LifeTurns, Moves
<1>3. CASE control \in Control /\ control' \in Control /\ RecordMoves(control, control')
  BY <1>3, LifeOfRecord
<1>4. ASSUME NEW terminal \in BOOLEAN, NEW complete \in BOOLEAN, NEW again \in BOOLEAN,
             EvaluateTurn(terminal, complete, again)
      PROVE  LifeMoves(control, control')
  BY <1>4, EvaluatedRecord, LifeOfRecord
<1> QED
  BY <1>1, <1>2, <1>3, <1>4, RecordStep

-----------------------------------------------------------------------------
(***************************************************************************)
(* The pending input.  A step moves prompts and continuations between the  *)
(* queue and the turn under way; what it may do is stated over values, so  *)
(* that the arithmetic is done once.                                       *)
(***************************************************************************)
Flight(p, t) == p + (IF t = "auto" THEN 1 ELSE 0)

Turns == {"none", "auto", "user"}

\* The counters of the host after a step: natural numbers.
CountersOK(p, m, v, g, i, n) == {p, m, v, g, i, n} \subseteq Nat

LEMMA Successors ==
  ASSUME NEW n \in Nat
  PROVE  n + 1 \in Nat /\ (n > 0 => n - 1 \in Nat)
  OBVIOUS

LEMMA FollowUpCounters ==
  ASSUME TypeOK, NEW accepted \in BOOLEAN, FollowUp(accepted)
  PROVE  /\ prompts' \in Nat /\ issued' \in Nat
         /\ UNCHANGED <<faults, alive, ordinary, messages, turn, version, grants, sent>>
<1>1. prompts \in Nat /\ issued \in Nat
  BY DEF TypeOK
<1> QED
  BY <1>1, Successors DEF FollowUp, env, host

LEMMA EndOfTurn ==
  ASSUME TypeOK, NEW again \in BOOLEAN, turn # "none", Finish(again)
  PROVE  turn' \in Turns
  BY DEF TypeOK, Finish, Turns

LEMMA EvaluatedCounters ==
  ASSUME TypeOK, NEW terminal \in BOOLEAN, NEW complete \in BOOLEAN, NEW again \in BOOLEAN,
         EvaluateTurn(terminal, complete, again)
  PROVE  /\ prompts' \in Nat /\ version' \in Nat /\ grants' \in Nat /\ turn' \in Turns
         /\ UNCHANGED <<faults, alive, ordinary, messages, issued, sent>>
<1>1. prompts \in Nat /\ version \in Nat /\ grants \in Nat
  BY DEF TypeOK
<1>2. Counted(control, alive).turns \in Nat
  BY EvaluatedRecord DEF Control
<1>3. turn' \in Turns
  BY EndOfTurn DEF EvaluateTurn, Serves
<1>4. \/ NoContinuation
      \/ prompts' = prompts + 1 /\ version' = Counted(control, alive).turns /\ grants' = grants + 1
  BY DEF EvaluateTurn, Continuation
<1>5. UNCHANGED <<faults, alive, ordinary, messages, issued, sent>>
  BY DEF EvaluateTurn, env
<1> QED
  BY <1>1, <1>2, <1>3, <1>4, <1>5, Successors DEF NoContinuation, host

LEMMA TypeStep == TypeOK /\ [Next]_vars => TypeOK'
<1> SUFFICES ASSUME TypeOK, [Next]_vars PROVE TypeOK'
  OBVIOUS
<1>1. control' \in Control \cup {NoMission}
  BY ControlStep DEF LifeMoves
<1>2. ASSUME NEW accepted \in Enqueues, Start(accepted) \/ Resume(accepted) \/ Replan(accepted)
      PROVE  TypeOK'
  <2>1. accepted \in BOOLEAN /\ FollowUp(accepted)
    BY <1>2, LoopAssumption DEF Start, Resume, Replan
  <2> QED
    BY <1>1, <2>1, FollowUpCounters DEF TypeOK
<1>3. CASE Pause \/ Clear \/ Unwait \/ \E pid \in Pids : Wait(pid)
  <2>1. PICK c : SaveOnly(c)
    BY <1>3 DEF Pause, Clear, Unwait, Wait
  <2> QED
    BY <1>1, <2>1 DEF TypeOK, SaveOnly, env, host
<1>4. CASE SendMessage
  <2>1. sent \in Nat /\ messages \in Nat
    BY DEF TypeOK
  <2> QED
    BY <1>1, <1>4, <2>1, Successors DEF TypeOK, SendMessage, env, host
<1>5. CASE BeginTurn
  <2>1. prompts \in Nat /\ messages \in Nat
    BY DEF TypeOK
  <2>2. messages > 0 \/ prompts > 0
    BY <1>5, <2>1 DEF BeginTurn
  <2>3. prompts' \in Nat /\ messages' \in Nat /\ turn' \in Turns /\ grants' \in Nat
    BY <1>5, <2>1, <2>2, Successors DEF BeginTurn, Turns
  <2> QED
    BY <1>1, <1>5, <2>3 DEF TypeOK, BeginTurn, env, Turns
<1>6. ASSUME SkipControllers \/ \E again \in BOOLEAN :
               \/ IgnoreTurn(again) \/ BarredTurn(again) \/ FailTurn(again)
               \/ \E interrupted \in BOOLEAN : PreemptTurn(interrupted, again)
      PROVE  TypeOK'
  <2>1. /\ UNCHANGED <<faults, alive, ordinary, prompts, messages, version, grants, issued, sent>>
        /\ turn' \in Turns
    BY <1>6, EndOfTurn DEF SkipControllers, IgnoreTurn, BarredTurn, FailTurn, PreemptTurn, Serves,
          NoContinuation, env, host, Turns
  <2> QED
    BY <1>1, <2>1 DEF TypeOK, Turns
<1>7. ASSUME NEW terminal \in BOOLEAN, NEW complete \in BOOLEAN, NEW again \in BOOLEAN,
             EvaluateTurn(terminal, complete, again)
      PROVE  TypeOK'
  BY <1>1, <1>7, EvaluatedCounters DEF TypeOK, Turns
<1>8. ASSUME NEW pid \in Pids, ProcessExits(pid)
      PROVE  TypeOK'
  BY <1>1, <1>8 DEF TypeOK, ProcessExits, host
<1>9. CASE OrdinaryGoal
  BY <1>1, <1>9 DEF TypeOK, OrdinaryGoal, host
<1>10. CASE Restart
  BY <1>1, <1>10 DEF TypeOK, Restart, env
<1>11. CASE UNCHANGED vars
  BY <1>1, <1>11 DEF TypeOK, vars
<1> QED
  BY <1>2, <1>3, <1>4, <1>5, <1>6, <1>7, <1>8, <1>9, <1>10, <1>11 DEF Next, EndTurn

LEMMA InitTyped == Init => TypeOK
<1>1. Init => ordinary \in BOOLEAN
  BY Zenon DEF Init
<1>2. Init => {prompts, messages, version, grants, issued, sent} \subseteq Nat
  BY DEF Init
<1>3. Init => /\ faults \subseteq Faults /\ control \in Control \cup {NoMission}
              /\ alive \subseteq Pids /\ turn \in {"none", "auto", "user"}
  BY DEF Init
<1> QED
  BY <1>1, <1>2, <1>3 DEF TypeOK

\* The record, the pending input and the turn keep their types whatever the
\* host does and the evaluators answer (runtime.py, command.py).
THEOREM TypeCorrect == Spec => []TypeOK
  BY InitTyped, TypeStep, PTL DEF Spec

-----------------------------------------------------------------------------
(***************************************************************************)
(* The loop implements MissionLifecycle.                                   *)
(***************************************************************************)
LEMMA LifecycleStep ==
  LifeMoves(control, control') => [Lifecycle!Next]_Lifecycle!vars
  BY DEF LifeMoves, LifeStatus, LifeTurns, Moves, Lifecycle!Next, Lifecycle!vars,
     Lifecycle!Begin, Lifecycle!Work, Lifecycle!Suspend, Lifecycle!Resume, Lifecycle!Abandon

\* In the loop of the host, with every fault, a mission keeps to its lifecycle
\* and its budget (runtime.py, RuntimeManager; command.py).
THEOREM StaysOnLifecycle == Spec => ImplementsLifecycle
<1>1. Init => Lifecycle!Init
  BY DEF Init, Lifecycle!Init
<1>2. TypeOK /\ [Next]_vars => [Lifecycle!Next]_Lifecycle!vars
  BY ControlStep, LifecycleStep
<1> QED
  BY <1>1, <1>2, TypeCorrect, PTL DEF Spec, ImplementsLifecycle, Lifecycle!Spec

-----------------------------------------------------------------------------
(***************************************************************************)
(* Chains do not multiply.  A turn hands on at most the prompt it was      *)
(* started with; the argument needs that turns are not reported twice.     *)
(***************************************************************************)
LEMMA FlightOf ==
  ASSUME NEW p \in Nat
  PROVE  /\ Flight(p, "auto") = p + 1 /\ Flight(p, "none") = p /\ Flight(p, "user") = p
         /\ \A t : Flight(p, t) \in Nat /\ Flight(p, t) >= p
  BY DEF Flight

\* One more prompt for one more command.
LEMMA PaidFor ==
  ASSUME NEW p \in Nat, NEW i \in Nat, NEW t, Flight(p, t) <= i
  PROVE  Flight(p + 1, t) <= i + 1
  BY DEF Flight

\* A turn that ends leaves its prompt, or nothing.
LEMMA HandedOn ==
  ASSUME NEW p \in Nat, NEW i \in Nat, NEW t, Flight(p, t) <= i, NEW q,
         q = p \/ (t = "auto" /\ q = p + 1)
  PROVE  Flight(q, "none") <= i
  BY DEF Flight

\* A turn that begins takes its prompt with it.
LEMMA TakenAlong ==
  ASSUME NEW p \in Nat, p > 0
  PROVE  Flight(p - 1, "auto") = Flight(p, "none")
  BY DEF Flight

Paid == Flight(prompts, turn) <= issued

LEMMA PaidStep ==
  ASSUME TypeOK, Paid, [Next]_vars, "redeliver" \notin faults
  PROVE  Paid'
<1>1. prompts \in Nat /\ messages \in Nat /\ issued \in Nat /\ turn \in Turns
  BY DEF TypeOK, Turns
<1>2. ASSUME NEW accepted \in Enqueues, Start(accepted) \/ Resume(accepted) \/ Replan(accepted)
      PROVE  Paid'
  <2>1. FollowUp(accepted)
    BY <1>2 DEF Start, Resume, Replan
  <2> QED
    BY <1>1, <2>1, PaidFor DEF FollowUp, Paid
<1>3. CASE UNCHANGED <<prompts, turn, issued>>
  BY <1>3 DEF Paid
<1>4. CASE BeginTurn
  <2>1. turn = "none" /\ issued' = issued
    BY <1>4 DEF BeginTurn
  <2>2. CASE messages > 0
    BY <1>1, <1>4, <2>1, <2>2, FlightOf DEF BeginTurn, Paid
  <2>3. CASE ~(messages > 0)
    <3>1. prompts > 0 /\ prompts' = prompts - 1 /\ turn' = "auto"
      BY <1>1, <1>4, <2>3 DEF BeginTurn
    <3> QED
      BY <1>1, <2>1, <3>1, TakenAlong DEF Paid
  <2> QED
    BY <2>2, <2>3
<1>5. ASSUME turn' = "none", prompts' = prompts, issued' = issued
      PROVE  Paid'
  BY <1>1, <1>5, HandedOn DEF Paid
<1>6. ASSUME SkipControllers \/ \E again \in BOOLEAN :
               \/ IgnoreTurn(again) \/ BarredTurn(again) \/ FailTurn(again)
               \/ \E interrupted \in BOOLEAN : PreemptTurn(interrupted, again)
      PROVE  Paid'
  <2>1. turn' = "none" /\ prompts' = prompts /\ issued' = issued
    BY <1>6 DEF SkipControllers, IgnoreTurn, BarredTurn, FailTurn, PreemptTurn, Finish, NoContinuation
  <2> QED
    BY <1>5, <2>1
<1>7. ASSUME NEW terminal \in BOOLEAN, NEW complete \in BOOLEAN, NEW again \in BOOLEAN,
             EvaluateTurn(terminal, complete, again)
      PROVE  Paid'
  <2>1. turn = "auto" /\ turn' = "none" /\ issued' = issued
    BY <1>1, <1>7 DEF EvaluateTurn, Serves, Preempts, Finish, Turns
  <2>2. prompts' = prompts \/ prompts' = prompts + 1
    BY <1>7 DEF EvaluateTurn, Continuation, NoContinuation
  <2> QED
    BY <1>1, <2>1, <2>2, HandedOn DEF Paid
<1>8. CASE Restart
  BY <1>1, <1>8, FlightOf DEF Restart, Paid
<1>9. ASSUME Pause \/ Clear \/ Unwait \/ (\E pid \in Pids : Wait(pid) \/ ProcessExits(pid))
             \/ SendMessage \/ OrdinaryGoal \/ UNCHANGED vars
      PROVE  UNCHANGED <<prompts, turn, issued>>
  BY <1>9 DEF Pause, Clear, Unwait, Wait, SaveOnly, ProcessExits, SendMessage, OrdinaryGoal, vars
<1> QED
  BY <1>2, <1>3, <1>4, <1>6, <1>7, <1>8, <1>9 DEF Next, EndTurn

LEMMA FaultsFixed == [Next]_vars => UNCHANGED faults
<1> SUFFICES ASSUME [Next]_vars PROVE UNCHANGED faults
  OBVIOUS
<1>1. ASSUME NEW accepted \in Enqueues, Start(accepted) \/ Resume(accepted) \/ Replan(accepted)
      PROVE  UNCHANGED faults
  BY <1>1 DEF Start, Resume, Replan, FollowUp, env
<1>2. ASSUME Pause \/ Clear \/ Unwait \/ (\E pid \in Pids : Wait(pid) \/ ProcessExits(pid))
      PROVE  UNCHANGED faults
  BY <1>2 DEF Pause, Clear, Unwait, Wait, SaveOnly, ProcessExits, env
<1>3. ASSUME SendMessage \/ BeginTurn \/ OrdinaryGoal \/ Restart \/ UNCHANGED vars
      PROVE  UNCHANGED faults
  BY <1>3 DEF SendMessage, BeginTurn, OrdinaryGoal, Restart, env, vars
<1>4. CASE EndTurn
  BY <1>4 DEF EndTurn, SkipControllers, IgnoreTurn, PreemptTurn, BarredTurn, FailTurn, EvaluateTurn, env
<1> QED
  BY <1>1, <1>2, <1>3, <1>4 DEF Next

\* As long as no turn is reported twice, every prompt and automatic turn goes
\* back to a command, for any number of commands and turns (runtime.py,
\* after_turn).
THEOREM ChainsNeverMultiply == Spec => []ChainsPaidFor
<1> DEFINE I == "redeliver" \notin faults => Paid
<1>1. Init => I
  BY FlightOf DEF Init, Paid
<1>2. TypeOK /\ I /\ [Next]_vars => I'
  BY PaidStep, FaultsFixed
<1>3. I => ChainsPaidFor
  BY DEF Paid, Flight, ChainsPaidFor, Without, InFlight
<1> HIDE DEF I
<1> QED
  BY <1>1, <1>2, <1>3, TypeCorrect, PTL DEF Spec

-----------------------------------------------------------------------------
(***************************************************************************)
(* Prompts are not lost.  The host has not accepted a state_version beyond *)
(* the turns the record counts, so that a continuation is always new to it. *)
(***************************************************************************)
VersionInv == version <= LifeTurns(control)

LEMMA VersionStep ==
  ASSUME TypeOK, VersionInv, [Next]_vars
  PROVE  VersionInv'
<1>1. version \in Nat /\ LifeTurns(control) \in Nat
  BY DEF TypeOK, LifeTurns, Control
<1>2. LifeTurns(control') = LifeTurns(control) \/ LifeTurns(control') = LifeTurns(control) + 1
  BY ControlStep DEF LifeMoves, Moves
<1>3. CASE version' = version
  BY <1>1, <1>2, <1>3 DEF VersionInv
<1>4. CASE version' = 0
  BY <1>1, <1>2, <1>4 DEF VersionInv
<1>5. ASSUME NEW terminal \in BOOLEAN, NEW complete \in BOOLEAN, NEW again \in BOOLEAN,
             EvaluateTurn(terminal, complete, again)
      PROVE  version' = version \/ version' = LifeTurns(control')
  <2>1. control' \in Control /\ control'.turns = Counted(control, alive).turns
    BY <1>5, EvaluatedRecord
  <2>2. LifeTurns(control') = control'.turns
    BY <2>1, LoopAssumption DEF LifeTurns
  <2> QED
    BY <1>5, <2>1, <2>2 DEF EvaluateTurn, Continuation, NoContinuation, host
<1>6. CASE version' = LifeTurns(control')
  BY <1>1, <1>2, <1>6 DEF VersionInv
<1>7. ASSUME NEW accepted \in Enqueues, Start(accepted) \/ Resume(accepted) \/ Replan(accepted)
      PROVE  version' = version
  BY <1>7 DEF Start, Resume, Replan, FollowUp, host
<1>8. ASSUME Pause \/ Clear \/ Unwait \/ (\E pid \in Pids : Wait(pid) \/ ProcessExits(pid))
             \/ SendMessage \/ OrdinaryGoal \/ BeginTurn \/ UNCHANGED vars
      PROVE  version' = version
  BY <1>8 DEF Pause, Clear, Unwait, Wait, SaveOnly, ProcessExits, SendMessage, OrdinaryGoal,
       BeginTurn, host, vars
<1>9. ASSUME SkipControllers \/ \E again \in BOOLEAN :
               \/ IgnoreTurn(again) \/ BarredTurn(again) \/ FailTurn(again)
               \/ \E interrupted \in BOOLEAN : PreemptTurn(interrupted, again)
      PROVE  version' = version
  BY <1>9 DEF SkipControllers, IgnoreTurn, BarredTurn, FailTurn, PreemptTurn, NoContinuation, host
<1>10. CASE Restart
  BY <1>4, <1>10 DEF Restart
<1> QED
  BY <1>3, <1>5, <1>6, <1>7, <1>8, <1>9, <1>10 DEF Next, EndTurn

LEMMA VersionHolds == Spec => [](TypeOK /\ VersionInv)
<1>1. Init => VersionInv
  BY DEF Init, VersionInv, LifeTurns
<1> QED
  BY <1>1, VersionStep, TypeCorrect, PTL DEF Spec

LostBy ==
  \/ \E again \in BOOLEAN : BarredTurn(again) \/ FailTurn(again)
  \/ SkipControllers
  \/ Restart

\* No step but those of LostBy gives up a prompt of a mission that stays active.
LEMMA PromptsKept ==
  ASSUME TypeOK, VersionInv, [Next]_vars, Active, Active', ~LostBy
  PROVE  Flight(prompts', turn') >= Flight(prompts, turn)
<1>1. prompts \in Nat /\ messages \in Nat /\ turn \in Turns /\ version \in Nat
  BY DEF TypeOK, Turns
<1>2. CASE UNCHANGED <<prompts, turn>>
  BY <1>1, <1>2, FlightOf
<1>3. ASSUME prompts' = prompts + 1, UNCHANGED turn
      PROVE  Flight(prompts', turn') >= Flight(prompts, turn)
  BY <1>1, <1>3 DEF Flight
<1>4. ASSUME NEW accepted \in Enqueues, Start(accepted) \/ Resume(accepted) \/ Replan(accepted)
      PROVE  Flight(prompts', turn') >= Flight(prompts, turn)
  BY <1>2, <1>3, <1>4 DEF Start, Resume, Replan, FollowUp
<1>5. CASE BeginTurn
  <2>1. turn = "none"
    BY <1>5 DEF BeginTurn
  <2>2. CASE messages > 0
    BY <1>1, <1>5, <2>1, <2>2, FlightOf DEF BeginTurn
  <2>3. CASE ~(messages > 0)
    <3>1. prompts > 0 /\ prompts' = prompts - 1 /\ turn' = "auto"
      BY <1>1, <1>5, <2>3 DEF BeginTurn
    <3>2. Flight(prompts - 1, "auto") = Flight(prompts, "none") /\ Flight(prompts, "none") = prompts
      BY <1>1, <3>1, TakenAlong, FlightOf
    <3> QED
      BY <1>1, <2>1, <3>1, <3>2
  <2> QED
    BY <2>2, <2>3
<1>6. ASSUME NEW again \in BOOLEAN, IgnoreTurn(again)
      PROVE  FALSE
  BY <1>6 DEF IgnoreTurn, Ignores, Active
<1>7. ASSUME NEW again \in BOOLEAN, NEW interrupted \in BOOLEAN, PreemptTurn(interrupted, again)
      PROVE  FALSE
  <2>1. control \in Control /\ control' = Paused(control)
    BY <1>7 DEF PreemptTurn, Serves, Bound, TypeOK
  <2>2. control'.status = "paused"
    BY <2>1 DEF Paused, Control
  <2> QED
    BY <2>2 DEF Active
<1>8. ASSUME NEW terminal \in BOOLEAN, NEW complete \in BOOLEAN, NEW again \in BOOLEAN,
             EvaluateTurn(terminal, complete, again)
      PROVE  Flight(prompts', turn') >= Flight(prompts, turn)
  <2>1. /\ control \in Control /\ Counted(control, alive).turns = control.turns + 1
        /\ control'.status = "active" <=>
             ActionOf(Verdict(Counted(control, alive), terminal, complete)) = "continue"
    BY <1>8, EvaluatedRecord
  <2>2. Continuation(Counted(control, alive).turns)
    BY <1>8, <2>1 DEF EvaluateTurn, Active
  <2>3. version <= control.turns
    BY <2>1, LoopAssumption DEF VersionInv, LifeTurns
  <2>4. control.turns + 1 > version
    BY <1>1, <2>1, <2>3 DEF Control
  <2>5. prompts' = prompts + 1
    BY <2>1, <2>2, <2>4 DEF Continuation
  <2>6. turn' = turn \/ turn' = "none"
    BY <1>8 DEF EvaluateTurn, Finish
  <2> QED
    BY <1>1, <2>5, <2>6 DEF Flight
<1>9. ASSUME Pause \/ Clear \/ Unwait \/ (\E pid \in Pids : Wait(pid) \/ ProcessExits(pid))
             \/ SendMessage \/ OrdinaryGoal \/ UNCHANGED vars
      PROVE  UNCHANGED <<prompts, turn>>
  BY <1>9 DEF Pause, Clear, Unwait, Wait, SaveOnly, ProcessExits, SendMessage, OrdinaryGoal, vars
<1> QED
  BY <1>2, <1>4, <1>5, <1>6, <1>7, <1>8, <1>9 DEF Next, EndTurn, LostBy

\* An active mission loses a prompt only to a barrier, to failing evaluators, to
\* a pending user message or to a restart: every continuation the controller
\* asks for is new to the host (runtime.py, after_turn).
THEOREM NoPromptDropped == Spec => PromptsNotLost
<1>1. TypeOK /\ [Next]_vars => prompts \in Nat /\ prompts' \in Nat
  BY TypeStep DEF TypeOK
<1>2. ASSUME NEW p \in Nat, NEW q \in Nat, NEW t, NEW u, Flight(q, u) >= Flight(p, t)
      PROVE  ~(Flight(q, u) < Flight(p, t))
  BY <1>2, FlightOf
<1>3. ASSUME TypeOK, VersionInv, [Next]_vars
      PROVE  [Active /\ Active' /\ InFlight' < InFlight => LostBy]_vars
  <2>1. InFlight = Flight(prompts, turn) /\ InFlight' = Flight(prompts', turn')
    BY DEF InFlight, Flight
  <2> QED
    BY <1>1, <1>2, <1>3, <2>1, PromptsKept
<1>4. TypeOK /\ VersionInv /\ [Next]_vars
        => [Active /\ Active' /\ InFlight' < InFlight
              => \/ \E again \in BOOLEAN : BarredTurn(again) \/ FailTurn(again)
                 \/ SkipControllers
                 \/ Restart]_vars
  BY <1>3 DEF LostBy
<1> QED
  BY <1>4, VersionHolds, PTL DEF Spec, PromptsNotLost
=============================================================================
