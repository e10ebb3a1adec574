--------------------------- MODULE MissionControl ---------------------------
(***************************************************************************)
(* The control part of a GoalState and what the handlers of RuntimeManager *)
(* (runtime.py) do to it: lifecycle status, turn budget and the PID wait   *)
(* barrier.  Handlers are functions from the record they loaded to the     *)
(* record they save, so that the same definitions serve the sequential     *)
(* MissionRuntime and the interleaved RuntimeInterleaving.                 *)
(***************************************************************************)
EXTENDS Naturals

CONSTANTS
  Pids,      \* processes a mission may wait for
  NoPid,     \* waiting_on_pid is None
  MaxTurns   \* max_turns

ASSUME PidAssumption == NoPid \notin Pids
ASSUME MaxTurnsAssumption == MaxTurns \in Nat \ {0}

Statuses == {"active", "paused", "done", "cleared"}

Control == [status : Statuses, turns : Nat, waitingOn : Pids \cup {NoPid}]

Started == [status |-> "active", turns |-> 0, waitingOn |-> NoPid]

-----------------------------------------------------------------------------
(***************************************************************************)
(* Commands.  Accepts tells whether the handler saves at all; when it does *)
(* not, it returns the status line and writes nothing.                     *)
(***************************************************************************)
PauseAccepts(c) == c.status \notin {"paused", "cleared"}
\* Fault: a cleared mission can be resumed.
ResumeAcceptsCleared(c) == c.status # "done"

ResumeAccepts(c) == c.status \notin {"done", "cleared"}
ClearAccepts(c) == c.status # "cleared"

Paused(c) == [c EXCEPT !.status = "paused"]
Resumed(c) == [c EXCEPT !.status = "active"]
Cleared(c) == [c EXCEPT !.status = "cleared"]
Waiting(c, pid) == [c EXCEPT !.waitingOn = pid]
Unwaited(c) == [c EXCEPT !.waitingOn = NoPid]

\* build_continuation_prompt gives a prompt to enqueue only for an active state.
HasPrompt(c) == c.status = "active"

-----------------------------------------------------------------------------
(***************************************************************************)
(* after_turn: which branch a delivered turn takes, and what it saves.     *)
(***************************************************************************)
\* Fault: turns of a paused or finished mission are still evaluated.
IgnoresClearedOnly(c) == c.status = "cleared"

Ignores(c) == c.status # "active"

\* Fault: only an interruption preempts.
PreemptsInterruptedOnly(message, interrupted) == interrupted

\* A message that is not one of the plugin's own prompts, or an interruption.
Preempts(message, interrupted) == message = "user" \/ interrupted

\* Fault: the liveness test is inverted.
BarredByDead(c, alive) == c.waitingOn # NoPid /\ c.waitingOn \notin alive

\* is_waiting keeps the barrier while the process lives ...
Barred(c, alive) == c.waitingOn \in alive

\* ... and drops it when the process is gone.
Released(c, alive) == IF Barred(c, alive) THEN c ELSE Unwaited(c)

Counted(c, alive) == [Released(c, alive) EXCEPT !.turns = @ + 1]

\* Faults: one turn too many; a used-up budget ends the mission as done.
VerdictLateBudget(c, terminal, complete) ==
  IF terminal THEN "blocked"
  ELSE IF complete THEN "done"
  ELSE IF c.turns > MaxTurns THEN "budget"
  ELSE "continue"
VerdictBudgetIsDone(c, terminal, complete) ==
  IF terminal THEN "blocked"
  ELSE IF complete \/ c.turns >= MaxTurns THEN "done"
  ELSE "continue"

\* The order of the tests after the evaluators have answered.
Verdict(c, terminal, complete) ==
  IF terminal THEN "blocked"
  ELSE IF complete THEN "done"
  ELSE IF c.turns >= MaxTurns THEN "budget"
  ELSE "continue"

\* Faults: the verdict is stored as the status; a used-up budget stops nothing.
StatusIsVerdict(verdict) == verdict
StatusKeepsBudgetActive(verdict) ==
  CASE verdict = "blocked" -> "paused"
    [] verdict = "done" -> "done"
    [] OTHER -> "active"

StatusAfter(verdict) ==
  CASE verdict \in {"blocked", "budget"} -> "paused"
    [] verdict = "done" -> "done"
    [] OTHER -> "active"

\* TurnDirective.action
ActionOf(verdict) ==
  CASE verdict \in {"blocked", "budget"} -> "pause"
    [] OTHER -> verdict
=============================================================================
