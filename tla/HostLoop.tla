------------------------------ MODULE HostLoop ------------------------------
(***************************************************************************)
(* The loop that drives a mission: the pending input of one host session,  *)
(* the follow-up prompts that commands enqueue (command.py), and the       *)
(* directives with which after_turn answers every turn (plugin.py,         *)
(* runtime.py).  The handlers are those of MissionControl; the evaluators' *)
(* answers are arbitrary.                                                  *)
(*                                                                         *)
(* The host is external.  Prompts are indistinguishable and user messages  *)
(* come before them, so the pending input is a pair of counters.           *)
(***************************************************************************)
EXTENDS MissionControl

CONSTANTS
  NoMission,     \* no run is bound to the session
  Enqueues,      \* answers of enqueue_followup: it may return False
  Faults,        \* what may go wrong at all: "raise", "restart", "redeliver"
  OrdinaryGoals, \* whether the user also uses the host's own /goal
  PromptBound,   \* bound on the prompts commands enqueue, for TLC only
  MessageBound,  \* bound on the messages the user sends, for TLC only
  TurnBound      \* bound on turns_used, for TLC only

ASSUME LoopAssumption ==
  /\ Enqueues \subseteq BOOLEAN
  /\ Faults \subseteq {"raise", "restart", "redeliver"}
  /\ OrdinaryGoals \in BOOLEAN
  /\ NoMission \notin Control
  /\ PromptBound \in Nat /\ MessageBound \in Nat /\ TurnBound \in Nat

VARIABLES
  faults,    \* what may go wrong in this behaviour, so that properties can tell
  control,   \* NoMission, or the persisted control record
  alive,     \* live processes
  ordinary,  \* the host's own /goal is active in the session
  prompts,   \* automatic prompts in the pending input
  messages,  \* user messages in the pending input
  turn,      \* what started the turn under way: "none", "auto" or "user"
  version,   \* last state_version accepted from the controller
  grants,    \* continuations accepted for the current turn
  issued,    \* history: prompts enqueued by commands
  sent       \* messages the user has sent

vars == <<faults, control, alive, ordinary, prompts, messages, turn, version, grants, issued, sent>>
host == <<version, grants>>
env == <<faults, alive, ordinary>>

Init ==
  /\ faults \in SUBSET Faults
  /\ control = NoMission
  /\ alive = Pids
  /\ ordinary = FALSE
  /\ prompts = 0
  /\ messages = 0
  /\ turn = "none"
  /\ version = 0
  /\ grants = 0
  /\ issued = 0
  /\ sent = 0

Bound == control # NoMission
Active == Bound /\ control.status = "active"

-----------------------------------------------------------------------------
(***************************************************************************)
(* Commands.  All but start may come while a turn is under way.            *)
(***************************************************************************)
FollowUp(accepted) ==
  /\ issued < PromptBound
  /\ prompts' = IF accepted THEN prompts + 1 ELSE prompts
  /\ issued' = IF accepted THEN issued + 1 ELSE issued
  /\ UNCHANGED <<env, messages, turn, host, sent>>

\* Refused while the host's own goal is active (ordinary_goal_active).
Start(accepted) ==
  /\ ~Bound
  /\ ~ordinary
  /\ turn = "none"
  /\ control' = Started
  /\ FollowUp(accepted)

Resume(accepted) ==
  /\ Bound
  /\ ResumeAccepts(control)
  /\ control' = Resumed(control)
  /\ FollowUp(accepted)

\* The record's should_replan and replan_count are not kept here.
Replan(accepted) ==
  /\ Bound
  /\ HasPrompt(control)
  /\ UNCHANGED control
  /\ FollowUp(accepted)

SaveOnly(c) ==
  /\ control' = c
  /\ UNCHANGED <<env, prompts, messages, turn, host, issued, sent>>

\* Pause and clear leave the pending input alone.
Pause == Bound /\ PauseAccepts(control) /\ SaveOnly(Paused(control))
Clear == Bound /\ ClearAccepts(control) /\ SaveOnly(Cleared(control))
Wait(pid) == Bound /\ SaveOnly(Waiting(control, pid))
Unwait == Bound /\ SaveOnly(Unwaited(control))

-----------------------------------------------------------------------------
(***************************************************************************)
(* Turns.  A turn that the host reports a second time stays under way.     *)
(***************************************************************************)
SendMessage ==
  /\ sent < MessageBound
  /\ sent' = sent + 1
  /\ messages' = messages + 1
  /\ UNCHANGED <<control, env, prompts, turn, host, issued>>

\* A queued user message goes before an automatic prompt.
BeginTurn ==
  /\ turn = "none"
  /\ messages + prompts > 0
  /\ IF messages > 0
     THEN turn' = "user" /\ messages' = messages - 1 /\ UNCHANGED prompts
     ELSE turn' = "auto" /\ prompts' = prompts - 1 /\ UNCHANGED messages
  /\ grants' = 0
  /\ UNCHANGED <<control, env, version, issued, sent>>

Finish(again) ==
  /\ again => "redeliver" \in faults
  /\ turn' = IF again THEN turn ELSE "none"

\* A directive that starts no turn.
NoContinuation == UNCHANGED <<prompts, host>>

\* A continuation whose state_version, which is turns_used, has been accepted
\* before is dropped.  The dedupe key is turns_used and the turn's id.
Continuation(stateVersion) ==
  IF stateVersion > version
  THEN /\ prompts' = prompts + 1
       /\ version' = stateVersion
       /\ grants' = grants + 1
  ELSE NoContinuation

\* With a user message pending the controllers may not be run at all.
SkipControllers ==
  /\ turn # "none"
  /\ messages > 0
  /\ turn' = "none"
  /\ NoContinuation
  /\ UNCHANGED <<control, env, messages, issued, sent>>

\* A turn of an active mission has ended and is reported.
Serves == turn # "none" /\ Bound /\ ~Ignores(control)

\* A mission that is not active answers None.
IgnoreTurn(again) ==
  /\ turn # "none"
  /\ Bound => Ignores(control)
  /\ Finish(again)
  /\ NoContinuation
  /\ UNCHANGED <<control, env, messages, issued, sent>>

PreemptTurn(interrupted, again) ==
  /\ Serves
  /\ Preempts(turn, interrupted)
  /\ control' = Paused(control)
  /\ Finish(again)
  /\ NoContinuation
  /\ UNCHANGED <<env, messages, issued, sent>>

\* Fault: behind the barrier the turn is handed back to poll again.
PollBarrier(again) ==
  /\ Serves
  /\ ~Preempts(turn, FALSE)
  /\ Barred(control, alive)
  /\ Finish(again)
  /\ prompts' = prompts + 1
  /\ UNCHANGED <<control, env, messages, host, issued, sent>>

BarredTurn(again) ==
  /\ Serves
  /\ ~Preempts(turn, FALSE)
  /\ Barred(control, alive)
  /\ Finish(again)
  /\ NoContinuation
  /\ UNCHANGED <<control, env, messages, issued, sent>>

\* The judge or the critic raises: after_turn fails before it saves, and the
\* host takes a failed controller for a noop.
FailTurn(again) ==
  /\ "raise" \in faults
  /\ Serves
  /\ ~Preempts(turn, FALSE)
  /\ ~Barred(control, alive)
  /\ Finish(again)
  /\ NoContinuation
  /\ UNCHANGED <<control, env, messages, issued, sent>>

EvaluateTurn(terminal, complete, again) ==
  LET counted == Counted(control, alive)
      verdict == Verdict(counted, terminal, complete)
  IN  /\ Serves
      /\ ~Preempts(turn, FALSE)
      /\ ~Barred(control, alive)
      /\ control.turns < TurnBound
      /\ control' = [counted EXCEPT !.status = StatusAfter(verdict)]
      /\ IF ActionOf(verdict) = "continue"
         THEN Continuation(counted.turns)
         ELSE NoContinuation
      /\ Finish(again)
      /\ UNCHANGED <<env, messages, issued, sent>>

EndTurn ==
  \/ SkipControllers
  \/ \E again \in BOOLEAN :
       \/ IgnoreTurn(again)
       \/ \E interrupted \in BOOLEAN : PreemptTurn(interrupted, again)
       \/ BarredTurn(again)
       \/ FailTurn(again)
       \/ \E terminal, complete \in BOOLEAN : EvaluateTurn(terminal, complete, again)

-----------------------------------------------------------------------------
ProcessExits(pid) ==
  /\ pid \in alive
  /\ alive' = alive \ {pid}
  /\ UNCHANGED <<faults, control, ordinary, prompts, messages, turn, host, issued, sent>>

\* The user starts, or the host ends, a goal of the host.
OrdinaryGoal ==
  /\ OrdinaryGoals
  /\ ordinary' = ~ordinary
  /\ UNCHANGED <<faults, control, alive, prompts, messages, turn, host, issued, sent>>

\* The host restarts: what it kept in memory is lost, the database is not.
Restart ==
  /\ "restart" \in faults
  /\ prompts' = 0
  /\ messages' = 0
  /\ turn' = "none"
  /\ version' = 0
  /\ grants' = 0
  /\ UNCHANGED <<control, env, issued, sent>>

Next ==
  \/ \E accepted \in Enqueues : Start(accepted) \/ Resume(accepted) \/ Replan(accepted)
  \/ Pause
  \/ Clear
  \/ \E pid \in Pids : Wait(pid)
  \/ Unwait
  \/ SendMessage
  \/ BeginTurn
  \/ EndTurn
  \/ \E pid \in Pids : ProcessExits(pid)
  \/ OrdinaryGoal
  \/ Restart

Spec == Init /\ [][Next]_vars

\* The host takes pending input when no turn is under way, and turns end.
\* Nobody has to issue a command, and no process has to exit.
FairSpec == Spec /\ WF_vars(BeginTurn) /\ WF_vars(EndTurn)

-----------------------------------------------------------------------------
TypeOK ==
  /\ faults \subseteq Faults
  /\ control \in Control \cup {NoMission}
  /\ alive \subseteq Pids
  /\ ordinary \in BOOLEAN
  /\ {prompts, messages, version, grants, issued, sent} \subseteq Nat
  /\ turn \in {"none", "auto", "user"}

\* The life of the mission, whatever the host does: MissionLifecycle.
Lifecycle == INSTANCE MissionLifecycle WITH
  status <- IF control = NoMission THEN "none" ELSE control.status,
  turns <- IF control = NoMission THEN 0 ELSE control.turns

\* No order of commands, messages, host failures and repeated reports takes the
\* mission off its lifecycle: a turn beyond the budget only after a resume, none
\* while stopped, done only by a turn (runtime.py, RuntimeManager).
ImplementsLifecycle == Lifecycle!Spec

InFlight == prompts + (IF turn = "auto" THEN 1 ELSE 0)

Without(kinds) == kinds \cap faults = {}

\* Every automatic turn goes back to one command: a turn hands on at most the
\* prompt it was started with, and a user's turn hands on none, so chains of
\* continuations never multiply by themselves (runtime.py, after_turn;
\* docs/phase1-verdict.md:30).
ChainsPaidFor == Without({"redeliver"}) => InFlight <= issued

\* A mission that stays active gives up a prompt only in a turn whose process
\* lives, whose evaluators failed, or that a pending user message overtook, and
\* in a restart (runtime.py, after_turn: every other branch continues or stops).
PromptsNotLost ==
  [][Active /\ Active' /\ InFlight' < InFlight
       => \/ \E again \in BOOLEAN : BarredTurn(again) \/ FailTurn(again)
          \/ SkipControllers
          \/ Restart]_vars

\* The turn budget ends every chain, whatever the evaluators say and whether or
\* not they and the host fail: once the user is silent, so is the loop
\* (runtime.py:361).
ChainsEnd == Without({"redeliver"}) => <>[](InFlight = 0 /\ turn = "none")

\* An active mission with a prompt is not forgotten by a host and evaluators
\* that do not fail: it comes to a stop, unless it is told to wait for a process.
ActiveMissionStops ==
  Without({"raise", "restart"}) /\ Active /\ InFlight > 0
    ~> ~Active \/ control.waitingOn # NoPid

\* A user message stops an active mission, even if evaluators fail: it is
\* not overtaken by automatic prompts for ever (README.md:53).
UserMessageStops ==
  Without({"restart", "redeliver"}) /\ Active /\ (messages > 0 \/ turn = "user") ~> ~Active

\* A mission that waits for a process which is gone is released by the next
\* prompt, if there is one (runtime.py, is_waiting).
NextPromptReleases ==
  \A pid \in Pids :
    Without(Faults) /\ Active /\ control.waitingOn = pid /\ pid \notin alive /\ prompts > 0
      ~> ~(Active /\ control.waitingOn = pid)

-----------------------------------------------------------------------------
\* "PID wait barriers do not burn turns and automatically release when the
\* process exits" (README.md:54).
BarrierReleases ==
  \A pid \in Pids :
    Active /\ control.waitingOn = pid /\ pid \notin alive
      ~> ~(Active /\ control.waitingOn = pid)

\* clear "is idempotent and cleans up pending continuations"
\* (docs/repository-cleanup-and-plugin-migration-spec.md:866).
ClearDrains == [][Bound /\ control.status = "cleared" => ~(turn = "none" /\ turn' = "auto")]_vars

\* The adapter of ordinary goals is there "to avoid two autonomous loops at the
\* same time" (docs/repository-cleanup-and-plugin-migration-spec.md:101): no
\* command sets the mission going beside an active goal of the host.
OneLoop == [][~Active /\ Active' => ~ordinary]_vars

\* "Each physical turn accepts at most one continuation"
\* (docs/repository-cleanup-and-plugin-migration-spec.md:208).
OneContinuationPerTurn == grants <= 1
=============================================================================
