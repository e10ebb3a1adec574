------------------------ MODULE MissionControlProofs ------------------------
(***************************************************************************)
(* What the handlers of MissionControl do to the two components of a       *)
(* record that MissionLifecycle speaks of.  The proofs about MissionRuntime *)
(* and HostLoop share these lemmas.                                        *)
(***************************************************************************)
EXTENDS MissionControl, TLAPS

\* A step of MissionLifecycle, or none, from (s, t) to (u, v).
Moves(s, t, u, v) ==
  \/ u = s /\ v = t
  \/ s = "none" /\ u = "active" /\ v = t
  \/ /\ s = "active" /\ v = t + 1
     /\ u \in {"active", "paused", "done"}
     /\ u = "active" => v < MaxTurns
  \/ s \in {"active", "done"} /\ u = "paused" /\ v = t
  \/ s = "paused" /\ u = "active" /\ v = t
  \/ s \in {"active", "paused", "done"} /\ u = "cleared" /\ v = t

RecordMoves(c, d) == Moves(c.status, c.turns, d.status, d.turns)

LEMMA CommandMoves ==
  ASSUME NEW c \in Control
  PROVE  /\ Paused(c) \in Control /\ Resumed(c) \in Control
         /\ Cleared(c) \in Control /\ Unwaited(c) \in Control
         /\ PauseAccepts(c) => RecordMoves(c, Paused(c))
         /\ ResumeAccepts(c) => RecordMoves(c, Resumed(c))
         /\ ClearAccepts(c) => RecordMoves(c, Cleared(c))
         /\ RecordMoves(c, Unwaited(c))
         /\ ~Ignores(c) => RecordMoves(c, Paused(c))
<1>1. c.status \in Statuses
  BY DEF Control
<1>2. Paused(c) \in Control /\ Paused(c).status = "paused" /\ Paused(c).turns = c.turns
  BY DEF Paused, Control, Statuses
<1>3. Resumed(c) \in Control /\ Resumed(c).status = "active" /\ Resumed(c).turns = c.turns
  BY DEF Resumed, Control, Statuses
<1>4. Cleared(c) \in Control /\ Cleared(c).status = "cleared" /\ Cleared(c).turns = c.turns
  BY DEF Cleared, Control, Statuses
<1>5. Unwaited(c) \in Control /\ Unwaited(c).status = c.status /\ Unwaited(c).turns = c.turns
  BY DEF Unwaited, Control
<1>6. PauseAccepts(c) \/ ~Ignores(c) => RecordMoves(c, Paused(c))
  BY <1>1, <1>2 DEF PauseAccepts, Ignores, Statuses, RecordMoves, Moves
<1>7. ResumeAccepts(c) => RecordMoves(c, Resumed(c))
  BY <1>1, <1>3 DEF ResumeAccepts, Statuses, RecordMoves, Moves
<1>8. ClearAccepts(c) => RecordMoves(c, Cleared(c))
  BY <1>1, <1>4 DEF ClearAccepts, Statuses, RecordMoves, Moves
<1>9. RecordMoves(c, Unwaited(c))
  BY <1>5 DEF RecordMoves, Moves
<1> QED
  BY <1>2, <1>3, <1>4, <1>5, <1>6, <1>7, <1>8, <1>9

LEMMA WaitingMoves ==
  ASSUME NEW c \in Control, NEW pid \in Pids
  PROVE  Waiting(c, pid) \in Control /\ RecordMoves(c, Waiting(c, pid))
<1>1. /\ Waiting(c, pid) \in Control
      /\ Waiting(c, pid).status = c.status /\ Waiting(c, pid).turns = c.turns
  BY DEF Waiting, Control
<1> QED
  BY <1>1 DEF RecordMoves, Moves

LEMMA StartedTyped == Started \in Control /\ Started.status = "active" /\ Started.turns = 0
  BY DEF Started, Control, Statuses

LEMMA CountedRecord ==
  ASSUME NEW c \in Control, NEW alive
  PROVE  /\ Counted(c, alive) \in Control
         /\ Counted(c, alive).status = c.status
         /\ Counted(c, alive).turns = c.turns + 1
<1> DEFINE r == Released(c, alive)
<1>1. r \in Control /\ r.status = c.status /\ r.turns = c.turns
  BY DEF Released, Unwaited, Control
<1>2. Counted(c, alive) = [r EXCEPT !.turns = @ + 1]
  BY DEF Counted
<1> HIDE DEF r
<1> QED
  BY <1>1, <1>2 DEF Control

\* What an evaluated turn saves: the turn is counted, and a mission that stays
\* active is told to continue and has turns left.
LEMMA EvaluatedMoves ==
  ASSUME NEW c \in Control, NEW alive, ~Ignores(c),
         NEW terminal \in BOOLEAN, NEW complete \in BOOLEAN
  PROVE  LET counted == Counted(c, alive)
             verdict == Verdict(counted, terminal, complete)
             saved   == [counted EXCEPT !.status = StatusAfter(verdict)]
         IN  /\ saved \in Control
             /\ saved.turns = c.turns + 1
             /\ RecordMoves(c, saved)
             /\ saved.status = "active" <=> ActionOf(verdict) = "continue"
             /\ saved.status = "active" => c.turns + 1 < MaxTurns
<1> DEFINE k == Counted(c, alive)
           w == Verdict(k, terminal, complete)
           d == [k EXCEPT !.status = StatusAfter(w)]
<1>1. k \in Control /\ k.turns = c.turns + 1 /\ c.turns \in Nat
  BY CountedRecord DEF Control
<1>2. /\ w \in {"blocked", "done", "budget", "continue"}
      /\ w = "continue" => ~(k.turns >= MaxTurns)
  BY DEF Verdict
<1> HIDE DEF k, w
<1>3. /\ StatusAfter(w) \in {"active", "paused", "done"}
      /\ StatusAfter(w) = "active" <=> w = "continue"
      /\ ActionOf(w) = "continue" <=> w = "continue"
  BY <1>2 DEF StatusAfter, ActionOf
<1>4. d \in Control /\ d.status = StatusAfter(w) /\ d.turns = k.turns
  BY <1>1, <1>3 DEF Control, Statuses
<1>5. w = "continue" => c.turns + 1 < MaxTurns
  BY <1>1, <1>2, MaxTurnsAssumption
<1>6. c.status = "active"
  BY DEF Ignores
<1> HIDE DEF d
<1>7. RecordMoves(c, d)
  BY <1>1, <1>3, <1>4, <1>5, <1>6 DEF RecordMoves, Moves
<1> QED
  BY <1>1, <1>3, <1>4, <1>5, <1>7 DEF k, w, d
=============================================================================
