\* A turn may be reported twice.
CONSTANTS
  NoPid = NoPid
  NoMission = NoMission
  Pids = {}
  MaxTurns = 3
  Enqueues = {TRUE}
  Faults = {"redeliver"}
  OrdinaryGoals = FALSE
  PromptBound = 1
  MessageBound = 0
  TurnBound = 3
SPECIFICATION Spec
INVARIANTS OneContinuationPerTurn
CHECK_DEADLOCK FALSE
