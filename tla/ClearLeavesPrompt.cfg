\* One command and its prompt.
CONSTANTS
  NoPid = NoPid
  NoMission = NoMission
  Pids = {}
  MaxTurns = 2
  Enqueues = {TRUE}
  Faults = {}
  OrdinaryGoals = FALSE
  PromptBound = 1
  MessageBound = 0
  TurnBound = 3
SPECIFICATION Spec
PROPERTIES ClearDrains
CHECK_DEADLOCK FALSE
