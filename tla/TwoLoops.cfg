\* The user also uses the goal of the host.
CONSTANTS
  NoPid = NoPid
  NoMission = NoMission
  Pids = {}
  MaxTurns = 2
  Enqueues = {TRUE}
  Faults = {}
  OrdinaryGoals = TRUE
  PromptBound = 2
  MessageBound = 0
  TurnBound = 3
SPECIFICATION Spec
PROPERTIES OneLoop
CHECK_DEADLOCK FALSE
