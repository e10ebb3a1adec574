\* Nobody issues a command after the process is gone.
CONSTANTS
  NoPid = NoPid
  NoMission = NoMission
  Pids = {p1}
  MaxTurns = 2
  Enqueues = {TRUE}
  Faults = {}
  OrdinaryGoals = FALSE
  PromptBound = 1
  MessageBound = 0
  TurnBound = 3
SPECIFICATION FairSpec
PROPERTIES BarrierReleases
CHECK_DEADLOCK FALSE
