\* Everything may fail, and each behaviour fixes what does.
CONSTANTS
  NoPid = NoPid
  NoMission = NoMission
  Pids = {p1}
  MaxTurns = 2
  Enqueues = {TRUE, FALSE}
  Faults = {"raise", "restart", "redeliver"}
  OrdinaryGoals = TRUE
  PromptBound = 3
  MessageBound = 1
  TurnBound = 6
SPECIFICATION FairSpec
INVARIANTS TypeOK ChainsPaidFor
PROPERTIES ImplementsLifecycle PromptsNotLost ChainsEnd ActiveMissionStops UserMessageStops NextPromptReleases
CHECK_DEADLOCK FALSE
