CONSTANTS
  Pids = {p1}
  NoPid = NoPid
  MaxTurns = 2
  MinHypotheses = 2
  FailuresToStop = 2
  PortfolioCap = 3
  Calls = {c1}
  NoMission = NoMission
  NoAnswer = NoAnswer
  Goals = {"general"}
  ToolResults <- ControlTools
  Responses <- ControlResponses
  Judgements <- ControlJudgements
  CriticAnswers <- ControlAnswers
  TurnBound = 4
SPECIFICATION Spec
INVARIANTS TypeOK DoneMeansAccepted
PROPERTIES ImplementsLifecycle NoProgressUnlessActive BarrierHolds
CHECK_DEADLOCK FALSE
