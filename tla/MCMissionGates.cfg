CONSTANTS
  Pids = {}
  NoPid = NoPid
  MaxTurns = 3
  MinHypotheses = 2
  FailuresToStop = 2
  PortfolioCap = 3
  Calls = {c1, c2}
  NoMission = NoMission
  NoAnswer = NoAnswer
  Goals = {"research", "strategy"}
  ToolResults <- GateTools
  Responses <- GateResponses
  Judgements <- GateJudgements
  CriticAnswers <- GateAnswers
  TurnBound = 3
SYMMETRY Symmetry
SPECIFICATION Spec
INVARIANTS ExecutionGateWitnessed ResearchGateWitnessed
PROPERTIES GatesStayPassed
CHECK_DEADLOCK FALSE
