CONSTANTS
  Pids = {}
  NoPid = NoPid
  MaxTurns = 3
  MinHypotheses = 2
  FailuresToStop = 2
  PortfolioCap = 3
  Calls = {c1, c2}
  NoMission = NoMission
  NoAnswer = NoAnswer
  Goals = {"research", "strategy"}
  ToolResults <- GateTools
  Responses <- GateResponses
  Judgements <- GateJudgements
  CriticAnswers <- GateAnswers
  TurnBound = 3
SPECIFICATION Spec
INVARIANTS ToolBackedOnly InfraNeedsProof
CHECK_DEADLOCK FALSE
