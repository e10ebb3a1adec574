\* A class is proposed, then another, then the first again and again.
CONSTANTS
  Artifacts = {a1}
  Nowhere = Nothing
  Nothing = Nothing
  Texts <- AllTexts
  Cut <- Shortened
  Findings = {"page", "long", "prose"}
  External = {"page", "long"}
  Label <- Labels
  Classes = {"infra", "research"}
  Categories = {"oos"}
  Window = 5
  LayerCap = 2
  FindingCap = 2
  HistoryCap = 3
  MinHypotheses = 3
  FailuresToStop = 8
  PortfolioCap = 3
  ToolEvents = {}
  Responses <- Silence
  Answers <- TwoClasses
  OpenAtStart = {"G3"}
  MaxStalls = 2
  MaxArtifacts = 1
  LedgerBound = 8
  TurnBound = 6
SPECIFICATION Spec
INVARIANT RepetitionIsBlocked
CHECK_DEADLOCK FALSE
