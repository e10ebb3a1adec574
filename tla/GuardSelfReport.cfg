\* Responses are classified.
CONSTANTS
  Artifacts = {a1}
  Nowhere = Nothing
  Nothing = Nothing
  Texts <- AllTexts
  Cut <- Shortened
  Findings = {"page", "long", "prose"}
  External = {"page", "long"}
  Label <- Labels
  Classes = {"infra", "research"}
  Categories = {"oos"}
  Window = 9
  LayerCap = 2
  FindingCap = 2
  HistoryCap = 3
  MinHypotheses = 3
  FailuresToStop = 8
  PortfolioCap = 3
  ToolEvents = {}
  Responses <- Classified
  Answers <- OneClass
  OpenAtStart = {"G3"}
  MaxStalls = 2
  MaxArtifacts = 1
  LedgerBound = 9
  TurnBound = 5
SPECIFICATION Spec
INVARIANT EveryResponseCounts
CHECK_DEADLOCK FALSE
