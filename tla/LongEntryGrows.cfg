\* The entry of a long locator is cut by a load and taken again by a replay.
CONSTANTS
  Artifacts = {a1}
  Nowhere = Nothing
  Nothing = Nothing
  Texts <- AllTexts
  Cut <- Shortened
  Findings = {"page", "long", "prose"}
  External = {"page", "long"}
  Label <- Labels
  Classes = {"infra", "research"}
  Categories = {"oos"}
  Window = 12
  LayerCap = 3
  FindingCap = 2
  HistoryCap = 3
  MinHypotheses = 3
  FailuresToStop = 8
  PortfolioCap = 3
  ToolEvents <- LongPage
  Responses <- Claims
  Answers <- OneClass
  OpenAtStart = {"G3"}
  MaxStalls = 2
  MaxArtifacts = 1
  LedgerBound = 12
  TurnBound = 4
SPECIFICATION Spec
PROPERTY OnlyGrowthResets
CHECK_DEADLOCK FALSE
