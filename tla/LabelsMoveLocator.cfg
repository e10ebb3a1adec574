\* Labels fill the layer of the pages.
CONSTANTS
  Artifacts = {a1}
  Nowhere = Nothing
  Nothing = Nothing
  Texts <- AllTexts
  Cut <- Shortened
  Findings = {"page", "long", "prose"}
  External = {"page", "long"}
  Label <- Labels
  Classes = {"infra", "research"}
  Categories = {"oos"}
  Window = 5
  LayerCap = 2
  FindingCap = 2
  HistoryCap = 3
  MinHypotheses = 3
  FailuresToStop = 8
  PortfolioCap = 3
  ToolEvents <- Pages
  Responses <- Claims
  Answers <- Asserting
  OpenAtStart = {"G3"}
  MaxStalls = 2
  MaxArtifacts = 1
  LedgerBound = 6
  TurnBound = 3
SPECIFICATION Spec
INVARIANT NewestLocatorStays
CHECK_DEADLOCK FALSE
