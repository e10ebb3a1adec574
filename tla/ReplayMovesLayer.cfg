\* Enough files for an entry that is evicted and replayed.
CONSTANTS
  Artifacts = {a1, a2, a3, a4}
  Nowhere = Nothing
  Nothing = Nothing
  Texts <- AllTexts
  Cut <- Shortened
  Findings = {"page", "long", "prose"}
  External = {"page", "long"}
  Label <- Labels
  Classes = {"infra", "research"}
  Categories = {"oos"}
  Window = 12
  LayerCap = 2
  FindingCap = 2
  HistoryCap = 3
  MinHypotheses = 3
  FailuresToStop = 8
  PortfolioCap = 3
  ToolEvents <- Writes
  Responses <- Claims
  Answers = {}
  OpenAtStart = {}
  MaxStalls = 2
  MaxArtifacts = 1
  LedgerBound = 12
  TurnBound = 2
SYMMETRY Symmetry
SPECIFICATION Spec
INVARIANT LayersAreReplayable
CHECK_DEADLOCK FALSE
