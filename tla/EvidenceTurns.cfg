\* Three files for a layer of two, a page and a finding of the critic for another,
\* a portfolio that drops a hypothesis; a ledger that outgrows the window.
CONSTANTS
  Artifacts = {a1, a2, a3}
  Nowhere = Nothing
  Nothing = Nothing
  Texts <- AllTexts
  Cut <- Shortened
  Findings = {"page", "long", "prose"}
  External = {"page", "long"}
  Label <- Labels
  Classes = {"infra", "research"}
  Categories = {"oos"}
  Window = 5
  LayerCap = 2
  FindingCap = 2
  HistoryCap = 3
  MinHypotheses = 3
  FailuresToStop = 8
  PortfolioCap = 3
  ToolEvents <- Pages
  Responses <- Failing
  Answers <- AllKinds
  OpenAtStart = {"G2", "SG-1"}
  MaxStalls = 2
  MaxArtifacts = 1
  LedgerBound = 6
  TurnBound = 3
SYMMETRY Symmetry
SPECIFICATION Spec
INVARIANTS
  LayersHoldEvidence NewestEvidenceStays FailuresCountedOnce EvidenceResetsStalls
  FirstRepetitionIsBlocked
PROPERTIES ReportsWithinBoard
CHECK_DEADLOCK FALSE
