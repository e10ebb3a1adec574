CONSTANTS
  Runs <- MCRuns
  Sessions <- MCSessions
  Records = {"j"}
  Kinds = {"k1", "k2"}
  Origins <- MCOrigins
  Sources <- MCSources
  Null = Null
  MaxEvents = 4
  Absent = Absent
  Malformed = Malformed
  Ordinary = Ordinary
  LegacyId <- MCLegacyId
  KeyOrder <- MCKeyOrder
  LiveRuns = {"c"}
  InitialSources <- MCInitialSources
SPECIFICATION MigrationSpec
INVARIANTS MarkerMeansImported RunsImportedWhole LegacyEventsOnce
