CONSTANTS
  Runs = {r1, r2}
  Sessions = {s1, s2}
  Records = {j1, j2}
  Kinds = {k1}
  Origins = {legacy}
  Sources = {x1, x2}
  Null = Null
  MaxEvents = 3
SYMMETRY Symmetry
SPECIFICATION Spec
INVARIANTS TypeOK NoOrphans KeyedEventsOnce
PROPERTIES BindingsWriteOnce DemotedHasSuccessor ImportKeepsRuns
