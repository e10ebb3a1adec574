CONSTANTS
  Connections = {c1, c2}
  Runs = {r1, r2}
  Sessions = {s1, s2}
  Records = {j1}
  Kinds = {k1}
  Origins = {legacy}
  Sources = {x1}
  Null = Null
  MaxEvents = 2
SPECIFICATION Spec
INVARIANTS SnapshotFresh
PROPERTIES ImplementsStore
