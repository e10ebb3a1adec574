CONSTANTS
  Runs = {r1, r2}
  Sessions = {s1, s2}
  Records <- MCRecords
  Kinds = {"ran", "blocked"}
  Origins = {}
  Sources = {c1}
  Null = Null
  MaxEvents = 1
  Slots = {p1, p2}
  Calls = {c1}
  Traits = {"destructive"}
SYMMETRY Symmetry
SPECIFICATION HooksSpec
INVARIANTS RunsOnlyIfPermitted RecordsInOwnMission
