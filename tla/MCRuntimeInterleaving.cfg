CONSTANTS
  Threads = {t1, t2}
  Sessions = {s1, s2}
  Runs = {r1, r2}
  Pids = {}
  NoPid = NoPid
  Null = Null
  MaxTurns = 1
  CarefulHost = TRUE
  ResumeBound = 1
  TurnBound = 2
SYMMETRY Symmetry
SPECIFICATION Spec
INVARIANTS TypeOK NoStrayRuns WritesOwnMission BudgetOverdrawnByResumeOnly OneDriver
CHECK_DEADLOCK FALSE
