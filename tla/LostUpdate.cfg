CONSTANTS
  Threads = {t1, t2}
  Sessions = {s1, s2}
  Runs = {r1}
  Pids = {}
  NoPid = NoPid
  Null = Null
  MaxTurns = 1
  CarefulHost = TRUE
  ResumeBound = 1
  TurnBound = 2
SPECIFICATION Spec
PROPERTIES StoppedUntilResumed
CHECK_DEADLOCK FALSE
