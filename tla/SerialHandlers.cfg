CONSTANTS
  Threads = {t1}
  Sessions = {s1, s2, s3}
  Runs = {r1}
  Pids = {p1}
  NoPid = NoPid
  Null = Null
  MaxTurns = 2
  CarefulHost = FALSE
  ResumeBound = 2
  TurnBound = 4
SPECIFICATION Spec
PROPERTIES StoppedUntilResumed
CHECK_DEADLOCK FALSE
