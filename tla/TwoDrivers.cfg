CONSTANTS
  Threads = {t1, t2}
  Sessions = {s1, s2, s3}
  Runs = {r1}
  Pids = {}
  NoPid = NoPid
  Null = Null
  MaxTurns = 1
  CarefulHost = FALSE
  ResumeBound = 1
  TurnBound = 2
SPECIFICATION Spec
INVARIANTS OneDriver
CHECK_DEADLOCK FALSE
