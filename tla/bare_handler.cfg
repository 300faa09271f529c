SPECIFICATION OpenSpec
CONSTANTS
  Lines <- MCShortLines
  Entry = 1
  Succ <- MCShortSucc
  Faulting = {}
  NumRegs = 1
  RegVals = {7}
  RunnerBound = FALSE
  Inf = Inf
  NoLine = NoLine
  Sent <- MCMoving
  MaxQueue = 2
INVARIANTS
  NeverKilled
CHECK_DEADLOCK FALSE
