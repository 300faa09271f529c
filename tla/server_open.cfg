SPECIFICATION FairOpenSpec
CONSTANTS
  Lines <- MCLines
  Entry = 1
  Succ <- MCSucc
  Faulting = {3}
  NumRegs = 1
  RegVals = {7}
  RunnerBound = TRUE
  Inf = Inf
  NoLine = NoLine
  Sent <- MCEvery
  MaxQueue = 2
INVARIANTS
  OpenTypeOK
  FifoReplies
  StepRunsAtMostOne
  StepSpent
PROPERTIES
  ImplementsTarget
CHECK_DEADLOCK FALSE
