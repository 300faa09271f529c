SPECIFICATION FairSessionSpec
CONSTANTS
  Lines <- MCLines
  Entry = 1
  Succ <- MCSucc
  Faulting = {}
  NumRegs = 2
  RegVals = {7}
  RunnerBound = TRUE
  Inf = Inf
  NoLine = NoLine
  Uis = 2
  MaxBreaks = 3
  ReadIdx = {2}
  WhileRunning = {}
  UniqueBreaks = TRUE
INVARIANTS
  SyncInvariant
  NextReplyIsMine
  ClientAlive
PROPERTIES
  CommandsReturn
  StepIsReported
