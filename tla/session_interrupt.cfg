SPECIFICATION SessionSpec
CONSTANTS
  Lines <- MCLines
  Entry = 1
  Succ <- MCSucc
  Faulting = {3}
  NumRegs = 2
  RegVals = {7}
  RunnerBound = TRUE
  Inf = Inf
  NoLine = NoLine
  Uis = 2
  MaxBreaks = 2
  ReadIdx = {2}
  WhileRunning = {"vCtrlC", "Z", "z"}
  UniqueBreaks = TRUE
INVARIANTS
  Truthful
  BreakpointsMirrored
  FailsLoudly
