SPECIFICATION SessionSpec
CONSTANTS
  Lines <- MCLines
  Entry = 1
  Succ <- MCSucc
  Faulting = {}
  NumRegs = 2
  RegVals = {7}
  RunnerBound = TRUE
  Inf = Inf
  NoLine = NoLine
  Uis = 1
  MaxBreaks = 2
  ReadIdx = {2}
  WhileRunning = {}
  UniqueBreaks = FALSE
INVARIANTS
  DeleteConfirmed
