SPECIFICATION Spec
CONSTANTS
  Programs <- MCPrograms
  Exprs <- MCExprs
  Void = "void"
  Offset = 6
  None = None
  MaxLoads = 2
INVARIANTS
  VarTypeOK
  OneLineEach
  SharedNames
  CarefulAlive
CHECK_DEADLOCK FALSE
