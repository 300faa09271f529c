SPECIFICATION Spec
CONSTANTS
  Programs <- MCPrograms
  Exprs <- MCExprs
  Void = "void"
  Offset = 6
  None = None
  MaxLoads = 1
INVARIANTS
  NamesDeletable
CHECK_DEADLOCK FALSE
