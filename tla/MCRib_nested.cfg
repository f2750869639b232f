SPECIFICATION Spec
CONSTANTS
  Programs <- MCNestedReduce
  Exprs <- MCExprs
  Yielding <- MCYielding
  Desugar <- Desugared
  NoExpr <- NothingLeft
  Answer <- MCAnswer
  NewName <- MCNewName
  HostMayFail = FALSE
  Inputs <- MCInputs
INVARIANT AgreesWithGuide
CHECK_DEADLOCK FALSE
