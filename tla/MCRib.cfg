SPECIFICATION Spec
CONSTANTS
  Programs <- MCAll
  Exprs <- MCExprs
  Yielding <- MCYielding
  Desugar <- Desugared
  NoExpr <- NothingLeft
  Answer <- MCAnswer
  NewName <- MCNewName
  HostMayFail = TRUE
  Inputs <- MCInputs
INVARIANTS JumpsLand NothingMissing AgreesWithGuide
PROPERTY Finishes
CHECK_DEADLOCK FALSE
