SPECIFICATION HSpec
CONSTANTS
  Vars <- MCVars
  NoVar = "-"
  Lines = {"x", "for", "a"}
  Compiled <- MCCompiled
  Commented = {}
  Unparsable = {}
  Cancellable = FALSE
  MaxSubmissions = 3
INVARIANTS ReplayRestores
CHECK_DEADLOCK FALSE
