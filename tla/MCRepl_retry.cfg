SPECIFICATION HSpec
CONSTANTS
  Vars <- MCVars
  NoVar = "-"
  Lines = {"x", "bad", "y"}
  Compiled <- MCCompiled
  Commented = {}
  Unparsable = {}
  Cancellable = FALSE
  MaxSubmissions = 3
PROPERTIES FreshWorker
CHECK_DEADLOCK FALSE
