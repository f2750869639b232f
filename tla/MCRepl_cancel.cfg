SPECIFICATION HFairSpec
CONSTANTS
  Vars <- MCVars
  NoVar = "-"
  Lines = {"x", "a", "y", "b", "big", "if", "u8", "bad", "loop"}
  Compiled <- MCCompiled
  Commented = {}
  Unparsable = {}
  Cancellable = TRUE
  MaxSubmissions = 4
PROPERTIES KeepsItsPromise Answered
CHECK_DEADLOCK FALSE
