SPECIFICATION HSpec
CONSTANTS
  Vars <- MCVars
  NoVar = "-"
  Lines = {"x", "y", "a", "n", "if", "f64", "bad", "typo"}
  Compiled <- MCCompiled
  Commented = {}
  Unparsable = {"typo"}
  Cancellable = TRUE
  MaxSubmissions = 5
INVARIANTS TypeOK OnTrace ReplayRestores InstancesDistinct
PROPERTIES ReplayIsPure ReplayNeverFails KeepsItsPromise
CHECK_DEADLOCK FALSE
