SPECIFICATION Spec
CONSTANTS
  Suffix <- Twin
  Hands <- MCHands
INVARIANTS GrammarHolds ReadsBack NothingDropped
CHECK_DEADLOCK FALSE
