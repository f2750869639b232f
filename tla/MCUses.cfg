SPECIFICATION Spec
CONSTANTS
  Uses <- Threes
  Arms = TRUE
INVARIANTS Agreement NothingLost
CHECK_DEADLOCK FALSE
