SPECIFICATION Spec
CONSTANTS
  Programs <- MCPrograms
  Exports <- MCExports
  Specs <- MCSpecs
INVARIANTS TypeOK BinderMeant WellTyped ArmsJudged ComesToRest
PROPERTIES OnlyLearns
CHECK_DEADLOCK FALSE
