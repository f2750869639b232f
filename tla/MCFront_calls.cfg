SPECIFICATION Spec
CONSTANTS
  Programs <- MCNested
  Exports <- MCExports
  Specs <- MCSpecs
INVARIANT WellTyped
CHECK_DEADLOCK FALSE
