SPECIFICATION Spec
CONSTANTS
  Unsigned = {"u8", "u64"}
  Signed = {"s8", "s64"}
  Floating = {"f32", "f64"}
  Half <- MCHalf
  WordHalf = 8
  Round <- MCRound
  Double = "f64"
  Literals <- MCLiterals
INVARIANTS TypeOK Exact OrderKept
PROPERTIES RefusedRightly
CHECK_DEADLOCK FALSE
