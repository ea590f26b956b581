CONSTANTS
  Slots = 4
  Modulus = 8
  Trivial = TRUE
  MaxPush = 2
SPECIFICATION BenchSpec
INVARIANT NeverGivesUp
