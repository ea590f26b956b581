\* Five samples through a queue of three: it fills, and the ring is lapped.
CONSTANTS
  Slots = 4
  Modulus = 8
  Trivial = TRUE
  MaxPush = 5
SPECIFICATION BenchFairSpec
INVARIANT GivesUpLate
PROPERTY Ends
