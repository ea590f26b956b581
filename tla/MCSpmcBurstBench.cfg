\* A burst of a ring and a half, in which consumers may be lapped, as they may in
\* kBurstSize messages; then a short one of a ring.
CONSTANTS
  Slots = 2
  Modulus = 8
  Words = {w1}
  Consumers = {c1, c2}
  MaxPush = 5
  Burst = 3
  Main = main
SPECIFICATION BenchFairSpec
INVARIANTS MetricsOfOneEpoch NoAbortWithinRing
PROPERTY Completes
