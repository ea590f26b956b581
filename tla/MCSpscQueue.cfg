\* Elements with constructors that may throw and a destructor; the counters wrap.
CONSTANTS
  Slots = 4
  Modulus = 8
  Trivial = FALSE
  MaxPush = 18
SPECIFICATION FairSpec
INVARIANTS TypeOK DataRaceFree PopsInOrder ObjectLifetimes
PROPERTIES RefinesFifo EventuallyThrough
