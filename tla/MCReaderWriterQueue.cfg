CONSTANTS
  Shapes <- MCShapes
  MaxNew = 1
  MaxPush = 6
  MaxPending = 3
SPECIFICATION FairSpec
INVARIANTS TakesNext AssertsHold ObjectLifetimes BlocksKept
PROPERTIES EmptyIsTrue RefusesOnlyWhenFull RefinesFifo EventuallyThrough
