CONSTANTS
  Shapes <- MCShapes
  MaxNew = 1
  MaxPush = 6
  MaxPending = 3
SPECIFICATION SizeSpec
PROPERTY SumsBetween
