CONSTANTS
  Samples = 4
  Consumers = {c1, c2}
  RingSize = 3
SPECIFICATION FairSpec
PROPERTY AlwaysThrows
