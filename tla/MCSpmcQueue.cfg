\* Two consumers, a message of two words, up to three laps of two slots.
CONSTANTS
  Slots = 2
  Modulus = 6
  Words = {w1, w2}
  Consumers = {c1, c2}
  MaxPush = 5
SPECIFICATION FairSpec
INVARIANTS DeliversIntactInOrder AbortOnlyWhenLapped VersionTellsAll
PROPERTIES RefinesFanOut EventuallyDelivered
