\* A consumer may sleep for ever when nothing more is enqueued.
CONSTANTS
  MaxPush = 5
SPECIFICATION FairSpec
INVARIANTS AssertsHold TokensBalanced CountExact
PROPERTIES DeniedOnlyWhenEmpty EventuallyDequeued
CHECK_DEADLOCK FALSE
