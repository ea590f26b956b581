\* Samples of up to nine cycles in an int of four bits: the sum wraps, and more than once.
CONSTANTS
  Latencies = {0, 1, 2, 5, 9}
  MaxSamples = 6
  ClockPairs <- MCClockPairs
  Second = 10
  IntModulus = 16
SPECIFICATION Spec
INVARIANT ReportRight
