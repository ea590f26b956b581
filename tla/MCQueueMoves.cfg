\* One circle more than queues: an assignment may or may not find memory.
CONSTANTS
  Queues = {q1, q2, q3}
  Circles = {c1, c2, c3, c4}
  Semas = {s1, s2, s3}
  Null = null
  MaxElements = 2
SPECIFICATION Spec
INVARIANTS OwnedOnce CountsMatch
