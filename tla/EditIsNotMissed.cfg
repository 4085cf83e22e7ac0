SPECIFICATION Spec
CONSTANTS
  Services = {s1}
  JobIds = {j1}
  None = None
  Requests = {r1}
  Readers = {q1}
  Policies = {w1, w2}
  MaxTime = 3
  MaxLine = 0
INVARIANT EditIsNotMissed
