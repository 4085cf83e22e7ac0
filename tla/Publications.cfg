SPECIFICATION Spec
CONSTANTS
  Services = {s1, s2}
  JobIds = {j1, j2}
  None = None
  Requests = {r1, r2}
  Readers = {q1}
  Policies = {w1, w2}
  MaxTime = 3
  MaxLine = 1
INVARIANTS PinHolds ReaderFindsGraph SameETagSameSnapshot
PROPERTIES ImplementsRegister
SYMMETRY Symmetry
