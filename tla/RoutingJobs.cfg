SPECIFICATION Spec
CONSTANTS
  Requests = {r1, r2}
  Polls = {p1}
  JobIds = {j1, j2}
  Keys = {k1}
  Targets = {{k1}}
  Owners = {o1}
  Stamps = {1}
  Rollovers = {}
  NoJob = NoJob
  Limit = 1
  StaleAfter = 1
  RetainFor = 1
  LastInsert = 1
  MaxTime = 2
  MaxFailOpen = 1
INVARIANTS WorkHasRow BacklogBounded
PROPERTIES FreshReuseHasResult LateWorkerCannotRevive ImplementsLifecycle
SYMMETRY RequestSymmetry
