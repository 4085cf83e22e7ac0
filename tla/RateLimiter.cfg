\* Two users behind one address.  A token takes three ticks to earn, the burst
\* is two of them, and a second has two ticks.
CONSTANTS
  alice = alice
  bob = bob
  ip = ip
  Keys = {alice, bob, ip}
  KeyLists <- MCKeyLists
  Requests = {r1, r2}
  Cost = 3
  Cap = 6
  IdleFor = 6
  MaxKeys = 2
  Second = 2
  MaxTime = 7
  MaxSent = 4
  None = None
SPECIFICATION Spec
INVARIANTS AdmissionBound RetryAfterSuffices
PROPERTIES RefusalIsFree
SYMMETRY Interchangeable
CHECK_DEADLOCK FALSE
