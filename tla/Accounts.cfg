SPECIFICATION Spec
CONSTANTS
  Users = {a, b}
  Bootstrap = a
  Requests = {r1, r2}
  Patches = {{"demote"}, {"enable"}, {"promote", "disable"}}
  MaxRequests = 5
INVARIANTS DeadLinksStayDead  AdminRemains DeadlockNeedsTwoLinks
PROPERTIES NoChangeAcrossRevocation
CHECK_DEADLOCK FALSE
