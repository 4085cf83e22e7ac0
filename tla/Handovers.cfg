SPECIFICATION Spec
CONSTANTS
  Users = {a, b}
  Admins = {a}
  RouteOwners = {None, b}
  Services = {s1}
  Scenarios = {c1}
  Offers = {h1, h2}
  Requests = {r1, r2}
  None = None
  TTL = 1
  MaxTime = 1
PROPERTIES MovesAreRecorded AnsweredOnce MovesOutsideScenarios
SYMMETRY Symmetry
