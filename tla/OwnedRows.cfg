SPECIFICATION Spec
CONSTANTS
  Users = {a, b, d}
  Admins = {a}
  Curated = c
  Authored = {s}
  Routes = {t1, t2, t3}
  Stations = {n1, n2}
  Services = {v1}
  Drafts = {w1}
  Seeded = {t1, n1}
  Planted = {t2, n2, v1}
  Requests = {r1, r2}
  None = None
  MinStops = 1
  MaxRequests = 3
INVARIANTS TypeOK OwnersAgree
PROPERTIES LossesAreOwn
SYMMETRY Symmetry
CHECK_DEADLOCK FALSE
