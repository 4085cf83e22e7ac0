SPECIFICATION FairSpec
CONSTANTS
  Procs = {p1, p2}
  Releases = {1, 2}
  b1 = b1  t1 = t1  t2 = t2  n1 = n1  v1 = v1
  Main = Main
  Vehicles = {b1}
  Routes = {t1, t2}
  Stations = {n1}
  Services = {v1}
  Times = Times
  Yaml <- MCYaml
  Uses <- MCUses
  None = None
  MaxEvents = 2
INVARIANTS ServesItsRelease SettledIsLeftAlone UnlinkedWasCut
PROPERTIES EveryBootServes
CHECK_DEADLOCK FALSE
