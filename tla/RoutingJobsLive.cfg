SPECIFICATION ClockSpec
CONSTANTS
  Requests = {r1}
  Polls = {p1}
  JobIds = {j1, j2}
  Keys = {k1}
  Targets = {{k1}}
  Owners = {o1}
  Stamps = {}
  Rollovers = {}
  NoJob = NoJob
  Limit = 1
  StaleAfter = 1
  RetainFor = 2
  LastInsert = 0
  MaxTime = 2
  MaxFailOpen = 0
PROPERTIES CapReopens StaleJobIsFailed
