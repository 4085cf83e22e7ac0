\* Two processes and two jobs; a job is interrupted when it is older than one
\* unit, and the clock reaches two.
SPECIFICATION PolledSpec
CONSTANTS
  Procs = {p1, p2}
  Polls = {q1}
  JobIds = {j1, j2}
  NoJob = NoJob
  InterruptedAfter = 1
  LastInsert = 0
  MaxTime = 2
INVARIANTS RefusedOnlyWhenLate
PROPERTIES SucceededIsFinal DrainOnlyShrinks SweepSparesOwn EveryCompileEnds
