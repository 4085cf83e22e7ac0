SPECIFICATION FairIndexSpec
CONSTANTS
  Slugs = {1, 2, 3}
  Limits = {1, 2}
  MaxClock = 2
INVARIANTS NeverSkipsOrRepeats
PROPERTIES WalkEnds
