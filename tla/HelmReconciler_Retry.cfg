SPECIFICATION FairSpec
CONSTANTS
  good = good
  bad = bad
  env = env
  rev = rev
  None = None
  Mixed = Mixed
  Absent = Absent
  Charts <- MCCharts
  Names <- MCNames
  BadCharts <- NoBad
  Specs <- GoodOnly
  MaxUid = 1
  MaxEdits = 0
  MaxTroubles = 1
PROPERTIES InstallRetried
CHECK_DEADLOCK FALSE
