SPECIFICATION FairSpec
CONSTANTS
  good = good
  bad = bad
  env = env
  rev = rev
  None = None
  Mixed = Mixed
  Absent = Absent
  Charts <- MCCharts
  Names <- MCNames
  BadCharts <- OneBad
  Specs <- OneGoodOneBad
  MaxUid = 1
  MaxEdits = 1
  MaxTroubles = 2
PROPERTIES Converges RefusalReported DeletionEnds
CHECK_DEADLOCK FALSE
