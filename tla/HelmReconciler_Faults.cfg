SPECIFICATION Spec
CONSTANTS
  good = good
  bad = bad
  env = env
  rev = rev
  None = None
  Mixed = Mixed
  Absent = Absent
  Charts <- MCCharts
  Names <- MCNames
  BadCharts <- OneBad
  Specs <- PlainOrRefused
  MaxUid = 2
  MaxEdits = 1
  MaxTroubles = 2
INVARIANTS TypeOK ReportedIsGuarded FinalizerOnlyWhenDeployed
PROPERTIES NoLostEdit FinalizerHonoured
CHECK_DEADLOCK FALSE
