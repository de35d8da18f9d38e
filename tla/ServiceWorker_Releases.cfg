SPECIFICATION FairSpec
CONSTANTS
  t1 = t1
  t2 = t2
  Tabs <- TwoTabs
  Releases = 3
  Registering <- FirstRegisters
  WithWorker <- FirstTwo
  MaxOutages = 1
  MaxHurries = 1
INVARIANTS TypeOK
PROPERTIES NewReleaseIsSeen UnregisteredForGood ReloadsEnd
