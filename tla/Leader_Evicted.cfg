SPECIFICATION FairSpec
CONSTANTS
  p1 = p1
  p2 = p2
  p3 = p3
  NoPod = NoPod
  Pods <- TwoPods
  NameOf <- OwnNames
  MaxFaults = 0
PROPERTIES EvictedReplaced
CHECK_DEADLOCK FALSE
