SPECIFICATION FairSpec
CONSTANTS
  p1 = p1
  p2 = p2
  p3 = p3
  NoPod = NoPod
  Pods <- ThreePods
  NameOf <- OwnNames
  MaxFaults = 1
INVARIANTS TypeOK AtMostOneLeader LeaderHoldsLock
PROPERTIES LeadsForLife SuccessorElected SeenEvictedReplaced
CHECK_DEADLOCK FALSE
