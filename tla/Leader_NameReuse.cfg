SPECIFICATION Spec
CONSTANTS
  p1 = p1
  p2 = p2
  p3 = p3
  NoPod = NoPod
  Pods <- ThreePods
  NameOf <- ReusedNames
  MaxFaults = 0
INVARIANTS AtMostOneLeader
CHECK_DEADLOCK FALSE
