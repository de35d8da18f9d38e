SPECIFICATION Spec
CONSTANTS
  Requests = {r1, r2}
  Workers = {w1, w2}
  CorePoolSize = 1
  MaxThreads = 3
  Protocols = {"http", "dubbo"}
  Instructions <- PoolInstructions
INVARIANTS WorkInv ExactlyTimes NoForeignResult NoStragglers RejectedOnlyWhenFull
SYMMETRY Symmetry
