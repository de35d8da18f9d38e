SPECIFICATION Spec
CONSTANTS
  Requests = {r1}
  Workers = {w1, w2}
  CorePoolSize = 1
  MaxThreads = 3
  Protocols = {"http", "dubbo"}
  Instructions <- IterationInstructions
INVARIANTS TypeOK FreshResult ErrorsAbsorbed CallIntact RoundRobinBalanced
