SPECIFICATION FairSpec
CONSTANTS
  a = a
  b = b
  c1 = c1
  c2 = c2
  Tasks <- MCTasks
  Clients <- MCOneClient
  Services <- MCServices
  MaxTime = 1
INVARIANTS
  AwaitDrains
