SPECIFICATION BoundedSpec
CONSTANTS
  a = a
  c1 = c1
  l1 = l1
  l2 = l2
  Tasks <- MCTasks
  Clients <- MCClients
  LogClients <- MCLogClients
  WorkerThread = w
  w = w
  Services <- MCServices
  MaxMessages = 2
  MaxTime = 1
SYMMETRY MCSymmetry
INVARIANTS
  ServicesTypeOK
  AwaitFlushes
  LogOrder
  CountAccounting
  OversleepsOnlyMissed
PROPERTIES
  AwaitedRemovalSafe
