SPECIFICATION DispatchedRemovalSpec
CONSTANTS
  a = a
  c1 = c1
  l1 = l1
  Tasks <- MCTasks
  Clients <- MCClients
  LogClients <- MCOneLogClient
  WorkerThread = w
  w = w
  Services <- MCServices
  MaxMessages = 1
  MaxTime = 1
  l2 = l2
INVARIANTS
  NoDanglingLogger
