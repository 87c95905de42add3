SPECIFICATION FairSpec
CONSTANTS
  a = a
  b = b
  c1 = c1
  c2 = c2
  Tasks <- MCTasks
  Clients <- MCClients
  Services <- MCServices
  MaxTime = 1
INVARIANTS
  TaskConserved
  OversleepsOnlyMissed
  AwaitRunsImmediate
PROPERTIES
  NeverEarly
  NotifiedTaskRuns
  ShutdownReturns
