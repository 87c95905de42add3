SPECIFICATION GuardSpec
CONSTANTS
  t1 = t1
  t2 = t2
  t3 = t3
  Threads <- MCThreads
  Kind <- MCKind
  Script <- ManualLockTest
  NumEntries = 2
  MAX_INT = 2147483647
  Linux = TRUE
  SpuriousFailure = FALSE
  MaxOps = 2
PROPERTIES
  ThreadsJoin
CHECK_DEADLOCK FALSE
