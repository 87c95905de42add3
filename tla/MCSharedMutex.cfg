SPECIFICATION BuildsSpec
CONSTANTS
  t1 = t1
  t2 = t2
  t3 = t3
  Threads <- MCThreads
  NumEntries = 2
  Linux = TRUE
  SpuriousFailure = FALSE
  MAX_INT = 2147483647
  MaxOps = 1
INVARIANTS
  TypeOK
  MutualExclusion
  EntryAccounting
  NoLostWakeup
  UnlockNeverBlocks
PROPERTIES
  ImplementsRWLock
  LinuxCallsReturn
