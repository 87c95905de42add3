SPECIFICATION JatcSpec
CONSTANTS
  r1 = r1
  r2 = r2
  r3 = r3
  t1 = t1
  Requests <- MCRequests
  Readers <- MCOneReader
  MaxFilters = 0
INVARIANTS
  NoUseAfterFree
