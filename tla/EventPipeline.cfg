SPECIFICATION Spec
CONSTANTS
  Threads = {t1}
  Cap = 1
  MaxRequests = 2
  MaxNotes = 3
  MaxTurns = 0
INVARIANTS PendingIsReachable SingleCustody LagAccounting
PROPERTIES LedgerSpec
CHECK_DEADLOCK FALSE
