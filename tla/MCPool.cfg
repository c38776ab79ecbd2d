SPECIFICATION Spec
CONSTANTS
  Leases = {l1, l2}
  MaxConns = 4
  MaxEdits = 1
  IdleTimeout = TRUE
INVARIANTS PoolInvariants
PROPERTIES CarefulLastLease PoolProgress
CHECK_DEADLOCK FALSE
