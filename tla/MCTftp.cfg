SPECIFICATION Spec
CONSTANTS
  Transfers <- AllTransfers
  BlockSpace = 8
  MaxQueue = 2
  MaxRetries = 5
  Timeout = 5
  GcInterval = 2
  MaxBackoff = 60
  MaxFaults = 2
INVARIANTS FileIntact HonestOutcome
PROPERTIES TransferEnds
CHECK_DEADLOCK FALSE
