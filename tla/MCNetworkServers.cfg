SPECIFICATION MCSpec
CONSTANTS
  m1 = m1
  m2 = m2
  Macs = {m1, m2}
  Pool = {1}
  StaticMaps <- MCStatic
  Period = 2
  OfferTTL = 1
  MaxTime = 3
  MaxBoots = 2
  MaxChain = 2
  Peers = {c1, c2}
  MaxTransfers = 1
  NumSessions = 2
  MaxPackets = 2
  MaxLifecycle = 3
  MaxCommands = 2
  MaxSettings = 2
  MaxTrouble = 2
INVARIANTS LeaseTableSound EngineSound ServiceHonest
PROPERTY SavedNeverShared
CHECK_DEADLOCK FALSE
