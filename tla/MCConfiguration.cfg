SPECIFICATION MCSpec
CONSTANTS
  s1 = s1
  s2 = s2
  ServerIds = {s1, s2}
  NoServer = NoServer
  SessionIds = {x1}
  NoSession = NoSession
  Paths <- MCPaths
  Populations <- MCPopulations
  Target <- MCTarget
  Protected <- MCProtected
  MaxBatches = 1
  MaxOps = 1
  Devices = {d1, d2}
  Refreshers = {r1, r2}
  MaxClock = 2
  MaxRev = 1
  Hosts = {1, 2}
  Gateways = {"g1", "g2"}
  Focuses = {"address", "alternate", "auth", "gateway"}
SYMMETRY Symmetry
INVARIANTS GatewayResolves VaultMatchesSource SettledAndUsable
PROPERTIES RollbackSafe SyncHonest HandEditsSurvive
CHECK_DEADLOCK FALSE
