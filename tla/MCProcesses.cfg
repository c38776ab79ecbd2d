SPECIFICATION MCSpec
CONSTANTS
  Windows = {w1, w2}
  TunnelProfiles = {p1, p2}
  ReverseProfiles = {p2}
  MaxMisses = 1
  MaxStarts = 2
  HostCalls = {r1, r2}
  NumAttempts = 2
  NumChildren = 3
  MaxInFlight = 2
INVARIANTS NoOrphanDaemon
PROPERTIES RegistryConverges AdmissionsReturn
CHECK_DEADLOCK FALSE
