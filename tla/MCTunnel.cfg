SPECIFICATION Spec
CONSTANTS
  Tunnels = {t1, t2}
  NoTunnel = NoTunnel
  Clients = {x1, x2}
  MaxConns = 3
  Profiles <- AllProfiles
INVARIANTS OneTunnelPerProfile NothingEscapesStop
PROPERTIES StopCompletes
CHECK_DEADLOCK FALSE
