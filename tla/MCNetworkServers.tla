--------------------------- MODULE MCNetworkServers ---------------------------
(* The DHCP lease table or the TFTP engine of the daemon, or the way of a     *)
(* command from the sidebar to a service and back: they share no state.       *)
EXTENDS DhcpLeases, TftpEngine, ServiceLifecycle, TLC
CONSTANTS m1, m2

VARIABLE part   \* the component under test

\* No reservation, or the pool's only address reserved for m1.
MCStatic == {(m1 :> 0 @@ m2 :> 0), (m1 :> 1 @@ m2 :> 0)}

MCInit ==
  /\ part \in {"dhcp", "tftp", "service"}
  /\ DhcpInit /\ EngInit /\ SvcInit
  /\ part # "dhcp" => static = [m \in Macs |-> 0]

MCNext ==
  \/ part = "dhcp" /\ DhcpNext /\ UNCHANGED <<part, engVars, svcVars>>
  \/ part = "tftp" /\ EngNext /\ UNCHANGED <<part, dhcpVars, svcVars>>
  \/ part = "service" /\ SvcNext /\ UNCHANGED <<part, dhcpVars, engVars>>

MCSpec == MCInit /\ [][MCNext]_<<part, dhcpVars, engVars, svcVars>>
==============================================================================
