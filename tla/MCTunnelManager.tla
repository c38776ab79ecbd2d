--------------------------- MODULE MCTunnelManager ---------------------------
(* Two starts of one profile and a few clients, for each type of tunnel. *)
EXTENDS TunnelManager

LocalProfile   == [type |-> "local",   shared |-> TRUE]
DynamicProfile == [type |-> "dynamic", shared |-> FALSE]
ReverseProfile == [type |-> "reverse", shared |-> TRUE]
AllProfiles    == {LocalProfile, DynamicProfile, ReverseProfile}
==============================================================================
