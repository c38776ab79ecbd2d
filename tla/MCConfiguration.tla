--------------------------- MODULE MCConfiguration ---------------------------
(***************************************************************************)
(* The configuration and its inventory sources, at three levels, one per   *)
(* behaviour: the core's maps and their rollback, the commands that race   *)
(* for one source, and the plan a sync makes for one device.  Each module  *)
(* sees the others only through what it calls.                             *)
(***************************************************************************)
EXTENDS NexusCore, InventorySync, SyncPlan, TLC
CONSTANTS s1, s2

VARIABLE part   \* "core", "commands" or "plan"

MCPaths == {<<"a">>, <<"b">>, <<"a", "b">>, <<"c">>, <<"c", "b">>}
MCTarget == <<"a">>
MCProtected == {}

\* Synced into the target folder; synced with a gateway of its template's; moved
\* out of it by the user, who made it the gateway of a server of theirs.
MCPopulations ==
  {[i \in ServerIds |-> Absent],
   (s1 :> Record(<<"a", "b">>, NoServer, FALSE, TRUE, "old") @@ s2 :> Absent),
   (s1 :> Record(<<"a">>, NoServer, FALSE, TRUE, "old") @@ s2 :> Record(<<"a", "b">>, s1, TRUE, TRUE, "old")),
   (s1 :> Record(<<"c", "b">>, NoServer, FALSE, TRUE, "old") @@ s2 :> Record(<<"a">>, s1, FALSE, FALSE, "old"))}

Symmetry == Permutations(Devices) \cup Permutations(Refreshers)

MCInit ==
  /\ part \in {"core", "commands", "plan"}
  /\ CoreInit /\ InvInit /\ PlanInit
  /\ part # "core" => servers = [i \in ServerIds |-> Absent] /\ groups = {} /\ serialized
  /\ part # "commands" => world = {} /\ \A d \in Devices : srv[d] = "none"
  /\ part # "plan" => focus = "address" /\ policy = "keep"

MCNext ==
  \/ part = "core" /\ CoreNext /\ UNCHANGED <<part, invVars, planVars>>
  \/ part = "commands" /\ InvNext /\ UNCHANGED <<part, coreVars, planVars>>
  \/ part = "plan" /\ PlanNext /\ UNCHANGED <<part, coreVars, invVars>>

MCSpec == MCInit /\ [][MCNext]_<<part, coreVars, invVars, planVars>>
==============================================================================
