------------------------------- MODULE SyncPlan -------------------------------
(***************************************************************************)
(* services/inventory/syncEngine.ts, computeSyncPlan(), for one device of  *)
(* one source, with the field matrices of templateApply.ts: which fields   *)
(* of a server a sync writes when the device changed, the user edited the  *)
(* server, the source was removed with "Keep Servers" and added again, or  *)
(* the source's auth profile lost its key file.                            *)
(*                                                                         *)
(* The sync remembers per field what it wrote last (a stamp); a value that *)
(* is neither the stamp nor the device's own is the user's.  Hosts are     *)
(* numbers, 0 is a blank; the ssh endpoint has port 22, telnet port 23.    *)
(***************************************************************************)
EXTENDS Naturals, FiniteSets

CONSTANTS
  Hosts,          \* addresses of the device and of the user
  Gateways,       \* servers of the source a template may name as IPMI gateway
  Focuses         \* bound: what the user and the inventory may change in one behaviour

ASSUME PlanAssumption == Hosts \subseteq Nat \ {0} /\ "none" \notin Gateways

VARIABLES
  focus,     \* "address", "alternate", "auth" or "gateway"
  policy,    \* source.prunePolicy
  attached,  \* the source is configured
  device,    \* the device in the provider's tree
  profile,   \* the source's auth profile: "usable", "keyless" (no key file) or "none"
  template,  \* the gateway of the device template: [to, mode]
  gateways,  \* servers that exist
  gwTree,    \* gateways whose device is in the tree
  server,    \* the device's server
  rival,     \* another server has become the device's
  hand,      \* history: fields the user typed a value into that no sync has met at the device since
  fresh      \* history: nothing has changed since the last sync, which adopted and deleted nothing

planVars == <<focus, policy, attached, device, profile, template, gateways, gwTree, server, rival, hand, fresh>>

Fields == {"host", "port", "protocol", "altHost", "ipmiHost", "auth", "gateway"}
Blank == [host |-> 0, port |-> 0, protocol |-> "ssh", altHost |-> 0, ipmiHost |-> 0, auth |-> "none", gateway |-> "none"]
Unmade == [owner |-> "nobody", val |-> Blank, stamp |-> Blank, addressless |-> FALSE, ownKey |-> FALSE]

\* "mapped" is false for an empty name or an invalid port; a second
\* ssh address is an alternate only beside a first one.
DeviceStates ==
  {d \in [here : BOOLEAN, mapped : BOOLEAN, ssh : Hosts \cup {0}, alt : Hosts \cup {0}, telnet : Hosts \cup {0}, oob : Hosts \cup {0}] :
     /\ d.alt # 0 => d.ssh # 0 /\ d.alt # d.ssh
     /\ ~d.here => d.mapped /\ d.ssh = 0 /\ d.telnet = 0 /\ d.alt = 0 /\ d.oob = 0}

PlanInit ==
  /\ focus \in Focuses /\ policy \in {"delete", "keep"} /\ attached = TRUE
  /\ device = [here |-> FALSE, mapped |-> TRUE, ssh |-> 0, alt |-> 0, telnet |-> 0, oob |-> 0]
  /\ profile = "usable"
  /\ template = [to |-> "none", mode |-> "fill"]
  /\ gateways = {} /\ gwTree = {}
  /\ server = Unmade /\ rival = FALSE
  /\ hand = {} /\ fresh = FALSE

------------------------------------------------------------------------------
(* Endpoints *)

Endpoint(h, protocol) == [host |-> h, port |-> IF protocol = "telnet" THEN 23 ELSE 22, protocol |-> protocol]

\* selectPrimaryEndpoint() prefers ssh; selectEndpointForProtocol() does not choose.
EndpointFor(d, protocol) == Endpoint(IF protocol = "telnet" THEN d.telnet ELSE d.ssh, protocol)
Primary(d) == EndpointFor(d, IF d.ssh # 0 \/ d.telnet = 0 THEN "ssh" ELSE "telnet")
Addressed(d) == d.ssh # 0 \/ d.telnet # 0

------------------------------------------------------------------------------
(* Whose field it is *)

\* Mutant: a value the user typed is overwritten like any other.
OwnsAll(s, f, offered) == TRUE

\* syncOwnsHost(), syncOwnsPort(), syncOwnsProtocol(), syncOwnsAltHost(), syncOwnsIpmiHost()
SyncOwns(s, f, offered) == s.val[f] = s.stamp[f] \/ s.val[f] = offered

\* Value and stamp are written together.
Taken(s, T, offer) ==
  [s EXCEPT !.val = [f \in Fields |-> IF f \in T THEN offer[f] ELSE s.val[f]],
            !.stamp = [f \in Fields |-> IF f \in T THEN offer[f] ELSE s.stamp[f]]]

------------------------------------------------------------------------------
(* The link to the source's auth profile *)

\* decideTemplateAuthWrite(): only a server nobody has configured is filled.
AuthFilled(s) ==
  IF profile = "usable" /\ s.val.auth = "none" /\ s.stamp.auth = "none" /\ ~s.ownKey
    THEN Taken(s, {"auth"}, [Blank EXCEPT !.auth = "source"])
    ELSE s

\* Mutant: a link to a profile without a key file is left in place.
NeverUnlinks(s) == FALSE

\* decideSourceAuthRollback(): a link of the sync that cannot connect any more.
Unlinks(s) == profile = "keyless" /\ s.val.auth = "source" /\ s.stamp.auth = "source" /\ ~s.ownKey

RolledBack(s) == IF Unlinks(s) THEN Taken(s, {"auth"}, Blank) ELSE s

------------------------------------------------------------------------------
(* The gateway a template sets *)

Survivors == IF policy = "delete" THEN gwTree ELSE gateways \cup gwTree

\* composeDesiredFields() skips a server that does not exist.
Desired == template.to # "none" /\ template.to \in gateways \cup gwTree

\* matrixWrites(): an empty field that was never written, or, in override
\* mode, a value the template wrote itself.
MatrixWrites(s) ==
  /\ Desired
  /\ \/ s.val.gateway = "none" /\ s.stamp.gateway = "none"
     \/ /\ s.val.gateway # "none" /\ s.val.gateway = s.stamp.gateway
        /\ template.to # s.val.gateway /\ template.mode = "override"

\* rejectWrittenGateway(): a gateway this sync prunes is not written, and
\* what was there before stays if it survives.
GatewayWritten(s) ==
  IF ~MatrixWrites(s) THEN s
  ELSE IF template.to \in Survivors THEN Taken(s, {"gateway"}, [Blank EXCEPT !.gateway = template.to])
  ELSE IF s.val.gateway \in Survivors THEN s ELSE Taken(s, {"gateway"}, Blank)

\* invalidTemplateGateway(), dropTemplateGateway()
GatewayDropped(s) ==
  IF s.val.gateway # "none" /\ s.val.gateway = s.stamp.gateway /\ s.val.gateway \notin Survivors
    THEN Taken(s, {"gateway"}, Blank) ELSE s

------------------------------------------------------------------------------
(* The four outcomes for a device that is in the tree *)

\* An alternate address that became the address is forgotten.
AltCleared(s) ==
  IF s.val.altHost # 0 /\ s.val.altHost = s.val.host /\ s.stamp.altHost = s.val.altHost
    THEN Taken(s, {"altHost"}, Blank) ELSE s

Hands(s, f, offered) == offered # 0 /\ SyncOwns(s, f, offered)

\* Mutant: the placeholder's flag goes whenever the device has a console.
ClearsAlways(e) == TRUE

ClearsFlag(e) == e.host # 0

\* The address is decided against the transport the record is to have; the
\* transport is taken only with the whole address.
AddressedUpdate(s, d) ==
  LET prim == Primary(d)
      takesProtocol == SyncOwns(s, "protocol", prim.protocol)
      e == EndpointFor(d, IF takesProtocol THEN prim.protocol ELSE s.val.protocol)
      takesHost == Hands(s, "host", e.host)
      takesPort == e.host # 0 /\ SyncOwns(s, "port", e.port)
      T == {f \in Fields :
              \/ f = "host" /\ takesHost
              \/ f = "port" /\ takesPort
              \/ f = "protocol" /\ takesProtocol /\ takesHost /\ takesPort
              \/ f = "altHost" /\ Hands(s, f, d.alt)
              \/ f = "ipmiHost" /\ Hands(s, f, d.oob)}
      t == Taken(GatewayWritten(s), T, [Blank EXCEPT !.host = e.host, !.port = e.port, !.protocol = prim.protocol,
                                                     !.altHost = d.alt, !.ipmiHost = d.oob])
  IN AltCleared(RolledBack(AuthFilled([t EXCEPT !.addressless = @ /\ ~ClearsFlag(e)])))

\* The device has no console: an address of the sync's goes, one of the
\* user's stays.
AddresslessUpdate(s, d) ==
  LET blanks == SyncOwns(s, "host", 0) /\ SyncOwns(s, "port", 0)
      T == {f \in Fields :
              \/ f \in {"host", "port"} /\ blanks
              \/ f = "protocol" /\ blanks /\ SyncOwns(s, f, "ssh")
              \/ f = "ipmiHost" /\ Hands(s, f, d.oob)}
      t == Taken(GatewayWritten(s), T, [Blank EXCEPT !.ipmiHost = d.oob])
  IN RolledBack([t EXCEPT !.addressless = blanks])

\* Mutant: what an added server was given is not remembered.
AddedUnmarked(d) ==
  LET e == Primary(d) IN
  [Unmade EXCEPT !.owner = "sync", !.addressless = ~Addressed(d),
                   !.val.host = IF Addressed(d) THEN e.host ELSE 0, !.val.port = IF Addressed(d) THEN e.port ELSE 0,
                   !.val.protocol = e.protocol]

Added(d) ==
  LET prim == Primary(d)
      t == Taken([Unmade EXCEPT !.owner = "sync", !.addressless = ~Addressed(d)],
                 {"host", "port", "protocol", "altHost", "ipmiHost"},
                 IF Addressed(d)
                   THEN [Blank EXCEPT !.host = prim.host, !.port = prim.port, !.protocol = prim.protocol,
                                      !.altHost = d.alt, !.ipmiHost = d.oob]
                   ELSE [Blank EXCEPT !.ipmiHost = d.oob])
  IN AuthFilled(GatewayWritten(t))

\* A kept server is eligible when it is still where the device is.
Eligible(s, d) == s.owner = "kept" /\ Addressed(d) /\ s.val.host = Primary(d).host /\ s.val.port = Primary(d).port

\* Mutant: the marks of the removed source are forgotten.
AdoptsBlank(s, d) == [s EXCEPT !.owner = "sync", !.stamp = [Blank EXCEPT !.host = s.val.host, !.port = s.val.port]]

\* The stamps of the removed source are taken over with the server.
Reclaimed(s, d) == [s EXCEPT !.owner = "sync", !.stamp.host = s.val.host, !.stamp.port = s.val.port]

Adopted(s, d) ==
  LET r == Reclaimed(s, d)
      T == {f \in Fields :
              \/ f = "protocol" /\ SyncOwns(r, f, Primary(d).protocol)
              \/ f = "altHost" /\ Hands(r, f, d.alt)
              \/ f = "ipmiHost" /\ Hands(r, f, d.oob)}
      t == Taken(GatewayWritten(r), T, [Blank EXCEPT !.protocol = Primary(d).protocol, !.altHost = d.alt, !.ipmiHost = d.oob])
  IN AltCleared(AuthFilled(t))

\* What a sync makes of the server; choice is the user's answer to the offer
\* of adoption.
Planned(s, choice) ==
  LET d == device
      t == IF rival THEN s
           ELSE IF s.owner = "sync" /\ d.here
             THEN IF ~d.mapped THEN RolledBack(s)
                  ELSE IF Addressed(d) THEN AddressedUpdate(s, d) ELSE AddresslessUpdate(s, d)
           ELSE IF s.owner = "sync"
             THEN IF policy = "delete" THEN Unmade ELSE s
           ELSE IF s.owner = "kept" /\ d.here /\ d.mapped /\ Eligible(s, d) /\ choice = "adopt" THEN Adopted(s, d)
           ELSE IF s.owner = "nobody" /\ d.here /\ d.mapped THEN Added(d)
           ELSE s
  IN GatewayDropped(t)

\* NexusCore clears what names a server the sync has deleted.
Swept(s) ==
  IF s.val.gateway \in gateways \ Survivors
    THEN [s EXCEPT !.val.gateway = "none", !.stamp.gateway = IF @ = s.val.gateway THEN "none" ELSE @] ELSE s

------------------------------------------------------------------------------
(* Actions *)

\* What the device offers for a field just now.
Offered(f) ==
  CASE f = "host" -> {device.ssh, device.telnet}
    [] f = "port" -> (IF device.ssh # 0 THEN {22} ELSE {}) \cup (IF device.telnet # 0 THEN {23} ELSE {})
    [] f = "protocol" -> {Primary(device).protocol}
    [] f = "altHost" -> {device.alt}
    [] f = "ipmiHost" -> {device.oob}
    [] OTHER -> {}

Sync(choice) ==
  /\ attached
  /\ server' = Swept(Planned(server, choice))
  /\ rival' = (rival \/ (server.owner = "kept" /\ device.here /\ device.mapped /\ server'.owner = "kept"))
  /\ gateways' = Survivors
  /\ hand' = IF server'.owner = "nobody" THEN {}
             ELSE {f \in hand : server'.val[f] = server.val[f] /\ server.val[f] \notin Offered(f)}
  /\ fresh' = ((server.owner # "kept" \/ server'.owner = "kept") /\ gateways \subseteq Survivors)
  /\ UNCHANGED <<focus, policy, attached, device, profile, template, gwTree>>

\* To type again what the sync wrote last gives the field back to it.
Typed(T) == (hand \ T) \cup {f \in T : server'.val[f] # server.stamp[f]}

\* The user saves the server's form with one field changed; a placeholder
\* becomes a server by getting a whole address.
Edit(f, v) ==
  /\ server.owner # "nobody" /\ server.val[f] # v
  /\ f \in {"host", "port"} => ~server.addressless /\ v # 0
  /\ server' = [server EXCEPT !.val[f] = v]
  /\ hand' = Typed({f})
  /\ fresh' = FALSE
  /\ UNCHANGED <<focus, policy, attached, device, profile, template, gateways, gwTree, rival>>

GiveAddress(h, p) ==
  /\ server.owner # "nobody" /\ server.addressless
  /\ server' = [server EXCEPT !.val.host = h, !.val.port = p, !.addressless = FALSE]
  /\ hand' = Typed({"host", "port"})
  /\ fresh' = FALSE
  /\ UNCHANGED <<focus, policy, attached, device, profile, template, gateways, gwTree, rival>>

GiveKey ==
  /\ server.owner # "nobody"
  /\ server' = [server EXCEPT !.ownKey = ~@]
  /\ fresh' = FALSE
  /\ UNCHANGED <<focus, policy, attached, device, profile, template, gateways, gwTree, rival, hand>>

Values(f) ==
  CASE f = "port" -> {22, 23, 99}
    [] f = "protocol" -> {"ssh", "telnet"}
    [] f = "auth" -> {"none", "mine", "source"}
    [] f = "gateway" -> {"none"} \cup gateways
    [] OTHER -> Hosts \cup {0}

EditableFields ==
  CASE focus = "address" -> {"host", "port", "protocol"}
    [] focus = "alternate" -> {"host", "altHost"}
    [] focus = "auth" -> {"auth", "ipmiHost"}
    [] OTHER -> {"gateway"}

UserEdits ==
  \/ \E f \in EditableFields : \E v \in Values(f) :
       /\ f = "auth" /\ v = "source" => profile # "none"
       /\ Edit(f, v)
  \/ focus \in {"address", "alternate"} /\ \E h \in Hosts, p \in {22, 99} : GiveAddress(h, p)
  \/ focus = "auth" /\ GiveKey

DeviceChanges ==
  /\ \E d \in DeviceStates :
       /\ d # device
       /\ focus # "auth" => d.mapped
       /\ focus # "address" => d.telnet = 0
       /\ focus # "alternate" => d.alt = 0
       /\ focus # "auth" => d.oob = 0
       /\ focus \in {"auth", "gateway"} => 2 \notin {d.ssh, d.oob}
       /\ device' = d
  /\ fresh' = FALSE
  /\ UNCHANGED <<focus, policy, attached, profile, template, gateways, gwTree, server, rival, hand>>

GatewayChanges ==
  /\ focus = "gateway"
  /\ \/ gwTree' \in SUBSET Gateways /\ UNCHANGED template
     \/ template' \in [to : Gateways \cup {"none"}, mode : {"fill", "override"}] /\ UNCHANGED gwTree
  /\ fresh' = FALSE
  /\ UNCHANGED <<focus, policy, attached, device, profile, gateways, server, rival, hand>>

ProfileChanges ==
  /\ focus = "auth" /\ profile # "none"
  /\ profile' \in {"usable", "keyless"} \ {profile}
  /\ fresh' = FALSE
  /\ UNCHANGED <<focus, policy, attached, device, template, gateways, gwTree, server, rival, hand>>

\* removeAuthProfile() clears the links and, with them, their stamps.
ProfileRemoved ==
  /\ focus = "auth" /\ profile # "none"
  /\ profile' = "none"
  /\ LET linked == server.val.auth = "source" IN
       /\ server' = [server EXCEPT !.val.auth = IF linked THEN "none" ELSE @,
                                   !.stamp.auth = IF linked THEN "none" ELSE @]
       /\ hand' = IF linked THEN hand \ {"auth"} ELSE hand
  /\ fresh' = FALSE
  /\ UNCHANGED <<focus, policy, attached, device, template, gateways, gwTree, rival>>

\* removeSource with "Keep Servers"; the address is not among the marks.
Detach ==
  /\ attached
  /\ attached' = FALSE
  /\ server' = IF server.owner = "sync"
                 THEN [server EXCEPT !.owner = "kept", !.stamp.host = 0, !.stamp.port = 0] ELSE server
  /\ rival' = FALSE
  /\ fresh' = FALSE
  /\ UNCHANGED <<focus, policy, device, profile, template, gateways, gwTree, hand>>

Attach ==
  /\ ~attached /\ attached' = TRUE
  /\ UNCHANGED <<focus, policy, device, profile, template, gateways, gwTree, server, rival, hand, fresh>>

PlanNext ==
  \/ \E choice \in {"adopt", "decline"} : Sync(choice)
  \/ UserEdits \/ DeviceChanges \/ GatewayChanges \/ ProfileChanges \/ ProfileRemoved
  \/ Detach \/ Attach

PlanSpec == PlanInit /\ [][PlanNext]_planVars

------------------------------------------------------------------------------
PlanTypeOK ==
  /\ server.owner \in {"nobody", "sync", "kept"} /\ server.addressless \in BOOLEAN
  /\ \A f \in Fields \ {"gateway"} : server.val[f] \in Values(f) \cup {Blank[f]}
  /\ device \in DeviceStates /\ gateways \subseteq Gateways

(* What the user typed is the user's: a sync leaves it alone, unless it is   *)
(* the device's own just now.  A link or a gateway the user removed is not   *)
(* set again, also across "Keep Servers" and adoption; only a gateway that   *)
(* the sync deletes is let go.                                               *)
HandEditsSurvive ==
  [][\A f \in hand, choice \in {"adopt", "decline"} :
       server.val[f] \notin Offered(f) /\ Sync(choice) /\ server'.owner # "nobody" =>
         \/ server'.val[f] = server.val[f]
         \/ f = "gateway" /\ server.val[f] \notin gateways']_planVars

(* A sync settles: planning again with nothing changed changes nothing, so  *)
(* no later sync rewrites records or reports updates.  Two syncs are needed  *)
(* after an adoption, which takes over the address as it is, and after a     *)
(* gateway was deleted, whose successor is filled in by the next one.        *)
SyncSettles == fresh /\ attached => Planned(server, "decline") = server

(* A server the sync has linked to a profile that lost its key file, and     *)
(* that has no key of its own, is unlinked by the next sync, whatever else   *)
(* is wrong with its device.                                                 *)
NoUnusableLink ==
  fresh /\ attached /\ device.here /\ server.owner = "sync" /\ profile = "keyless" /\ ~server.ownKey =>
    ~(server.val.auth = "source" /\ server.stamp.auth = "source")

(* Every record the sync leaves passes validateServerConfig(): it is a       *)
(* placeholder or has a whole address.                                       *)
ValidRecord ==
  server.owner # "nobody" =>
    IF server.addressless THEN server.val.host = 0 ELSE server.val.host # 0 /\ server.val.port # 0

(* The record a sync leaves can be stored and used, and the next sync has    *)
(* nothing to add to it.                                                     *)
SettledAndUsable == PlanTypeOK /\ ValidRecord /\ NoUnusableLink /\ SyncSettles

(* "decide the ADDRESS against the protocol the record will ACTUALLY end up  *)
(* with": a host the sync writes is one of the record's own transport.       *)
AddressOfTransport ==
  [][\A choice \in {"adopt", "decline"} :
       Sync(choice) /\ server.owner = "sync" /\ server'.owner = "sync"
         /\ server'.val.host \notin {0, server.val.host} =>
       server'.val.host = EndpointFor(device, server'.val.protocol).host]_planVars
==============================================================================
