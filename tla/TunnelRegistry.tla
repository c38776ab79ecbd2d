---------------------------- MODULE TunnelRegistry ----------------------------
(***************************************************************************)
(* services/tunnel/tunnelRegistrySync.ts and the parts of                  *)
(* commands/tunnelCommands.ts and extension.ts that drive it: the list of  *)
(* running tunnels that the VS Code windows share through globalState.     *)
(* Nothing locks the list: a window reads it, computes and writes it back, *)
(* and syncWithProbe() awaits port probes in between.                      *)
(*                                                                         *)
(* The list is a set of entries (their order decides nothing here), and    *)
(* "fresh" says that lastSeen is younger than STALE_THRESHOLD_MS.          *)
(***************************************************************************)
EXTENDS Naturals, FiniteSets

CONSTANTS
  Windows,          \* sessions of VS Code; one that ended never comes back
  TunnelProfiles,   \* profiles, each with a local port of its own
  ReverseProfiles,  \* those whose tunnelType is "reverse"
  MaxMisses,        \* bound on the probes that miss an open port
  MaxStarts         \* bound on the calls of startTunnel()

ASSUME RegistryAssumption ==
  /\ IsFiniteSet(Windows) /\ IsFiniteSet(TunnelProfiles)
  /\ ReverseProfiles \subseteq TunnelProfiles
  /\ MaxMisses \in Nat /\ MaxStarts \in Nat

VARIABLES
  window,      \* "closed", "opening" (in initialize()), "live", "gone"
  registry,    \* the entries in globalState
  active,      \* core's activeTunnels of each window
  starting,    \* startTunnel() calls that passed the ownership check
  remoteView,  \* core's remoteTunnels of each window
  probe,       \* syncWithProbe() of each window between its read and its write
  misses,      \* open ports a probe has missed so far
  starts       \* calls of startTunnel() so far

regVars == <<window, registry, active, starting, remoteView, probe, misses, starts>>

Keys    == Windows \X TunnelProfiles
Entries == [key : Keys, fresh : BOOLEAN]

Owner(e) == e.key[1]
Remote(S, w) == {e \in S : Owner(e) # w}
KeysOf(S)    == {e.key : e \in S}

NoProbe == [on |-> FALSE, read |-> {}, ask |-> {}, stale |-> {}]

RegInit ==
  /\ window = [w \in Windows |-> "closed"]
  /\ registry = {}
  /\ active = [w \in Windows |-> {}]
  /\ starting = [w \in Windows |-> {}]
  /\ remoteView = [w \in Windows |-> {}]
  /\ probe = [w \in Windows |-> NoProbe]
  /\ misses = 0 /\ starts = 0

Running(p)  == \E w \in Windows : p \in active[w]
PortOpen(p) == p \notin ReverseProfiles /\ Running(p)

------------------------------------------------------------------------------
(* syncWithProbe(): reverse tunnels are judged by their heartbeat when the *)
(* list is read, the others by a probe of their port.                      *)

Reading(w) ==
  LET remote == Remote(registry, w) IN
    [on    |-> TRUE,
     read  |-> registry,
     ask   |-> {k \in KeysOf(remote) : k[2] \notin ReverseProfiles},
     stale |-> {e.key : e \in {x \in remote : x.key[2] \in ReverseProfiles /\ ~x.fresh}}]

\* initialize() awaits its first syncWithProbe() before it starts the timers.
OpenWindow(w) ==
  /\ window[w] = "closed"
  /\ window' = [window EXCEPT ![w] = "opening"]
  /\ probe' = [probe EXCEPT ![w] = Reading(w)]
  /\ UNCHANGED <<registry, active, starting, remoteView, misses, starts>>

ProbeStart(w) ==
  /\ window[w] = "live" /\ ~probe[w].on
  /\ probe' = [probe EXCEPT ![w] = Reading(w)]
  /\ UNCHANGED <<window, registry, active, starting, remoteView, misses, starts>>

\* A connection within PROBE_TIMEOUT_MS; a busy host can miss it.
ProbePort(w, k) ==
  /\ probe[w].on /\ k \in probe[w].ask
  /\ \E alive \in BOOLEAN :
       /\ alive => PortOpen(k[2])
       /\ IF PortOpen(k[2]) /\ ~alive THEN misses < MaxMisses /\ misses' = misses + 1 ELSE UNCHANGED misses
       /\ probe' = [probe EXCEPT ![w].ask = @ \ {k},
                                 ![w].stale = IF alive THEN @ ELSE @ \cup {k}]
  /\ UNCHANGED <<window, registry, active, starting, remoteView, starts>>

\* Mutant: the entries found dead are written back with the rest.
CleanedKeepsAll(w) == probe[w].read

Cleaned(w) == {e \in probe[w].read : e.key \notin probe[w].stale}

ProbeEnd(w) ==
  /\ probe[w].on /\ probe[w].ask = {}
  /\ registry' = IF probe[w].stale = {} THEN registry ELSE Cleaned(w)
  /\ remoteView' = [remoteView EXCEPT ![w] = KeysOf(Remote(Cleaned(w), w))]
  /\ probe' = [probe EXCEPT ![w] = NoProbe]
  /\ window' = [window EXCEPT ![w] = "live"]
  /\ UNCHANGED <<active, starting, misses, starts>>

------------------------------------------------------------------------------
(* syncFast(): the poll, a focused window and startTunnel() *)

\* Mutant: an own entry that is missing is not pushed again.
HealsNothing(w) == {}

Heals(w) == {k \in {w} \X active[w] : k \notin KeysOf(registry)}

Beat(w) ==
  {IF Owner(e) = w /\ e.key[2] \in active[w] THEN [e EXCEPT !.fresh = TRUE] ELSE e : e \in registry}
    \cup {[key |-> k, fresh |-> TRUE] : k \in Heals(w)}

View(w) == KeysOf(Remote(registry, w))

SyncFast(w) ==
  /\ window[w] = "live"
  /\ remoteView' = [remoteView EXCEPT ![w] = View(w)]
  /\ registry' = Beat(w)
  /\ UNCHANGED <<window, active, starting, probe, misses, starts>>

------------------------------------------------------------------------------
(* startTunnel(), the tunnel events and the end of a window *)

\* checkRemoteOwnership(): the first matching entry of another window decides.
OwnedElsewhere(w, p) ==
  \E e \in Remote(registry, w) : e.key[2] = p /\ IF p \in ReverseProfiles THEN e.fresh ELSE PortOpen(p)

CheckOwnership(w, p) ==
  /\ window[w] = "live" /\ p \notin active[w] \cup starting[w]
  /\ ~OwnedElsewhere(w, p)
  /\ starts < MaxStarts /\ starts' = starts + 1
  /\ starting' = [starting EXCEPT ![w] = @ \cup {p}]
  /\ registry' = Beat(w)
  /\ remoteView' = [remoteView EXCEPT ![w] = View(w)]
  /\ UNCHANGED <<window, active, probe, misses>>

\* The listener (or the forward on the server) is bound once: the "started" event.
TunnelStarted(w, p) ==
  /\ p \in starting[w] /\ ~Running(p)
  /\ starting' = [starting EXCEPT ![w] = @ \ {p}]
  /\ active' = [active EXCEPT ![w] = @ \cup {p}]
  /\ registry' = registry \cup {[key |-> <<w, p>>, fresh |-> TRUE]}
  /\ UNCHANGED <<window, remoteView, probe, misses, starts>>

StartRefused(w, p) ==
  /\ p \in starting[w]
  /\ starting' = [starting EXCEPT ![w] = @ \ {p}]
  /\ UNCHANGED <<window, registry, active, remoteView, probe, misses, starts>>

UnregisterTunnel(w, p) == {e \in registry : e.key # <<w, p>>}

TunnelStopped(w, p) ==
  /\ p \in active[w]
  /\ active' = [active EXCEPT ![w] = @ \ {p}]
  /\ registry' = UnregisterTunnel(w, p)
  /\ UNCHANGED <<window, starting, remoteView, probe, misses, starts>>

Ends(w) ==
  /\ window[w] = "live"
  /\ window' = [window EXCEPT ![w] = "gone"]
  /\ active' = [active EXCEPT ![w] = {}]
  /\ starting' = [starting EXCEPT ![w] = {}]
  /\ remoteView' = [remoteView EXCEPT ![w] = {}]
  /\ probe' = [probe EXCEPT ![w] = NoProbe]
  /\ UNCHANGED <<misses, starts>>

\* Deactivation: dispose() and cleanupOwnEntries().
CloseWindow(w) == Ends(w) /\ registry' = Remote(registry, w)

CrashWindow(w) == Ends(w) /\ UNCHANGED registry

\* Thirty seconds without a heartbeat: lastSeen is old in every copy of the entry.
Ages(S, k) == {IF e.key = k THEN [e EXCEPT !.fresh = FALSE] ELSE e : e \in S}

GrowStale(k) ==
  /\ \E e \in registry : e.key = k /\ e.fresh
  /\ k[2] \notin active[k[1]]
  /\ registry' = Ages(registry, k)
  /\ probe' = [w \in Windows |-> [probe[w] EXCEPT !.read = Ages(@, k)]]
  /\ UNCHANGED <<window, active, starting, remoteView, misses, starts>>

SyncWithProbe(w) == ProbeStart(w) \/ ProbeEnd(w) \/ \E k \in Keys : ProbePort(w, k)

RegStep(w) ==
  \/ OpenWindow(w) \/ SyncWithProbe(w) \/ SyncFast(w) \/ CloseWindow(w) \/ CrashWindow(w)
  \/ \E p \in TunnelProfiles :
       CheckOwnership(w, p) \/ TunnelStarted(w, p) \/ StartRefused(w, p) \/ TunnelStopped(w, p)

RegNext == (\E w \in Windows : RegStep(w)) \/ (\E k \in Keys : GrowStale(k))

\* The two interval timers, the probes they wait for, and time.
RegFairness ==
  /\ \A w \in Windows : WF_regVars(SyncFast(w)) /\ WF_regVars(SyncWithProbe(w))
  /\ \A k \in Keys : WF_regVars(GrowStale(k))

RegSpec == RegInit /\ [][RegNext]_regVars /\ RegFairness

------------------------------------------------------------------------------
RegTypeOK ==
  /\ window \in [Windows -> {"closed", "opening", "live", "gone"}]
  /\ registry \subseteq Entries
  /\ active \in [Windows -> SUBSET TunnelProfiles] /\ starting \in [Windows -> SUBSET TunnelProfiles]
  /\ remoteView \in [Windows -> SUBSET Keys] /\ misses \in 0..MaxMisses /\ starts \in 0..MaxStarts
  /\ \A w \in Windows : /\ probe[w].read \subseteq Entries
                        /\ probe[w].ask \subseteq Keys /\ probe[w].stale \subseteq Keys

(* A tunnel that runs is advertised: whatever another window's probe wrote  *)
(* back over its entry, the owner's heartbeat puts it there again.           *)
AdvertisedAgain ==
  []RegTypeOK /\
  \A w \in Windows, p \in TunnelProfiles :
    (window[w] = "live" /\ p \in active[w]) ~> (<<w, p>> \in KeysOf(registry) \/ p \notin active[w])

(* An entry whose tunnel stopped, or whose window crashed, is removed while  *)
(* another window probes, even when a stale list brought it back; unless the *)
(* port answers again because another window runs the same profile.         *)
GhostsVanish ==
  \A k \in Keys :
    (k \in KeysOf(registry) /\ k[2] \notin active[k[1]])
      ~> \/ k \notin KeysOf(registry) \/ k[2] \in active[k[1]]
         \/ Running(k[2])
         \/ \A v \in Windows \ {k[1]} : window[v] # "live"

(* The list the windows share comes to tell the truth.                       *)
RegistryConverges == AdvertisedAgain /\ GhostsVanish
==============================================================================
