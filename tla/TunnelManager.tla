---------------------------- MODULE TunnelManager ----------------------------
(***************************************************************************)
(* services/tunnel/tunnelManager.ts: port-forwarding tunnels of one        *)
(* profile.  A tunnel is one call of start() that does not return the      *)
(* tunnel already running; its ActiveTunnelRuntime lives on in closures    *)
(* after the maps forget it.  Clients are TCP connections to the tunnel's  *)
(* listener, or channels the SSH server opens for a reverse tunnel.        *)
(*                                                                         *)
(* An SSH connection is what a factory returns (a pool lease in shared     *)
(* mode): "closed" once disposed here or lost.                             *)
(***************************************************************************)
EXTENDS Naturals, FiniteSets

CONSTANTS
  Tunnels,      \* identities of the tunnels start() creates
  NoTunnel,
  Clients,      \* identities of the clients
  MaxConns,     \* bound on the SSH connections made
  Profiles      \* the profiles considered: resolveTunnelType() and connectionMode

ASSUME TunnelAssumption ==
  /\ IsFiniteSet(Tunnels) /\ IsFiniteSet(Clients) /\ NoTunnel \notin Tunnels
  /\ MaxConns \in Nat
  /\ Profiles \subseteq [type : {"local", "dynamic", "reverse"}, shared : BOOLEAN]
  /\ \A p \in Profiles : p.type = "reverse" => p.shared

Conns == 1..MaxConns
None  == 0

VARIABLES
  profile,    \* the TunnelProfile start() is called with, not edited meanwhile
  byProfile,  \* activeByProfile.get(profile.id)
  rt,         \* the ActiveTunnelRuntime of each tunnel, and its start() and stop() calls
  client,     \* the socket of each client and the handler that serves it
  conn,       \* the SSH connections: "unused", "alive", "closed"
  owner,      \* the tunnel each connection was made for
  seen        \* what the listeners were told of each tunnel: "none", "started", "stopped"

vars == <<profile, byProfile, rt, client, conn, owner, seen>>

Kind   == profile.type
Shared == profile.shared

Runtime == [start     : {"none", "binding", "connecting", "forwarding", "done", "failed"},
            mapped    : BOOLEAN,
            listening : BOOLEAN,
            conns     : SUBSET Conns,
            shared    : Conns \cup {None},
            forward   : BOOLEAN,
            stop      : {"no", "cancelling", "closing", "done"}]

\* The handler waits for a handshake, an SSH connection or a channel, pipes
\* the bytes, or is over; it tracks its socket until then.
Client == [phase  : {"none", "handshake", "connecting", "opening", "piped", "over"},
           of     : Tunnels \cup {NoTunnel},
           conn   : Conns \cup {None},
           socket : {"open", "half", "closed"}]

Init ==
  /\ profile \in Profiles
  /\ byProfile = NoTunnel
  /\ rt = [t \in Tunnels |-> [start |-> "none", mapped |-> FALSE, listening |-> FALSE,
                              conns |-> {}, shared |-> None, forward |-> FALSE, stop |-> "no"]]
  /\ client = [x \in Clients |-> [phase |-> "none", of |-> NoTunnel, conn |-> None, socket |-> "closed"]]
  /\ conn = [c \in Conns |-> "unused"]
  /\ owner = [c \in Conns |-> NoTunnel]
  /\ seen = [t \in Tunnels |-> "none"]

Served(t) == {x \in Clients : client[x].of = t /\ client[x].phase \notin {"none", "over"}}

IsNext(c) == conn[c] = "unused" /\ \A d \in Conns : conn[d] = "unused" => c <= d

\* A factory's connect() resolves with connection c for tunnel t.
Connects(c, t) ==
  /\ IsNext(c)
  /\ conn' = [conn EXCEPT ![c] = "alive"]
  /\ owner' = [owner EXCEPT ![c] = t]

Dispose(S) == conn' = [c \in Conns |-> IF c \in S THEN "closed" ELSE conn[c]]

------------------------------------------------------------------------------
(* start() *)

\* Mutant: the profile's running tunnel is not looked up.
MayStartAny == TRUE

MayStart == byProfile = NoTunnel

StartListening(t) ==
  /\ Kind # "reverse" /\ MayStart
  /\ rt[t].start = "none"
  /\ rt' = [rt EXCEPT ![t].start = "binding"]
  /\ UNCHANGED <<profile, byProfile, client, conn, owner, seen>>

\* The port is free and the listener is bound.  In shared mode the SSH
\* connection is made at once, otherwise the tunnel is started.
ListenSucceeds(t) ==
  /\ rt[t].start = "binding"
  /\ \A u \in Tunnels : ~rt[u].listening
  /\ byProfile' = t
  /\ rt' = [rt EXCEPT ![t].mapped = TRUE, ![t].listening = TRUE,
                      ![t].start = IF Shared THEN "connecting" ELSE "done"]
  /\ seen' = IF Shared THEN seen ELSE [seen EXCEPT ![t] = "started"]
  /\ UNCHANGED <<profile, client, conn, owner>>

ListenFails(t) ==
  /\ rt[t].start = "binding"
  /\ rt' = [rt EXCEPT ![t].start = "failed"]
  /\ UNCHANGED <<profile, byProfile, client, conn, owner, seen>>

StartReverse(t) ==
  /\ Kind = "reverse" /\ MayStart
  /\ rt[t].start = "none"
  /\ byProfile' = t
  /\ rt' = [rt EXCEPT ![t].mapped = TRUE, ![t].start = "connecting"]
  /\ UNCHANGED <<profile, client, conn, owner, seen>>

\* Mutant: the connection is not added to sshConnections.
RecordNothing(t, c) == rt[t].conns

Record(t, c) == rt[t].conns \cup {c}

\* getOrCreateSharedConnection() of start() resumes.
SharedConnected(t) ==
  /\ rt[t].start = "connecting"
  /\ \E c \in Conns :
       /\ Connects(c, t)
       /\ rt' = [rt EXCEPT ![t].shared = c, ![t].conns = Record(t, c),
                           ![t].start = IF Kind = "reverse" THEN "forwarding" ELSE "done"]
  /\ seen' = IF Kind = "reverse" THEN seen ELSE [seen EXCEPT ![t] = "started"]
  /\ UNCHANGED <<profile, byProfile, client>>

\* Mutant: the failed tunnel stays the profile's tunnel.
UnregisterKeeps(t) == UNCHANGED byProfile

Unregister(t) == byProfile' = NoTunnel

\* connect(), or requestForwardIn() of a reverse tunnel, rejects.
StartFails(t) ==
  /\ rt[t].start \in {"connecting", "forwarding"}
  /\ Unregister(t)
  /\ rt' = [rt EXCEPT ![t].mapped = FALSE, ![t].listening = FALSE, ![t].start = "failed"]
  /\ UNCHANGED <<profile, client, conn, owner, seen>>

ForwardGranted(t) ==
  /\ rt[t].start = "forwarding" /\ rt[t].shared # None
  /\ rt' = [rt EXCEPT ![t].forward = TRUE, ![t].start = "done"]
  /\ seen' = [seen EXCEPT ![t] = "started"]
  /\ UNCHANGED <<profile, byProfile, client, conn, owner>>

------------------------------------------------------------------------------
(* handleLocalSocket(), handleDynamicSocket(), handleReverseConnection() *)

\* Mutant: the shared connection is taken for granted.
ConnectPhaseAssumed(t) == IF Shared THEN "opening" ELSE "connecting"

\* The phase of a client once its destination is known, and its connection.
ConnectPhase(t) == IF Shared /\ rt[t].shared # None THEN "opening" ELSE "connecting"
ConnectConn(t)  == IF Shared THEN rt[t].shared ELSE None

ClientArrives(x, t) ==
  /\ Kind # "reverse" /\ rt[t].listening
  /\ client[x].phase = "none"
  /\ client' = [client EXCEPT ![x] =
       IF ~rt[t].mapped
       THEN [phase |-> "over", of |-> t, conn |-> None, socket |-> "closed"]
       ELSE IF Kind = "dynamic"
       THEN [phase |-> "handshake", of |-> t, conn |-> None, socket |-> "open"]
       ELSE [phase |-> ConnectPhase(t), of |-> t, conn |-> ConnectConn(t), socket |-> "open"]]
  /\ UNCHANGED <<profile, byProfile, rt, conn, owner, seen>>

TakesChannels(t) == rt[t].forward /\ rt[t].stop = "no" /\ rt[t].mapped

\* The channel is accepted and piped to a new local socket.
ReverseArrives(x, t) ==
  /\ Kind = "reverse" /\ TakesChannels(t)
  /\ rt[t].shared # None /\ client[x].phase = "none"
  /\ client' = [client EXCEPT ![x] =
       [phase |-> "piped", of |-> t, conn |-> rt[t].shared, socket |-> "open"]]
  /\ UNCHANGED <<profile, byProfile, rt, conn, owner, seen>>

HandshakeDone(x) ==
  LET t == client[x].of IN
  /\ client[x].phase = "handshake"
  /\ client' = [client EXCEPT ![x].phase = ConnectPhase(t), ![x].conn = ConnectConn(t)]
  /\ UNCHANGED <<profile, byProfile, rt, conn, owner, seen>>

\* A bad greeting, a timeout or a closed socket.
HandshakeFails(x) ==
  /\ client[x].phase = "handshake"
  /\ client' = [client EXCEPT ![x].phase = "over", ![x].socket = "closed"]
  /\ UNCHANGED <<profile, byProfile, rt, conn, owner, seen>>

ClientConnected(x) ==
  LET t == client[x].of IN
  /\ client[x].phase = "connecting"
  /\ \E c \in Conns :
       /\ Connects(c, t)
       /\ client' = [client EXCEPT ![x].phase = "opening", ![x].conn = c]
       /\ rt' = [rt EXCEPT ![t].conns = Record(t, c),
                           ![t].shared = IF Shared THEN c ELSE @]
  /\ UNCHANGED <<profile, byProfile, seen>>

ClientConnectFails(x) ==
  /\ client[x].phase = "connecting"
  /\ client' = [client EXCEPT ![x].phase = "over", ![x].socket = "closed"]
  /\ UNCHANGED <<profile, byProfile, rt, conn, owner, seen>>

ChannelOpens(x) ==
  /\ client[x].phase = "opening" /\ conn[client[x].conn] = "alive"
  /\ client' = [client EXCEPT ![x].phase = "piped"]
  /\ UNCHANGED <<profile, byProfile, rt, conn, owner, seen>>

\* openDirectTcp() rejects: an isolated connection is disposed, a shared one
\* only while it is still the tunnel's shared connection.
ChannelFails(x) ==
  LET t == client[x].of
      c == client[x].conn
      drop == IF Shared /\ rt[t].shared # c THEN {} ELSE {c} IN
  /\ client[x].phase = "opening"
  /\ client' = [client EXCEPT ![x].phase = "over", ![x].socket = "closed"]
  /\ rt' = [rt EXCEPT ![t].conns = @ \ drop,
                      ![t].shared = IF @ \in drop THEN None ELSE @]
  /\ Dispose(drop)
  /\ UNCHANGED <<profile, byProfile, owner, seen>>

\* The cleanup of a piped client ends its handler; the socket becomes s.
Cleanup(x, s) ==
  LET t == client[x].of
      drop == IF Shared THEN {} ELSE {client[x].conn} IN
  /\ client' = [client EXCEPT ![x].phase = "over", ![x].socket = s]
  /\ rt' = [rt EXCEPT ![t].conns = @ \ drop]
  /\ Dispose(drop)
  /\ UNCHANGED <<profile, byProfile, owner, seen>>

\* The peer of the socket closes it.  Only a piped client listens for that.
HangUp(x) ==
  /\ client[x].socket = "open"
  /\ \/ client[x].phase = "piped" /\ Cleanup(x, "closed")
     \/ /\ client[x].phase \in {"connecting", "opening"}
        /\ client' = [client EXCEPT ![x].socket = "closed"]
        /\ UNCHANGED <<profile, byProfile, rt, conn, owner, seen>>

\* The remote stream ends: the pipe ends the socket, whose peer may keep its
\* half open.  A reverse tunnel destroys its local socket.
RemoteEnds(x) ==
  /\ client[x].phase = "piped"
  /\ Cleanup(x, IF Kind = "reverse" \/ client[x].socket = "closed" THEN "closed" ELSE "half")

PeerCloses(x) ==
  /\ client[x].socket = "half"
  /\ client' = [client EXCEPT ![x].socket = "closed"]
  /\ UNCHANGED <<profile, byProfile, rt, conn, owner, seen>>

\* A connection is lost.  The onClose listener of a shared one forgets it.
ConnectionLost(c) ==
  /\ conn[c] = "alive"
  /\ conn' = [conn EXCEPT ![c] = "closed"]
  /\ rt' = IF Shared
           THEN [rt EXCEPT ![owner[c]].conns = @ \ {c},
                           ![owner[c]].shared = IF @ = c THEN None ELSE @]
           ELSE rt
  /\ UNCHANGED <<profile, byProfile, client, owner, seen>>

------------------------------------------------------------------------------
(* stop() *)

\* Sockets are destroyed, connections disposed and the listener closed.
\* Handlers that wait for a connection or a channel are not interrupted.
Interrupted == {"handshake", "piped"}

\* Mutants: no socket is destroyed, or only those of piped clients.
DestroyedNone(t)  == {}
DestroyedPiped(t) == {x \in Served(t) : client[x].phase = "piped"}

Destroyed(t) == Served(t)

TearDown(t) ==
  /\ client' = [x \in Clients |->
       IF x \in Destroyed(t)
       THEN [client[x] EXCEPT !.socket = "closed",
                              !.phase = IF @ \in Interrupted THEN "over" ELSE @]
       ELSE client[x]]
  /\ Dispose(rt[t].conns)

\* Mutant: a tunnel is stopped before it has been announced.
MayStopEarly(t) == rt[t].mapped

\* Callers find the tunnel in the registry that the "started" event fills.
\* (stopAll() does not look there; it runs when the extension is deactivated.)
MayStop(t) == rt[t].mapped /\ seen[t] = "started"

Stop(t) ==
  /\ MayStop(t)
  /\ byProfile' = NoTunnel
  /\ \/ /\ rt[t].forward /\ rt[t].shared # None
        /\ rt' = [rt EXCEPT ![t].mapped = FALSE, ![t].stop = "cancelling"]
        /\ UNCHANGED <<client, conn>>
     \/ /\ ~(rt[t].forward /\ rt[t].shared # None)
        /\ TearDown(t)
        /\ rt' = [rt EXCEPT ![t].mapped = FALSE, ![t].stop = "closing", ![t].listening = FALSE,
                            ![t].conns = {}, ![t].shared = None]
  /\ UNCHANGED <<profile, owner, seen>>

\* cancelForwardIn() has settled one way or the other.
ForwardCancelled(t) ==
  /\ rt[t].stop = "cancelling"
  /\ TearDown(t)
  /\ rt' = [rt EXCEPT ![t].stop = "closing", ![t].conns = {}, ![t].shared = None]
  /\ UNCHANGED <<profile, byProfile, owner, seen>>

\* The listener has closed, which takes until its last socket is closed.
StopDone(t) ==
  /\ rt[t].stop = "closing"
  /\ Kind # "reverse" => \A x \in Clients : client[x].of = t => client[x].socket = "closed"
  /\ rt' = [rt EXCEPT ![t].stop = "done"]
  /\ seen' = [seen EXCEPT ![t] = "stopped"]
  /\ UNCHANGED <<profile, byProfile, client, conn, owner>>

Next ==
  \/ \E t \in Tunnels :
       \/ StartListening(t) \/ ListenSucceeds(t) \/ ListenFails(t) \/ StartReverse(t)
       \/ SharedConnected(t) \/ StartFails(t) \/ ForwardGranted(t)
       \/ Stop(t) \/ ForwardCancelled(t) \/ StopDone(t)
  \/ \E x \in Clients :
       \/ \E t \in Tunnels : ClientArrives(x, t) \/ ReverseArrives(x, t)
       \/ HandshakeDone(x) \/ HandshakeFails(x)
       \/ ClientConnected(x) \/ ClientConnectFails(x)
       \/ ChannelOpens(x) \/ ChannelFails(x)
       \/ HangUp(x) \/ RemoteEnds(x) \/ PeerCloses(x)
  \/ \E c \in Conns : ConnectionLost(c)

(***************************************************************************)
(* cancelForwardIn() settles because a dead connection fails its requests, *)
(* the listener's close callback runs, and a peer that was sent the end of *)
(* its stream closes its half in the end.                                  *)
(***************************************************************************)
Fairness ==
  /\ \A t \in Tunnels : WF_vars(ForwardCancelled(t)) /\ WF_vars(StopDone(t))
  /\ \A x \in Clients : WF_vars(PeerCloses(x))

Spec == Init /\ [][Next]_vars /\ Fairness

------------------------------------------------------------------------------
TypeOK ==
  /\ profile \in Profiles
  /\ byProfile \in Tunnels \cup {NoTunnel}
  /\ rt \in [Tunnels -> Runtime]
  /\ client \in [Clients -> Client]
  /\ \A x \in Clients : client[x].phase # "none" => client[x].of \in Tunnels
  /\ \A x \in Clients : client[x].phase \in {"opening", "piped"} => client[x].conn # None
  /\ conn \in [Conns -> {"unused", "alive", "closed"}]
  /\ owner \in [Conns -> Tunnels \cup {NoTunnel}]
  /\ \A c \in Conns : conn[c] # "unused" => owner[c] \in Tunnels
  /\ seen \in [Tunnels -> {"none", "started", "stopped"}]

\* A profile has at most one tunnel and getActiveTunnelId() names it, although
\* start() checks before it awaits the listener: two racing starts are told
\* apart by the port alone.
OneTunnelPerProfile == \A t \in Tunnels : rt[t].mapped <=> byProfile = t

\* The tunnels the user interface was told of are those that run or are being
\* stopped: none is shown for ever after it is gone (extension.ts:1233-1255).
NoGhostTunnel ==
  \A t \in Tunnels :
    /\ seen[t] = "started" => rt[t].mapped \/ rt[t].stop \in {"cancelling", "closing"}
    /\ rt[t].mapped /\ rt[t].start = "done" => seen[t] = "started"

\* Once stop() has told its listeners, no socket of the tunnel is open, not
\* even one accepted or piped while the stop was under way.
StoppedHasNoSockets ==
  \A x \in Clients : (client[x].phase # "none" /\ rt[client[x].of].stop = "done")
                       => client[x].socket = "closed"

\* The tunnel's sshConnections names every live connection made for it up to
\* its stop(), so that stop() can dispose them, however many clients made one.
ConnectionsRecorded ==
  \A c \in Conns : (conn[c] = "alive" /\ rt[owner[c]].stop = "no") => c \in rt[owner[c]].conns

\* Nothing of a tunnel escapes its stop(): its connections are known to it, its
\* sockets are closed when it says so, and the user interface sees it end.
NothingEscapesStop == TypeOK /\ ConnectionsRecorded /\ StoppedHasNoSockets /\ NoGhostTunnel

\* "all TCP clients reuse a single SSH connection"
\* (docs/functional-documentation.md:27): a shared tunnel has one live
\* connection at a time.
SingleSharedConnection ==
  Shared => \A c, d \in Conns : (conn[c] = "alive" /\ conn[d] = "alive" /\ owner[c] = owner[d]) => c = d

\* Shared connections are reference-counted with an idle timeout (README.md:57):
\* a tunnel that is over, with no handler still under way, holds no connection.
ReleasedWithTunnel ==
  \A c \in Conns :
    LET t == owner[c] IN
    (conn[c] = "alive" /\ (rt[t].stop = "done" \/ rt[t].start = "failed")) => Served(t) # {}

\* stop() completes and its listeners are told, as long as peers whose stream
\* has ended close their half.
StopCompletes ==
  \A t \in Tunnels : (rt[t].stop # "no") ~> (seen[t] = "stopped")
==============================================================================
