------------------------ MODULE TunnelManagerProofs ------------------------
(***************************************************************************)
(* For any number of starts, clients and connections and every kind of     *)
(* tunnel: the state is well typed, a profile has at most one tunnel, the  *)
(* user interface shows no ghost, and nothing escapes a stop().            *)
(*                                                                         *)
(* None of these is inductive alone.  Two racing starts are told apart by  *)
(* the port (ListenSucceeds needs that a mapped tunnel listens), and a     *)
(* failing start may clear the profile's slot because nobody can stop a    *)
(* tunnel before it was announced.  Lifecycle states these facts, Closing  *)
(* those that stop() rests on.                                             *)
(*                                                                         *)
(* The second part does the same for the serial terminals (SerialIsSound), *)
(* the other component whose ports are held by a process that answers      *)
(* late: SerialInv relates what the sidecar has open, what is on the wire, *)
(* the requests waited for and what each terminal is doing.                *)
(***************************************************************************)
EXTENDS TunnelManager, SerialPorts, FiniteSetTheorems, FunctionTheorems, SequenceTheorems, TLAPS

Lifecycle ==
  \A t \in Tunnels :
    /\ rt[t].start \in {"none", "binding", "failed"} => ~rt[t].mapped
    /\ rt[t].start \in {"connecting", "forwarding"} => rt[t].mapped
    /\ rt[t].start = "binding" => Kind # "reverse"
    /\ rt[t].start # "done" => seen[t] = "none" /\ rt[t].stop = "no"
    /\ rt[t].stop # "no" => ~rt[t].mapped
    /\ (rt[t].mapped /\ Kind # "reverse") => rt[t].listening

\* Every connection that a tunnel or a client refers to has been made.
Made ==
  /\ \A t \in Tunnels : \A c \in Conns :
       (c \in rt[t].conns \/ c = rt[t].shared) => conn[c] # "unused"
  /\ \A x \in Clients : \A c \in Conns : c = client[x].conn => conn[c] # "unused"

TunnelInv == TypeOK /\ OneTunnelPerProfile /\ NoGhostTunnel /\ Lifecycle /\ Made

\* The steps of start() and stop() of one tunnel.
Runs(t) ==
  \/ StartListening(t) \/ ListenSucceeds(t) \/ ListenFails(t) \/ StartReverse(t)
  \/ SharedConnected(t) \/ StartFails(t) \/ ForwardGranted(t)
  \/ Stop(t) \/ ForwardCancelled(t) \/ StopDone(t)

\* The steps of one client.
Serves(x) ==
  \/ \E t \in Tunnels : ClientArrives(x, t) \/ ReverseArrives(x, t)
  \/ HandshakeDone(x) \/ HandshakeFails(x)
  \/ ClientConnected(x) \/ ClientConnectFails(x)
  \/ ChannelOpens(x) \/ ChannelFails(x)
  \/ HangUp(x) \/ RemoteEnds(x) \/ PeerCloses(x)

\* What a step outside start() and stop() leaves alone.
SameCourse ==
  /\ UNCHANGED <<profile, byProfile, seen>>
  /\ \A t \in Tunnels : /\ rt'[t].start = rt[t].start
                        /\ rt'[t].mapped = rt[t].mapped
                        /\ rt'[t].listening = rt[t].listening
                        /\ rt'[t].stop = rt[t].stop

\* The constants as the provers need them.
LEMMA Constants ==
  /\ NoTunnel \notin Tunnels
  /\ Conns \subseteq Nat /\ None \notin Conns
  /\ Tunnels \cup {NoTunnel} # {}
BY TunnelAssumption DEF Conns, None

\* Init establishes the invariant.
LEMMA InitInv == Init => TunnelInv
BY Constants DEF Init, TunnelInv, TypeOK, OneTunnelPerProfile, NoGhostTunnel, Lifecycle,
   Made, Runtime, Client, Conns, None, Kind, Shared

\* The parts of TypeOK about clients and connections.
ClientType ==
  /\ client \in [Clients -> Client]
  /\ \A x \in Clients : client[x].phase # "none" => client[x].of \in Tunnels
  /\ \A x \in Clients : client[x].phase \in {"opening", "piped"} => client[x].conn # None

ConnType ==
  /\ conn \in [Conns -> {"unused", "alive", "closed"}]
  /\ owner \in [Conns -> Tunnels \cup {NoTunnel}]
  /\ \A c \in Conns : conn[c] # "unused" => owner[c] \in Tunnels

\* Disposing connections that were made leaves them well typed.
LEMMA DisposeType ==
  ASSUME ConnType, NEW S \in SUBSET Conns, \A c \in S : owner[c] \in Tunnels,
         Dispose(S), UNCHANGED owner
  PROVE  ConnType'
BY DEF ConnType, Dispose

\* Tearing a tunnel down leaves its clients well typed.
LEMMA TearDownType ==
  ASSUME ClientType, NEW t \in Tunnels, TearDown(t)
  PROVE  ClientType'
<1>1. ASSUME NEW x \in Clients
      PROVE  /\ client'[x] \in Client
             /\ client'[x].phase # "none" => client'[x].of \in Tunnels
             /\ client'[x].phase \in {"opening", "piped"} => client'[x].conn # None
  <2>1. client[x] \in Client BY DEF ClientType
  <2>2. CASE x \in Destroyed(t)
    <3>1. client'[x] = [client[x] EXCEPT !.socket = "closed",
                          !.phase = IF @ \in Interrupted THEN "over" ELSE @]
      BY <2>2 DEF TearDown
    <3>2. /\ client'[x].phase \in {client[x].phase, "over"}
          /\ client'[x].of = client[x].of
          /\ client'[x].conn = client[x].conn
          /\ client'[x] \in Client
      BY <2>1, <3>1 DEF Client
    <3>3. client[x].phase # "none" BY <2>2 DEF Destroyed, Served
    <3> QED BY <3>2, <3>3 DEF ClientType
  <2>3. CASE x \notin Destroyed(t)
    <3>1. client'[x] = client[x] BY <2>3 DEF TearDown
    <3> QED BY <3>1 DEF ClientType
  <2> QED BY <2>2, <2>3
<1>2. client' = [x \in Clients |-> client'[x]] BY DEF TearDown
<1>3. client' \in [Clients -> Client] BY <1>1, <1>2
<1> QED BY <1>1, <1>3 DEF ClientType

\* Every step of start() and stop() keeps the state well typed.
LEMMA RunsType ==
  ASSUME TypeOK, Made, NEW t \in Tunnels, Runs(t)
  PROVE  TypeOK'
<1> USE Constants
<1>0. /\ rt \in [Tunnels -> Runtime] /\ rt[t] \in Runtime
      /\ ClientType /\ ConnType
  BY DEF TypeOK, ClientType, ConnType
<1>1. CASE StartListening(t)
  BY SMTT(30), <1>1 DEF StartListening, TypeOK, Runtime
<1>2. CASE ListenSucceeds(t)
  BY <1>2 DEF ListenSucceeds, TypeOK, Runtime
<1>3. CASE ListenFails(t)
  BY SMTT(30), <1>3 DEF ListenFails, TypeOK, Runtime
<1>4. CASE StartReverse(t)
  BY <1>4 DEF StartReverse, TypeOK, Runtime
<1>5. CASE SharedConnected(t)
  <2>1. PICK c \in Conns :
          /\ Connects(c, t)
          /\ rt' = [rt EXCEPT ![t].shared = c, ![t].conns = Record(t, c),
                              ![t].start = IF Kind = "reverse" THEN "forwarding" ELSE "done"]
    BY <1>5 DEF SharedConnected
  <2>2. rt' \in [Tunnels -> Runtime] BY <1>0, <2>1 DEF Runtime, Record
  <2>3. ConnType' BY <1>0, <2>1 DEF ConnType, Connects
  <2> QED BY <1>5, <2>2, <2>3 DEF SharedConnected, ClientType, ConnType, TypeOK
<1>6. CASE StartFails(t)
  BY <1>6 DEF StartFails, Unregister, TypeOK, Runtime
<1>7. CASE ForwardGranted(t)
  BY <1>7 DEF ForwardGranted, TypeOK, Runtime
<1>8. ASSUME TearDown(t), UNCHANGED owner PROVE ClientType' /\ ConnType'
  <2>1. rt[t].conns \in SUBSET Conns BY <1>0 DEF Runtime
  <2>2. \A c \in rt[t].conns : owner[c] \in Tunnels BY <1>0, <2>1 DEF Made, ConnType
  <2>3. Dispose(rt[t].conns) BY <1>8 DEF TearDown
  <2>4. ConnType' BY <1>0, <1>8, <2>1, <2>2, <2>3, DisposeType
  <2> QED BY <1>0, <1>8, <2>4, TearDownType
<1>9. CASE Stop(t)
  <2>1. rt' \in [Tunnels -> Runtime]
    <3>1. CASE rt' = [rt EXCEPT ![t].mapped = FALSE, ![t].stop = "cancelling"]
      BY <1>0, <3>1 DEF Runtime
    <3>2. CASE rt' = [rt EXCEPT ![t].mapped = FALSE, ![t].stop = "closing",
                                ![t].listening = FALSE, ![t].conns = {}, ![t].shared = None]
      BY <1>0, <3>2 DEF Runtime
    <3> QED BY <1>9, <3>1, <3>2 DEF Stop
  <2>2. ClientType' /\ ConnType'
    <3>1. CASE TearDown(t) BY <1>8, <1>9, <3>1 DEF Stop
    <3>2. CASE UNCHANGED <<client, conn>> BY <1>0, <1>9, <3>2 DEF Stop, ClientType, ConnType
    <3> QED BY <1>9, <3>1, <3>2 DEF Stop
  <2> QED BY <1>9, <2>1, <2>2 DEF Stop, TypeOK, ClientType, ConnType
<1>10. CASE ForwardCancelled(t)
  <2>1. rt' \in [Tunnels -> Runtime] BY <1>0, <1>10 DEF ForwardCancelled, Runtime
  <2>2. ClientType' /\ ConnType' BY <1>8, <1>10 DEF ForwardCancelled
  <2> QED BY <1>10, <2>1, <2>2 DEF ForwardCancelled, TypeOK, ClientType, ConnType
<1>11. CASE StopDone(t)
  BY SMTT(30), <1>11 DEF StopDone, TypeOK, Runtime
<1> QED BY <1>1, <1>2, <1>3, <1>4, <1>5, <1>6, <1>7, <1>9, <1>10, <1>11 DEF Runs

\* Every step of a client keeps the state well typed and leaves the course of
\* start() and stop() alone.
LEMMA ServesType ==
  ASSUME TypeOK, Made, NEW x \in Clients, Serves(x)
  PROVE  TypeOK' /\ SameCourse
<1> USE Constants
<1> DEFINE t == client[x].of
           k == client[x].conn
<1>0. /\ rt \in [Tunnels -> Runtime] /\ client[x] \in Client
      /\ client[x].phase # "none" => t \in Tunnels /\ rt[t] \in Runtime
      /\ ClientType /\ ConnType
  BY DEF TypeOK, ClientType, ConnType
<1>1. ASSUME UNCHANGED <<profile, byProfile, rt, conn, owner, seen>>, ClientType'
      PROVE  TypeOK' /\ SameCourse
  BY <1>1 DEF TypeOK, ClientType, SameCourse
<1>2. ASSUME NEW u \in Tunnels
      PROVE  /\ rt[u].shared \in Conns \cup {None}
             /\ ConnectPhase(u) \in {"opening", "connecting"}
             /\ ConnectConn(u) \in Conns \cup {None}
             /\ ConnectPhase(u) = "opening" => ConnectConn(u) # None
  BY <1>0 DEF ConnectPhase, ConnectConn, Runtime
<1>3. ASSUME NEW u \in Tunnels, ClientArrives(x, u) PROVE TypeOK' /\ SameCourse
  BY <1>0, <1>1, <1>2, <1>3 DEF ClientArrives, ClientType, Client
<1>4. ASSUME NEW u \in Tunnels, ReverseArrives(x, u) PROVE TypeOK' /\ SameCourse
  BY <1>0, <1>1, <1>2, <1>4 DEF ReverseArrives, ClientType, Client
<1>5. CASE HandshakeDone(x)
  BY <1>0, <1>1, <1>2, <1>5 DEF HandshakeDone, ClientType, Client
<1>6. CASE HandshakeFails(x)
  BY <1>0, <1>1, <1>6 DEF HandshakeFails, ClientType, Client
<1>7. CASE ClientConnected(x)
  <2>1. t \in Tunnels /\ rt[t] \in Runtime BY <1>0, <1>7 DEF ClientConnected
  <2>2. PICK c \in Conns :
          /\ Connects(c, t)
          /\ client' = [client EXCEPT ![x].phase = "opening", ![x].conn = c]
          /\ rt' = [rt EXCEPT ![t].conns = Record(t, c), ![t].shared = IF Shared THEN c ELSE @]
    BY <1>7 DEF ClientConnected
  <2>3. rt' \in [Tunnels -> Runtime] BY <1>0, <2>1, <2>2 DEF Record, Runtime
  <2>4. ClientType' BY <1>0, <2>1, <2>2 DEF ClientType, Client
  <2>5. ConnType' BY <1>0, <2>1, <2>2 DEF ConnType, Connects
  <2>6. SameCourse BY <1>0, <1>7, <2>1, <2>2 DEF SameCourse, ClientConnected, Runtime
  <2> QED BY <1>7, <2>3, <2>4, <2>5, <2>6 DEF ClientConnected, TypeOK, ClientType, ConnType
<1>8. CASE ClientConnectFails(x)
  BY <1>0, <1>1, <1>8 DEF ClientConnectFails, ClientType, Client
<1>9. CASE ChannelOpens(x)
  BY <1>0, <1>1, <1>9 DEF ChannelOpens, ClientType, Client
<1>10. ASSUME NEW S \in SUBSET Conns, S \subseteq {k}, Dispose(S), UNCHANGED owner
       PROVE  ConnType'
  <2>1. \A c \in S : owner[c] \in Tunnels BY <1>0, <1>10 DEF Made, ConnType
  <2> QED BY <1>0, <1>10, <2>1, DisposeType
<1>11. CASE ChannelFails(x)
  <2> DEFINE drop == IF Shared /\ rt[t].shared # k THEN {} ELSE {k}
  <2>1. t \in Tunnels /\ rt[t] \in Runtime /\ k \in Conns
    BY <1>0, <1>11 DEF ChannelFails, ClientType, Client
  <2>2. /\ client' = [client EXCEPT ![x].phase = "over", ![x].socket = "closed"]
        /\ rt' = [rt EXCEPT ![t].conns = @ \ drop, ![t].shared = IF @ \in drop THEN None ELSE @]
        /\ Dispose(drop) /\ UNCHANGED <<profile, byProfile, owner, seen>>
    BY <1>11 DEF ChannelFails
  <2>3. drop \in SUBSET Conns /\ drop \subseteq {k} BY <2>1
  <2> HIDE DEF drop
  <2>4. rt' \in [Tunnels -> Runtime] BY <1>0, <2>1, <2>2 DEF Runtime
  <2>5. ClientType' BY <1>0, <2>1, <2>2 DEF ClientType, Client
  <2>6. ConnType' BY <1>10, <2>2, <2>3
  <2>7. SameCourse BY <1>0, <2>1, <2>2 DEF SameCourse, Runtime
  <2> QED BY <2>2, <2>4, <2>5, <2>6, <2>7 DEF TypeOK, ClientType, ConnType
<1>12. ASSUME client[x].phase = "piped",
              NEW s \in {"half", "closed"}, Cleanup(x, s)
       PROVE  TypeOK' /\ SameCourse
  <2> DEFINE drop == (IF Shared THEN {} ELSE {k})
  <2>1. t \in Tunnels /\ rt[t] \in Runtime /\ k \in Conns
    BY <1>0, <1>12 DEF ClientType, Client
  <2>2. /\ client' = [client EXCEPT ![x].phase = "over", ![x].socket = s]
        /\ rt' = [rt EXCEPT ![t].conns = @ \ drop]
        /\ Dispose(drop) /\ UNCHANGED <<profile, byProfile, owner, seen>>
    BY <1>12 DEF Cleanup
  <2>3. drop \in SUBSET Conns /\ drop \subseteq {k} BY <2>1
  <2> HIDE DEF drop
  <2>4. rt' \in [Tunnels -> Runtime] BY <1>0, <2>1, <2>2 DEF Runtime
  <2>5. ClientType' BY <1>0, <2>1, <2>2 DEF ClientType, Client
  <2>6. ConnType' BY <1>10, <2>2, <2>3
  <2>7. SameCourse BY <1>0, <2>1, <2>2 DEF SameCourse, Runtime
  <2> QED BY <2>2, <2>4, <2>5, <2>6, <2>7 DEF TypeOK, ClientType, ConnType
<1>13. CASE HangUp(x)
  <2>1. CASE client[x].phase = "piped" /\ Cleanup(x, "closed") BY <1>12, <2>1
  <2>2. CASE /\ client[x].phase \in {"connecting", "opening"}
             /\ client' = [client EXCEPT ![x].socket = "closed"]
             /\ UNCHANGED <<profile, byProfile, rt, conn, owner, seen>>
    BY <1>0, <1>1, <2>2 DEF ClientType, Client
  <2> QED BY <1>13, <2>1, <2>2 DEF HangUp
<1>14. CASE RemoteEnds(x) BY <1>12, <1>14 DEF RemoteEnds
<1>15. CASE PeerCloses(x)
  BY <1>0, <1>1, <1>15 DEF PeerCloses, ClientType, Client
<1> QED BY <1>3, <1>4, <1>5, <1>6, <1>7, <1>8, <1>9, <1>11, <1>13, <1>14, <1>15 DEF Serves

\* A lost connection keeps the state well typed and leaves start() and stop() alone.
LEMMA LostType ==
  ASSUME TypeOK, NEW c \in Conns, ConnectionLost(c)
  PROVE  TypeOK' /\ SameCourse
<1>1. owner[c] \in Tunnels /\ rt[owner[c]] \in Runtime BY DEF TypeOK, ConnectionLost
<1>2. rt' \in [Tunnels -> Runtime] /\ SameCourse
  <2>1. CASE Shared BY <1>1, <2>1 DEF TypeOK, ConnectionLost, Runtime, SameCourse
  <2>2. CASE ~Shared BY <2>2 DEF TypeOK, ConnectionLost, SameCourse
  <2> QED BY <2>1, <2>2
<1> QED BY <1>1, <1>2 DEF TypeOK, ConnectionLost

\* A step refers to a connection that it leaves unmade only if an earlier
\* step did.
Traceable ==
  \A c \in Conns : conn'[c] = "unused" =>
    /\ conn[c] = "unused"
    /\ \A t \in Tunnels : c \in rt'[t].conns => c \in rt[t].conns
    /\ \A t \in Tunnels : c = rt'[t].shared => c = rt[t].shared
    /\ \A x \in Clients :
         c = client'[x].conn => c = client[x].conn \/ \E t \in Tunnels : c = rt[t].shared

\* The steps of start() and stop() are traceable.
LEMMA RunsTraceable ==
  ASSUME TypeOK, NEW t \in Tunnels, Runs(t)
  PROVE  Traceable
<1> USE Constants
<1>0. rt \in [Tunnels -> Runtime] /\ rt[t] \in Runtime BY DEF TypeOK
<1>1. CASE StartListening(t) BY <1>0, <1>1 DEF StartListening, Runtime, Traceable
<1>2. CASE ListenSucceeds(t) BY <1>0, <1>2 DEF ListenSucceeds, Runtime, Traceable
<1>3. CASE ListenFails(t) BY <1>0, <1>3 DEF ListenFails, Runtime, Traceable
<1>4. CASE StartReverse(t) BY <1>0, <1>4 DEF StartReverse, Runtime, Traceable
<1>5. CASE SharedConnected(t)
  <2>1. PICK c \in Conns :
          /\ Connects(c, t)
          /\ rt' = [rt EXCEPT ![t].shared = c, ![t].conns = Record(t, c),
                              ![t].start = IF Kind = "reverse" THEN "forwarding" ELSE "done"]
    BY <1>5 DEF SharedConnected
  <2>2. conn' = [conn EXCEPT ![c] = "alive"] /\ conn \in [Conns -> {"unused", "alive", "closed"}]
    BY <2>1 DEF Connects, TypeOK
  <2> QED BY <1>0, <1>5, <2>1, <2>2 DEF SharedConnected, Record, Runtime, Traceable
<1>6. CASE StartFails(t) BY <1>0, <1>6 DEF StartFails, Runtime, Traceable
<1>7. CASE ForwardGranted(t) BY <1>0, <1>7 DEF ForwardGranted, Runtime, Traceable
<1>8. ASSUME TearDown(t)
      PROVE  /\ \A c \in Conns : conn'[c] = "unused" => conn[c] = "unused"
             /\ \A x \in Clients : client'[x].conn = client[x].conn
  <2>1. \A x \in Clients : client'[x].conn = client[x].conn
    <3>1. TAKE x \in Clients
    <3>2. CASE x \in Destroyed(t)
      <4>1. client'[x] = [client[x] EXCEPT !.socket = "closed",
                            !.phase = IF @ \in Interrupted THEN "over" ELSE @]
        BY <1>8, <3>2 DEF TearDown
      <4>2. client[x] \in Client BY DEF TypeOK
      <4> QED BY <4>1, <4>2 DEF Client
    <3>3. CASE x \notin Destroyed(t) BY <1>8, <3>3 DEF TearDown
    <3> QED BY <3>2, <3>3
  <2> QED BY <1>8, <2>1 DEF TearDown, Dispose
<1>9. CASE Stop(t)
  <2>1. CASE /\ rt' = [rt EXCEPT ![t].mapped = FALSE, ![t].stop = "cancelling"]
             /\ UNCHANGED <<client, conn>>
    BY <1>0, <2>1 DEF Runtime, Traceable
  <2>2. CASE /\ TearDown(t)
             /\ rt' = [rt EXCEPT ![t].mapped = FALSE, ![t].stop = "closing",
                                 ![t].listening = FALSE, ![t].conns = {}, ![t].shared = None]
    BY <1>0, <1>8, <2>2 DEF Runtime, Traceable
  <2> QED BY <1>9, <2>1, <2>2 DEF Stop
<1>10. CASE ForwardCancelled(t)
  BY <1>0, <1>8, <1>10 DEF ForwardCancelled, Runtime, Traceable
<1>11. CASE StopDone(t) BY <1>0, <1>11 DEF StopDone, Runtime, Traceable
<1> QED BY <1>1, <1>2, <1>3, <1>4, <1>5, <1>6, <1>7, <1>9, <1>10, <1>11 DEF Runs

\* The steps of a client are traceable: its connection is a new one or the
\* shared one of its tunnel.
LEMMA ServesTraceable ==
  ASSUME TypeOK, NEW x \in Clients, Serves(x)
  PROVE  Traceable
<1> USE Constants
<1> DEFINE t == client[x].of
           k == client[x].conn
<1>0. /\ rt \in [Tunnels -> Runtime] /\ client \in [Clients -> Client] /\ client[x] \in Client
      /\ client[x].phase # "none" => t \in Tunnels /\ rt[t] \in Runtime
  BY DEF TypeOK
<1>1. ASSUME UNCHANGED <<rt, conn>>,
             \A y \in Clients : \/ client'[y].conn \in {client[y].conn, None}
                                \/ \E u \in Tunnels : client'[y].conn = rt[u].shared
      PROVE  Traceable
  BY <1>1 DEF Traceable
<1>2. ASSUME NEW u \in Tunnels, ClientArrives(x, u) PROVE Traceable
  <2>1. client'[x].conn \in {None, rt[u].shared}
    BY <1>0, <1>2 DEF ClientArrives, ConnectConn
  <2>2. \A y \in Clients \ {x} : client'[y] = client[y] BY <1>0, <1>2 DEF ClientArrives
  <2> QED BY <1>1, <1>2, <2>1, <2>2 DEF ClientArrives
<1>3. ASSUME NEW u \in Tunnels, ReverseArrives(x, u) PROVE Traceable
  <2>1. client'[x].conn = rt[u].shared BY <1>0, <1>3 DEF ReverseArrives
  <2>2. \A y \in Clients \ {x} : client'[y] = client[y] BY <1>0, <1>3 DEF ReverseArrives
  <2> QED BY <1>1, <1>3, <2>1, <2>2 DEF ReverseArrives
<1>4. CASE HandshakeDone(x)
  <2>1. client'[x].conn \in {None, rt[t].shared} /\ t \in Tunnels
    BY <1>0, <1>4 DEF HandshakeDone, ConnectConn, Client
  <2>2. \A y \in Clients \ {x} : client'[y] = client[y] BY <1>0, <1>4 DEF HandshakeDone
  <2> QED BY <1>1, <1>4, <2>1, <2>2 DEF HandshakeDone
<1>5. CASE HandshakeFails(x) BY <1>0, <1>1, <1>5 DEF HandshakeFails, Client
<1>6. CASE ClientConnected(x)
  <2>1. t \in Tunnels /\ rt[t] \in Runtime BY <1>0, <1>6 DEF ClientConnected
  <2>2. PICK c \in Conns :
          /\ Connects(c, t)
          /\ client' = [client EXCEPT ![x].phase = "opening", ![x].conn = c]
          /\ rt' = [rt EXCEPT ![t].conns = Record(t, c), ![t].shared = IF Shared THEN c ELSE @]
    BY <1>6 DEF ClientConnected
  <2>3. conn' = [conn EXCEPT ![c] = "alive"] /\ conn \in [Conns -> {"unused", "alive", "closed"}]
    BY <2>2 DEF Connects, TypeOK
  <2> QED BY <1>0, <2>1, <2>2, <2>3 DEF Record, Runtime, Client, Traceable
<1>7. CASE ClientConnectFails(x) BY <1>0, <1>1, <1>7 DEF ClientConnectFails, Client
<1>8. CASE ChannelOpens(x) BY <1>0, <1>1, <1>8 DEF ChannelOpens, Client
<1>9. ASSUME NEW S, NEW s,
             client' = [client EXCEPT ![x].phase = "over", ![x].socket = s],
             Dispose(S),
             \A u \in Tunnels : /\ rt'[u].conns \subseteq rt[u].conns
                                /\ rt'[u].shared \in {rt[u].shared, None}
      PROVE  Traceable
  BY <1>0, <1>9 DEF Dispose, Client, Traceable
<1>10. CASE ChannelFails(x)
  <2> DEFINE drop == IF Shared /\ rt[t].shared # k THEN {} ELSE {k}
  <2>1. t \in Tunnels /\ rt[t] \in Runtime BY <1>0, <1>10 DEF ChannelFails
  <2>2. /\ client' = [client EXCEPT ![x].phase = "over", ![x].socket = "closed"]
        /\ rt' = [rt EXCEPT ![t].conns = @ \ drop, ![t].shared = IF @ \in drop THEN None ELSE @]
        /\ Dispose(drop)
    BY <1>10 DEF ChannelFails
  <2> HIDE DEF drop
  <2>3. \A u \in Tunnels : /\ rt'[u].conns \subseteq rt[u].conns
                           /\ rt'[u].shared \in {rt[u].shared, None}
    BY <1>0, <2>1, <2>2 DEF Runtime
  <2> QED BY <1>9, <2>2, <2>3
<1>11. ASSUME client[x].phase = "piped", NEW s, Cleanup(x, s) PROVE Traceable
  <2> DEFINE drop == (IF Shared THEN {} ELSE {k})
  <2>1. t \in Tunnels /\ rt[t] \in Runtime BY <1>0, <1>11
  <2>2. /\ client' = [client EXCEPT ![x].phase = "over", ![x].socket = s]
        /\ rt' = [rt EXCEPT ![t].conns = @ \ drop]
        /\ Dispose(drop)
    BY <1>11 DEF Cleanup
  <2> HIDE DEF drop
  <2>3. \A u \in Tunnels : /\ rt'[u].conns \subseteq rt[u].conns
                           /\ rt'[u].shared \in {rt[u].shared, None}
    BY <1>0, <2>1, <2>2 DEF Runtime
  <2> QED BY <1>9, <2>2, <2>3
<1>12. CASE HangUp(x)
  <2>1. CASE client[x].phase = "piped" /\ Cleanup(x, "closed") BY <1>11, <2>1
  <2>2. CASE /\ client' = [client EXCEPT ![x].socket = "closed"]
             /\ UNCHANGED <<profile, byProfile, rt, conn, owner, seen>>
    BY <1>0, <1>1, <2>2 DEF Client
  <2> QED BY <1>12, <2>1, <2>2 DEF HangUp
<1>13. CASE RemoteEnds(x) BY <1>11, <1>13 DEF RemoteEnds
<1>14. CASE PeerCloses(x) BY <1>0, <1>1, <1>14 DEF PeerCloses, Client
<1> QED BY <1>2, <1>3, <1>4, <1>5, <1>6, <1>7, <1>8, <1>10, <1>12, <1>13, <1>14 DEF Serves

\* So is the loss of a connection.
LEMMA LostTraceable ==
  ASSUME TypeOK, NEW c \in Conns, ConnectionLost(c)
  PROVE  Traceable
<1> USE Constants
<1>1. owner[c] \in Tunnels /\ rt[owner[c]] \in Runtime /\ rt \in [Tunnels -> Runtime]
  BY DEF TypeOK, ConnectionLost
<1>2. \A u \in Tunnels : /\ rt'[u].conns \subseteq rt[u].conns
                         /\ rt'[u].shared \in {rt[u].shared, None}
  <2>1. CASE Shared BY <1>1, <2>1 DEF ConnectionLost, Runtime
  <2>2. CASE ~Shared BY <2>2 DEF ConnectionLost
  <2> QED BY <2>1, <2>2
<1>3. \A d \in Conns : conn'[d] = "unused" => conn[d] = "unused"
  BY DEF ConnectionLost, TypeOK
<1> QED BY <1>2, <1>3 DEF ConnectionLost, Traceable

\* Hence no step refers to a connection that was not made.
LEMMA MadeKept ==
  ASSUME Made, Traceable
  PROVE  Made'
BY DEF Made, Traceable

\* A step outside start() and stop() keeps the rest of the invariant.
LEMMA CourseKept ==
  ASSUME TunnelInv, SameCourse
  PROVE  OneTunnelPerProfile' /\ NoGhostTunnel' /\ Lifecycle'
BY DEF TunnelInv, SameCourse, OneTunnelPerProfile, NoGhostTunnel, Lifecycle, Kind

\* Every step of start() and stop() keeps it.
LEMMA RunsCourse ==
  ASSUME TunnelInv, NEW t \in Tunnels, Runs(t)
  PROVE  OneTunnelPerProfile' /\ NoGhostTunnel' /\ Lifecycle'
<1> USE Constants
<1>0. /\ rt \in [Tunnels -> Runtime] /\ rt[t] \in Runtime
      /\ seen \in [Tunnels -> {"none", "started", "stopped"}]
      /\ OneTunnelPerProfile /\ NoGhostTunnel /\ Lifecycle
  BY DEF TunnelInv, TypeOK
<1> USE <1>0 DEF Runtime, OneTunnelPerProfile, NoGhostTunnel, Lifecycle, Kind, Shared
<1>1. CASE StartListening(t) BY <1>1 DEF StartListening
<1>2. CASE ListenSucceeds(t)
  <2>1. \A u \in Tunnels : ~rt[u].mapped BY <1>2 DEF ListenSucceeds
  <2> QED BY <1>2, <2>1 DEF ListenSucceeds
<1>3. CASE ListenFails(t) BY <1>3 DEF ListenFails
<1>4. CASE StartReverse(t)
  <2>1. \A u \in Tunnels : ~rt[u].mapped BY <1>4 DEF StartReverse, MayStart
  <2> QED BY <1>4, <2>1 DEF StartReverse
<1>5. CASE SharedConnected(t) BY <1>5 DEF SharedConnected
<1>6. CASE StartFails(t) BY <1>6 DEF StartFails, Unregister
<1>7. CASE ForwardGranted(t) BY <1>7 DEF ForwardGranted
<1>8. CASE Stop(t) BY <1>8 DEF Stop, MayStop
<1>9. CASE ForwardCancelled(t) BY <1>9 DEF ForwardCancelled
<1>10. CASE StopDone(t) BY <1>10 DEF StopDone
<1> QED BY <1>1, <1>2, <1>3, <1>4, <1>5, <1>6, <1>7, <1>8, <1>9, <1>10 DEF Runs

\* Every step keeps the invariant.
LEMMA StepInv == TunnelInv /\ [Next]_vars => TunnelInv'
<1> SUFFICES ASSUME TunnelInv, [Next]_vars PROVE TunnelInv' OBVIOUS
<1>1. ASSUME NEW t \in Tunnels, Runs(t) PROVE TunnelInv'
  BY <1>1, RunsType, RunsCourse, RunsTraceable, MadeKept DEF TunnelInv
<1>2. ASSUME NEW x \in Clients, Serves(x) PROVE TunnelInv'
  BY <1>2, ServesType, CourseKept, ServesTraceable, MadeKept DEF TunnelInv
<1>3. ASSUME NEW c \in Conns, ConnectionLost(c) PROVE TunnelInv'
  BY <1>3, LostType, CourseKept, LostTraceable, MadeKept DEF TunnelInv
<1>4. CASE UNCHANGED vars
  BY <1>4 DEF vars, TunnelInv, TypeOK, OneTunnelPerProfile, NoGhostTunnel, Lifecycle, Made, Kind
<1> QED BY <1>1, <1>2, <1>3, <1>4 DEF Next, Runs, Serves

\* Whatever the profile and however many starts, clients and connections there
\* are, start() and stop() leave a profile with at most one tunnel, the one
\* getActiveTunnelId() names, and the user interface with no ghost of another.
THEOREM OneTunnel == Spec => [](TypeOK /\ OneTunnelPerProfile /\ NoGhostTunnel)
<1>1. TunnelInv => TypeOK /\ OneTunnelPerProfile /\ NoGhostTunnel BY DEF TunnelInv
<1> QED BY <1>1, InitInv, StepInv, PTL DEF Spec

------------------------------------------------------------------------------
(* What stop() leaves behind *)

\* What stop() relies on besides: a tunnel that is being stopped accepts no
\* socket, only a reverse tunnel has a forwarding to cancel, and its clients
\* are closed when their handler is over.
Closing ==
  /\ \A t \in Tunnels :
       /\ rt[t].stop # "no" \/ Kind = "reverse" => ~rt[t].listening
       /\ rt[t].forward \/ rt[t].start = "forwarding" => Kind = "reverse"
  /\ Kind = "reverse" =>
       \A x \in Clients :
         /\ client[x].phase = "over" => client[x].socket = "closed"
         /\ client[x].phase # "none" /\ rt[client[x].of].stop \in {"closing", "done"} => client[x].socket = "closed"

StopInv == ConnectionsRecorded /\ StoppedHasNoSockets /\ Closing

LEMMA InitStop == Init => StopInv
BY DEF Init, StopInv, ConnectionsRecorded, StoppedHasNoSockets, Closing, Kind

\* Sockets are only closed, and stop() stays where it is: nothing escapes.
Subsides ==
  /\ UNCHANGED profile
  /\ \A t \in Tunnels :
       /\ rt'[t].stop = rt[t].stop /\ rt'[t].listening = rt[t].listening
       /\ rt'[t].forward = rt[t].forward /\ (rt'[t].start = "forwarding" => rt[t].start = "forwarding")
  /\ \A x \in Clients :
       \/ /\ client'[x].of = client[x].of
          /\ client[x].phase # "none" <=> client'[x].phase # "none"
          /\ client'[x].socket = "closed" \/ client'[x].socket = client[x].socket
          /\ client'[x].phase = "over" => client[x].phase = "over" \/ client'[x].socket = "closed"
       \/ client'[x].phase # "none" /\ client'[x].socket = "closed"

LEMMA SubsidesKeeps ==
  ASSUME TypeOK, TypeOK', StoppedHasNoSockets, Closing, Subsides
  PROVE  StoppedHasNoSockets' /\ Closing'
<1>1. \A x \in Clients : client[x].phase # "none" => client[x].of \in Tunnels
  BY DEF TypeOK
<1>2. \A x \in Clients : client'[x].phase # "none" => client'[x].of \in Tunnels
  BY DEF TypeOK
<1> QED BY <1>1, <1>2 DEF StoppedHasNoSockets, Closing, Subsides, Kind

\* Every step of start() and stop() keeps what stop() relies on.
LEMMA RunsStop ==
  ASSUME TunnelInv, TypeOK', StopInv, NEW t \in Tunnels, Runs(t)
  PROVE  StopInv'
<1> USE Constants
<1>0. /\ rt \in [Tunnels -> Runtime] /\ rt[t] \in Runtime /\ client \in [Clients -> Client]
      /\ ConnType /\ Lifecycle /\ ConnectionsRecorded /\ StoppedHasNoSockets /\ Closing
      /\ \A x \in Clients : client[x].phase # "none" => client[x].of \in Tunnels
  BY DEF TunnelInv, TypeOK, StopInv, ConnType
<1>1. ASSUME UNCHANGED <<conn, owner>>,
             \A u \in Tunnels : rt'[u].conns = rt[u].conns /\ (rt'[u].stop = "no" => rt[u].stop = "no")
      PROVE  ConnectionsRecorded'
  BY <1>0, <1>1 DEF ConnectionsRecorded, ConnType
<1>2. CASE StartListening(t) \/ ListenFails(t) \/ ListenSucceeds(t) \/ StartReverse(t) \/ StartFails(t) \/ ForwardGranted(t)
  <2>1. /\ UNCHANGED <<profile, client, conn, owner>>
        /\ \A u \in Tunnels :
             /\ rt'[u].conns = rt[u].conns /\ rt'[u].stop = rt[u].stop
             /\ rt'[u].listening => rt[u].listening \/ (rt[u].start = "binding" /\ u = t)
             /\ rt'[u].forward => rt[u].forward \/ rt[u].start = "forwarding"
             /\ rt'[u].start = "forwarding" => rt[u].start = "forwarding"
    <3>1. CASE StartListening(t) BY <1>0, <3>1 DEF StartListening, Runtime
    <3>2. CASE ListenFails(t) BY <1>0, <3>2 DEF ListenFails, Runtime
    <3>3. CASE ListenSucceeds(t) BY <1>0, <3>3 DEF ListenSucceeds, Runtime
    <3>4. CASE StartReverse(t) BY <1>0, <3>4 DEF StartReverse, Runtime
    <3>5. CASE StartFails(t) BY <1>0, <3>5 DEF StartFails, Runtime
    <3>6. CASE ForwardGranted(t) BY <1>0, <3>6 DEF ForwardGranted, Runtime
    <3> QED BY <1>2, <3>1, <3>2, <3>3, <3>4, <3>5, <3>6
  <2>2. ConnectionsRecorded' BY <1>1, <2>1
  <2>3. StoppedHasNoSockets' BY <1>0, <2>1 DEF StoppedHasNoSockets
  <2>4. Closing' BY <1>0, <2>1 DEF Closing, Lifecycle, Kind
  <2> QED BY <2>2, <2>3, <2>4 DEF StopInv
<1>3. CASE SharedConnected(t)
  <2>1. PICK c \in Conns :
          /\ Connects(c, t)
          /\ rt' = [rt EXCEPT ![t].shared = c, ![t].conns = Record(t, c),
                              ![t].start = IF Kind = "reverse" THEN "forwarding" ELSE "done"]
    BY <1>3 DEF SharedConnected
  <2>2. /\ UNCHANGED <<profile, client>>
        /\ \A u \in Tunnels :
             /\ rt'[u].stop = rt[u].stop /\ rt'[u].listening = rt[u].listening /\ rt'[u].forward = rt[u].forward
             /\ rt'[u].start = "forwarding" => rt[u].start = "forwarding" \/ Kind = "reverse"
             /\ rt[u].conns \subseteq rt'[u].conns
        /\ c \in rt'[t].conns
    BY <1>0, <1>3, <2>1 DEF SharedConnected, Record, Runtime
  <2>3. ConnectionsRecorded'
    BY <1>0, <2>1, <2>2 DEF ConnectionsRecorded, ConnType, Connects
  <2>4. StoppedHasNoSockets' /\ Closing' BY <1>0, <2>2 DEF StoppedHasNoSockets, Closing, Kind
  <2> QED BY <2>3, <2>4 DEF StopInv
<1>4. ASSUME TearDown(t), UNCHANGED owner,
             \A u \in Tunnels : u # t => rt'[u] = rt[u],
             rt'[t].stop = "closing"
      PROVE  /\ ConnectionsRecorded'
             /\ \A x \in Clients : /\ client'[x].of = client[x].of /\ (client'[x].phase = "none" <=> client[x].phase = "none")
                                   /\ client'[x].socket \in {client[x].socket, "closed"}
                                   /\ client'[x].phase = "over" => client[x].phase = "over" \/ client'[x].socket = "closed"
                                   /\ client[x].phase \notin {"none", "over"} /\ client[x].of = t => client'[x].socket = "closed"
  <2>1. ConnectionsRecorded'
    BY <1>0, <1>4 DEF TearDown, Dispose, ConnectionsRecorded, ConnType
  <2>2. ASSUME NEW x \in Clients
        PROVE  /\ client'[x].of = client[x].of /\ (client'[x].phase = "none" <=> client[x].phase = "none")
               /\ client'[x].socket \in {client[x].socket, "closed"}
               /\ client'[x].phase = "over" => client[x].phase = "over" \/ client'[x].socket = "closed"
               /\ client[x].phase \notin {"none", "over"} /\ client[x].of = t => client'[x].socket = "closed"
    <3>1. CASE x \in Destroyed(t)
      <4>1. client'[x] = [client[x] EXCEPT !.socket = "closed", !.phase = IF @ \in Interrupted THEN "over" ELSE @]
        BY <1>4, <3>1 DEF TearDown
      <4>2. client[x] \in Client BY <1>0
      <4> QED BY <3>1, <4>1, <4>2 DEF Client, Destroyed, Served, Interrupted
    <3>2. CASE x \notin Destroyed(t)
      <4>1. client'[x] = client[x] BY <1>4, <3>2 DEF TearDown
      <4> QED BY <3>2, <4>1 DEF Destroyed, Served
    <3> QED BY <3>1, <3>2
  <2> QED BY <2>1, <2>2
<1>5. ASSUME TearDown(t), UNCHANGED <<profile, owner>>,
             \A u \in Tunnels : u # t => rt'[u] = rt[u],
             rt'[t].stop = "closing", ~rt'[t].listening, rt'[t].forward = rt[t].forward, rt'[t].start = rt[t].start
      PROVE  StopInv'
  <2>1. StoppedHasNoSockets' BY <1>0, <1>4, <1>5 DEF StoppedHasNoSockets
  <2>2. Closing' BY <1>0, <1>4, <1>5 DEF Closing, Kind
  <2> QED BY <1>4, <1>5, <2>1, <2>2 DEF StopInv
<1>6. CASE Stop(t)
  <2>1. CASE rt[t].forward /\ rt[t].shared # None
    <3>1. /\ rt' = [rt EXCEPT ![t].mapped = FALSE, ![t].stop = "cancelling"]
          /\ UNCHANGED <<profile, client, conn, owner>>
      BY <1>6, <2>1 DEF Stop
    <3>2. \A u \in Tunnels :
            /\ rt'[u].conns = rt[u].conns /\ rt'[u].listening = rt[u].listening /\ rt'[u].forward = rt[u].forward
            /\ rt'[u].start = rt[u].start
            /\ rt'[u].stop = rt[u].stop \/ (u = t /\ rt'[u].stop = "cancelling")
      BY <1>0, <3>1 DEF Runtime
    <3>3. ~rt[t].listening /\ Kind = "reverse" BY <1>0, <2>1 DEF Closing
    <3>4. ConnectionsRecorded' BY <1>1, <3>1, <3>2
    <3>5. StoppedHasNoSockets' BY <1>0, <3>1, <3>2 DEF StoppedHasNoSockets
    <3>6. Closing' BY <1>0, <3>1, <3>2, <3>3 DEF Closing, Kind
    <3> QED BY <3>4, <3>5, <3>6 DEF StopInv
  <2>2. CASE ~(rt[t].forward /\ rt[t].shared # None)
    <3>1. /\ TearDown(t) /\ UNCHANGED <<profile, owner>>
          /\ rt' = [rt EXCEPT ![t].mapped = FALSE, ![t].stop = "closing", ![t].listening = FALSE,
                              ![t].conns = {}, ![t].shared = None]
      BY <1>6, <2>2 DEF Stop
    <3>2. /\ \A u \in Tunnels : u # t => rt'[u] = rt[u]
          /\ rt'[t].stop = "closing" /\ ~rt'[t].listening /\ rt'[t].forward = rt[t].forward /\ rt'[t].start = rt[t].start
      BY <1>0, <3>1 DEF Runtime
    <3> QED BY <1>5, <3>1, <3>2
  <2> QED BY <2>1, <2>2
<1>7. CASE ForwardCancelled(t)
  <2>1. /\ TearDown(t) /\ UNCHANGED <<profile, owner>> /\ rt[t].stop = "cancelling"
        /\ rt' = [rt EXCEPT ![t].stop = "closing", ![t].conns = {}, ![t].shared = None]
    BY <1>7 DEF ForwardCancelled
  <2>2. ~rt[t].listening BY <1>0, <2>1 DEF Closing
  <2>3. /\ \A u \in Tunnels : u # t => rt'[u] = rt[u]
        /\ rt'[t].stop = "closing" /\ ~rt'[t].listening /\ rt'[t].forward = rt[t].forward /\ rt'[t].start = rt[t].start
    BY <1>0, <2>1, <2>2 DEF Runtime
  <2> QED BY <1>5, <2>1, <2>3
<1>8. CASE StopDone(t)
  <2>1. /\ rt[t].stop = "closing" /\ UNCHANGED <<profile, client, conn, owner>>
        /\ \A u \in Tunnels :
            /\ rt'[u].conns = rt[u].conns /\ rt'[u].listening = rt[u].listening /\ rt'[u].forward = rt[u].forward
            /\ rt'[u].start = rt[u].start
            /\ rt'[u].stop = rt[u].stop \/ (u = t /\ rt'[u].stop = "done")
    BY <1>0, <1>8 DEF StopDone, Runtime
  <2>2. \A x \in Clients : client[x].phase # "none" /\ client[x].of = t => client[x].socket = "closed"
    BY <1>0, <1>8 DEF StopDone, Closing
  <2>3. ConnectionsRecorded' BY <1>1, <2>1
  <2>4. StoppedHasNoSockets' BY <1>0, <2>1, <2>2 DEF StoppedHasNoSockets
  <2>5. Closing' BY <1>0, <2>1, <2>2 DEF Closing, Kind
  <2> QED BY <2>3, <2>4, <2>5 DEF StopInv
<1> QED BY <1>2, <1>3, <1>6, <1>7, <1>8 DEF Runs

\* So does every step of a client.
LEMMA ServesStop ==
  ASSUME TunnelInv, TypeOK', StopInv, NEW x \in Clients, Serves(x)
  PROVE  StopInv'
<1> USE Constants
<1> DEFINE t == client[x].of
           k == client[x].conn
<1>0. /\ rt \in [Tunnels -> Runtime] /\ client \in [Clients -> Client] /\ client[x] \in Client
      /\ client[x].phase # "none" => t \in Tunnels /\ rt[t] \in Runtime
      /\ TypeOK /\ ConnType /\ Lifecycle /\ ConnectionsRecorded /\ StoppedHasNoSockets /\ Closing
      /\ \A y \in Clients : client[y].phase # "none" => client[y].of \in Tunnels
      /\ \A y \in Clients : client'[y].phase # "none" => client'[y].of \in Tunnels
  BY DEF TunnelInv, TypeOK, StopInv, ConnType
<1>1. ASSUME UNCHANGED <<profile, byProfile, rt, conn, owner, seen>>,
             \A y \in Clients : y # x => client'[y] = client[y],
             \/ /\ client'[x].of = client[x].of
                /\ client[x].phase # "none" <=> client'[x].phase # "none"
                /\ client'[x].socket = "closed" \/ client'[x].socket = client[x].socket
                /\ client'[x].phase = "over" => client[x].phase = "over" \/ client'[x].socket = "closed"
             \/ client'[x].phase # "none" /\ client'[x].socket = "closed"
      PROVE  StopInv'
  <2>1. Subsides BY <1>1 DEF Subsides
  <2>2. ConnectionsRecorded' BY <1>0, <1>1 DEF ConnectionsRecorded
  <2> QED BY <1>0, <2>1, <2>2, SubsidesKeeps DEF StopInv
<1>2. ASSUME NEW u \in Tunnels, client'[x].of = u, client'[x].phase # "over", rt[u].stop = "no",
             UNCHANGED <<profile, byProfile, rt, conn, owner, seen>>,
             \A y \in Clients : y # x => client'[y] = client[y]
      PROVE  StopInv'
  <2>1. ConnectionsRecorded' BY <1>0, <1>2 DEF ConnectionsRecorded
  <2>2. StoppedHasNoSockets' BY <1>0, <1>2 DEF StoppedHasNoSockets
  <2>3. Closing' BY <1>0, <1>2 DEF Closing, Kind
  <2> QED BY <2>1, <2>2, <2>3 DEF StopInv
<1>3. ASSUME NEW u \in Tunnels, ClientArrives(x, u) PROVE StopInv'
  <2>1. /\ UNCHANGED <<profile, byProfile, rt, conn, owner, seen>>
        /\ \A y \in Clients : y # x => client'[y] = client[y]
        /\ rt[u].listening
    BY <1>0, <1>3 DEF ClientArrives
  <2>2. CASE ~rt[u].mapped
    <3>1. client'[x].phase = "over" /\ client'[x].socket = "closed" BY <1>0, <1>3, <2>2 DEF ClientArrives
    <3> QED BY <1>1, <2>1, <3>1
  <2>3. CASE rt[u].mapped
    <3>1. client'[x].of = u /\ client'[x].phase # "over"
      BY <1>0, <1>3, <2>3 DEF ClientArrives, ConnectPhase
    <3>2. rt[u].stop = "no" BY <1>0, <2>1 DEF Closing
    <3> QED BY <1>2, <2>1, <3>1, <3>2
  <2> QED BY <2>2, <2>3
<1>4. ASSUME NEW u \in Tunnels, ReverseArrives(x, u) PROVE StopInv'
  <2>1. /\ UNCHANGED <<profile, byProfile, rt, conn, owner, seen>>
        /\ \A y \in Clients : y # x => client'[y] = client[y]
        /\ client'[x].of = u /\ client'[x].phase # "over" /\ rt[u].stop = "no"
    BY <1>0, <1>4 DEF ReverseArrives, TakesChannels
  <2> QED BY <1>2, <2>1
<1>5. CASE HandshakeDone(x)
  BY <1>0, <1>1, <1>5 DEF HandshakeDone, Client, ConnectPhase
<1>6. CASE HandshakeFails(x) BY <1>0, <1>1, <1>6 DEF HandshakeFails, Client
<1>7. CASE ClientConnected(x)
  <2>1. t \in Tunnels /\ rt[t] \in Runtime BY <1>0, <1>7 DEF ClientConnected
  <2>2. PICK c \in Conns :
          /\ Connects(c, t)
          /\ client' = [client EXCEPT ![x].phase = "opening", ![x].conn = c]
          /\ rt' = [rt EXCEPT ![t].conns = Record(t, c), ![t].shared = IF Shared THEN c ELSE @]
    BY <1>7 DEF ClientConnected
  <2>3. /\ \A u \in Tunnels :
             /\ rt'[u].stop = rt[u].stop /\ rt'[u].listening = rt[u].listening /\ rt'[u].forward = rt[u].forward
             /\ rt'[u].start = rt[u].start /\ rt[u].conns \subseteq rt'[u].conns
        /\ c \in rt'[t].conns
    BY <1>0, <2>1, <2>2 DEF Record, Runtime
  <2>4. ConnectionsRecorded'
    BY <1>0, <2>1, <2>2, <2>3 DEF ConnectionsRecorded, ConnType, Connects
  <2>5. Subsides
    <3>1. UNCHANGED profile /\ client[x].phase = "connecting" BY <1>7 DEF ClientConnected
    <3>2. \A y \in Clients : y # x => client'[y] = client[y] BY <1>0, <2>2
    <3>3. client'[x].of = client[x].of /\ client'[x].phase = "opening" /\ client'[x].socket = client[x].socket
      BY <1>0, <2>2 DEF Client
    <3> QED BY <2>3, <3>1, <3>2, <3>3 DEF Subsides
  <2> QED BY <1>0, <2>4, <2>5, SubsidesKeeps DEF StopInv
<1>8. CASE ClientConnectFails(x) BY <1>0, <1>1, <1>8 DEF ClientConnectFails, Client
<1>9. CASE ChannelOpens(x) BY <1>0, <1>1, <1>9 DEF ChannelOpens, Client
<1>10. ASSUME client[x].phase # "none", NEW S, Dispose(S), UNCHANGED <<profile, owner>>,
              \A u \in Tunnels :
                /\ rt'[u].stop = rt[u].stop /\ rt'[u].listening = rt[u].listening /\ rt'[u].forward = rt[u].forward
                /\ rt'[u].start = rt[u].start /\ rt[u].conns \ S \subseteq rt'[u].conns,
              \A y \in Clients : y # x => client'[y] = client[y],
              client'[x].of = client[x].of, client'[x].phase = "over",
              client'[x].socket = "closed" \/ (Kind # "reverse" /\ client[x].socket # "closed")
       PROVE  StopInv'
  <2>1. ConnectionsRecorded' BY <1>0, <1>10 DEF ConnectionsRecorded, ConnType, Dispose
  <2>2. StoppedHasNoSockets' BY <1>0, <1>10 DEF StoppedHasNoSockets
  <2>3. Closing' BY <1>0, <1>10 DEF Closing, Kind
  <2> QED BY <2>1, <2>2, <2>3 DEF StopInv
<1>11. CASE ChannelFails(x)
  <2> DEFINE drop == IF Shared /\ rt[t].shared # k THEN {} ELSE {k}
  <2>1. t \in Tunnels /\ rt[t] \in Runtime /\ client[x].phase # "none" BY <1>0, <1>11 DEF ChannelFails
  <2>2. /\ client' = [client EXCEPT ![x].phase = "over", ![x].socket = "closed"]
        /\ rt' = [rt EXCEPT ![t].conns = @ \ drop, ![t].shared = IF @ \in drop THEN None ELSE @]
        /\ Dispose(drop) /\ UNCHANGED <<profile, owner>>
    BY <1>11 DEF ChannelFails
  <2> HIDE DEF drop
  <2>3. \A u \in Tunnels :
          /\ rt'[u].stop = rt[u].stop /\ rt'[u].listening = rt[u].listening /\ rt'[u].forward = rt[u].forward
          /\ rt'[u].start = rt[u].start /\ rt[u].conns \ drop \subseteq rt'[u].conns
    BY <1>0, <2>1, <2>2 DEF Runtime
  <2>4. /\ \A y \in Clients : y # x => client'[y] = client[y]
        /\ client'[x].of = client[x].of /\ client'[x].phase = "over" /\ client'[x].socket = "closed"
    BY <1>0, <2>2 DEF Client
  <2> QED BY <1>10, <2>1, <2>2, <2>3, <2>4
<1>12. ASSUME client[x].phase = "piped", NEW s, Cleanup(x, s),
              s = "closed" \/ (Kind # "reverse" /\ client[x].socket # "closed")
       PROVE  StopInv'
  <2> DEFINE drop == (IF Shared THEN {} ELSE {k})
  <2>1. t \in Tunnels /\ rt[t] \in Runtime /\ client[x].phase # "none" BY <1>0, <1>12
  <2>2. /\ client' = [client EXCEPT ![x].phase = "over", ![x].socket = s]
        /\ rt' = [rt EXCEPT ![t].conns = @ \ drop]
        /\ Dispose(drop) /\ UNCHANGED <<profile, owner>>
    BY <1>12 DEF Cleanup
  <2> HIDE DEF drop
  <2>3. \A u \in Tunnels :
          /\ rt'[u].stop = rt[u].stop /\ rt'[u].listening = rt[u].listening /\ rt'[u].forward = rt[u].forward
          /\ rt'[u].start = rt[u].start /\ rt[u].conns \ drop \subseteq rt'[u].conns
    BY <1>0, <2>1, <2>2 DEF Runtime
  <2>4. /\ \A y \in Clients : y # x => client'[y] = client[y]
        /\ client'[x].of = client[x].of /\ client'[x].phase = "over" /\ client'[x].socket = s
    BY <1>0, <2>2 DEF Client
  <2> QED BY <1>10, <1>12, <2>1, <2>2, <2>3, <2>4
<1>13. CASE HangUp(x)
  <2>1. CASE client[x].phase = "piped" /\ Cleanup(x, "closed") BY <1>12, <2>1
  <2>2. CASE /\ client[x].phase \in {"connecting", "opening"}
             /\ client' = [client EXCEPT ![x].socket = "closed"]
             /\ UNCHANGED <<profile, byProfile, rt, conn, owner, seen>>
    BY <1>0, <1>1, <2>2 DEF Client
  <2> QED BY <1>13, <2>1, <2>2 DEF HangUp
<1>14. CASE RemoteEnds(x) BY <1>12, <1>14 DEF RemoteEnds
<1>15. CASE PeerCloses(x) BY <1>0, <1>1, <1>15 DEF PeerCloses, Client
<1> QED BY <1>3, <1>4, <1>5, <1>6, <1>7, <1>8, <1>9, <1>11, <1>13, <1>14, <1>15 DEF Serves

\* And the loss of a connection.
LEMMA LostStop ==
  ASSUME TunnelInv, TypeOK', StopInv, NEW c \in Conns, ConnectionLost(c)
  PROVE  StopInv'
<1>0. /\ owner[c] \in Tunnels /\ rt[owner[c]] \in Runtime /\ rt \in [Tunnels -> Runtime] /\ TypeOK /\ ConnType
      /\ ConnectionsRecorded /\ StoppedHasNoSockets /\ Closing
  BY DEF TunnelInv, TypeOK, ConnType, ConnectionLost, StopInv
<1>1. \A u \in Tunnels :
        /\ rt'[u].stop = rt[u].stop /\ rt'[u].listening = rt[u].listening /\ rt'[u].forward = rt[u].forward
        /\ rt'[u].start = rt[u].start /\ rt[u].conns \ {c} \subseteq rt'[u].conns
  <2>1. CASE Shared BY <1>0, <2>1 DEF ConnectionLost, Runtime
  <2>2. CASE ~Shared BY <2>2 DEF ConnectionLost
  <2> QED BY <2>1, <2>2
<1>2. Subsides BY <1>1 DEF Subsides, ConnectionLost
<1>3. ConnectionsRecorded' BY <1>0, <1>1 DEF ConnectionsRecorded, ConnType, ConnectionLost
<1> QED BY <1>0, <1>2, <1>3, SubsidesKeeps DEF StopInv

LEMMA StepStop == TunnelInv /\ StopInv /\ [Next]_vars => StopInv'
<1> SUFFICES ASSUME TunnelInv, StopInv, [Next]_vars PROVE StopInv' OBVIOUS
<1>0. TypeOK' BY StepInv DEF TunnelInv
<1>1. ASSUME NEW t \in Tunnels, Runs(t) PROVE StopInv' BY <1>0, <1>1, RunsStop
<1>2. ASSUME NEW x \in Clients, Serves(x) PROVE StopInv' BY <1>0, <1>2, ServesStop
<1>3. ASSUME NEW c \in Conns, ConnectionLost(c) PROVE StopInv' BY <1>0, <1>3, LostStop
<1>4. CASE UNCHANGED vars
  BY <1>4 DEF vars, StopInv, ConnectionsRecorded, StoppedHasNoSockets, Closing, Kind
<1> QED BY <1>1, <1>2, <1>3, <1>4 DEF Next, Runs, Serves

\* stop() disposes every connection that was made for its tunnel and has closed
\* every socket when its listeners are told, also those that were accepted, were
\* waiting for a connection or lost their stream while it was under way.
THEOREM StopIsComplete == Spec => []NothingEscapesStop
<1>1. TunnelInv /\ StopInv => NothingEscapesStop BY DEF TunnelInv, StopInv, NothingEscapesStop
<1> QED BY <1>1, InitInv, StepInv, InitStop, StepStop, PTL DEF Spec

------------------------------------------------------------------------------
(* Serial terminals, the requests of the manager and the sidecar              *)

Kinds == {"list", "open", "write", "close"}
Vals == Nat \cup (SUBSET Ports) \cup {"error", "runtime", "unknown"}
Requests == [n : Nat \ {0}, t : Ttys, kind : Kinds, arg : Nat]
Answers == [n : Nat \ {0}, t : Ttys, kind : Kinds, arg : Nat, ok : BOOLEAN, val : Vals]
Notices == [n : {0}, kind : {"disconnect"}, sid : Nat]
AskedKeys == {<<>>} \cup (BOOLEAN \X (SUBSET Ports) \X (SUBSET Ports))
TtyFields ==
  [st : {"none", "live", "disposed"}, sid : 0..MaxOpens, act : Ports \cup {0},
   end : {"no", "failed", "disconnected", "stopped"}, poll : BOOLEAN,
   at : {"idle", "list", "open", "prompt", "saving"}, aim : Nat, how : {"direct", "hint", "picked"},
   seen : SUBSET Ports, offer : SUBSET Ports, pref : Nat, asked : AskedKeys,
   shown : {"waiting", "connected"}, prof : BOOLEAN, listed : BOOLEAN]
\* Without an entry no path is held against the others.
TtyRecords == {x \in TtyFields : x.listed \/ x.act = 0}

\* The sessions the sidecar has open.
Sids == {q.sid : q \in sidecar.ports}
Used == 1..tally.opens

SidecarSound ==
  /\ sidecar \in [up : {"none", "up", "dead"}, ports : SUBSET [sid : 1..MaxOpens, path : Ports], plugged : SUBSET Ports]
  /\ sidecar.up # "up" => sidecar.ports = {}
  /\ sidecar.up = "none" => pending = {}
  /\ \A q \in sidecar.ports : q.sid \in Used
  /\ \A p, q \in sidecar.ports : p.sid = q.sid => p = q
  /\ tally \in [opens : 0..MaxOpens, events : Nat, off : BOOLEAN, modes : {u.modes : u \in SerialSetups}]

WireTyped ==
  /\ wire \in [in : Seq(Requests), out : Seq(Answers \cup Notices)]
  /\ pending \in SUBSET Requests /\ IsFiniteSet(pending)
  /\ got \in SUBSET Answers /\ IsFiniteSet(got)
  /\ tty \in [Ttys -> TtyRecords]

\* An answer that tells a terminal that its session is gone.
Unknown(a) == a.kind = "write" /\ ~a.ok /\ a.val = "unknown"

\* What an answer says is so, or was so and nothing came of it.
AnswerSound(a) ==
  /\ a.kind # "close"
  /\ a.kind = "list" /\ a.ok => a.val \in SUBSET Ports
  /\ a.kind = "open" /\ a.ok =>
       a.arg \in Ports /\ a.val \in Used /\ \A q \in sidecar.ports : q.sid = a.val => q.path = a.arg
  /\ Unknown(a) => a.arg \in Used \ Sids
AnswersSound ==
  /\ \A a \in got : AnswerSound(a)
  /\ \A k \in DOMAIN wire.out :
       IF wire.out[k].n = 0 THEN wire.out[k].sid \in Used \ Sids ELSE AnswerSound(wire.out[k])
  /\ \A k \in DOMAIN wire.in : wire.in[k].kind = "write" => wire.in[k].arg \in Used

\* A request that is waited for is not confused with another.
IdsUnique ==
  /\ \A r \in pending : r.kind # "close"
  /\ \A r, s \in pending : r.n = s.n => r = s
  /\ \A r \in pending, k \in DOMAIN wire.in : wire.in[k].n = r.n => wire.in[k] = r
  /\ \A r \in pending, k \in DOMAIN wire.out :
       wire.out[k].n = r.n => wire.out[k].t = r.t /\ wire.out[k].kind = r.kind /\ wire.out[k].arg = r.arg

\* What a terminal is doing: x is its record.
RecordSound(t, x) ==
  /\ x.st # "live" \/ x.at \in {"list", "open", "prompt"} \/ x.poll => x.sid = 0
  /\ x.sid <= tally.opens
  /\ x.st = "none" => x.at = "idle" /\ x.end = "no"
  /\ x.poll \/ x.at \in {"list", "prompt", "saving"} => Smart(t)
  /\ x.end \notin {"no", "stopped"} => ~Smart(t)
  /\ x.end = "stopped" => x.sid = 0 /\ ~x.poll /\ (x.at = "idle" \/ tally.off)
  /\ x.st = "live" /\ x.at \in {"idle", "saving"} /\ x.end = "no" /\ Smart(t) => x.sid # 0 \/ x.poll
  /\ tally.off /\ x.st = "live" => x.sid = 0 /\ (Smart(t) => x.end = "stopped")

\* Its session is the one of the port its entry shows, if it has one.
ShowsItsOwn(x) ==
  \A q \in sidecar.ports : x.st = "live" /\ x.listed /\ x.sid = q.sid /\ x.end = "no" => x.act = q.path

TtysSound == \A t \in Ttys : RecordSound(t, tty[t]) /\ ShowsItsOwn(tty[t])

\* An attempt waits for one answer, and the terminal knows which.
Tries(r) == r.kind \in {"list", "open"}
AttemptFits(r, x) ==
  /\ x.st # "none"
  /\ Tries(r) => x.at = r.kind
  /\ r.kind = "open" /\ x.st = "live" /\ x.end # "stopped" => x.aim = r.arg
AttemptsSound ==
  /\ \A r \in pending \cup got : AttemptFits(r, tty[r.t]) /\ (r.kind = "list" => Smart(r.t))
  /\ \A r, s \in pending : Tries(r) /\ Tries(s) /\ r.t = s.t => r = s
  /\ \A r, s \in got : Tries(r) /\ Tries(s) /\ r.t = s.t => r = s
  /\ \A r \in pending, s \in got : Tries(r) /\ Tries(s) => r.t # s.t

\* What a terminal with writes on their way is not doing.
WriteFits(w, x) == w.kind = "write" => x.sid \in {0, w.arg} /\ x.at \notin {"open", "prompt"}
UnknownFits(a, x) == Unknown(a) => x.sid \in {0, a.arg}

Answered(r) == \E k \in DOMAIN wire.out : wire.out[k].n = r.n

\* A write is answered before the attempt to connect again can succeed.
WritesFit ==
  /\ \A w \in pending : WriteFits(w, tty[w.t])
  /\ \A a \in got : UnknownFits(a, tty[a.t])
WritesGot ==
  /\ \A a \in got, w \in pending : a.kind = "list" /\ a.ok /\ w.kind = "write" => w.t # a.t
  /\ \A a, b \in got : a.kind = "open" /\ a.ok /\ b.kind = "write" => a.t # b.t
  /\ \A r \in pending, b \in got : r.kind = "open" /\ Answered(r) /\ b.kind = "write" => b.t # r.t
WritesOut ==
  \A r \in pending, w \in pending, k \in DOMAIN wire.out :
    r.kind = "list" /\ wire.out[k].n = r.n /\ w.kind = "write" /\ w.t = r.t =>
      \E j \in DOMAIN wire.out : j < k /\ wire.out[j].n = w.n
WritesIn ==
  sidecar.up = "up" =>
    /\ \A r \in pending : Answered(r) \/ \E k \in DOMAIN wire.in : wire.in[k] = r
    /\ \A r \in pending, w \in pending, k \in DOMAIN wire.in :
         r.kind = "list" /\ wire.in[k] = r /\ w.kind = "write" /\ w.t = r.t =>
           Answered(w) \/ \E j \in DOMAIN wire.in : j < k /\ wire.in[j] = w

OffIsOff ==
  tally.off =>
    /\ sidecar.up = "none" /\ pending = {} /\ wire.in = <<>> /\ wire.out = <<>>
    /\ \A a \in got : ~a.ok /\ a.val = "error"

SerialInv ==
  /\ SidecarSound /\ WireTyped /\ AnswersSound /\ IdsUnique /\ AttemptsSound /\ TtysSound
  /\ WritesFit /\ WritesGot /\ WritesOut /\ WritesIn /\ OffIsOff /\ PortsKnown

LEMMA LinesFinite == ASSUME NEW S, NEW q \in Seq(S) PROVE IsFiniteSet(Lines(q))
<1> DEFINE f == [i \in 1..Len(q) |-> q[i]]
<1>1. Len(q) \in Nat /\ DOMAIN q = 1..Len(q)
  OBVIOUS
<1>2. IsFiniteSet(1..Len(q))
  BY <1>1, FS_Interval
<1>3. f \in Surjection(1..Len(q), Lines(q))
  BY <1>1 DEF Surjection, Lines
<1> QED
  BY <1>2, <1>3, FS_Surjection

LEMMA NumbersFinite == ASSUME NEW S, IsFiniteSet(S) PROVE IsFiniteSet({r.n : r \in S})
<1> DEFINE f == [r \in S |-> r.n]
<1>1. f \in Surjection(S, {r.n : r \in S})
  BY DEF Surjection
<1> QED
  BY <1>1, FS_Surjection

\* A new request is confused with none under way.
Fresh(r) ==
  /\ \A s \in pending \cup got : s.n # r.n
  /\ \A k \in DOMAIN wire.in : wire.in[k].n # r.n
  /\ \A k \in DOMAIN wire.out : wire.out[k].n # r.n

LEMMA RequestFresh ==
  ASSUME WireTyped, NEW t \in Ttys, NEW kind \in Kinds, NEW arg \in Nat
  PROVE  LET r == Request(t, kind, arg) IN
         r \in Requests /\ Fresh(r) /\ r.t = t /\ r.kind = kind /\ r.arg = arg
<1>1. wire.in \in Seq(Requests) /\ wire.out \in Seq(Answers \cup Notices) /\ IsFiniteSet(pending) /\ IsFiniteSet(got)
  BY DEF WireTyped
<1>2. IsFiniteSet(Lines(wire.in)) /\ IsFiniteSet(Lines(wire.out))
  BY <1>1, LinesFinite
<1>3. IsFiniteSet(pending \cup got)
  BY <1>1, FS_Union
<1>4. IsFiniteSet((pending \cup got) \cup Lines(wire.in))
  BY <1>2, <1>3, FS_Union
<1>5. IsFiniteSet(((pending \cup got) \cup Lines(wire.in)) \cup Lines(wire.out))
  BY <1>2, <1>4, FS_Union
<1>6. IsFiniteSet(InUse)
  <2>1. IsFiniteSet({r.n : r \in ((pending \cup got) \cup Lines(wire.in)) \cup Lines(wire.out)})
    BY <1>5, NumbersFinite
  <2> QED
    BY <2>1 DEF InUse
<1>7. PICK c \in Nat : c = Cardinality(InUse)
  BY <1>6, FS_CardinalityType
<1>8. \E k \in 1..(c + 1) : k \notin InUse
  <2>1. SUFFICES ASSUME 1..(c + 1) \in SUBSET InUse PROVE FALSE
    OBVIOUS
  <2>2. Cardinality(1..(c + 1)) <= c
    BY <1>6, <1>7, <2>1, FS_Subset
  <2>3. Cardinality(1..(c + 1)) = c + 1
    BY <1>7, FS_Interval
  <2> QED
    BY <1>7, <2>2, <2>3
<1>9. PICK m : m = CHOOSE k \in 1..(Cardinality(InUse) + 1) : k \notin InUse
  OBVIOUS
<1>10. m \in 1..(c + 1) /\ m \notin InUse
  BY <1>7, <1>8, <1>9
<1>11. PICK r : r = Request(t, kind, arg)
  OBVIOUS
<1>12. r = [n |-> m, t |-> t, kind |-> kind, arg |-> arg]
  BY <1>9, <1>11 DEF Request
<1>13. m \in Nat \ {0}
  BY <1>7, <1>10
<1>14. r \in Requests /\ r.n = m /\ r.t = t /\ r.kind = kind /\ r.arg = arg
  BY <1>12, <1>13 DEF Requests
<1>15. Fresh(r)
  BY <1>10, <1>14 DEF Fresh, InUse, Lines
<1> QED
  BY <1>11, <1>14, <1>15

\* What Send() does, for the set S of what is sent: nothing, or one request.
Sending(S) ==
  /\ IsFiniteSet(S)
  /\ wire' \in [in : Seq(Requests), out : Seq(Answers \cup Notices)]
  /\ wire'.out = wire.out
  /\ \A k \in DOMAIN wire.in : k \in DOMAIN wire'.in /\ wire'.in[k] = wire.in[k]
  /\ \A k \in DOMAIN wire'.in :
       k \notin DOMAIN wire.in => wire'.in[k] \in S /\ \A j \in DOMAIN wire.in : j < k
  /\ \A r \in S : \E k \in DOMAIN wire'.in : wire'.in[k] = r
  /\ \A r, s \in S : r = s
  /\ pending' = pending \cup {r \in S : r.kind # "close"}
  /\ sidecar' = IF sidecar.up = "none" /\ S # {} THEN [sidecar EXCEPT !.up = "up"] ELSE sidecar
  /\ S = {} => wire' = wire

LEMMA SendOne ==
  ASSUME WireTyped, NEW r \in Requests, Send(<<r>>)
  PROVE  Sending({r})
<1>1. wire \in [in : Seq(Requests), out : Seq(Answers \cup Notices)] /\ wire.in \in Seq(Requests) /\ Len(wire.in) \in Nat
  BY DEF WireTyped
<1>2. PICK q : q = wire.in \o <<r>>
  OBVIOUS
<1>3. q = Append(wire.in, r)
  BY <1>1, <1>2
<1>4. /\ q \in Seq(Requests) /\ DOMAIN q = 1..(Len(wire.in) + 1) /\ q[Len(wire.in) + 1] = r
      /\ \A k \in 1..Len(wire.in) : q[k] = wire.in[k]
  BY <1>1, <1>3
<1>5. wire' = [wire EXCEPT !.in = q]
  BY <1>2 DEF Send
<1>6. wire' \in [in : Seq(Requests), out : Seq(Answers \cup Notices)] /\ wire'.out = wire.out /\ wire'.in = q
  BY <1>1, <1>4, <1>5
<1>7. Lines(<<r>>) = {r} /\ <<r>> # <<>>
  BY DEF Lines
<1>8. pending' = pending \cup {s \in {r} : s.kind # "close"}
  BY <1>7 DEF Send
<1>9. sidecar' = IF sidecar.up = "none" /\ {r} # {} THEN [sidecar EXCEPT !.up = "up"] ELSE sidecar
  BY <1>7 DEF Send
<1>10. DOMAIN wire.in = 1..Len(wire.in)
  BY <1>1
<1>11. \E k \in DOMAIN q : q[k] = r
  BY <1>1, <1>4
<1>12. \A k \in DOMAIN q : k \notin DOMAIN wire.in => q[k] \in {r} /\ \A j \in DOMAIN wire.in : j < k
  <2> SUFFICES ASSUME NEW k \in DOMAIN q, k \notin DOMAIN wire.in PROVE q[k] \in {r} /\ \A j \in DOMAIN wire.in : j < k
    OBVIOUS
  <2>1. k = Len(wire.in) + 1
    BY <1>1, <1>4, <1>10
  <2> QED
    BY <1>1, <1>4, <1>10, <2>1
<1>13. \A k \in DOMAIN wire.in : k \in DOMAIN q /\ q[k] = wire.in[k]
  BY <1>1, <1>4, <1>10
<1>14. IsFiniteSet({r})
  BY FS_Singleton
<1>15. {r} # {}
  OBVIOUS
<1> QED
  BY <1>6, <1>8, <1>9, <1>11, <1>12, <1>13, <1>14, <1>15 DEF Sending

LEMMA SendNone ==
  ASSUME WireTyped, Send(<<>>)
  PROVE  Sending({})
<1>1. wire \in [in : Seq(Requests), out : Seq(Answers \cup Notices)] /\ wire.in \in Seq(Requests)
  BY DEF WireTyped
<1>2. wire.in \o <<>> = wire.in
  BY <1>1
<1>3. wire' = wire
  BY <1>1, <1>2 DEF Send
<1>4. Lines(<<>>) = {}
  BY DEF Lines
<1>5. pending' = pending /\ sidecar' = sidecar
  BY <1>4 DEF Send
<1>6. IsFiniteSet({})
  BY FS_EmptySet
<1> QED
  BY <1>1, <1>3, <1>5, <1>6 DEF Sending

\* A step of terminal t, which becomes x, but for what it sends.
Moves(t, x) ==
  /\ tty' = [tty EXCEPT ![t] = x] /\ x \in TtyRecords
  /\ got' \in SUBSET got /\ orphan' = orphan
  /\ tally' \in [opens : 0..MaxOpens, events : Nat, off : BOOLEAN, modes : {u.modes : u \in SerialSetups}]
  /\ tally'.opens = tally.opens /\ tally'.off = tally.off /\ tally'.modes = tally.modes
  /\ RecordSound(t, x) /\ ShowsItsOwn(x)
  /\ \A s \in pending \cup got' : s.t = t => AttemptFits(s, x)
  /\ \A w \in pending : w.t = t => WriteFits(w, x)
  /\ \A a \in got' : a.t = t => UnknownFits(a, x)
\* What is sent is t's, and fits it.
Sends(t, x, S) ==
  \A r \in S :
    /\ r \in Requests /\ Fresh(r) /\ r.t = t /\ ~tally.off
    /\ r.kind # "close" => AttemptFits(r, x)
    /\ Tries(r) => \A s \in pending \cup got' : Tries(s) => s.t # t
    /\ r.kind = "list" => Smart(t)
    /\ r.kind = "write" => WriteFits(r, x) /\ r.arg \in Used /\ x.at # "list"
\* No port is lost by that.
Keeps(t, x, S) ==
  \A q \in sidecar.ports :
    q.sid = tty[t].sid \/ (\E a \in got \ got' : a.kind = "open" /\ a.ok /\ a.val = q.sid) =>
      x.sid = q.sid \/ \E r \in S : r.kind = "close" /\ r.arg = q.sid

LEMMA MovesTyped ==
  ASSUME SerialInv, NEW t \in Ttys, NEW x, NEW S, Moves(t, x), Sending(S), Sends(t, x, S)
  PROVE  SidecarSound' /\ WireTyped' /\ OffIsOff'
<1>1. sidecar.up = "none" => pending = {}
  BY DEF SerialInv, SidecarSound
<1>2. S \in SUBSET Requests
  BY DEF Sends
<1>3. WireTyped'
  <2>1. IsFiniteSet(pending') /\ pending' \in SUBSET Requests
    <3>1. IsFiniteSet({r \in S : r.kind # "close"})
      BY FS_Subset DEF Moves, Sending
    <3> QED
      BY <1>2, <3>1, FS_Union DEF Moves, Sending, SerialInv, WireTyped
  <2>2. IsFiniteSet(got') /\ got' \in SUBSET Answers
    BY FS_Subset DEF Moves, SerialInv, WireTyped
  <2>3. tty' \in [Ttys -> TtyRecords]
    BY DEF Moves, SerialInv, WireTyped
  <2>4. wire' \in [in : Seq(Requests), out : Seq(Answers \cup Notices)]
    BY DEF Moves, Sending
  <2> QED
    BY <2>1, <2>2, <2>3, <2>4 DEF WireTyped
<1>4. SidecarSound'
  <2>1. sidecar \in [up : {"none", "up", "dead"}, ports : SUBSET [sid : 1..MaxOpens, path : Ports], plugged : SUBSET Ports]
    BY DEF SerialInv, SidecarSound
  <2>2. /\ sidecar' \in [up : {"none", "up", "dead"}, ports : SUBSET [sid : 1..MaxOpens, path : Ports], plugged : SUBSET Ports]
        /\ sidecar'.ports = sidecar.ports /\ (sidecar'.up # "up" => sidecar'.up = sidecar.up)
        /\ (sidecar'.up = "none" => S = {})
    BY <2>1 DEF Moves, Sending
  <2>3. sidecar'.up = "none" => pending' = {}
    BY <1>1, <2>2 DEF Moves, Sending
  <2> QED
    BY <2>2, <2>3 DEF Moves, SerialInv, SidecarSound, Used
<1>5. OffIsOff'
  <2>1. SUFFICES ASSUME tally'.off
                 PROVE  /\ sidecar'.up = "none" /\ pending' = {} /\ wire'.in = <<>> /\ wire'.out = <<>>
                        /\ \A a \in got' : ~a.ok /\ a.val = "error"
    BY DEF OffIsOff
  <2>2. S = {} /\ tally.off
    BY <2>1 DEF Moves, Sends
  <2>3. pending' = pending /\ wire' = wire /\ sidecar' = sidecar
    BY <2>2 DEF Moves, Sending
  <2> QED
    BY <2>2, <2>3 DEF Moves, SerialInv, OffIsOff
<1> QED
  BY <1>3, <1>4, <1>5

LEMMA MovesIds ==
  ASSUME SerialInv, NEW t \in Ttys, NEW x, NEW S, Moves(t, x), Sending(S), Sends(t, x, S)
  PROVE  IdsUnique' /\ AnswersSound'
<1>1. /\ pending' = pending \cup {r \in S : r.kind # "close"} /\ wire'.out = wire.out
      /\ \A k \in DOMAIN wire.in : k \in DOMAIN wire'.in /\ wire'.in[k] = wire.in[k]
      /\ \A k \in DOMAIN wire'.in : k \notin DOMAIN wire.in => wire'.in[k] \in S
      /\ \A r, s \in S : r = s
  BY DEF Moves, Sending
<1>2. \A r \in S : Fresh(r)
  BY DEF Sends
<1>3. IdsUnique'
  <2>1. \A r \in pending' : r.kind # "close"
    BY <1>1 DEF SerialInv, IdsUnique
  <2>2. \A r, s \in pending' : r.n = s.n => r = s
    BY <1>1, <1>2 DEF SerialInv, IdsUnique, Fresh
  <2>3. \A r \in pending', k \in DOMAIN wire'.in : wire'.in[k].n = r.n => wire'.in[k] = r
    <3> TAKE r \in pending', k \in DOMAIN wire'.in
    <3>1. CASE k \in DOMAIN wire.in
      BY <1>1, <1>2, <3>1 DEF SerialInv, IdsUnique, Fresh
    <3>2. CASE k \notin DOMAIN wire.in
      BY <1>1, <1>2, <3>2 DEF Fresh
    <3> QED
      BY <3>1, <3>2
  <2>4. \A r \in pending', k \in DOMAIN wire'.out :
          wire'.out[k].n = r.n => wire'.out[k].t = r.t /\ wire'.out[k].kind = r.kind /\ wire'.out[k].arg = r.arg
    BY <1>1, <1>2 DEF SerialInv, IdsUnique, Fresh
  <2> QED
    BY <2>1, <2>2, <2>3, <2>4 DEF IdsUnique
<1>4. sidecar'.ports = sidecar.ports /\ tally'.opens = tally.opens /\ got' \in SUBSET got
  BY DEF Moves, Sending, SerialInv, SidecarSound
<1>5. \A a : AnswerSound(a)' <=> AnswerSound(a)
  BY <1>4 DEF AnswerSound, Used, Sids
<1>6. Used' = Used /\ Sids' = Sids
  BY <1>4 DEF Used, Sids
<1>7. \A a \in got' : AnswerSound(a)'
  BY <1>4, <1>5 DEF SerialInv, AnswersSound
<1>8. (\A k \in DOMAIN wire.out :
         IF wire.out[k].n = 0 THEN wire.out[k].sid \in Used \ Sids ELSE AnswerSound(wire.out[k]))'
  BY <1>1, <1>4, <1>6 DEF SerialInv, AnswersSound, AnswerSound
<1>9. \A k \in DOMAIN wire'.in : wire'.in[k].kind = "write" => wire'.in[k].arg \in Used'
  <2> TAKE k \in DOMAIN wire'.in
  <2>1. CASE k \in DOMAIN wire.in
    BY <1>1, <1>6, <2>1 DEF SerialInv, AnswersSound
  <2>2. CASE k \notin DOMAIN wire.in
    BY <1>1, <1>6, <2>2 DEF Sends
  <2> QED
    BY <2>1, <2>2
<1>10. AnswersSound'
  BY <1>7, <1>8, <1>9 DEF AnswersSound
<1> QED
  BY <1>3, <1>10

LEMMA MovesAttempts ==
  ASSUME SerialInv, NEW t \in Ttys, NEW x, NEW S, Moves(t, x), Sending(S), Sends(t, x, S)
  PROVE  AttemptsSound' /\ TtysSound' /\ WritesFit'
<1>1. /\ pending' = pending \cup {r \in S : r.kind # "close"} /\ got' \in SUBSET got
      /\ \A r, s \in S : r = s
  BY DEF Moves, Sending
<1>2. tty' = [tty EXCEPT ![t] = x] /\ tty \in [Ttys -> TtyRecords]
  BY DEF Moves, SerialInv, WireTyped
<1>3. tty'[t] = x /\ \A u \in Ttys : u # t => tty'[u] = tty[u]
  BY <1>2
<1>4. sidecar'.ports = sidecar.ports /\ tally'.opens = tally.opens /\ tally'.off = tally.off /\ \A u : Smart(u)' <=> Smart(u)
  BY DEF Moves, Sending, SerialInv, SidecarSound, Smart
<1>5. \A r \in pending \cup got : r.t \in Ttys
  BY DEF SerialInv, WireTyped, Requests, Answers
<1>6. \A r \in S : r.t = t /\ r.kind \in Kinds
  BY DEF Sends, Requests
<1>7. TtysSound'
  <2>1. \A u \in Ttys : RecordSound(u, tty'[u]) /\ ShowsItsOwn(tty'[u])
    BY <1>3 DEF Moves, SerialInv, TtysSound
  <2>2. (\A u \in Ttys : RecordSound(u, tty[u]) /\ ShowsItsOwn(tty[u]))'
    BY <1>4, <2>1 DEF RecordSound, ShowsItsOwn
  <2> QED
    BY <2>2 DEF TtysSound
<1>8. AttemptsSound'
  <2>1. \A r \in pending' \cup got' : AttemptFits(r, tty'[r.t]) /\ (r.kind = "list" => Smart(r.t)')
    <3> TAKE r \in pending' \cup got'
    <3>1. CASE r \in pending \cup got'
      <4>1. (r.kind = "list" => Smart(r.t)') /\ r.t \in Ttys
        BY <1>1, <1>4, <1>5, <3>1 DEF SerialInv, AttemptsSound
      <4>2. CASE r.t = t
        BY <1>3, <3>1, <4>1, <4>2 DEF Moves
      <4>3. CASE r.t # t
        BY <1>1, <1>3, <3>1, <4>1, <4>3 DEF SerialInv, AttemptsSound
      <4> QED
        BY <4>1, <4>2, <4>3
    <3>2. CASE r \in S /\ r.kind # "close"
      BY <1>3, <1>4, <3>2 DEF Sends
    <3> QED
      BY <1>1, <3>1, <3>2
  <2>2. \A r, s \in pending' : Tries(r) /\ Tries(s) /\ r.t = s.t => r = s
    BY <1>1, <1>6 DEF Sends, SerialInv, AttemptsSound
  <2>3. \A r, s \in got' : Tries(r) /\ Tries(s) /\ r.t = s.t => r = s
    BY <1>1 DEF SerialInv, AttemptsSound
  <2>4. \A r \in pending', s \in got' : Tries(r) /\ Tries(s) => r.t # s.t
    BY <1>1, <1>6 DEF Sends, SerialInv, AttemptsSound
  <2> QED
    BY <2>1, <2>2, <2>3, <2>4 DEF AttemptsSound, AttemptFits, Tries
<1>9. WritesFit'
  <2>1. \A w \in pending' : WriteFits(w, tty'[w.t])
    <3> TAKE w \in pending'
    <3>1. CASE w \in pending
      <4>1. w.t \in Ttys
        BY <1>5, <3>1
      <4>2. CASE w.t = t
        BY <1>3, <3>1, <4>2 DEF Moves
      <4>3. CASE w.t # t
        BY <1>3, <3>1, <4>1, <4>3 DEF SerialInv, WritesFit
      <4> QED
        BY <4>2, <4>3
    <3>2. CASE w \in S
      <4>1. w.t = t /\ tty'[w.t] = x
        BY <1>3, <1>6, <3>2
      <4>2. w.kind = "write" => WriteFits(w, x)
        BY <3>2 DEF Sends
      <4> QED
        BY <4>1, <4>2 DEF WriteFits
    <3> QED
      BY <1>1, <3>1, <3>2
  <2>2. \A a \in got' : UnknownFits(a, tty'[a.t])
    <3> TAKE a \in got'
    <3>1. a \in got /\ a.t \in Ttys
      BY <1>1, <1>5
    <3>2. CASE a.t = t
      BY <1>3, <3>2 DEF Moves
    <3>3. CASE a.t # t
      BY <1>3, <3>1, <3>3 DEF SerialInv, WritesFit
    <3> QED
      BY <3>2, <3>3
  <2> QED
    BY <2>1, <2>2 DEF WritesFit, WriteFits, UnknownFits, Unknown
<1> QED
  BY <1>7, <1>8, <1>9

LEMMA MovesWrites ==
  ASSUME SerialInv, NEW t \in Ttys, NEW x, NEW S, Moves(t, x), Sending(S), Sends(t, x, S)
  PROVE  WritesGot' /\ WritesOut' /\ WritesIn'
<1>1. /\ pending' = pending \cup {r \in S : r.kind # "close"} /\ wire'.out = wire.out /\ got' \in SUBSET got
      /\ \A k \in DOMAIN wire.in : k \in DOMAIN wire'.in /\ wire'.in[k] = wire.in[k]
      /\ \A k \in DOMAIN wire'.in : k \notin DOMAIN wire.in => wire'.in[k] \in S /\ \A j \in DOMAIN wire.in : j < k
      /\ \A r \in S : \E k \in DOMAIN wire'.in : wire'.in[k] = r
      /\ \A r, s \in S : r = s
  BY DEF Moves, Sending
<1>2. \A r \in S : r.t = t /\ Fresh(r) /\ (r.kind = "write" => x.at # "list" /\ x.at # "open")
  BY DEF Sends, WriteFits
<1>3. \A s \in pending \cup got' : s.t = t /\ Tries(s) => x.at = s.kind
  BY DEF Moves, AttemptFits
<1>4. \A r : Answered(r)' <=> Answered(r)
  BY <1>1 DEF Answered
<1>5. \A r \in S : ~Answered(r)
  BY <1>2 DEF Fresh, Answered
<1>6. \A r \in S, w \in pending : r.kind = "open" /\ w.kind = "write" => w.t # t
  BY DEF Moves, Sends, AttemptFits, WriteFits, Tries
<1>7. WritesGot'
  <2>1. \A a \in got', w \in pending' : a.kind = "list" /\ a.ok /\ w.kind = "write" => w.t # a.t
    BY <1>1, <1>2, <1>3 DEF SerialInv, WritesGot, Tries
  <2>2. \A a, b \in got' : a.kind = "open" /\ a.ok /\ b.kind = "write" => a.t # b.t
    BY <1>1 DEF SerialInv, WritesGot
  <2>3. \A r \in pending', b \in got' : r.kind = "open" /\ Answered(r) /\ b.kind = "write" => b.t # r.t
    BY <1>1, <1>5 DEF SerialInv, WritesGot
  <2> QED
    BY <1>4, <2>1, <2>2, <2>3 DEF WritesGot, Answered
<1>8. WritesOut'
  <2>1. SUFFICES ASSUME NEW r \in pending', NEW w \in pending', NEW k \in DOMAIN wire.out,
                        r.kind = "list", wire.out[k].n = r.n, w.kind = "write", w.t = r.t
                 PROVE  \E j \in DOMAIN wire.out : j < k /\ wire.out[j].n = w.n
    BY <1>1 DEF WritesOut
  <2>2. r \in pending
    BY <1>1, <1>5, <2>1 DEF Answered
  <2>3. w \in pending
    BY <1>1, <1>2, <1>3, <2>1, <2>2 DEF Tries
  <2> QED
    BY <2>1, <2>2, <2>3 DEF SerialInv, WritesOut
<1>9. WritesIn'
  <2>1. SUFFICES ASSUME sidecar'.up = "up"
                 PROVE  /\ \A r \in pending' : Answered(r) \/ \E k \in DOMAIN wire'.in : wire'.in[k] = r
                        /\ \A r \in pending', w \in pending', k \in DOMAIN wire'.in :
                             r.kind = "list" /\ wire'.in[k] = r /\ w.kind = "write" /\ w.t = r.t =>
                               Answered(w) \/ \E j \in DOMAIN wire'.in : j < k /\ wire'.in[j] = w
    BY <1>4 DEF WritesIn, Answered
  <2>2. sidecar.up = "up" \/ pending = {}
    BY <2>1 DEF Moves, Sending, SerialInv, SidecarSound
  <2>3. \A r \in pending : Answered(r) \/ \E k \in DOMAIN wire.in : wire.in[k] = r
    BY <2>2 DEF SerialInv, WritesIn
  <2>4. \A r \in pending' : Answered(r) \/ \E k \in DOMAIN wire'.in : wire'.in[k] = r
    <3> TAKE r \in pending'
    <3>1. CASE r \in S
      BY <1>1, <3>1
    <3>2. CASE r \in pending
      BY <1>1, <2>3, <3>2
    <3> QED
      BY <1>1, <3>1, <3>2
  <2>5. ASSUME NEW r \in pending', NEW w \in pending', NEW k \in DOMAIN wire'.in,
               r.kind = "list", wire'.in[k] = r, w.kind = "write", w.t = r.t
        PROVE  Answered(w) \/ \E j \in DOMAIN wire'.in : j < k /\ wire'.in[j] = w
    <3>1. w \in pending
      <4>1. CASE w \in S
        <5>1. r \in pending
          BY <1>1, <2>5, <4>1
        <5> QED
          BY <1>2, <1>3, <2>5, <4>1, <5>1 DEF Tries
      <4> QED
        BY <1>1, <4>1
    <3>2. CASE k \in DOMAIN wire.in
      <4>1. wire.in[k] = r /\ r \in pending
        BY <1>1, <1>2, <2>5, <3>2 DEF Fresh
      <4>2. sidecar.up = "up"
        BY <2>2, <3>1
      <4>3. Answered(w) \/ \E j \in DOMAIN wire.in : j < k /\ wire.in[j] = w
        BY <2>5, <3>1, <3>2, <4>1, <4>2 DEF SerialInv, WritesIn
      <4> QED
        BY <1>1, <4>3
    <3>3. CASE k \notin DOMAIN wire.in
      <4>1. Answered(w) \/ \E j \in DOMAIN wire.in : wire.in[j] = w
        BY <2>3, <3>1
      <4> QED
        BY <1>1, <3>3, <4>1
    <3> QED
      BY <3>2, <3>3
  <2> QED
    BY <2>4, <2>5
<1> QED
  BY <1>7, <1>8, <1>9

LEMMA MovesPorts ==
  ASSUME SerialInv, NEW t \in Ttys, NEW x, NEW S, Moves(t, x), Sending(S), Sends(t, x, S), Keeps(t, x, S)
  PROVE  PortsKnown'
<1>1. /\ wire'.out = wire.out /\ got' \in SUBSET got /\ orphan' = orphan
      /\ \A k \in DOMAIN wire.in : k \in DOMAIN wire'.in /\ wire'.in[k] = wire.in[k]
      /\ \A r \in S : \E k \in DOMAIN wire'.in : wire'.in[k] = r
  BY DEF Moves, Sending
<1>2. sidecar'.ports = sidecar.ports
  BY DEF Moves, Sending, SerialInv, SidecarSound
<1>3. tty'[t] = x /\ \A u \in Ttys : u # t => tty'[u] = tty[u]
  BY DEF Moves, SerialInv, WireTyped
<1>4. SUFFICES ASSUME NEW q \in sidecar.ports
               PROVE  q.sid \in orphan \/ OnItsWay(q.sid)' \/ \E u \in Ttys : tty'[u].sid = q.sid
  BY <1>1, <1>2 DEF PortsKnown, OnItsWay
<1>5. CASE \E r \in S : r.kind = "close" /\ r.arg = q.sid
  BY <1>1, <1>5 DEF OnItsWay, Lines
<1>6. CASE x.sid = q.sid
  BY <1>3, <1>6
<1>7. CASE q.sid # tty[t].sid /\ ~\E a \in got \ got' : a.kind = "open" /\ a.ok /\ a.val = q.sid
  <2>1. q.sid \in orphan \/ OnItsWay(q.sid) \/ \E u \in Ttys : tty[u].sid = q.sid
    BY DEF SerialInv, PortsKnown
  <2>2. CASE \E a \in got : a.kind = "open" /\ a.ok /\ a.val = q.sid
    BY <1>7, <2>2 DEF OnItsWay
  <2>3. CASE \E a \in Lines(wire.out) : a.kind = "open" /\ a.ok /\ a.val = q.sid
    BY <1>1, <2>3 DEF OnItsWay
  <2>4. CASE \E r \in Lines(wire.in) : r.kind = "close" /\ r.arg = q.sid
    <3>1. PICK k \in DOMAIN wire.in : wire.in[k].kind = "close" /\ wire.in[k].arg = q.sid
      BY <2>4 DEF Lines
    <3>2. k \in DOMAIN wire'.in /\ wire'.in[k].kind = "close" /\ wire'.in[k].arg = q.sid
      BY <1>1, <3>1
    <3> QED
      BY <3>2 DEF OnItsWay, Lines
  <2>5. CASE \E u \in Ttys : tty[u].sid = q.sid
    BY <1>3, <1>7, <2>5
  <2> QED
    BY <2>1, <2>2, <2>3, <2>4, <2>5 DEF OnItsWay
<1> QED
  BY <1>5, <1>6, <1>7 DEF Keeps

LEMMA MovesKeep ==
  ASSUME SerialInv, NEW t \in Ttys, NEW x, NEW S, Moves(t, x), Sending(S), Sends(t, x, S), Keeps(t, x, S)
  PROVE  SerialInv'
BY MovesTyped, MovesIds, MovesAttempts, MovesWrites, MovesPorts DEF SerialInv

\* No port is lost by a step that closes the sessions in C.
LosesNone(t, x, C) ==
  \A q \in sidecar.ports :
    q.sid = tty[t].sid \/ (\E a \in got \ got' : a.kind = "open" /\ a.ok /\ a.val = q.sid) =>
      x.sid = q.sid \/ q.sid \in C

\* A request of this kind may be sent.
Asks(t, x, kind, arg) ==
  /\ kind \in Kinds /\ arg \in Nat /\ ~tally.off
  /\ kind # "close" => x.st # "none"
  /\ kind \in {"list", "open"} => x.at = kind /\ \A s \in pending \cup got' : Tries(s) => s.t # t
  /\ kind = "open" /\ x.st = "live" /\ x.end # "stopped" => x.aim = arg
  /\ kind = "list" => Smart(t)
  /\ kind = "write" => x.sid \in {0, arg} /\ x.at \notin {"list", "open", "prompt"} /\ arg \in Used

LEMMA MovesQuietly ==
  ASSUME SerialInv, NEW t \in Ttys, NEW x, Moves(t, x), Send(<<>>), LosesNone(t, x, {})
  PROVE  SerialInv'
<1>1. Sending({})
  BY SendNone DEF SerialInv
<1>2. Sends(t, x, {}) /\ Keeps(t, x, {})
  BY DEF Sends, Keeps, LosesNone
<1> QED
  BY <1>1, <1>2, MovesKeep

LEMMA MovesAsking ==
  ASSUME SerialInv, NEW t \in Ttys, NEW x, Moves(t, x), NEW kind, NEW arg, Asks(t, x, kind, arg),
         Send(<<Request(t, kind, arg)>>), LosesNone(t, x, IF kind = "close" THEN {arg} ELSE {})
  PROVE  SerialInv'
<1>1. PICK r : r = Request(t, kind, arg)
  OBVIOUS
<1>2. r \in Requests /\ Fresh(r) /\ r.t = t /\ r.kind = kind /\ r.arg = arg
  BY <1>1, RequestFresh DEF SerialInv, Asks
<1>3. Sending({r})
  BY <1>1, <1>2, SendOne DEF SerialInv
<1>4. Sends(t, x, {r})
  <2>1. r.kind # "close" => AttemptFits(r, x)
    BY <1>2 DEF Asks, AttemptFits, Tries
  <2>2. Tries(r) => \A s \in pending \cup got' : Tries(s) => s.t # t
    <3>1. Tries(r) => kind \in {"list", "open"}
      BY <1>2 DEF Tries
    <3> QED
      BY <3>1 DEF Asks
  <2>3. r.kind = "write" => WriteFits(r, x) /\ r.arg \in Used /\ x.at # "list"
    BY <1>2 DEF Asks, WriteFits
  <2>4. ~tally.off /\ (r.kind = "list" => Smart(t))
    BY <1>2 DEF Asks
  <2> QED
    BY <1>2, <2>1, <2>2, <2>3, <2>4 DEF Sends
<1>5. Keeps(t, x, {r})
  BY <1>2 DEF Keeps, LosesNone
<1> QED
  BY <1>3, <1>4, <1>5, MovesKeep

\* What is known of a terminal.
LEMMA TtyNow ==
  ASSUME SerialInv, NEW t \in Ttys
  PROVE  /\ tty[t] \in TtyRecords /\ RecordSound(t, tty[t]) /\ ShowsItsOwn(tty[t])
         /\ \A s \in pending \cup got : s.t = t => AttemptFits(s, tty[t])
         /\ \A w \in pending : w.t = t => WriteFits(w, tty[t])
         /\ \A a \in got : a.t = t => UnknownFits(a, tty[t])
BY DEF SerialInv, WireTyped, TtysSound, AttemptsSound, WritesFit

LEMMA NoSession ==
  ASSUME SerialInv, NEW x, x.sid = 0
  PROVE  ShowsItsOwn(x)
BY DEF SerialInv, SidecarSound, ShowsItsOwn, Used

\* A terminal without a session loses no port, if no answer is used up.
LEMMA NothingLost ==
  ASSUME SerialInv, NEW t \in Ttys, NEW x, NEW C, got' = got, x.sid = tty[t].sid \/ tty[t].sid = 0
  PROVE  LosesNone(t, x, C)
BY DEF SerialInv, SidecarSound, LosesNone, Used

LEMMA SameTally ==
  ASSUME SerialInv, UNCHANGED tally \/ Event
  PROVE  /\ tally' \in [opens : 0..MaxOpens, events : Nat, off : BOOLEAN, modes : {u.modes : u \in SerialSetups}]
         /\ tally'.opens = tally.opens /\ tally'.off = tally.off /\ tally'.modes = tally.modes
<1>1. tally \in [opens : 0..MaxOpens, events : Nat, off : BOOLEAN, modes : {u.modes : u \in SerialSetups}]
  BY DEF SerialInv, SidecarSound
<1>2. CASE UNCHANGED tally
  BY <1>1, <1>2
<1>3. CASE Event
  BY <1>1, <1>3 DEF Event
<1> QED
  BY <1>2, <1>3

LEMMA IdleKeeps ==
  ASSUME NEW x \in TtyRecords
  PROVE  /\ Idle(x) \in TtyRecords /\ Idle(x).at = "idle"
         /\ Idle(x).st = x.st /\ Idle(x).sid = x.sid /\ Idle(x).act = x.act /\ Idle(x).end = x.end
         /\ Idle(x).poll = x.poll /\ Idle(x).pref = x.pref /\ Idle(x).listed = x.listed
BY DEF Idle, TtyRecords, TtyFields

LEMMA EnterWaitingKeeps ==
  ASSUME NEW x \in TtyRecords
  PROVE  /\ EnterWaiting(x) \in TtyRecords /\ EnterWaiting(x).poll
         /\ EnterWaiting(x).st = x.st /\ EnterWaiting(x).sid = x.sid /\ EnterWaiting(x).act = x.act
         /\ EnterWaiting(x).end = x.end /\ EnterWaiting(x).at = x.at /\ EnterWaiting(x).aim = x.aim
BY DEF EnterWaiting, TtyRecords, TtyFields

LEMMA EnterStoppedKeeps ==
  ASSUME NEW x \in TtyRecords, x.end = "stopped" => x.sid = 0 /\ ~x.poll
  PROVE  /\ EnterStopped(x) \in TtyRecords /\ EnterStopped(x).at = "idle" /\ EnterStopped(x).end = "stopped"
         /\ ~EnterStopped(x).poll /\ EnterStopped(x).sid = 0 /\ EnterStopped(x).st = x.st
<1>1. PICK y : y = Idle(x)
  OBVIOUS
<1>2. y \in TtyRecords /\ y.at = "idle" /\ y.st = x.st /\ y.sid = x.sid /\ y.end = x.end /\ y.poll = x.poll
  BY <1>1, IdleKeeps
<1>3. CASE x.end = "stopped"
  BY <1>1, <1>2, <1>3 DEF EnterStopped
<1>4. CASE x.end # "stopped"
  <2>1. EnterStopped(x) = [y EXCEPT !.end = "stopped", !.poll = FALSE, !.act = 0, !.sid = 0, !.shown = "waiting"]
    BY <1>1, <1>4 DEF EnterStopped
  <2>2. 0 \in 0..MaxOpens
    BY SerialAssumption
  <2> QED
    BY ZenonT(30), <1>2, <2>1, <2>2 DEF TtyRecords, TtyFields
<1> QED
  BY <1>3, <1>4

LEMMA OpenStandardKeeps ==
  ASSUME SerialInv, NEW t \in Ttys, OpenStandard(t)
  PROVE  SerialInv'
<1>1. PICK x : x = [tty[t] EXCEPT !.st = "live", !.at = "open", !.aim = 1]
  OBVIOUS
<1>2. got = {} /\ got' = {} /\ orphan' = orphan /\ UNCHANGED tally /\ ~tally.off /\ tty[t].st = "none" /\ ~Smart(t)
  BY DEF OpenStandard, MayOpen, Calm
<1>3. tty' = [tty EXCEPT ![t] = x] /\ Send(<<Request(t, "open", 1)>>)
  BY <1>1 DEF OpenStandard
<1>4. tty[t] \in TtyRecords /\ RecordSound(t, tty[t]) /\ \A s \in pending \cup got : s.t = t => AttemptFits(s, tty[t])
  BY TtyNow
<1>5. /\ x \in TtyRecords /\ x.st = "live" /\ x.at = "open" /\ x.aim = 1 /\ x.sid = tty[t].sid
      /\ x.end = tty[t].end /\ x.poll = tty[t].poll
  BY <1>1, <1>4 DEF TtyRecords, TtyFields
<1>6. \A s \in pending \cup got : s.t # t
  BY <1>2, <1>4 DEF AttemptFits
<1>7. RecordSound(t, x) /\ x.sid = 0
  BY <1>2, <1>4, <1>5 DEF RecordSound
<1>8. Moves(t, x)
  BY <1>2, <1>3, <1>5, <1>6, <1>7, NoSession, SameTally DEF Moves
<1>9. Asks(t, x, "open", 1)
  BY <1>2, <1>5, <1>6 DEF Asks, Kinds
<1>10. LosesNone(t, x, {})
  BY <1>2, <1>5, NothingLost
<1> QED
  BY <1>3, <1>8, <1>9, <1>10, MovesAsking

LEMMA OpenSmartKeeps ==
  ASSUME SerialInv, NEW t \in Ttys, OpenSmart(t)
  PROVE  SerialInv'
<1>1. PICK x : x = [tty[t] EXCEPT !.st = "live", !.at = "list", !.aim = 1, !.listed = TRUE]
  OBVIOUS
<1>2. got = {} /\ got' = {} /\ orphan' = orphan /\ UNCHANGED tally /\ ~tally.off /\ tty[t].st = "none" /\ Smart(t)
  BY DEF OpenSmart, MayOpen, Calm
<1>3. tty' = [tty EXCEPT ![t] = x] /\ Send(<<Request(t, "list", 0)>>)
  BY <1>1 DEF OpenSmart
<1>4. tty[t] \in TtyRecords /\ RecordSound(t, tty[t]) /\ \A s \in pending \cup got : s.t = t => AttemptFits(s, tty[t])
  BY TtyNow
<1>5. /\ x \in TtyRecords /\ x.st = "live" /\ x.at = "list" /\ x.sid = tty[t].sid
      /\ x.end = tty[t].end /\ x.poll = tty[t].poll
  BY <1>1, <1>4 DEF TtyRecords, TtyFields
<1>6. \A s \in pending \cup got : s.t # t
  BY <1>2, <1>4 DEF AttemptFits
<1>7. RecordSound(t, x) /\ x.sid = 0
  BY <1>2, <1>4, <1>5 DEF RecordSound
<1>8. Moves(t, x)
  BY <1>2, <1>3, <1>5, <1>6, <1>7, NoSession, SameTally DEF Moves
<1>9. Asks(t, x, "list", 0)
  BY <1>2, <1>5, <1>6 DEF Asks, Kinds
<1>10. LosesNone(t, x, {})
  BY <1>2, <1>5, NothingLost
<1> QED
  BY <1>3, <1>8, <1>9, <1>10, MovesAsking

LEMMA PollTickKeeps ==
  ASSUME SerialInv, NEW t \in Ttys, PollTick(t)
  PROVE  SerialInv'
<1>1. PICK x : x = [tty[t] EXCEPT !.at = "list"]
  OBVIOUS
<1>2. /\ got = {} /\ got' = {} /\ orphan' = orphan /\ UNCHANGED tally /\ ~tally.off
      /\ tty[t].st = "live" /\ tty[t].poll /\ tty[t].at = "idle" /\ tty[t].end # "stopped"
  BY DEF PollTick, Calm, TtyLive
<1>3. tty' = [tty EXCEPT ![t] = x] /\ Send(<<Request(t, "list", 0)>>)
  BY <1>1 DEF PollTick
<1>4. /\ tty[t] \in TtyRecords /\ RecordSound(t, tty[t])
      /\ \A s \in pending \cup got : s.t = t => AttemptFits(s, tty[t])
      /\ \A w \in pending : w.t = t => WriteFits(w, tty[t])
  BY TtyNow
<1>5. /\ x \in TtyRecords /\ x.st = "live" /\ x.at = "list" /\ x.sid = tty[t].sid
      /\ x.end = tty[t].end /\ x.poll = tty[t].poll
  BY <1>1, <1>2, <1>4 DEF TtyRecords, TtyFields
<1>6. \A s \in pending \cup got : Tries(s) => s.t # t
  BY <1>2, <1>4 DEF AttemptFits, Tries
<1>7. RecordSound(t, x) /\ x.sid = 0 /\ Smart(t)
  BY <1>2, <1>4, <1>5 DEF RecordSound
<1>8. \A s \in pending : s.t = t => AttemptFits(s, x) /\ WriteFits(s, x)
  BY <1>2, <1>4, <1>5, <1>6, <1>7 DEF AttemptFits, WriteFits, Tries
<1>9. Moves(t, x)
  BY <1>2, <1>3, <1>5, <1>7, <1>8, NoSession, SameTally DEF Moves
<1>10. Asks(t, x, "list", 0)
  BY <1>2, <1>5, <1>6, <1>7 DEF Asks, Kinds
<1>11. LosesNone(t, x, {})
  BY <1>2, <1>5, NothingLost
<1> QED
  BY <1>3, <1>9, <1>10, <1>11, MovesAsking

LEMMA TypeKeeps ==
  ASSUME SerialInv, NEW t \in Ttys, Type(t)
  PROVE  SerialInv'
<1>1. PICK x : x = tty[t]
  OBVIOUS
<1>2. /\ got = {} /\ got' = {} /\ orphan' = orphan /\ Event /\ ~tally.off /\ x.st = "live" /\ x.sid # 0
  BY <1>1 DEF Type, Calm, TtyLive
<1>3. tty' = [tty EXCEPT ![t] = x] /\ Send(<<Request(t, "write", x.sid)>>)
  BY <1>1 DEF Type, SerialInv, WireTyped
<1>4. /\ x \in TtyRecords /\ RecordSound(t, x) /\ ShowsItsOwn(x)
      /\ \A s \in pending \cup got : s.t = t => AttemptFits(s, x)
      /\ \A w \in pending : w.t = t => WriteFits(w, x)
  BY <1>1, TtyNow
<1>5. Moves(t, x)
  BY <1>2, <1>3, <1>4, SameTally DEF Moves
<1>6. x.at \notin {"list", "open", "prompt"} /\ x.sid <= tally.opens
  BY <1>2, <1>4 DEF RecordSound
<1>7. x.sid \in Nat /\ x.sid \in Used
  <2>1. x.sid \in 0..MaxOpens /\ tally.opens \in 0..MaxOpens
    BY <1>4 DEF TtyRecords, TtyFields, SerialInv, SidecarSound
  <2> QED
    BY <1>2, <1>6, <2>1, SerialAssumption DEF Used
<1>8. Asks(t, x, "write", x.sid)
  BY <1>2, <1>6, <1>7 DEF Asks, Kinds
<1>9. LosesNone(t, x, {})
  BY <1>1, <1>2, NothingLost
<1> QED
  BY <1>3, <1>5, <1>8, <1>9, MovesAsking

\* A terminal loses its entry, and perhaps its profile.
LEMMA DelistedKeeps ==
  ASSUME SerialInv, NEW t \in Ttys, NEW b \in BOOLEAN, tty' = [tty EXCEPT ![t] = [Delisted(tty[t]) EXCEPT !.prof = b]],
         Event, UNCHANGED <<sidecar, wire, pending, got, orphan>>
  PROVE  SerialInv'
<1>1. PICK x : x = [Delisted(tty[t]) EXCEPT !.prof = b]
  OBVIOUS
<1>2. tty' = [tty EXCEPT ![t] = x] /\ got' = got /\ got' \in SUBSET got /\ orphan' = orphan /\ Event
  BY <1>1
<1>3. /\ tty[t] \in TtyRecords /\ RecordSound(t, tty[t]) /\ ShowsItsOwn(tty[t])
      /\ \A s \in pending \cup got : s.t = t => AttemptFits(s, tty[t])
      /\ \A w \in pending : w.t = t => WriteFits(w, tty[t])
      /\ \A a \in got : a.t = t => UnknownFits(a, tty[t])
  BY TtyNow
<1>4. /\ x \in TtyRecords /\ x.st = tty[t].st /\ x.at = tty[t].at /\ x.sid = tty[t].sid /\ ~x.listed
      /\ x.end = tty[t].end /\ x.poll = tty[t].poll /\ x.aim = tty[t].aim
  BY <1>1, <1>3 DEF Delisted, TtyRecords, TtyFields
<1>5. RecordSound(t, x) /\ ShowsItsOwn(x)
  BY <1>3, <1>4 DEF RecordSound, ShowsItsOwn
<1>6. \A s : (AttemptFits(s, tty[t]) => AttemptFits(s, x)) /\ (WriteFits(s, tty[t]) => WriteFits(s, x)) /\ (UnknownFits(s, tty[t]) => UnknownFits(s, x))
  BY <1>4 DEF AttemptFits, WriteFits, UnknownFits
<1>7. Moves(t, x)
  BY <1>2, <1>3, <1>4, <1>5, <1>6, SameTally DEF Moves
<1>8. Send(<<>>)
  <2>1. wire \in [in : Seq(Requests), out : Seq(Answers \cup Notices)] /\ wire.in \o <<>> = wire.in
    BY DEF SerialInv, WireTyped
  <2>2. Lines(<<>>) = {}
    BY DEF Lines
  <2> QED
    BY <2>1, <2>2 DEF Send
<1>9. LosesNone(t, x, {})
  BY <1>2, <1>4, NothingLost
<1> QED
  BY <1>7, <1>8, <1>9, MovesQuietly

LEMMA RemoveProfileKeeps ==
  ASSUME SerialInv, NEW t \in Ttys, RemoveProfile(t)
  PROVE  SerialInv'
BY DelistedKeeps DEF RemoveProfile

LEMMA DisconnectTerminalKeeps ==
  ASSUME SerialInv, NEW t \in Ttys, DisconnectTerminal(t)
  PROVE  SerialInv'
<1>1. PICK b \in BOOLEAN : b = tty[t].prof
  BY TtyNow DEF TtyRecords, TtyFields
<1>2. tty[t] \in TtyRecords
  BY TtyNow
<1>3. Delisted(tty[t]) = [Delisted(tty[t]) EXCEPT !.prof = b]
  BY <1>1, <1>2 DEF Delisted, TtyRecords, TtyFields
<1> QED
  BY <1>3, DelistedKeeps DEF DisconnectTerminal

LEMMA CloseTerminalKeeps ==
  ASSUME SerialInv, NEW t \in Ttys, CloseTerminal(t)
  PROVE  SerialInv'
<1>1. PICK x : x = [NewTty EXCEPT !.st = "disposed", !.at = tty[t].at, !.prof = tty[t].prof]
  OBVIOUS
<1>2. got = {} /\ got' = {} /\ orphan' = orphan /\ UNCHANGED tally /\ tty[t].st = "live"
  BY DEF CloseTerminal, Calm, TtyLive
<1>3. /\ tty' = [tty EXCEPT ![t] = x]
      /\ Send(IF tty[t].sid = 0 THEN <<>> ELSE <<Request(t, "close", tty[t].sid)>>)
  BY <1>1 DEF CloseTerminal
<1>4. /\ tty[t] \in TtyRecords /\ RecordSound(t, tty[t])
      /\ \A s \in pending \cup got : s.t = t => AttemptFits(s, tty[t])
      /\ \A w \in pending : w.t = t => WriteFits(w, tty[t])
  BY TtyNow
<1>5. /\ x \in TtyRecords /\ x.st = "disposed" /\ x.at = tty[t].at /\ x.sid = 0 /\ x.end = "no" /\ ~x.poll
  <2>1. 0 \in 0..MaxOpens
    BY SerialAssumption
  <2> QED
    BY <1>1, <1>4, <2>1 DEF TtyRecords, TtyFields, NewTty, AskedKeys
<1>6. RecordSound(t, x)
  <2>1. tally.opens \in Nat
    BY SerialAssumption DEF SerialInv, SidecarSound
  <2> QED
    BY <1>4, <1>5, <2>1 DEF RecordSound
<1>7. \A s \in pending : s.t = t => AttemptFits(s, x) /\ WriteFits(s, x)
  BY <1>4, <1>5 DEF AttemptFits, WriteFits
<1>8. Moves(t, x)
  BY <1>2, <1>3, <1>5, <1>6, <1>7, NoSession, SameTally DEF Moves
<1>9. CASE tty[t].sid = 0
  <2>1. LosesNone(t, x, {})
    BY <1>2, <1>5, <1>9, NothingLost
  <2> QED
    BY <1>3, <1>8, <1>9, <2>1, MovesQuietly
<1>10. CASE tty[t].sid # 0
  <2>1. tty[t].sid \in Nat /\ ~tally.off
    BY <1>2, <1>4, <1>10, SerialAssumption DEF TtyRecords, TtyFields, RecordSound
  <2>2. Asks(t, x, "close", tty[t].sid)
    BY <2>1 DEF Asks, Kinds
  <2>3. LosesNone(t, x, {tty[t].sid})
    BY <1>2 DEF LosesNone
  <2> QED
    BY <1>3, <1>8, <1>10, <2>2, <2>3, MovesAsking
<1> QED
  BY <1>9, <1>10

LEMMA ProfileSavedKeeps ==
  ASSUME SerialInv, NEW t \in Ttys, ProfileSaved(t)
  PROVE  SerialInv'
<1>1. PICK b \in {"waiting", "connected"} : b = IF tty[t].st = "live" THEN "connected" ELSE tty[t].shown
  BY TtyNow DEF TtyRecords, TtyFields
<1>2. PICK x : x = [tty[t] EXCEPT !.at = "idle", !.shown = b]
  OBVIOUS
<1>3. /\ tty' = [tty EXCEPT ![t] = x] /\ got = {} /\ got' = {} /\ orphan' = orphan /\ UNCHANGED tally
      /\ tty[t].at = "saving"
  BY <1>1, <1>2 DEF ProfileSaved, Calm, SerialInv, WireTyped
<1>4. /\ tty[t] \in TtyRecords /\ RecordSound(t, tty[t]) /\ ShowsItsOwn(tty[t])
      /\ \A s \in pending \cup got : s.t = t => AttemptFits(s, tty[t])
      /\ \A w \in pending : w.t = t => WriteFits(w, tty[t])
  BY TtyNow
<1>5. /\ x \in TtyRecords /\ x.st = tty[t].st /\ x.at = "idle" /\ x.sid = tty[t].sid /\ x.act = tty[t].act
      /\ x.listed = tty[t].listed /\ x.end = tty[t].end /\ x.poll = tty[t].poll /\ x.aim = tty[t].aim
  BY <1>1, <1>2, <1>4 DEF TtyRecords, TtyFields
<1>6. RecordSound(t, x) /\ ShowsItsOwn(x)
  BY <1>3, <1>4, <1>5 DEF RecordSound, ShowsItsOwn
<1>7. \A s \in pending : s.t = t => AttemptFits(s, x) /\ WriteFits(s, x)
  BY <1>3, <1>4, <1>5 DEF AttemptFits, WriteFits, Tries
<1>8. Moves(t, x)
  BY <1>3, <1>5, <1>6, <1>7, SameTally DEF Moves
<1>9. Send(<<>>)
  <2>1. wire \in [in : Seq(Requests), out : Seq(Answers \cup Notices)] /\ wire.in \o <<>> = wire.in
    BY DEF SerialInv, WireTyped
  <2>2. Lines(<<>>) = {}
    BY DEF Lines
  <2> QED
    BY <2>1, <2>2 DEF Send, ProfileSaved
<1>10. LosesNone(t, x, {})
  BY <1>3, <1>5, NothingLost
<1> QED
  BY <1>8, <1>9, <1>10, MovesQuietly

\* The step of a terminal whose attempt has been answered.
Resumes(t, x) ==
  /\ tty' = [tty EXCEPT ![t] = x] /\ x \in TtyRecords /\ x.st # "none"
  /\ got' \in SUBSET got /\ orphan' = orphan /\ UNCHANGED tally
  /\ RecordSound(t, x) /\ ShowsItsOwn(x)
  /\ \A s \in pending \cup got' : Tries(s) => s.t # t
  /\ x.at \in {"open", "prompt"} \/ x.sid # 0 => \A w \in pending : w.kind = "write" => w.t # t
  /\ x.sid # 0 => \A a \in got' : a.kind = "write" => a.t # t

LEMMA ResumesMoves ==
  ASSUME SerialInv, NEW t \in Ttys, NEW x, Resumes(t, x)
  PROVE  Moves(t, x)
<1>1. \A s \in pending \cup got' : s.t = t => AttemptFits(s, x)
  BY DEF Resumes, AttemptFits, Tries
<1>2. \A w \in pending : w.t = t => WriteFits(w, x)
  BY DEF Resumes, WriteFits
<1>3. \A a \in got' : a.t = t => UnknownFits(a, x)
  BY DEF Resumes, UnknownFits, Unknown
<1> QED
  BY <1>1, <1>2, <1>3, SameTally DEF Resumes, Moves

\* A terminal without a session goes on without one, and sends nothing.
LEMMA ResumesQuietly ==
  ASSUME SerialInv, NEW t \in Ttys, NEW x, Resumes(t, x), Send(<<>>), LosesNone(t, x, {})
  PROVE  SerialInv'
BY ResumesMoves, MovesQuietly

LEMMA ResumesOpening ==
  ASSUME SerialInv, NEW t \in Ttys, NEW x, Resumes(t, x), NEW p \in Nat, Send(<<Request(t, "open", p)>>),
         LosesNone(t, x, {}), ~tally.off, x.at = "open", x.aim = p
  PROVE  SerialInv'
<1>1. Moves(t, x)
  BY ResumesMoves
<1>2. Asks(t, x, "open", p)
  BY DEF Asks, Resumes, Kinds
<1> QED
  BY <1>1, <1>2, MovesAsking

\* What a smart terminal does when it has no port: nothing of this is its own.
Trying(t, x) ==
  /\ x \in TtyRecords /\ x.st = "live" /\ x.sid = 0 /\ x.end = "no" /\ Smart(t) /\ ~tally.off
  /\ got' \in SUBSET got /\ orphan' = orphan
  /\ \A s \in pending \cup got' : Tries(s) => s.t # t
  /\ \A y : y.sid = 0 => LosesNone(t, y, {})

LEMMA WaitingKeeps ==
  ASSUME SerialInv, NEW t \in Ttys, NEW x, Trying(t, x), Acted(t, EnterWaiting(Idle(x)), <<>>)
  PROVE  SerialInv'
<1>1. PICK y : y = EnterWaiting(Idle(x))
  OBVIOUS
<1>2. y \in TtyRecords /\ y.st = "live" /\ y.sid = 0 /\ y.end = "no" /\ y.at = "idle" /\ y.poll
  BY <1>1, IdleKeeps, EnterWaitingKeeps DEF Trying
<1>3. RecordSound(t, y)
  <2>1. tally.opens \in Nat
    BY SerialAssumption DEF SerialInv, SidecarSound
  <2> QED
    BY <1>2, <2>1 DEF RecordSound, Trying
<1>4. Resumes(t, y) /\ Send(<<>>)
  BY <1>1, <1>2, <1>3, NoSession DEF Resumes, Trying, Acted
<1>5. LosesNone(t, y, {})
  BY <1>2 DEF Trying
<1> QED
  BY <1>4, <1>5, ResumesQuietly

LEMMA OpeningKeeps ==
  ASSUME SerialInv, NEW t \in Ttys, NEW x, Trying(t, x), NEW p \in Nat, NEW y,
         y \in TtyRecords, y.st = x.st, y.sid = x.sid, y.end = x.end, y.poll = x.poll, y.at = "open", y.aim = p,
         \A w \in pending : w.kind = "write" => w.t # t,
         Acted(t, y, <<Request(t, "open", p)>>)
  PROVE  SerialInv'
<1>1. RecordSound(t, y)
  <2>1. tally.opens \in Nat
    BY SerialAssumption DEF SerialInv, SidecarSound
  <2> QED
    BY <2>1 DEF RecordSound, Trying
<1>2. Resumes(t, y) /\ Send(<<Request(t, "open", p)>>)
  BY <1>1, NoSession DEF Resumes, Trying, Acted
<1>3. LosesNone(t, y, {}) /\ ~tally.off
  BY DEF Trying
<1> QED
  BY <1>2, <1>3, ResumesOpening

LEMMA LookFurtherKeeps ==
  ASSUME SerialInv, NEW t \in Ttys, NEW x, Trying(t, x), NEW matches \in SUBSET x.seen,
         \A w \in pending : w.kind = "write" => w.t # t,
         LookFurther(t, x, matches)
  PROVE  SerialInv'
<1>1. x \in TtyRecords /\ x.seen \in SUBSET Ports
  BY DEF Trying, TtyRecords, TtyFields
<1>2. PICK others, missing, shown, key :
        /\ others = x.seen \ ({x.pref} \cup matches)
        /\ missing = (x.pref \notin x.seen)
        /\ shown = IF ~missing \/ Cardinality(matches) >= 2 THEN matches ELSE {}
        /\ key = <<missing, shown, others>>
  OBVIOUS
<1>3. \/ /\ Cardinality(matches) = 1
         /\ Acted(t, [x EXCEPT !.at = "open", !.how = "hint", !.aim = CHOOSE p \in matches : TRUE],
                  <<Request(t, "open", CHOOSE p \in matches : TRUE)>>)
      \/ Acted(t, EnterWaiting(Idle(x)), <<>>)
      \/ Acted(t, [x EXCEPT !.at = "prompt", !.asked = key, !.offer = shown \cup others], <<>>)
  BY <1>2 DEF LookFurther
<1>4. ASSUME Cardinality(matches) = 1,
             Acted(t, [x EXCEPT !.at = "open", !.how = "hint", !.aim = CHOOSE p \in matches : TRUE],
                   <<Request(t, "open", CHOOSE p \in matches : TRUE)>>)
      PROVE  SerialInv'
  <2>1. matches # {}
    BY <1>4, FS_EmptySet
  <2>2. PICK p : p = CHOOSE k \in matches : TRUE
    OBVIOUS
  <2>3. p \in Ports /\ p \in Nat
    BY <1>1, <2>1, <2>2, SerialAssumption
  <2>4. PICK y : y = [x EXCEPT !.at = "open", !.how = "hint", !.aim = p]
    OBVIOUS
  <2>5. /\ y \in TtyRecords /\ y.st = x.st /\ y.sid = x.sid /\ y.end = x.end /\ y.poll = x.poll
        /\ y.at = "open" /\ y.aim = p
    BY <1>1, <2>3, <2>4 DEF TtyRecords, TtyFields
  <2>6. Acted(t, y, <<Request(t, "open", p)>>)
    BY <1>4, <2>2, <2>4
  <2> QED
    BY <2>3, <2>5, <2>6, OpeningKeeps
<1>5. ASSUME Acted(t, EnterWaiting(Idle(x)), <<>>) PROVE SerialInv'
  BY <1>5, WaitingKeeps
<1>6. ASSUME Acted(t, [x EXCEPT !.at = "prompt", !.asked = key, !.offer = shown \cup others], <<>>) PROVE SerialInv'
  <2>1. key \in AskedKeys /\ shown \cup others \in SUBSET Ports
    BY <1>1, <1>2 DEF AskedKeys
  <2>2. PICK y : y = [x EXCEPT !.at = "prompt", !.asked = key, !.offer = shown \cup others]
    OBVIOUS
  <2>3. /\ y \in TtyRecords /\ y.st = "live" /\ y.sid = 0 /\ y.end = "no" /\ y.at = "prompt"
    BY <1>1, <2>1, <2>2 DEF TtyRecords, TtyFields, Trying
  <2>4. RecordSound(t, y)
    <3>1. tally.opens \in Nat
      BY SerialAssumption DEF SerialInv, SidecarSound
    <3> QED
      BY <2>3, <3>1 DEF RecordSound, Trying
  <2>5. Resumes(t, y) /\ Send(<<>>)
    BY <1>6, <2>2, <2>3, <2>4, NoSession DEF Resumes, Trying, Acted
  <2>6. LosesNone(t, y, {})
    BY <2>3 DEF Trying
  <2> QED
    BY <2>5, <2>6, ResumesQuietly
<1> QED
  BY <1>3, <1>4, <1>5, <1>6

\* A terminal whose attempt is over does nothing more.
LEMMA EndsKeeps ==
  ASSUME SerialInv, NEW t \in Ttys, tty[t].st # "none", tty[t].sid = 0, Over(t) \/ ~Smart(t),
         got' \in SUBSET got, orphan' = orphan,
         \A s \in pending \cup got' : Tries(s) => s.t # t,
         LosesNone(t, Idle(tty[t]), {}),
         Acted(t, Idle(tty[t]), <<>>)
  PROVE  SerialInv'
<1>1. PICK x : x = Idle(tty[t])
  OBVIOUS
<1>2. tty[t] \in TtyRecords /\ RecordSound(t, tty[t])
  BY TtyNow
<1>3. /\ x \in TtyRecords /\ x.at = "idle" /\ x.st = tty[t].st /\ x.sid = 0 /\ x.end = tty[t].end
      /\ x.poll = tty[t].poll
  BY <1>1, <1>2, IdleKeeps
<1>4. RecordSound(t, x)
  BY <1>2, <1>3 DEF RecordSound, Over
<1>5. Resumes(t, x) /\ Send(<<>>)
  BY <1>1, <1>3, <1>4, NoSession DEF Resumes, Acted
<1> QED
  BY <1>1, <1>5, ResumesQuietly

LEMMA PickPortKeeps ==
  ASSUME SerialInv, NEW t \in Ttys, PickPort(t)
  PROVE  SerialInv'
<1>1. tty[t].at = "prompt" /\ got = {} /\ got' = got /\ orphan' = orphan
  BY DEF PickPort, Calm
<1>2. /\ tty[t] \in TtyRecords /\ RecordSound(t, tty[t])
      /\ \A s \in pending \cup got : s.t = t => AttemptFits(s, tty[t])
      /\ \A w \in pending : w.t = t => WriteFits(w, tty[t])
  BY TtyNow
<1>3. tty[t].st # "none" /\ tty[t].sid = 0 /\ Smart(t)
  BY <1>1, <1>2 DEF RecordSound
<1>4. \A s \in pending \cup got' : Tries(s) => s.t # t
  BY <1>1, <1>2 DEF AttemptFits, Tries
<1>5. \A y : y.sid = 0 => LosesNone(t, y, {})
  BY <1>1, <1>3, NothingLost
<1>6. Idle(tty[t]).sid = 0
  BY <1>2, <1>3, IdleKeeps
<1>7. CASE Over(t) /\ Acted(t, Idle(tty[t]), <<>>)
  BY <1>1, <1>3, <1>4, <1>5, <1>6, <1>7, EndsKeeps
<1>8. ASSUME ~Over(t) PROVE Trying(t, tty[t])
  <2>1. tty[t].st = "live" /\ tty[t].end = "no"
    BY <1>2, <1>3, <1>8 DEF Over, RecordSound, TtyRecords, TtyFields
  <2>2. ~tally.off
    BY <1>2, <1>3, <2>1 DEF RecordSound
  <2> QED
    BY <1>1, <1>2, <1>3, <1>4, <1>5, <2>1, <2>2 DEF Trying
<1>9. CASE ~Over(t) /\ Acted(t, EnterWaiting(Idle(tty[t])), <<>>)
  BY <1>8, <1>9, WaitingKeeps
<1>10. ASSUME ~Over(t), NEW p \in tty[t].offer,
              Acted(t, [tty[t] EXCEPT !.at = "open", !.how = "picked", !.aim = p], <<Request(t, "open", p)>>)
       PROVE  SerialInv'
  <2>1. p \in Nat
    BY <1>2, SerialAssumption DEF TtyRecords, TtyFields
  <2>2. PICK y : y = [tty[t] EXCEPT !.at = "open", !.how = "picked", !.aim = p]
    OBVIOUS
  <2>3. /\ y \in TtyRecords /\ y.st = tty[t].st /\ y.sid = tty[t].sid /\ y.end = tty[t].end /\ y.poll = tty[t].poll
        /\ y.at = "open" /\ y.aim = p
    BY <1>2, <2>1, <2>2 DEF TtyRecords, TtyFields
  <2>4. \A w \in pending : w.kind = "write" => w.t # t
    BY <1>1, <1>2 DEF WriteFits
  <2>5. Acted(t, y, <<Request(t, "open", p)>>)
    BY <1>10, <2>2
  <2> QED
    BY <1>8, <1>10, <2>1, <2>3, <2>4, <2>5, OpeningKeeps
<1> QED
  BY <1>7, <1>9, <1>10 DEF PickPort

\* The terminal an answer is for waits for it, and for no other.
LEMMA AnswerFor ==
  ASSUME SerialInv, NEW a \in got, Tries(a), got' = got \ {a}
  PROVE  /\ a.t \in Ttys /\ tty[a.t].st # "none" /\ tty[a.t].at = a.kind /\ tty[a.t].sid = 0
         /\ \A s \in pending \cup got' : Tries(s) => s.t # a.t
         /\ AnswerSound(a) /\ got' \in SUBSET got
<1>1. a.t \in Ttys
  BY DEF SerialInv, WireTyped, Answers
<1>2. tty[a.t].st # "none" /\ tty[a.t].at = a.kind
  BY DEF SerialInv, AttemptsSound, AttemptFits
<1>3. tty[a.t].sid = 0
  BY <1>1, <1>2, TtyNow DEF RecordSound, Tries
<1> QED
  BY <1>1, <1>2, <1>3 DEF SerialInv, AttemptsSound, AnswersSound

LEMMA AnswerLoses ==
  ASSUME SerialInv, NEW a \in got, got' = got \ {a}, tty[a.t].sid = 0, NEW x, NEW C,
         a.kind = "open" /\ a.ok => x.sid = a.val \/ a.val \in C
  PROVE  LosesNone(a.t, x, C)
BY DEF SerialInv, SidecarSound, LosesNone, Used

LEMMA ListAnsweredKeeps ==
  ASSUME SerialInv, NEW a \in got, ListAnswered(a)
  PROVE  SerialInv'
<1>1. PICK t : t = a.t
  OBVIOUS
<1>2. a.kind = "list" /\ got' = got \ {a} /\ orphan' = orphan
  BY DEF ListAnswered
<1>3. /\ t \in Ttys /\ tty[t].st # "none" /\ tty[t].at = "list" /\ tty[t].sid = 0
      /\ \A s \in pending \cup got' : Tries(s) => s.t # t
      /\ AnswerSound(a) /\ got' \in SUBSET got
  BY <1>1, <1>2, AnswerFor DEF Tries
<1>4. tty[t] \in TtyRecords /\ RecordSound(t, tty[t])
  BY <1>3, TtyNow
<1>5. Smart(t)
  BY <1>3, <1>4 DEF RecordSound
<1>6. \A y : LosesNone(t, y, {})
  BY <1>1, <1>2, <1>3, AnswerLoses
<1>7. PICK x : x = [tty[t] EXCEPT !.seen = IF a.ok THEN Seen(t, a.val) ELSE {}, !.how = "direct", !.aim = tty[t].pref]
  OBVIOUS
<1>8. /\ x \in TtyRecords /\ x.st = tty[t].st /\ x.sid = 0 /\ x.end = tty[t].end /\ x.poll = tty[t].poll
      /\ x.at = "list" /\ x.aim = tty[t].pref /\ x.pref = tty[t].pref
  <2>1. (IF a.ok THEN Seen(t, a.val) ELSE {}) \in SUBSET Ports
    BY <1>2, <1>3 DEF AnswerSound, Seen
  <2> QED
    BY <1>3, <1>4, <1>7, <2>1 DEF TtyRecords, TtyFields
<1>9. \/ Over(t) /\ Acted(t, Idle(tty[t]), <<>>)
      \/ ~Over(t) /\ ~a.ok /\ Acted(t, EnterStopped(x), <<>>)
      \/ ~Over(t) /\ ~a.ok /\ Acted(t, EnterWaiting(Idle(x)), <<>>)
      \/ ~Over(t) /\ a.ok /\ Acted(t, [x EXCEPT !.at = "open"], <<Request(t, "open", x.pref)>>)
      \/ ~Over(t) /\ a.ok /\ \E matches \in Matches(x) : LookFurther(t, x, matches)
  BY <1>1, <1>7 DEF ListAnswered
<1>10. ASSUME Over(t), Acted(t, Idle(tty[t]), <<>>) PROVE SerialInv'
  BY <1>2, <1>3, <1>6, <1>10, EndsKeeps
<1>11. ASSUME ~Over(t) PROVE Trying(t, x)
  <2>1. tty[t].st = "live" /\ tty[t].end = "no"
    BY <1>3, <1>4, <1>5, <1>11 DEF Over, RecordSound, TtyRecords, TtyFields
  <2>2. ~tally.off
    BY <1>4, <1>5, <2>1 DEF RecordSound
  <2> QED
    BY <1>2, <1>3, <1>5, <1>6, <1>8, <2>1, <2>2 DEF Trying
<1>12. ASSUME ~Over(t), Acted(t, EnterStopped(x), <<>>) PROVE SerialInv'
  <2>1. PICK y : y = EnterStopped(x)
    OBVIOUS
  <2>2. /\ y \in TtyRecords /\ y.st = tty[t].st /\ y.sid = 0 /\ y.end = "stopped" /\ y.at = "idle" /\ ~y.poll
    BY <1>8, <1>11, <1>12, <2>1, EnterStoppedKeeps DEF Trying
  <2>3. RecordSound(t, y)
    <3>1. tally.opens \in Nat
      BY SerialAssumption DEF SerialInv, SidecarSound
    <3> QED
      BY <1>3, <1>5, <2>2, <3>1 DEF RecordSound
  <2>4. Resumes(t, y) /\ Send(<<>>)
    BY <1>2, <1>3, <1>12, <2>1, <2>2, <2>3, NoSession DEF Resumes, Acted
  <2> QED
    BY <1>3, <1>6, <2>4, ResumesQuietly
<1>13. ASSUME ~Over(t), Acted(t, EnterWaiting(Idle(x)), <<>>) PROVE SerialInv'
  BY <1>3, <1>11, <1>13, WaitingKeeps
<1>14. ASSUME a.ok PROVE \A w \in pending : w.kind = "write" => w.t # t
  BY <1>1, <1>2, <1>14 DEF SerialInv, WritesGot
<1>15. ASSUME ~Over(t), a.ok, Acted(t, [x EXCEPT !.at = "open"], <<Request(t, "open", x.pref)>>) PROVE SerialInv'
  <2>1. PICK y : y = [x EXCEPT !.at = "open"]
    OBVIOUS
  <2>2. /\ y \in TtyRecords /\ y.st = x.st /\ y.sid = x.sid /\ y.end = x.end /\ y.poll = x.poll
        /\ y.at = "open" /\ y.aim = x.pref
    BY <1>8, <2>1 DEF TtyRecords, TtyFields
  <2>3. x.pref \in Nat
    BY <1>8 DEF TtyRecords, TtyFields
  <2>4. Acted(t, y, <<Request(t, "open", x.pref)>>)
    BY <1>15, <2>1
  <2> QED
    BY <1>3, <1>11, <1>14, <1>15, <2>2, <2>3, <2>4, OpeningKeeps
<1>16. ASSUME ~Over(t), a.ok, NEW matches \in Matches(x), LookFurther(t, x, matches)
       PROVE  SerialInv'
  <2>1. matches \in SUBSET x.seen
    BY <1>16 DEF Matches
  <2> QED
    BY <1>3, <1>11, <1>14, <1>16, <2>1, LookFurtherKeeps
<1> QED
  BY <1>9, <1>10, <1>12, <1>13, <1>15, <1>16

LEMMA OpenAnsweredKeeps ==
  ASSUME SerialInv, NEW a \in got, OpenAnswered(a)
  PROVE  SerialInv'
<1>1. PICK t, x : t = a.t /\ x = tty[t]
  OBVIOUS
<1>2. a.kind = "open" /\ got' = got \ {a} /\ orphan' = orphan
  BY DEF OpenAnswered
<1>3. /\ t \in Ttys /\ x.st # "none" /\ x.at = "open" /\ x.sid = 0
      /\ \A s \in pending \cup got' : Tries(s) => s.t # t
      /\ AnswerSound(a) /\ got' \in SUBSET got
  BY <1>1, <1>2, AnswerFor DEF Tries
<1>4. /\ x \in TtyRecords /\ RecordSound(t, x) /\ AttemptFits(a, x)
      /\ \A w \in pending : w.t = t => WriteFits(w, x)
  BY <1>1, <1>3, TtyNow
<1>5. \A w \in pending : w.kind = "write" => w.t # t
  BY <1>3, <1>4 DEF WriteFits
<1>6. \A y, C : (a.ok => y.sid = a.val \/ a.val \in C) => LosesNone(t, y, C)
  BY <1>1, <1>2, <1>3, AnswerLoses
<1>7. a.ok => ~tally.off /\ a.val \in Used /\ a.val \in Nat /\ a.val # 0 /\ a.val \in 0..MaxOpens
  <2>1. tally.opens \in 0..MaxOpens
    BY DEF SerialInv, SidecarSound
  <2> QED
    BY <1>2, <1>3, <2>1, SerialAssumption DEF AnswerSound, Used, SerialInv, OffIsOff
<1>8. ASSUME a.ok, x.st = "disposed", Acted(t, Idle(x), CloseTheLate(t, a.val)) PROVE SerialInv'
  <2>1. PICK y : y = Idle(x)
    OBVIOUS
  <2>2. y \in TtyRecords /\ y.at = "idle" /\ y.st = x.st /\ y.sid = 0 /\ y.end = x.end /\ y.poll = x.poll
    BY <1>3, <1>4, <2>1, IdleKeeps
  <2>3. RecordSound(t, y)
    BY <1>4, <1>8, <2>2 DEF RecordSound
  <2>4. Resumes(t, y)
    BY <1>2, <1>3, <1>8, <2>1, <2>2, <2>3, NoSession DEF Resumes, Acted
  <2>5. Moves(t, y)
    BY <1>3, <2>4, ResumesMoves
  <2>6. Send(<<Request(t, "close", a.val)>>)
    BY <1>1, <1>8 DEF CloseTheLate, Acted
  <2>7. Asks(t, y, "close", a.val)
    BY <1>7, <1>8 DEF Asks, Kinds
  <2>8. LosesNone(t, y, {a.val})
    BY <1>6
  <2> QED
    BY <1>3, <2>5, <2>6, <2>7, <2>8, MovesAsking
<1>9. ASSUME a.ok, x.st = "live", x.end = "stopped" PROVE FALSE
  BY <1>3, <1>4, <1>7, <1>9 DEF RecordSound
<1>10. ASSUME a.ok, x.st = "live", x.end # "stopped", Acted(t, Connected(t, a.val), <<>>) PROVE SerialInv'
  <2>1. x.aim = a.arg /\ a.arg \in Ports
    BY <1>2, <1>3, <1>4, <1>10 DEF AttemptFits, AnswerSound
  <2>2. PICK z : z = Idle(x)
    OBVIOUS
  <2>3. z \in TtyRecords /\ z.st = x.st /\ z.end = x.end
    BY <1>4, <2>2, IdleKeeps
  <2>4. PICK at \in {"saving", "idle"} : at = IF Smart(t) THEN "saving" ELSE "idle"
    OBVIOUS
  <2>5. PICK shown \in {"waiting", "connected"} : shown = IF Smart(t) THEN z.shown ELSE "connected"
    BY <2>3 DEF TtyRecords, TtyFields
  <2>6. PICK prof \in BOOLEAN : prof = (z.prof \/ (Smart(t) /\ x.aim # x.pref))
    OBVIOUS
  <2>7. PICK listed \in BOOLEAN : listed = (z.listed \/ ~Smart(t))
    OBVIOUS
  <2>8. PICK act : act = IF Smart(t) /\ ~x.listed THEN 0 ELSE x.aim
    OBVIOUS
  <2>9. PICK y : y = [z EXCEPT !.sid = a.val, !.act = act, !.listed = listed, !.pref = x.aim, !.poll = FALSE,
                                !.asked = <<>>, !.at = at, !.prof = prof, !.shown = shown]
    OBVIOUS
  <2>10. Connected(t, a.val) = y
    BY <1>1, <2>2, <2>4, <2>5, <2>6, <2>7, <2>8, <2>9 DEF Connected
  <2>11. /\ y \in TtyRecords /\ y.st = "live" /\ y.end = x.end /\ y.sid = a.val /\ (y.listed => y.act = a.arg)
        /\ ~y.poll /\ y.at = at
    <3>1. x.aim \in Nat /\ x.aim \in Ports \cup {0} /\ 0 \in Ports \cup {0} /\ <<>> \in AskedKeys
      BY <2>1, SerialAssumption DEF AskedKeys
    <3>2. act \in Ports \cup {0} /\ listed \in BOOLEAN /\ (listed => act = x.aim) /\ (listed \/ act = 0)
      <4>1. z.listed = x.listed
        BY <1>4, <2>2, IdleKeeps
      <4>2. CASE Smart(t) /\ ~x.listed
        <5>1. act = 0 /\ ~listed
          BY Zenon, <2>7, <2>8, <4>1, <4>2
        <5> QED
          BY <3>1, <5>1
      <4>3. CASE ~(Smart(t) /\ ~x.listed)
        <5>1. act = x.aim /\ listed
          BY Zenon, <2>7, <2>8, <4>1, <4>3
        <5> QED
          BY <3>1, <5>1
      <4> QED
        BY <4>2, <4>3
    <3>3. z \in TtyFields
      BY <2>3 DEF TtyRecords
    <3>4. /\ y \in TtyFields /\ y.st = z.st /\ y.end = z.end /\ y.sid = a.val /\ y.act = act /\ y.listed = listed
          /\ ~y.poll /\ y.at = at
      BY <1>7, <1>10, <2>9, <3>1, <3>2, <3>3 DEF TtyFields
    <3> QED
      BY <1>10, <2>1, <2>3, <3>2, <3>4 DEF TtyRecords
  <2>12. RecordSound(t, y)
    <3>1. tally.opens \in Nat
      BY SerialAssumption DEF SerialInv, SidecarSound
    <3>2. y.sid <= tally.opens /\ y.sid # 0
      BY <1>7, <1>10, <2>11, <3>1 DEF Used
    <3> QED
      BY <1>4, <1>7, <1>10, <2>4, <2>11, <3>2 DEF RecordSound
  <2>13. ShowsItsOwn(y)
    BY <1>2, <1>3, <1>10, <2>11 DEF ShowsItsOwn, AnswerSound
  <2>14. \A b \in got' : b.kind = "write" => b.t # t
    BY <1>1, <1>2, <1>3, <1>10 DEF SerialInv, WritesGot
  <2>15. Resumes(t, y) /\ Send(<<>>)
    BY <1>2, <1>3, <1>5, <1>10, <2>10, <2>11, <2>12, <2>13, <2>14 DEF Resumes, Acted
  <2>16. LosesNone(t, y, {})
    BY <1>6, <2>11
  <2> QED
    BY <1>3, <2>15, <2>16, ResumesQuietly
<1>11. ASSUME ~a.ok, Smart(t), Over(t), Acted(t, Idle(x), <<>>) PROVE SerialInv'
  BY <1>1, <1>2, <1>3, <1>6, <1>11, EndsKeeps
<1>12. ASSUME ~a.ok, ~Smart(t), Acted(t, [Idle(x) EXCEPT !.end = IF @ = "no" THEN "failed" ELSE @], <<>>)
       PROVE SerialInv'
  <2>1. PICK z : z = Idle(x)
    OBVIOUS
  <2>2. z \in TtyRecords /\ z.at = "idle" /\ z.st = x.st /\ z.sid = 0 /\ z.end = x.end /\ z.poll = x.poll
    BY <1>3, <1>4, <2>1, IdleKeeps
  <2>3. PICK e \in {"no", "failed", "disconnected", "stopped"} : e = IF z.end = "no" THEN "failed" ELSE z.end
    BY <2>2 DEF TtyRecords, TtyFields
  <2>4. PICK y : y = [z EXCEPT !.end = e]
    OBVIOUS
  <2>5. y \in TtyRecords /\ y.at = "idle" /\ y.st = x.st /\ y.sid = 0 /\ y.end = e /\ y.poll = x.poll
    BY <2>2, <2>3, <2>4 DEF TtyRecords, TtyFields
  <2>6. RecordSound(t, y)
    BY <1>3, <1>4, <1>12, <2>2, <2>3, <2>5 DEF RecordSound
  <2>7. Acted(t, y, <<>>)
    BY <1>12, <2>1, <2>3, <2>4
  <2>8. Resumes(t, y) /\ Send(<<>>)
    BY <1>2, <1>3, <2>5, <2>6, <2>7, NoSession DEF Resumes, Acted
  <2>9. LosesNone(t, y, {})
    BY <1>6, <1>12
  <2> QED
    BY <1>3, <2>8, <2>9, ResumesQuietly
<1>13. ASSUME ~a.ok, Smart(t), ~Over(t) PROVE Trying(t, x)
  <2>1. x.st = "live" /\ x.end = "no"
    BY <1>1, <1>3, <1>4, <1>13 DEF Over, RecordSound, TtyRecords, TtyFields
  <2>2. ~tally.off
    BY <1>4, <1>13, <2>1 DEF RecordSound
  <2>3. \A y : LosesNone(t, y, {})
    BY <1>6, <1>13
  <2> QED
    BY <1>2, <1>3, <1>4, <1>13, <2>1, <2>2, <2>3 DEF Trying
<1>14. ASSUME ~a.ok, Smart(t), ~Over(t), Acted(t, EnterStopped(x), <<>>) PROVE SerialInv'
  <2>1. PICK y : y = EnterStopped(x)
    OBVIOUS
  <2>2. /\ y \in TtyRecords /\ y.st = x.st /\ y.sid = 0 /\ y.end = "stopped" /\ y.at = "idle" /\ ~y.poll
    BY <1>4, <1>13, <1>14, <2>1, EnterStoppedKeeps DEF Trying
  <2>3. RecordSound(t, y)
    <3>1. tally.opens \in Nat
      BY SerialAssumption DEF SerialInv, SidecarSound
    <3> QED
      BY <1>3, <1>14, <2>2, <3>1 DEF RecordSound
  <2>4. Resumes(t, y) /\ Send(<<>>)
    BY <1>2, <1>3, <1>14, <2>1, <2>2, <2>3, NoSession DEF Resumes, Acted
  <2> QED
    BY <1>3, <1>6, <1>14, <2>4, ResumesQuietly
<1>15. ASSUME ~a.ok, Smart(t), ~Over(t), Acted(t, EnterWaiting(Idle(x)), <<>>) PROVE SerialInv'
  BY <1>3, <1>13, <1>15, WaitingKeeps
<1>16. ASSUME ~a.ok, Smart(t), ~Over(t),
              NEW y, y = [x EXCEPT !.seen = @ \ ({x.aim} \ {x.pref})], NEW matches \in Matches(y), LookFurther(t, y, matches)
       PROVE  SerialInv'
  <2>1. matches \in SUBSET y.seen
    BY <1>16 DEF Matches
  <2>2. y \in TtyRecords /\ y.st = x.st /\ y.sid = x.sid /\ y.end = x.end
    BY <1>4, <1>16 DEF TtyRecords, TtyFields
  <2>3. Trying(t, y)
    BY <1>13, <1>16, <2>2 DEF Trying
  <2> QED
    BY <1>3, <1>5, <1>16, <2>1, <2>3, LookFurtherKeeps
<1>17. \/ a.ok /\ x.st = "disposed" /\ Acted(t, Idle(x), CloseTheLate(t, a.val))
       \/ a.ok /\ x.st = "live" /\ x.end = "stopped"
       \/ a.ok /\ x.st = "live" /\ x.end # "stopped" /\ Acted(t, Connected(t, a.val), <<>>)
       \/ ~a.ok /\ Smart(t) /\ Over(t) /\ Acted(t, Idle(x), <<>>)
       \/ ~a.ok /\ ~Smart(t) /\ Acted(t, [Idle(x) EXCEPT !.end = IF @ = "no" THEN "failed" ELSE @], <<>>)
       \/ ~a.ok /\ Smart(t) /\ ~Over(t) /\ Acted(t, EnterStopped(x), <<>>)
       \/ ~a.ok /\ Smart(t) /\ ~Over(t) /\ Acted(t, EnterWaiting(Idle(x)), <<>>)
       \/ ~a.ok /\ Smart(t) /\ ~Over(t) /\ \E y : /\ y = [x EXCEPT !.seen = @ \ ({x.aim} \ {x.pref})]
                                                     /\ \E matches \in Matches(y) : LookFurther(t, y, matches)
  BY <1>1 DEF OpenAnswered, TtyLive
<1> QED
  BY <1>8, <1>9, <1>10, <1>11, <1>12, <1>14, <1>15, <1>16, <1>17

\* The terminal whose session is gone: the rest of it goes on.
LEMMA DisconnectedKeeps ==
  ASSUME SerialInv, NEW t \in Ttys, TtyLive(t), NEW x, x = Disconnected(t)
  PROVE  /\ x \in TtyRecords /\ x.st = tty[t].st /\ x.at = tty[t].at /\ x.aim = tty[t].aim
         /\ x.sid = 0 \/ x.sid = tty[t].sid
         /\ x.end = "stopped" <=> tty[t].end = "stopped"
         /\ RecordSound(t, x) /\ ShowsItsOwn(x)
<1>1. tty[t] \in TtyRecords /\ RecordSound(t, tty[t]) /\ ShowsItsOwn(tty[t])
  BY TtyNow
<1>2. tally.opens \in Nat /\ 0 \in 0..MaxOpens /\ <<>> \in AskedKeys
  BY SerialAssumption DEF SerialInv, SidecarSound, AskedKeys
<1>3. CASE Over(t) \/ tty[t].end = "disconnected"
  BY <1>1, <1>3 DEF Disconnected
<1>4. CASE ~(Over(t) \/ tty[t].end = "disconnected") /\ Smart(t)
  <2>1. PICK y : y = [tty[t] EXCEPT !.sid = 0, !.act = 0, !.asked = <<>>]
    OBVIOUS
  <2>2. /\ y \in TtyRecords /\ y.st = tty[t].st /\ y.sid = 0 /\ y.end = tty[t].end
        /\ y.at = tty[t].at /\ y.aim = tty[t].aim
    BY <1>1, <1>2, <2>1 DEF TtyRecords, TtyFields
  <2>3. x = EnterWaiting(y)
    BY <1>4, <2>1 DEF Disconnected
  <2>4. /\ x \in TtyRecords /\ x.st = tty[t].st /\ x.sid = 0 /\ x.end = tty[t].end /\ x.poll
        /\ x.at = tty[t].at /\ x.aim = tty[t].aim
    BY <2>2, <2>3, EnterWaitingKeeps
  <2>5. RecordSound(t, x)
    BY <1>1, <1>2, <1>4, <2>4 DEF RecordSound, Over
  <2> QED
    BY <2>4, <2>5, NoSession
<1>5. CASE ~(Over(t) \/ tty[t].end = "disconnected") /\ ~Smart(t)
  <2>1. x = [Delisted(tty[t]) EXCEPT !.sid = 0, !.end = "disconnected"]
    BY <1>5 DEF Disconnected
  <2>2. /\ x \in TtyRecords /\ x.st = tty[t].st /\ x.sid = 0 /\ x.end = "disconnected" /\ x.poll = tty[t].poll
        /\ x.at = tty[t].at /\ x.aim = tty[t].aim
    BY <1>1, <1>2, <2>1 DEF Delisted, TtyRecords, TtyFields
  <2>3. RecordSound(t, x)
    BY <1>1, <1>2, <1>5, <2>2 DEF RecordSound, Over, TtyLive
  <2>4. tty[t].end # "stopped"
    BY <1>5 DEF Over
  <2> QED
    BY <2>2, <2>3, <2>4, NoSession
<1> QED
  BY <1>3, <1>4, <1>5

LEMMA WriteAnsweredKeeps ==
  ASSUME SerialInv, NEW a \in got, WriteAnswered(a)
  PROVE  SerialInv'
<1>1. a.t \in Ttys /\ AnswerSound(a) /\ UnknownFits(a, tty[a.t])
  BY DEF SerialInv, WireTyped, AnswersSound, WritesFit, Answers
<1>2. PICK t : t = a.t
  OBVIOUS
<1>3. /\ a.kind = "write" /\ got' = got \ {a} /\ got' \in SUBSET got
      /\ orphan' = orphan /\ UNCHANGED tally /\ UNCHANGED <<sidecar, wire, pending>>
  BY DEF WriteAnswered
<1>4. Send(<<>>)
  <2>1. wire \in [in : Seq(Requests), out : Seq(Answers \cup Notices)] /\ wire.in \o <<>> = wire.in
    BY DEF SerialInv, WireTyped
  <2>2. Lines(<<>>) = {}
    BY DEF Lines
  <2> QED
    BY <1>3, <2>1, <2>2 DEF Send
<1>5. PICK x : /\ tty' = [tty EXCEPT ![t] = x]
               /\ (Unknown(a) /\ TtyLive(t) /\ x = Disconnected(t)) \/ x = tty[t]
  BY <1>2 DEF WriteAnswered, Unknown, SerialInv, WireTyped
<1>6. /\ \A s \in pending \cup got : s.t = t => AttemptFits(s, tty[t])
      /\ \A w \in pending : w.t = t => WriteFits(w, tty[t])
      /\ \A b \in got : b.t = t => UnknownFits(b, tty[t])
      /\ tty[t] \in TtyRecords /\ RecordSound(t, tty[t]) /\ ShowsItsOwn(tty[t])
  BY <1>1, <1>2, TtyNow
<1>7. /\ x \in TtyRecords /\ x.st = tty[t].st /\ x.at = tty[t].at /\ x.aim = tty[t].aim
      /\ (x.sid = 0 \/ x.sid = tty[t].sid)
      /\ (x.end = "stopped" <=> tty[t].end = "stopped")
      /\ RecordSound(t, x) /\ ShowsItsOwn(x)
  BY <1>1, <1>2, <1>5, <1>6, DisconnectedKeeps
<1>8. /\ \A s \in pending \cup got' : s.t = t => AttemptFits(s, x)
      /\ \A w \in pending : w.t = t => WriteFits(w, x)
      /\ \A b \in got' : b.t = t => UnknownFits(b, x)
  BY <1>3, <1>6, <1>7 DEF AttemptFits, WriteFits, UnknownFits
<1>9. Moves(t, x)
  BY <1>3, <1>5, <1>7, <1>8, SameTally DEF Moves
<1>10. LosesNone(t, x, {})
  <2>1. SUFFICES ASSUME NEW q \in sidecar.ports, q.sid = tty[t].sid PROVE x.sid = q.sid
    BY <1>3 DEF LosesNone
  <2>2. CASE Unknown(a)
    <3>1. a.arg \in Used \ Sids /\ q.sid \in Sids /\ q.sid \in Used
      BY <1>1, <2>2 DEF AnswerSound, Sids, SerialInv, SidecarSound
    <3>2. q.sid = 0 \/ q.sid = a.arg
      BY <1>1, <1>2, <2>1, <2>2 DEF UnknownFits
    <3>3. 0 \notin Used
      BY DEF Used
    <3> QED
      BY <3>1, <3>2, <3>3
  <2> QED
    BY <1>5, <2>1, <2>2
<1> QED
  BY <1>1, <1>2, <1>4, <1>9, <1>10, MovesQuietly

\* f is q without its element k.
Shifted(f, q, k) ==
  /\ \A j \in DOMAIN f : \E i \in DOMAIN q : i # k /\ f[j] = q[i] /\ (j < k => i = j) /\ (j >= k => i = j + 1)
  /\ \A i \in DOMAIN q : i # k => \E j \in DOMAIN f : f[j] = q[i] /\ (i < k => j = i) /\ (i >= k => j = i - 1)

LEMMA TakenOutHas ==
  ASSUME NEW S, NEW q \in Seq(S), NEW k \in DOMAIN q, NEW f, f = TakenOut(q, k)
  PROVE  f \in Seq(S) /\ Shifted(f, q, k)
<1>1. PICK n \in Nat : n = Len(q) /\ DOMAIN q = 1..n
  OBVIOUS
<1>2. k \in 1..n /\ k \in Nat /\ n - 1 \in Nat
  BY <1>1
<1>3. \A i \in 1..n : q[i] \in S
  BY <1>1
<1>5. f = [i \in 1..(n - 1) |-> IF i < k THEN q[i] ELSE q[i + 1]]
  BY <1>1 DEF TakenOut
<1>6. DOMAIN f = 1..(n - 1) /\ \A j \in 1..(n - 1) : f[j] = IF j < k THEN q[j] ELSE q[j + 1]
  BY <1>5
<1>7. f \in Seq(S)
  <2>1. \A j \in 1..(n - 1) : (IF j < k THEN q[j] ELSE q[j + 1]) \in S
    BY <1>2, <1>3
  <2>2. f \in [1..(n - 1) -> S]
    BY <1>5, <2>1
  <2> QED
    BY <1>2, <2>2, SeqDef
<1>8. ASSUME NEW j \in DOMAIN f
      PROVE  \E i \in DOMAIN q : i # k /\ f[j] = q[i] /\ (j < k => i = j) /\ (j >= k => i = j + 1)
  <2>1. j \in Nat /\ j \in 1..(n - 1)
    BY <1>6, <1>8
  <2>2. PICK i : i = IF j < k THEN j ELSE j + 1
    OBVIOUS
  <2>3. i \in 1..n /\ i # k
    BY <1>1, <1>2, <2>1, <2>2
  <2>4. f[j] = q[i]
    BY <1>6, <2>1, <2>2
  <2> QED
    BY <1>1, <2>2, <2>3, <2>4
<1>9. ASSUME NEW i \in DOMAIN q, i # k
      PROVE  \E j \in DOMAIN f : f[j] = q[i] /\ (i < k => j = i) /\ (i >= k => j = i - 1)
  <2>1. i \in Nat /\ i \in 1..n
    BY <1>1, <1>9
  <2>2. PICK j : j = IF i < k THEN i ELSE i - 1
    OBVIOUS
  <2>3. j \in 1..(n - 1) /\ (i < k => j < k) /\ (~(i < k) => ~(j < k) /\ j + 1 = i)
    BY <1>1, <1>2, <1>9, <2>1, <2>2
  <2>4. f[j] = q[i]
    BY <1>6, <2>2, <2>3
  <2> QED
    BY <1>6, <2>2, <2>3, <2>4
<1> QED
  BY <1>7, <1>8, <1>9 DEF Shifted

\* A step that only serves the request k: its answer, if any, is the last.
Serving(k) ==
  /\ got = {} /\ sidecar.up = "up" /\ k \in DOMAIN wire.in /\ \A j \in 1..(k - 1) : wire.in[j].kind # "write"
  /\ wire' \in [in : Seq(Requests), out : Seq(Answers \cup Notices)]
  /\ wire'.in = TakenOut(wire.in, k)
  /\ \A m \in DOMAIN wire.out : m \in DOMAIN wire'.out /\ wire'.out[m] = wire.out[m]
  /\ \A m \in DOMAIN wire'.out : m \notin DOMAIN wire.out =>
       /\ \A j \in DOMAIN wire.out : j < m
       /\ wire'.out[m] \in Answers /\ wire'.out[m].n = wire.in[k].n /\ wire'.out[m].t = wire.in[k].t
       /\ wire'.out[m].kind = wire.in[k].kind /\ wire'.out[m].arg = wire.in[k].arg
  /\ wire.in[k].kind # "close" => \E m \in DOMAIN wire'.out : wire'.out[m].n = wire.in[k].n
  /\ sidecar'.up = "up" /\ tally'.modes = tally.modes
  /\ UNCHANGED <<tty, pending, got, orphan>>

LEMMA ServingKeeps ==
  ASSUME SerialInv, NEW k, Serving(k)
  PROVE  /\ WireTyped' /\ IdsUnique' /\ AttemptsSound' /\ WritesFit' /\ WritesGot' /\ WritesOut' /\ WritesIn'
         /\ OffIsOff' \/ tally'.off # tally.off
<1>1. k \in DOMAIN wire.in /\ wire.in \in Seq(Requests) /\ k \in Nat
  BY DEF Serving, SerialInv, WireTyped
<1>2. /\ \A j \in DOMAIN wire'.in : \E i \in DOMAIN wire.in : i # k /\ wire'.in[j] = wire.in[i] /\ (j < k => i = j) /\ (j >= k => i = j + 1)
      /\ \A i \in DOMAIN wire.in : i # k => \E j \in DOMAIN wire'.in : wire'.in[j] = wire.in[i] /\ (i < k => j = i) /\ (i >= k => j = i - 1)
  <2>1. wire'.in = TakenOut(wire.in, k)
    BY DEF Serving
  <2>2. Shifted(wire'.in, wire.in, k)
    BY <1>1, <2>1, TakenOutHas
  <2> QED
    BY <2>2 DEF Shifted
<1>3. /\ \A m \in DOMAIN wire.out : m \in DOMAIN wire'.out /\ wire'.out[m] = wire.out[m]
      /\ \A m \in DOMAIN wire'.out : m \notin DOMAIN wire.out =>
           /\ \A j \in DOMAIN wire.out : j < m
           /\ wire'.out[m].n = wire.in[k].n /\ wire'.out[m].t = wire.in[k].t
           /\ wire'.out[m].kind = wire.in[k].kind /\ wire'.out[m].arg = wire.in[k].arg
      /\ wire.in[k].kind # "close" => \E m \in DOMAIN wire'.out : wire'.out[m].n = wire.in[k].n
  BY DEF Serving
<1>4. got = {} /\ got' = {} /\ tty' = tty /\ pending' = pending /\ tally'.modes = tally.modes /\ sidecar.up = "up"
  BY DEF Serving
<1>5. WireTyped'
  BY DEF SerialInv, WireTyped, Serving
<1>6. \A r \in pending : wire.in[k].n = r.n => wire.in[k] = r
  BY <1>1 DEF SerialInv, IdsUnique
<1>7. IdsUnique'
  <2>1. \A r \in pending, j \in DOMAIN wire'.in : wire'.in[j].n = r.n => wire'.in[j] = r
    BY <1>2 DEF SerialInv, IdsUnique
  <2>2. \A r \in pending, m \in DOMAIN wire'.out :
          wire'.out[m].n = r.n => wire'.out[m].t = r.t /\ wire'.out[m].kind = r.kind /\ wire'.out[m].arg = r.arg
    BY <1>3, <1>6 DEF SerialInv, IdsUnique
  <2> QED
    BY <1>4, <2>1, <2>2 DEF SerialInv, IdsUnique
<1>8. AttemptsSound' /\ WritesFit' /\ WritesGot'
  BY <1>4 DEF SerialInv, AttemptsSound, WritesFit, WritesGot, AttemptFits, Tries, WriteFits, UnknownFits, Unknown, Smart
<1>9. \A r \in pending : Answered(r) => Answered(r)'
  BY <1>3 DEF Answered
<1>10. \A r \in pending : wire.in[k] = r => Answered(r)'
  BY <1>3 DEF Answered, SerialInv, IdsUnique
<1>11. \A r \in pending, w \in pending, i \in DOMAIN wire.in :
         r.kind = "list" /\ wire.in[i] = r /\ w.kind = "write" /\ w.t = r.t =>
           Answered(w) \/ \E j \in DOMAIN wire.in : j < i /\ wire.in[j] = w
  BY <1>4 DEF SerialInv, WritesIn
<1>12. WritesOut'
  <2>1. SUFFICES ASSUME NEW r \in pending, NEW w \in pending, NEW m \in DOMAIN wire'.out,
                        r.kind = "list", wire'.out[m].n = r.n, w.kind = "write", w.t = r.t
                 PROVE  \E j \in DOMAIN wire'.out : j < m /\ wire'.out[j].n = w.n
    BY <1>4 DEF WritesOut
  <2>2. CASE m \in DOMAIN wire.out
    BY <1>3, <2>1, <2>2 DEF SerialInv, WritesOut
  <2>3. CASE m \notin DOMAIN wire.out
    <3>1. wire.in[k] = r
      BY <1>3, <1>6, <2>1, <2>3
    <3>2. ~\E j \in DOMAIN wire.in : j < k /\ wire.in[j] = w
      <4>1. SUFFICES ASSUME NEW j \in DOMAIN wire.in, j < k, wire.in[j] = w PROVE FALSE
        OBVIOUS
      <4>2. j \in 1..(k - 1)
        BY <1>1, <4>1
      <4> QED
        BY <2>1, <4>1, <4>2 DEF Serving
    <3>3. Answered(w)
      BY <1>1, <1>11, <2>1, <3>1, <3>2
    <3>4. PICK j \in DOMAIN wire.out : wire.out[j].n = w.n
      BY <3>3 DEF Answered
    <3> QED
      BY <1>3, <2>3, <3>4
  <2> QED
    BY <2>2, <2>3
<1>13. WritesIn'
  <2>1. \A r \in pending : Answered(r)' \/ \E j \in DOMAIN wire'.in : wire'.in[j] = r
    <3> TAKE r \in pending
    <3>1. Answered(r) \/ \E i \in DOMAIN wire.in : wire.in[i] = r
      BY <1>4 DEF SerialInv, WritesIn
    <3> QED
      BY <1>2, <1>9, <1>10, <3>1
  <2>2. ASSUME NEW r \in pending, NEW w \in pending, NEW j \in DOMAIN wire'.in,
               r.kind = "list", wire'.in[j] = r, w.kind = "write", w.t = r.t
        PROVE  Answered(w)' \/ \E h \in DOMAIN wire'.in : h < j /\ wire'.in[h] = w
    <3>1. PICK i \in DOMAIN wire.in : i # k /\ wire'.in[j] = wire.in[i] /\ (j < k => i = j) /\ (j >= k => i = j + 1)
      BY <1>2
    <3>2. Answered(w) \/ \E g \in DOMAIN wire.in : g < i /\ wire.in[g] = w
      BY <1>11, <2>2, <3>1
    <3>3. CASE Answered(w)
      BY <1>9, <3>3
    <3>4. ASSUME NEW g \in DOMAIN wire.in, g < i, wire.in[g] = w
          PROVE  Answered(w)' \/ \E h \in DOMAIN wire'.in : h < j /\ wire'.in[h] = w
      <4>1. CASE g = k
        BY <1>10, <3>4, <4>1
      <4>2. CASE g # k
        <5>1. PICK h \in DOMAIN wire'.in : wire'.in[h] = wire.in[g] /\ (g < k => h = g) /\ (g >= k => h = g - 1)
          BY <1>2, <4>2
        <5>2. g \in Nat /\ i \in Nat /\ j \in Nat
          BY <1>1, <1>5 DEF WireTyped
        <5>3. h < j
          BY <1>1, <3>1, <3>4, <4>2, <5>1, <5>2
        <5> QED
          BY <3>4, <5>1, <5>3
      <4> QED
        BY <4>1, <4>2
    <3> QED
      BY <3>2, <3>3, <3>4
  <2> QED
    BY <1>4, <2>1, <2>2 DEF WritesIn
<1>14. OffIsOff' \/ tally'.off # tally.off
  BY <1>4 DEF SerialInv, OffIsOff
<1> QED
  BY <1>5, <1>7, <1>8, <1>12, <1>13, <1>14

LEMMA AnswerTyped ==
  ASSUME NEW r \in Requests, NEW ok \in BOOLEAN, NEW val \in Vals, NEW a, a = Answer(r, ok, val)
  PROVE  /\ a \in Answers /\ a.n = r.n /\ a.t = r.t /\ a.kind = r.kind /\ a.arg = r.arg
         /\ (a.ok <=> ok) /\ a.val = val /\ a.n # 0
BY DEF Answer, Requests, Answers

LEMMA SayServes ==
  ASSUME SerialInv, NEW k, InTurn(k), NEW ok \in BOOLEAN, NEW val \in Vals, NEW a, a = Answer(wire.in[k], ok, val),
         Say(k, a), sidecar'.up = "up", tally'.modes = tally.modes, UNCHANGED <<tty, pending, got, orphan>>
  PROVE  /\ Serving(k)
         /\ a \in Answers /\ a.kind = wire.in[k].kind /\ a.arg = wire.in[k].arg /\ (a.ok <=> ok) /\ a.val = val /\ a.n # 0
         /\ \E m \in DOMAIN wire'.out : wire'.out[m] = a
         /\ \A m \in DOMAIN wire'.out : m \notin DOMAIN wire.out => wire'.out[m] = a
<1>1. wire.in \in Seq(Requests) /\ wire.out \in Seq(Answers \cup Notices) /\ k \in DOMAIN wire.in
  BY DEF SerialInv, WireTyped, InTurn
<1>2. /\ a \in Answers /\ a.n = wire.in[k].n /\ a.t = wire.in[k].t /\ a.kind = wire.in[k].kind
      /\ a.arg = wire.in[k].arg /\ (a.ok <=> ok) /\ a.val = val /\ a.n # 0
  <2>1. wire.in[k] \in Requests
    BY <1>1
  <2> QED
    BY <2>1, AnswerTyped
<1>3. TakenOut(wire.in, k) \in Seq(Requests)
  BY <1>1, TakenOutHas
<1>4. PICK q : q = Append(wire.out, a)
  OBVIOUS
<1>5. /\ q \in Seq(Answers \cup Notices) /\ DOMAIN q = 1..(Len(wire.out) + 1) /\ q[Len(wire.out) + 1] = a
      /\ \A m \in 1..Len(wire.out) : q[m] = wire.out[m]
      /\ Len(wire.out) \in Nat /\ DOMAIN wire.out = 1..Len(wire.out)
  BY <1>1, <1>2, <1>4
<1>6. wire' = [in |-> TakenOut(wire.in, k), out |-> q]
  BY <1>4 DEF Say
<1>7. wire' \in [in : Seq(Requests), out : Seq(Answers \cup Notices)] /\ wire'.in = TakenOut(wire.in, k) /\ wire'.out = q
  BY <1>3, <1>5, <1>6
<1>8. \A m \in DOMAIN wire.out : m \in DOMAIN q /\ q[m] = wire.out[m]
  BY <1>5
<1>9. \A m \in DOMAIN q : m \notin DOMAIN wire.out => q[m] = a /\ \A j \in DOMAIN wire.out : j < m
  <2> SUFFICES ASSUME NEW m \in DOMAIN q, m \notin DOMAIN wire.out
               PROVE  q[m] = a /\ \A j \in DOMAIN wire.out : j < m
    OBVIOUS
  <2>1. m = Len(wire.out) + 1
    BY <1>5
  <2> QED
    BY <1>5, <2>1
<1>10. Len(wire.out) + 1 \in DOMAIN q
  BY <1>5
<1> QED
  BY <1>1, <1>2, <1>5, <1>7, <1>8, <1>9, <1>10 DEF Serving, InTurn, Calm

LEMMA ServingTakes ==
  ASSUME SerialInv, NEW k, Serving(k)
  PROVE  /\ \A j \in DOMAIN wire'.in : \E i \in DOMAIN wire.in : wire'.in[j] = wire.in[i]
         /\ \A i \in DOMAIN wire.in : i # k => \E j \in DOMAIN wire'.in : wire'.in[j] = wire.in[i]
<1>1. k \in DOMAIN wire.in /\ wire.in \in Seq(Requests) /\ wire'.in = TakenOut(wire.in, k)
  BY DEF Serving, SerialInv, WireTyped
<1>2. Shifted(wire'.in, wire.in, k)
  BY <1>1, TakenOutHas
<1> QED
  BY <1>2 DEF Shifted

\* The sidecar answers, and that is all.
LEMMA SaidKeeps ==
  ASSUME SerialInv, NEW k, InTurn(k), NEW ok \in BOOLEAN, NEW val \in Vals, NEW a, a = Answer(wire.in[k], ok, val),
         Say(k, a), UNCHANGED <<sidecar, tally>>, UNCHANGED <<tty, pending, got, orphan>>,
         AnswerSound(a), wire.in[k].kind # "close"
  PROVE  SerialInv'
<1>1. /\ Serving(k) /\ a.n # 0 /\ sidecar.up = "up"
      /\ \A m \in DOMAIN wire'.out : m \notin DOMAIN wire.out => wire'.out[m] = a
  BY SayServes DEF InTurn
<1>2. AnswersSound'
  <2>1. (\A m \in DOMAIN wire.out :
           IF wire.out[m].n = 0 THEN wire.out[m].sid \in Used \ Sids ELSE AnswerSound(wire.out[m]))'
    <3>1. \A m \in DOMAIN wire'.out :
            IF wire'.out[m].n = 0 THEN wire'.out[m].sid \in Used \ Sids ELSE AnswerSound(wire'.out[m])
      BY <1>1 DEF SerialInv, AnswersSound, Serving
    <3> QED
      BY <3>1 DEF AnswerSound, Used, Sids, Unknown
  <2>2. \A j \in DOMAIN wire'.in : wire'.in[j].kind = "write" => wire'.in[j].arg \in Used
    BY <1>1, ServingTakes DEF SerialInv, AnswersSound
  <2>3. got' = {} /\ Used' = Used
    BY <1>1 DEF Serving, Used
  <2> QED
    BY <2>1, <2>2, <2>3 DEF AnswersSound
<1>3. SidecarSound' /\ TtysSound'
  BY DEF SerialInv, SidecarSound, TtysSound, RecordSound, ShowsItsOwn, Used, Smart
<1>4. PortsKnown'
  <2>1. \A s : OnItsWay(s) => OnItsWay(s)'
    BY <1>1, ServingTakes DEF OnItsWay, Lines, Serving
  <2> QED
    BY <2>1 DEF SerialInv, PortsKnown
<1> QED
  BY <1>1, <1>2, <1>3, <1>4, ServingKeeps DEF SerialInv

LEMMA SidecarServesKeeps ==
  ASSUME SerialInv, NEW k, SidecarServes(k)
  PROVE  SerialInv'
<1>1. PICK r : r = wire.in[k]
  OBVIOUS
<1>2. InTurn(k) /\ UNCHANGED <<tty, pending, got, orphan>> /\ r \in Requests /\ sidecar.up = "up" /\ k \in DOMAIN wire.in
  BY <1>1 DEF SidecarServes, InTurn, SerialInv, WireTyped
<1>3. /\ sidecar \in [up : {"none", "up", "dead"}, ports : SUBSET [sid : 1..MaxOpens, path : Ports], plugged : SUBSET Ports]
      /\ tally \in [opens : 0..MaxOpens, events : Nat, off : BOOLEAN, modes : {u.modes : u \in SerialSetups}]
      /\ tally.opens \in Nat /\ ~tally.off
  BY <1>2, SerialAssumption DEF SerialInv, SidecarSound, OffIsOff
<1>4. \A q \in sidecar.ports : q.sid \in Used
  BY DEF SerialInv, SidecarSound
<1>5. CASE UNCHANGED <<sidecar, tally>> /\ (r.kind = "list" \/ r.kind = "write")
  <2>1. PICK ok \in BOOLEAN, val \in Vals :
          /\ Say(k, Answer(r, ok, val))
          /\ r.kind = "list" => val \in SUBSET Ports
          /\ r.kind = "write" => (ok <=> \E q \in sidecar.ports : q.sid = r.arg)
    <3>1. CASE r.kind = "list"
      <4>1. Say(k, Answer(r, TRUE, sidecar.plugged))
        BY <1>1, <1>5, <3>1 DEF SidecarServes
      <4>2. sidecar.plugged \in SUBSET Ports /\ sidecar.plugged \in Vals
        BY <1>3 DEF Vals
      <4> QED
        BY <3>1, <4>1, <4>2
    <3>2. CASE r.kind = "write"
      <4>1. Say(k, Answer(r, \E q \in sidecar.ports : q.sid = r.arg, "unknown"))
        BY <1>1, <1>5, <3>2 DEF SidecarServes
      <4> DEFINE b == \E q \in sidecar.ports : q.sid = r.arg
      <4>2. Say(k, Answer(r, b, "unknown"))
        BY <4>1, Zenon
      <4>4. b \in BOOLEAN
        BY Zenon
      <4>5. b <=> \E q \in sidecar.ports : q.sid = r.arg
        BY Zenon
      <4>3. "unknown" \in Vals
        BY DEF Vals
      <4> HIDE DEF b
      <4> QED
        BY <3>2, <4>2, <4>3, <4>4, <4>5
    <3> QED
      BY <1>5, <3>1, <3>2
  <2>2. PICK a : a = Answer(r, ok, val)
    OBVIOUS
  <2>3. a.kind = r.kind /\ a.arg = r.arg /\ (a.ok <=> ok) /\ a.val = val
    BY <1>2, <2>2, AnswerTyped
  <2>4. AnswerSound(a)
    <3>1. r.kind = "write" => r.arg \in Used
      BY <1>1, <1>2 DEF SerialInv, AnswersSound
    <3>2. Unknown(a) => a.arg \in Used \ Sids
      BY <2>1, <2>3, <3>1 DEF Unknown, Sids
    <3> QED
      BY <1>5, <2>1, <2>3, <3>2 DEF AnswerSound
  <2> QED
    BY <1>1, <1>2, <1>5, <2>1, <2>2, <2>4, SaidKeeps
<1>6. CASE r.kind = "open"
  <2>1. /\ r.arg \in sidecar.plugged /\ tally.opens < MaxOpens
        /\ sidecar' = [sidecar EXCEPT !.ports = @ \cup {[sid |-> tally.opens + 1, path |-> r.arg]}]
        /\ tally' = [tally EXCEPT !.opens = @ + 1]
        /\ Say(k, Answer(r, TRUE, tally.opens + 1))
    BY <1>1, <1>6 DEF SidecarServes
  <2>2. PICK s, p : s = tally.opens + 1 /\ p = [sid |-> s, path |-> r.arg]
    OBVIOUS
  <2>3. s \in 1..MaxOpens /\ s \in Nat /\ s \in Vals /\ s \notin Used /\ r.arg \in Ports /\ s # 0
    BY <1>3, <2>1, <2>2, SerialAssumption DEF Vals, Used
  <2>4. p \in [sid : 1..MaxOpens, path : Ports] /\ p.sid = s /\ p.path = r.arg
    BY <2>2, <2>3
  <2>5. sidecar'.ports = sidecar.ports \cup {p} /\ sidecar'.up = "up"
        /\ sidecar' \in [up : {"none", "up", "dead"}, ports : SUBSET [sid : 1..MaxOpens, path : Ports], plugged : SUBSET Ports]
    BY <1>2, <1>3, <2>1, <2>2, <2>4
  <2>6. /\ tally' \in [opens : 0..MaxOpens, events : Nat, off : BOOLEAN, modes : {u.modes : u \in SerialSetups}]
        /\ tally'.opens = s /\ tally'.modes = tally.modes /\ tally'.off = tally.off
    BY <1>3, <2>1, <2>2, <2>3
  <2>7. Used' = Used \cup {s} /\ Sids' = Sids \cup {s}
    BY <1>3, <2>2, <2>4, <2>5, <2>6 DEF Used, Sids
  <2>8. PICK ok \in BOOLEAN : ok
    OBVIOUS
  <2>9. PICK a : a = Answer(r, ok, s)
    OBVIOUS
  <2>10. Say(k, a)
    BY <2>1, <2>2, <2>8, <2>9
  <2>11. /\ Serving(k) /\ a.kind = "open" /\ a.arg = r.arg /\ a.ok /\ a.val = s /\ a.n # 0
         /\ \E m \in DOMAIN wire'.out : wire'.out[m] = a
         /\ \A m \in DOMAIN wire'.out : m \notin DOMAIN wire.out => wire'.out[m] = a
    <3>1. /\ Serving(k) /\ a.kind = r.kind /\ a.arg = r.arg /\ (a.ok <=> ok) /\ a.val = s /\ a.n # 0
          /\ \E m \in DOMAIN wire'.out : wire'.out[m] = a
          /\ \A m \in DOMAIN wire'.out : m \notin DOMAIN wire.out => wire'.out[m] = a
      BY <1>1, <1>2, <2>3, <2>5, <2>6, <2>9, <2>10, SayServes
    <3> QED
      BY <1>6, <2>8, <3>1
  <2>12. SidecarSound'
    <3>1. \A q \in sidecar'.ports : q.sid \in Used'
      BY <1>4, <2>4, <2>5, <2>7
    <3>2. \A q, h \in sidecar'.ports : q.sid = h.sid => q = h
      BY <1>4, <2>3, <2>4, <2>5 DEF SerialInv, SidecarSound
    <3> QED
      BY <2>5, <2>6, <3>1, <3>2 DEF SidecarSound
  <2>13. AnswersSound'
    <3>1. ASSUME NEW m \in DOMAIN wire'.out, wire'.out[m].n = 0
          PROVE  wire'.out[m].sid \in Used' \ Sids'
      <4>1. m \in DOMAIN wire.out /\ wire'.out[m] = wire.out[m]
        BY <2>11, <3>1 DEF Serving
      <4>2. wire'.out[m].sid \in Used \ Sids
        BY <3>1, <4>1 DEF SerialInv, AnswersSound
      <4> QED
        BY <2>3, <2>7, <4>2
    <3>2. ASSUME NEW b, AnswerSound(b) \/ b = a
          PROVE  /\ b.kind # "close"
                 /\ b.kind = "list" /\ b.ok => b.val \in SUBSET Ports
                 /\ b.kind = "open" /\ b.ok =>
                      b.arg \in Ports /\ b.val \in Used' /\ \A q \in sidecar'.ports : q.sid = b.val => q.path = b.arg
                 /\ Unknown(b) => b.arg \in Used' \ Sids'
      <4>1. CASE b = a
        <5>1. \A q \in sidecar'.ports : q.sid = s => q.path = r.arg
          BY <1>4, <2>3, <2>4, <2>5
        <5> QED
          BY <2>3, <2>7, <2>11, <4>1, <5>1 DEF Unknown
      <4>2. CASE AnswerSound(b)
        <5>1. b.kind # "close" /\ (b.kind = "list" /\ b.ok => b.val \in SUBSET Ports)
          BY <4>2 DEF AnswerSound
        <5>2. b.kind = "open" /\ b.ok =>
                b.arg \in Ports /\ b.val \in Used /\ \A q \in sidecar.ports : q.sid = b.val => q.path = b.arg
          BY <4>2 DEF AnswerSound
        <5>3. Unknown(b) => b.arg \in Used \ Sids
          BY <4>2 DEF AnswerSound
        <5>4. b.kind = "open" /\ b.ok =>
                b.arg \in Ports /\ b.val \in Used' /\ \A q \in sidecar'.ports : q.sid = b.val => q.path = b.arg
          BY <2>3, <2>4, <2>5, <2>7, <5>2
        <5>5. Unknown(b) => b.arg \in Used' \ Sids'
          BY <2>3, <2>7, <5>3
        <5> QED
          BY <5>1, <5>4, <5>5
      <4> QED
        BY <3>2, <4>1, <4>2
    <3>3. \A m \in DOMAIN wire'.out : wire'.out[m].n # 0 => AnswerSound(wire'.out[m]) \/ wire'.out[m] = a
      BY <2>11 DEF SerialInv, AnswersSound, Serving
    <3>4. (\A m \in DOMAIN wire.out :
             IF wire.out[m].n = 0 THEN wire.out[m].sid \in Used \ Sids ELSE AnswerSound(wire.out[m]))'
      BY <3>1, <3>2, <3>3 DEF AnswerSound, Unknown
    <3>5. \A j \in DOMAIN wire'.in : wire'.in[j].kind = "write" => wire'.in[j].arg \in Used'
      <4>1. \A j \in DOMAIN wire'.in : \E i \in DOMAIN wire.in : wire'.in[j] = wire.in[i]
        BY <2>11, ServingTakes
      <4> QED
        BY <2>7, <4>1 DEF SerialInv, AnswersSound
    <3>6. got' = {}
      BY <2>11 DEF Serving
    <3> QED
      BY <3>4, <3>5, <3>6 DEF AnswersSound
  <2>14. TtysSound'
    <3>1. \A u \in Ttys : tty[u].sid \in 0..MaxOpens /\ tty[u].sid <= tally.opens
      BY DEF SerialInv, TtysSound, RecordSound, WireTyped, TtyRecords, TtyFields
    <3>2. \A u \in Ttys : tty[u].sid # s /\ tty[u].sid <= s
      BY <1>3, <2>2, <3>1, SerialAssumption
    <3>3. \A u \in Ttys : RecordSound(u, tty[u])'
      BY <1>2, <2>6, <3>2 DEF SerialInv, TtysSound, RecordSound, Smart
    <3>4. \A u \in Ttys : ShowsItsOwn(tty[u])'
      BY <1>2, <2>4, <2>5, <3>2 DEF SerialInv, TtysSound, ShowsItsOwn
    <3> QED
      BY <3>3, <3>4 DEF TtysSound
  <2>15. PortsKnown'
    <3>1. \A h : OnItsWay(h) => OnItsWay(h)'
      <4>1. \A i \in DOMAIN wire.in : i # k => \E j \in DOMAIN wire'.in : wire'.in[j] = wire.in[i]
        BY <2>11, ServingTakes
      <4> QED
        BY <1>1, <1>2, <1>6, <2>11, <4>1 DEF OnItsWay, Lines, Serving
    <3>2. OnItsWay(s)'
      BY <2>11 DEF OnItsWay, Lines
    <3> QED
      BY <1>2, <2>4, <2>5, <3>1, <3>2 DEF SerialInv, PortsKnown
  <2>16. OffIsOff'
    BY <1>3, <2>6 DEF OffIsOff
  <2> QED
    BY <2>11, <2>12, <2>13, <2>14, <2>15, <2>16, ServingKeeps DEF SerialInv
<1>7. CASE r.kind = "close"
  <2>1. /\ sidecar' = [sidecar EXCEPT !.ports = {q \in @ : q.sid # r.arg}]
        /\ wire' = [wire EXCEPT !.in = TakenOut(@, k)] /\ UNCHANGED tally
    BY <1>1, <1>7 DEF SidecarServes
  <2>2. /\ sidecar' \in [up : {"none", "up", "dead"}, ports : SUBSET [sid : 1..MaxOpens, path : Ports], plugged : SUBSET Ports]
        /\ sidecar'.up = "up" /\ sidecar'.ports = {q \in sidecar.ports : q.sid # r.arg}
    BY <1>2, <1>3, <2>1
  <2>3. /\ wire' \in [in : Seq(Requests), out : Seq(Answers \cup Notices)]
        /\ wire'.in = TakenOut(wire.in, k) /\ wire'.out = wire.out
    <3>1. wire \in [in : Seq(Requests), out : Seq(Answers \cup Notices)]
      BY DEF SerialInv, WireTyped
    <3>2. TakenOut(wire.in, k) \in Seq(Requests)
      BY <1>2, <3>1, TakenOutHas
    <3> QED
      BY <2>1, <3>1, <3>2
  <2>4. Serving(k)
    BY <1>1, <1>2, <1>7, <2>1, <2>2, <2>3 DEF Serving, InTurn, Calm
  <2>5. SidecarSound' /\ TtysSound'
    BY <1>2, <1>3, <2>1, <2>2 DEF SerialInv, SidecarSound, TtysSound, RecordSound, ShowsItsOwn, Used, Smart
  <2>6. \A j \in DOMAIN wire'.in : \E i \in DOMAIN wire.in : wire'.in[j] = wire.in[i]
    BY <2>4, ServingTakes
  <2>7. AnswersSound'
    BY <2>1, <2>2, <2>3, <2>4, <2>6 DEF SerialInv, AnswersSound, AnswerSound, Used, Sids, Serving, Unknown
  <2>8. PortsKnown'
    <3>1. \A i \in DOMAIN wire.in : i # k => \E j \in DOMAIN wire'.in : wire'.in[j] = wire.in[i]
      BY <2>4, ServingTakes
    <3>2. \A h : h # r.arg /\ OnItsWay(h) => OnItsWay(h)'
      BY <1>1, <1>2, <2>3, <2>4, <3>1 DEF OnItsWay, Lines, Serving
    <3> QED
      BY <1>2, <2>2, <3>2 DEF SerialInv, PortsKnown
  <2> QED
    BY <2>1, <2>4, <2>5, <2>7, <2>8, ServingKeeps DEF SerialInv
<1> QED
  BY <1>1, <1>5, <1>6, <1>7 DEF SidecarServes

LEMMA SidecarRefusesKeeps ==
  ASSUME SerialInv, NEW k, SidecarRefuses(k)
  PROVE  SerialInv'
<1>1. PICK r : r = wire.in[k]
  OBVIOUS
<1>2. InTurn(k) /\ UNCHANGED <<tty, sidecar, pending, got, orphan, tally>> /\ r \in Requests /\ r.kind \in {"list", "open", "write"}
  BY <1>1 DEF SidecarRefuses, InTurn, SerialInv, WireTyped
<1>3. PICK why \in {"error", "runtime"} : Say(k, Answer(r, FALSE, why))
  BY <1>1 DEF SidecarRefuses
<1>4. why \in Vals /\ why # "unknown"
  BY DEF Vals
<1>5. PICK no \in BOOLEAN : no = FALSE
  OBVIOUS
<1>6. PICK a : a = Answer(r, no, why)
  OBVIOUS
<1>7. Say(k, a)
  BY <1>3, <1>5, <1>6
<1>8. a.kind = r.kind /\ (a.ok <=> no) /\ a.val = why
  BY <1>2, <1>4, <1>6, AnswerTyped
<1>9. AnswerSound(a)
  BY <1>2, <1>4, <1>5, <1>8 DEF AnswerSound, Unknown
<1> QED
  BY <1>1, <1>2, <1>4, <1>6, <1>7, <1>9, SaidKeeps

\* A step of the sidecar alone, by which it may lose ports: what it says is a
\* prefix of what it had said, or there is a notice more.
Loses ==
  /\ got = {} /\ UNCHANGED <<tty, pending, got, orphan>>
  /\ tally' \in [opens : 0..MaxOpens, events : Nat, off : BOOLEAN, modes : {u.modes : u \in SerialSetups}]
  /\ tally'.opens = tally.opens /\ tally'.off = tally.off /\ tally'.modes = tally.modes
  /\ sidecar' \in [up : {"none", "up", "dead"}, ports : SUBSET [sid : 1..MaxOpens, path : Ports], plugged : SUBSET Ports]
  /\ sidecar'.ports \in SUBSET sidecar.ports
  /\ wire' \in [in : Seq(Requests), out : Seq(Answers \cup Notices)]
  /\ \A m \in DOMAIN wire'.out :
       \/ m \in DOMAIN wire.out /\ wire'.out[m] = wire.out[m] /\ \A j \in DOMAIN wire.out : j < m => j \in DOMAIN wire'.out
       \/ m \notin DOMAIN wire.out /\ wire'.out[m].n = 0 /\ wire'.out[m].sid \in Sids \ Sids'
  /\ \/ /\ sidecar'.up = sidecar.up /\ wire'.in = wire.in
        /\ \A m \in DOMAIN wire.out : m \in DOMAIN wire'.out /\ wire'.out[m] = wire.out[m]
     \/ sidecar'.up = "dead" /\ sidecar.up = "up" /\ wire'.in = <<>>
  /\ sidecar'.up # "up" => sidecar'.ports = {}

LEMMA LosesKeeps ==
  ASSUME SerialInv, Loses
  PROVE  SerialInv'
<1>1. /\ got = {} /\ got' = {} /\ UNCHANGED <<tty, pending, orphan>>
      /\ tally'.opens = tally.opens /\ tally'.off = tally.off /\ tally'.modes = tally.modes
      /\ sidecar'.ports \in SUBSET sidecar.ports /\ Used' = Used /\ Sids' \in SUBSET Sids
      /\ Sids \in SUBSET Used
  BY DEF Loses, Used, Sids, SerialInv, SidecarSound
<1>2. wire'.in = wire.in \/ wire'.in = <<>>
  BY DEF Loses
<1>3. DOMAIN <<>> = {}
  OBVIOUS
<1>4. \A m \in DOMAIN wire'.out :
         \/ m \in DOMAIN wire.out /\ wire'.out[m] = wire.out[m] /\ \A j \in DOMAIN wire.out : j < m => j \in DOMAIN wire'.out
         \/ m \notin DOMAIN wire.out /\ wire'.out[m].n = 0 /\ wire'.out[m].sid \in Sids \ Sids'
  BY DEF Loses
<1>5. \A r \in pending : r.n # 0
  BY DEF SerialInv, WireTyped, Requests
<1>6. SidecarSound'
  BY <1>1 DEF Loses, SerialInv, SidecarSound
<1>7. WireTyped'
  BY <1>1 DEF Loses, SerialInv, WireTyped
<1>8. AnswersSound'
  <2>1. \A a : AnswerSound(a) => AnswerSound(a)'
    BY <1>1 DEF AnswerSound
  <2>2. (\A m \in DOMAIN wire.out :
           IF wire.out[m].n = 0 THEN wire.out[m].sid \in Used \ Sids ELSE AnswerSound(wire.out[m]))'
    <3>1. \A m \in DOMAIN wire'.out :
            \/ wire'.out[m].n = 0 /\ wire'.out[m].sid \in Used \ Sids'
            \/ wire'.out[m].n # 0 /\ AnswerSound(wire'.out[m])
      BY <1>1, <1>4 DEF SerialInv, AnswersSound
    <3> QED
      BY <1>1, <3>1 DEF AnswerSound
  <2>3. \A j \in DOMAIN wire'.in : wire'.in[j].kind = "write" => wire'.in[j].arg \in Used
    BY <1>2, <1>3 DEF SerialInv, AnswersSound
  <2> QED
    BY <1>1, <2>2, <2>3 DEF AnswersSound
<1>9. IdsUnique'
  BY <1>1, <1>2, <1>3, <1>4, <1>5 DEF SerialInv, IdsUnique
<1>10. AttemptsSound' /\ WritesFit' /\ WritesGot'
  BY <1>1 DEF SerialInv, AttemptsSound, WritesFit, WritesGot, AttemptFits, Tries, WriteFits, UnknownFits, Unknown, Smart
<1>11. TtysSound'
  <2>1. \A u \in Ttys : RecordSound(u, tty[u])'
    BY <1>1 DEF SerialInv, TtysSound, RecordSound, Smart
  <2>2. \A u \in Ttys : ShowsItsOwn(tty[u])'
    BY <1>1 DEF SerialInv, TtysSound, ShowsItsOwn
  <2> QED
    BY <2>1, <2>2 DEF TtysSound
<1>12. WritesOut'
  BY <1>1, <1>4, <1>5 DEF SerialInv, WritesOut
<1>13. WritesIn'
  <2>1. SUFFICES ASSUME sidecar'.up = "up" PROVE WritesIn'
    BY DEF WritesIn
  <2>2. /\ sidecar.up = "up" /\ wire'.in = wire.in
        /\ \A m \in DOMAIN wire.out : m \in DOMAIN wire'.out /\ wire'.out[m] = wire.out[m]
    BY <2>1 DEF Loses
  <2>3. \A r : Answered(r) => Answered(r)'
    BY <2>2 DEF Answered
  <2> QED
    BY <1>1, <2>2, <2>3 DEF SerialInv, WritesIn
<1>14. OffIsOff'
  <2>1. SUFFICES ASSUME tally.off PROVE OffIsOff'
    BY <1>1 DEF OffIsOff
  <2>2. sidecar.up = "none" /\ pending = {} /\ wire.in = <<>> /\ wire.out = <<>>
    BY <2>1 DEF SerialInv, OffIsOff
  <2>3. sidecar'.up = "none" /\ wire'.in = <<>> /\ sidecar.ports = {}
    BY <2>2 DEF Loses, SerialInv, SidecarSound
  <2>4. wire'.out = <<>>
    <3>1. Sids = {} /\ DOMAIN wire.out = {} /\ wire'.out \in Seq(Answers \cup Notices)
      BY <1>3, <2>2, <2>3 DEF Sids, Loses
    <3>2. DOMAIN wire'.out = {}
      BY <1>4, <3>1
    <3>3. PICK o : o = wire'.out
      OBVIOUS
    <3>4. o \in Seq(Answers \cup Notices) /\ Len(o) \in Nat /\ DOMAIN o = 1..Len(o)
      BY <3>1, <3>3
    <3>5. Len(o) = 0
      <4>1. PICK n \in Nat : n = Len(o)
        BY <3>4
      <4>2. 1..n = {}
        BY <3>2, <3>3, <3>4, <4>1
      <4>3. n > 0 => 1 \in 1..n
        OBVIOUS
      <4> QED
        BY <4>1, <4>2, <4>3
    <3> QED
      BY <3>3, <3>4, <3>5
  <2> QED
    BY <1>1, <2>2, <2>3, <2>4 DEF OffIsOff
<1>15. PortsKnown'
  <2>1. CASE sidecar'.ports = {}
    BY <2>1 DEF PortsKnown
  <2>2. CASE /\ sidecar'.up = sidecar.up /\ wire'.in = wire.in
             /\ \A m \in DOMAIN wire.out : m \in DOMAIN wire'.out /\ wire'.out[m] = wire.out[m]
    <3>1. \A s : OnItsWay(s) => OnItsWay(s)'
      BY <1>1, <2>2 DEF OnItsWay, Lines
    <3> QED
      BY <1>1, <3>1 DEF SerialInv, PortsKnown
  <2> QED
    BY <2>1, <2>2 DEF Loses
<1> QED
  BY <1>6, <1>7, <1>8, <1>9, <1>10, <1>11, <1>12, <1>13, <1>14, <1>15 DEF SerialInv

LEMMA PlugKeeps ==
  ASSUME SerialInv, Plug
  PROVE  SerialInv'
<1>1. /\ got = {} /\ UNCHANGED <<tty, pending, got, orphan>> /\ Event
  BY DEF Plug, Calm
<1>2. /\ sidecar \in [up : {"none", "up", "dead"}, ports : SUBSET [sid : 1..MaxOpens, path : Ports], plugged : SUBSET Ports]
      /\ (sidecar.up # "up" => sidecar.ports = {})
      /\ wire \in [in : Seq(Requests), out : Seq(Answers \cup Notices)]
  BY DEF SerialInv, SidecarSound, WireTyped
<1>3. /\ tally' \in [opens : 0..MaxOpens, events : Nat, off : BOOLEAN, modes : {u.modes : u \in SerialSetups}]
      /\ tally'.opens = tally.opens /\ tally'.off = tally.off /\ tally'.modes = tally.modes
  BY <1>1, SameTally
<1>4. ASSUME NEW p \in Ports, sidecar' = [sidecar EXCEPT !.plugged = @ \cup {p}], UNCHANGED wire
      PROVE  Loses
  <2>1. /\ sidecar' \in [up : {"none", "up", "dead"}, ports : SUBSET [sid : 1..MaxOpens, path : Ports], plugged : SUBSET Ports]
        /\ sidecar'.up = sidecar.up /\ sidecar'.ports = sidecar.ports
    BY <1>2, <1>4
  <2> QED
    BY <1>1, <1>2, <1>3, <1>4, <2>1 DEF Loses
<1>5. ASSUME NEW p, sidecar' = [sidecar EXCEPT !.plugged = @ \ {p}, !.ports = @ \ Holder(p)]
      PROVE  /\ sidecar' \in [up : {"none", "up", "dead"}, ports : SUBSET [sid : 1..MaxOpens, path : Ports], plugged : SUBSET Ports]
             /\ sidecar'.up = sidecar.up /\ sidecar'.ports = sidecar.ports \ Holder(p)
             /\ (sidecar'.up # "up" => sidecar'.ports = {})
  BY <1>2, <1>5
<1>6. ASSUME NEW p, sidecar' = [sidecar EXCEPT !.plugged = @ \ {p}, !.ports = @ \ Holder(p)], UNCHANGED wire
      PROVE  Loses
  <2>1. sidecar'.ports \in SUBSET sidecar.ports
    BY <1>5, <1>6
  <2> QED
    BY <1>1, <1>2, <1>3, <1>5, <1>6, <2>1 DEF Loses
<1>7. ASSUME NEW p, sidecar' = [sidecar EXCEPT !.plugged = @ \ {p}, !.ports = @ \ Holder(p)],
             NEW q \in Holder(p), wire' = [wire EXCEPT !.out = Append(@, Notice(q.sid))]
      PROVE  Loses
  <2>1. PICK a : a = Notice(q.sid)
    OBVIOUS
  <2>2. q \in sidecar.ports /\ q.sid \in 1..MaxOpens /\ q \notin sidecar'.ports /\ sidecar'.ports \in SUBSET sidecar.ports
    BY <1>2, <1>5, <1>7 DEF Holder
  <2>3. q.sid \in Sids \ Sids'
    BY <2>2 DEF Sids, SerialInv, SidecarSound
  <2>4. a \in Notices /\ a.n = 0 /\ a.sid = q.sid
    BY <2>1, <2>2, SerialAssumption DEF Notice, Notices
  <2>5. PICK o : o = Append(wire.out, a)
    OBVIOUS
  <2>6. /\ o \in Seq(Answers \cup Notices) /\ DOMAIN o = 1..(Len(wire.out) + 1) /\ o[Len(wire.out) + 1] = a
        /\ \A m \in 1..Len(wire.out) : o[m] = wire.out[m]
        /\ Len(wire.out) \in Nat /\ DOMAIN wire.out = 1..Len(wire.out)
    BY <1>2, <2>4, <2>5
  <2>7. wire' \in [in : Seq(Requests), out : Seq(Answers \cup Notices)] /\ wire'.in = wire.in /\ wire'.out = o
    BY <1>2, <1>7, <2>1, <2>5, <2>6
  <2>8. \A m \in DOMAIN wire.out : m \in DOMAIN o /\ o[m] = wire.out[m]
    BY <2>6
  <2>9. \A m \in DOMAIN o : m \notin DOMAIN wire.out => o[m] = a
    BY <2>6
  <2> QED
    BY <1>1, <1>3, <1>5, <1>7, <2>2, <2>3, <2>4, <2>7, <2>8, <2>9 DEF Loses
<1>8. Loses
  BY <1>4, <1>6, <1>7 DEF Plug
<1> QED
  BY <1>8, LosesKeeps

LEMMA SidecarDiesKeeps ==
  ASSUME SerialInv, SidecarDies
  PROVE  SerialInv'
<1>1. /\ got = {} /\ UNCHANGED <<tty, pending, got, orphan>> /\ Event /\ sidecar.up = "up"
      /\ sidecar' = [sidecar EXCEPT !.up = "dead", !.ports = {}]
  BY DEF SidecarDies, Calm
<1>2. PICK k \in 0..Len(wire.out) : wire' = [in |-> <<>>, out |-> SubSeq(wire.out, 1, k)]
  BY DEF SidecarDies
<1>3. /\ sidecar \in [up : {"none", "up", "dead"}, ports : SUBSET [sid : 1..MaxOpens, path : Ports], plugged : SUBSET Ports]
      /\ wire.out \in Seq(Answers \cup Notices) /\ Len(wire.out) \in Nat /\ DOMAIN wire.out = 1..Len(wire.out)
  BY DEF SerialInv, SidecarSound, WireTyped
<1>4. /\ tally' \in [opens : 0..MaxOpens, events : Nat, off : BOOLEAN, modes : {u.modes : u \in SerialSetups}]
      /\ tally'.opens = tally.opens /\ tally'.off = tally.off /\ tally'.modes = tally.modes
  BY <1>1, SameTally
<1>5. /\ sidecar' \in [up : {"none", "up", "dead"}, ports : SUBSET [sid : 1..MaxOpens, path : Ports], plugged : SUBSET Ports]
      /\ sidecar'.up = "dead" /\ sidecar'.ports = {}
  BY <1>1, <1>3
<1>6. PICK o : o = SubSeq(wire.out, 1, k)
  OBVIOUS
<1>7. o \in Seq(Answers \cup Notices) /\ DOMAIN o = 1..k /\ \A m \in 1..k : o[m] = wire.out[m]
  <2>1. k \in Nat /\ k <= Len(wire.out)
    BY <1>3
  <2>2. \A m \in 1..k : wire.out[m] \in Answers \cup Notices
    BY <1>3, <2>1
  <2>3. o = [m \in 1..k |-> wire.out[m]]
    BY <1>3, <1>6, <2>1
  <2>4. o \in [1..k -> Answers \cup Notices]
    BY <2>2, <2>3
  <2> QED
    BY <2>1, <2>3, <2>4, SeqDef
<1>8. wire' \in [in : Seq(Requests), out : Seq(Answers \cup Notices)] /\ wire'.in = <<>> /\ wire'.out = o
  BY <1>2, <1>6, <1>7
<1>9. \A m \in DOMAIN o :
        m \in DOMAIN wire.out /\ o[m] = wire.out[m] /\ \A j \in DOMAIN wire.out : j < m => j \in DOMAIN o
  <2>1. k \in Nat /\ k <= Len(wire.out)
    BY <1>3
  <2> QED
    BY <1>3, <1>7, <2>1
<1>10. Loses
  BY <1>1, <1>4, <1>5, <1>8, <1>9 DEF Loses
<1> QED
  BY <1>10, LosesKeeps

\* The answers with which requests are given up: nobody knows what came of them.
LEMMA GivenUpTyped ==
  ASSUME NEW R \in SUBSET Requests, IsFiniteSet(R), NEW G, G = {Answer(r, FALSE, "error") : r \in R}
  PROVE  /\ G \in SUBSET Answers /\ IsFiniteSet(G)
         /\ \A a \in G : ~a.ok /\ a.val = "error"
         /\ \A a \in G : \E r \in R : a.n = r.n /\ a.t = r.t /\ a.kind = r.kind /\ a.arg = r.arg
<1>1. PICK no \in BOOLEAN : no = FALSE
  OBVIOUS
<1>2. "error" \in Vals
  BY DEF Vals
<1>3. \A r \in R : \E a \in Answers : a = Answer(r, FALSE, "error") /\ ~a.ok /\ a.val = "error"
                     /\ a.n = r.n /\ a.t = r.t /\ a.kind = r.kind /\ a.arg = r.arg
  <2> TAKE r \in R
  <2>1. PICK a : a = Answer(r, no, "error")
    OBVIOUS
  <2>2. a \in Answers /\ (a.ok <=> no) /\ a.val = "error" /\ a.n = r.n /\ a.t = r.t /\ a.kind = r.kind /\ a.arg = r.arg
    BY <1>2, <2>1, AnswerTyped
  <2>3. a = Answer(r, FALSE, "error")
    BY <1>1, <2>1
  <2> QED
    BY <1>1, <2>2, <2>3
<1>4. IsFiniteSet(G)
  <2> DEFINE f == [r \in R |-> Answer(r, FALSE, "error")]
  <2>1. f \in Surjection(R, G)
    BY DEF Surjection
  <2> QED
    BY <2>1, FS_Surjection
<1>5. ASSUME NEW a \in G
      PROVE  /\ a \in Answers /\ ~a.ok /\ a.val = "error"
             /\ \E r \in R : a.n = r.n /\ a.t = r.t /\ a.kind = r.kind /\ a.arg = r.arg
  <2>1. PICK r \in R : a = Answer(r, FALSE, "error")
    BY <1>5
  <2> QED
    BY <1>3, <2>1
<1> QED
  BY <1>4, <1>5

LEMMA SidecarExitKeeps ==
  ASSUME SerialInv, SidecarExit
  PROVE  SerialInv'
<1>1. /\ got = {} /\ UNCHANGED <<tty, orphan, tally>> /\ sidecar.up = "dead" /\ pending' = {}
      /\ got' = {Answer(r, FALSE, "error") : r \in pending}
      /\ wire' = [wire EXCEPT !.in = <<>>] /\ sidecar' = [sidecar EXCEPT !.up = "none"]
  BY DEF SidecarExit, Calm
<1>2. /\ got' \in SUBSET Answers /\ IsFiniteSet(got')
      /\ \A a \in got' : ~a.ok /\ a.val = "error"
      /\ \A a \in got' : \E r \in pending : a.n = r.n /\ a.t = r.t /\ a.kind = r.kind /\ a.arg = r.arg
  <2>1. pending \in SUBSET Requests /\ IsFiniteSet(pending)
    BY DEF SerialInv, WireTyped
  <2>2. PICK G : G = {Answer(r, FALSE, "error") : r \in pending}
    OBVIOUS
  <2>3. /\ G \in SUBSET Answers /\ IsFiniteSet(G)
        /\ \A a \in G : ~a.ok /\ a.val = "error"
        /\ \A a \in G : \E r \in pending : a.n = r.n /\ a.t = r.t /\ a.kind = r.kind /\ a.arg = r.arg
    BY ZenonT(30), <2>1, <2>2, GivenUpTyped
  <2> QED
    BY <1>1, <2>2, <2>3
<1>3. /\ sidecar' \in [up : {"none", "up", "dead"}, ports : SUBSET [sid : 1..MaxOpens, path : Ports], plugged : SUBSET Ports]
      /\ sidecar'.up = "none" /\ sidecar'.ports = {} /\ sidecar.ports = {}
  BY <1>1 DEF SerialInv, SidecarSound
<1>4. wire' \in [in : Seq(Requests), out : Seq(Answers \cup Notices)] /\ wire'.in = <<>> /\ wire'.out = wire.out
  <2>1. wire \in [in : Seq(Requests), out : Seq(Answers \cup Notices)] /\ <<>> \in Seq(Requests)
    BY DEF SerialInv, WireTyped
  <2> QED
    BY <1>1, <2>1
<1>5. DOMAIN <<>> = {} /\ ~tally.off
  BY <1>1 DEF SerialInv, OffIsOff
<1>6. Used' = Used /\ Sids' = Sids
  BY <1>1, <1>3 DEF Used, Sids
<1>7. SidecarSound'
  BY <1>1, <1>3, <1>6 DEF SerialInv, SidecarSound
<1>8. WireTyped'
  <2>1. IsFiniteSet(pending') /\ pending' \in SUBSET Requests
    BY <1>1, FS_EmptySet
  <2> QED
    BY <1>1, <1>2, <1>4, <2>1 DEF SerialInv, WireTyped
<1>9. AnswersSound'
  <2>1. \A a \in got' : a.kind # "close"
    BY <1>2 DEF SerialInv, IdsUnique
  <2>2. \A a \in got' : AnswerSound(a)
    BY <1>2, <2>1 DEF AnswerSound, Unknown
  <2> QED
    BY <1>3, <1>4, <1>5, <1>6, <2>2 DEF SerialInv, AnswersSound, AnswerSound
<1>10. IdsUnique' /\ WritesOut' /\ WritesIn' /\ OffIsOff'
  BY <1>1, <1>3, <1>5 DEF IdsUnique, WritesOut, WritesIn, OffIsOff
<1>11. AttemptsSound'
  <2>1. \A a \in got' : AttemptFits(a, tty[a.t]) /\ (a.kind = "list" => Smart(a.t))
    BY <1>2 DEF SerialInv, AttemptsSound, AttemptFits, Tries
  <2>2. \A a, b \in got' : Tries(a) /\ Tries(b) /\ a.t = b.t => a = b
    <3>1. SUFFICES ASSUME NEW a \in got', NEW b \in got', Tries(a), Tries(b), a.t = b.t PROVE a = b
      OBVIOUS
    <3>2. PICK r \in pending : a = Answer(r, FALSE, "error")
      BY <1>1
    <3>3. PICK s \in pending : b = Answer(s, FALSE, "error")
      BY <1>1
    <3>4. a.t = r.t /\ a.kind = r.kind /\ b.t = s.t /\ b.kind = s.kind
      BY <3>2, <3>3 DEF Answer
    <3>5. r = s
      BY <3>1, <3>4 DEF SerialInv, AttemptsSound, Tries
    <3> QED
      BY <3>2, <3>3, <3>5
  <2> QED
    BY <1>1, <2>1, <2>2 DEF AttemptsSound, AttemptFits, Tries, Smart
<1>12. TtysSound'
  <2>1. \A u \in Ttys : RecordSound(u, tty[u])'
    BY <1>1 DEF SerialInv, TtysSound, RecordSound, Smart
  <2>2. \A u \in Ttys : ShowsItsOwn(tty[u])'
    BY <1>1, <1>3 DEF ShowsItsOwn
  <2> QED
    BY <2>1, <2>2 DEF TtysSound
<1>13. WritesFit' /\ WritesGot'
  BY <1>1, <1>2 DEF WritesFit, WritesGot, UnknownFits, Unknown
<1>14. PortsKnown'
  BY <1>3 DEF PortsKnown
<1> QED
  BY <1>7, <1>8, <1>9, <1>10, <1>11, <1>12, <1>13, <1>14 DEF SerialInv

LEMMA RpcTimeoutKeeps ==
  ASSUME SerialInv, RpcTimeout
  PROVE  SerialInv'
<1>1. got = {} /\ UNCHANGED <<tty, sidecar, wire, orphan>> /\ Event
  BY DEF RpcTimeout, Calm
<1>2. PICK r \in pending : pending' = pending \ {r} /\ got' = {Answer(r, FALSE, "error")}
  BY DEF RpcTimeout
<1>3. PICK a : a = Answer(r, FALSE, "error")
  OBVIOUS
<1>4. got' = {a} /\ pending' \in SUBSET pending /\ r \notin pending'
  BY <1>2, <1>3
<1>5. a \in Answers /\ ~a.ok /\ a.val = "error" /\ a.n = r.n /\ a.t = r.t /\ a.kind = r.kind /\ a.arg = r.arg
  <2>1. r \in Requests
    BY DEF SerialInv, WireTyped
  <2>2. PICK no \in BOOLEAN : no = FALSE
    OBVIOUS
  <2>3. "error" \in Vals /\ a = Answer(r, no, "error")
    BY <1>3, <2>2 DEF Vals
  <2> QED
    BY <2>1, <2>2, <2>3, AnswerTyped
<1>6. /\ tally' \in [opens : 0..MaxOpens, events : Nat, off : BOOLEAN, modes : {u.modes : u \in SerialSetups}]
      /\ tally'.opens = tally.opens /\ tally'.off = tally.off /\ tally'.modes = tally.modes
  BY <1>1, SameTally
<1>7. SidecarSound'
  BY <1>1, <1>4, <1>6 DEF SerialInv, SidecarSound, Used
<1>8. WireTyped'
  <2>1. IsFiniteSet(pending')
    BY <1>4, FS_Subset DEF SerialInv, WireTyped
  <2>2. IsFiniteSet(got')
    BY <1>4, FS_Singleton
  <2> QED
    BY <1>1, <1>4, <1>5, <2>1, <2>2 DEF SerialInv, WireTyped
<1>9. AnswersSound'
  <2>1. AnswerSound(a)
    BY <1>5 DEF AnswerSound, Unknown, SerialInv, IdsUnique
  <2> QED
    BY <1>1, <1>4, <1>6, <2>1 DEF SerialInv, AnswersSound, AnswerSound, Used, Sids, Unknown
<1>10. IdsUnique'
  BY <1>1, <1>4 DEF SerialInv, IdsUnique
<1>11. AttemptsSound'
  <2>1. AttemptFits(a, tty[a.t]) /\ (a.kind = "list" => Smart(a.t))
    BY <1>5 DEF SerialInv, AttemptsSound, AttemptFits, Tries
  <2>2. \A s \in pending' : Tries(s) /\ Tries(a) => s.t # a.t
    BY <1>4, <1>5 DEF SerialInv, AttemptsSound, Tries
  <2>3. \A s \in pending' : AttemptFits(s, tty[s.t]) /\ (s.kind = "list" => Smart(s.t))
    BY <1>4 DEF SerialInv, AttemptsSound
  <2>4. \A s, u \in pending' : Tries(s) /\ Tries(u) /\ s.t = u.t => s = u
    BY <1>4 DEF SerialInv, AttemptsSound
  <2> QED
    BY <1>1, <1>4, <1>6, <2>1, <2>2, <2>3, <2>4 DEF AttemptsSound, AttemptFits, Tries, Smart
<1>12. TtysSound'
  <2>1. \A u \in Ttys : RecordSound(u, tty[u])'
    BY <1>1, <1>6 DEF SerialInv, TtysSound, RecordSound, Smart
  <2>2. \A u \in Ttys : ShowsItsOwn(tty[u])'
    BY <1>1 DEF SerialInv, TtysSound, ShowsItsOwn
  <2> QED
    BY <2>1, <2>2 DEF TtysSound
<1>13. WritesFit'
  BY <1>1, <1>4, <1>5 DEF SerialInv, WritesFit, WriteFits, UnknownFits, Unknown
<1>14. WritesGot'
  <2>1. \A s \in pending', b \in got' : s.kind = "open" /\ b.kind = "write" => b.t # s.t
    <3> TAKE s \in pending', b \in got'
    <3>1. SUFFICES ASSUME s.kind = "open", r.kind = "write", r.t = s.t PROVE FALSE
      BY <1>4, <1>5
    <3>2. tty[s.t].at = "open"
      BY <1>4, <3>1 DEF SerialInv, AttemptsSound, AttemptFits, Tries
    <3>3. tty[r.t].at # "open"
      BY <3>1 DEF SerialInv, WritesFit, WriteFits
    <3> QED
      BY <3>1, <3>2, <3>3
  <2> QED
    BY <1>4, <1>5, <2>1 DEF WritesGot
<1>15. WritesOut' /\ WritesIn'
  BY <1>1, <1>4 DEF SerialInv, WritesOut, WritesIn, Answered
<1>16. OffIsOff'
  BY <1>1, <1>4, <1>5, <1>6 DEF SerialInv, OffIsOff
<1>17. PortsKnown'
  BY <1>1 DEF SerialInv, PortsKnown, OnItsWay
<1> QED
  BY <1>7, <1>8, <1>9, <1>10, <1>11, <1>12, <1>13, <1>14, <1>15, <1>16, <1>17 DEF SerialInv

LEMMA DeactivateKeeps ==
  ASSUME SerialInv, Deactivate
  PROVE  SerialInv'
<1>1. /\ got = {} /\ ~tally.off /\ UNCHANGED orphan /\ pending' = {}
      /\ got' = {Answer(r, FALSE, "error") : r \in pending}
      /\ wire' = [in |-> <<>>, out |-> <<>>] /\ sidecar' = [sidecar EXCEPT !.up = "none", !.ports = {}]
      /\ tally' = [tally EXCEPT !.off = TRUE]
  BY DEF Deactivate, Calm
<1>2. /\ got' \in SUBSET Answers /\ IsFiniteSet(got')
      /\ \A a \in got' : ~a.ok /\ a.val = "error"
      /\ \A a \in got' : \E r \in pending : a.n = r.n /\ a.t = r.t /\ a.kind = r.kind /\ a.arg = r.arg
  <2>1. pending \in SUBSET Requests /\ IsFiniteSet(pending)
    BY DEF SerialInv, WireTyped
  <2>2. PICK G : G = {Answer(r, FALSE, "error") : r \in pending}
    OBVIOUS
  <2>3. /\ G \in SUBSET Answers /\ IsFiniteSet(G)
        /\ \A a \in G : ~a.ok /\ a.val = "error"
        /\ \A a \in G : \E r \in pending : a.n = r.n /\ a.t = r.t /\ a.kind = r.kind /\ a.arg = r.arg
    BY ZenonT(30), <2>1, <2>2, GivenUpTyped
  <2> QED
    BY <1>1, <2>2, <2>3
<1>3. /\ sidecar' \in [up : {"none", "up", "dead"}, ports : SUBSET [sid : 1..MaxOpens, path : Ports], plugged : SUBSET Ports]
      /\ sidecar'.up = "none" /\ sidecar'.ports = {}
  BY <1>1 DEF SerialInv, SidecarSound
<1>4. /\ tally' \in [opens : 0..MaxOpens, events : Nat, off : BOOLEAN, modes : {u.modes : u \in SerialSetups}]
      /\ tally'.opens = tally.opens /\ tally'.off /\ tally'.modes = tally.modes
  BY <1>1 DEF SerialInv, SidecarSound
<1>5. DOMAIN <<>> = {} /\ <<>> \in Seq(Requests) /\ <<>> \in Seq(Answers \cup Notices)
  OBVIOUS
<1>6. wire' \in [in : Seq(Requests), out : Seq(Answers \cup Notices)] /\ wire'.in = <<>> /\ wire'.out = <<>>
  BY <1>1, <1>5
<1>7. ASSUME NEW t \in Ttys
      PROVE  /\ tty'[t] \in TtyRecords /\ tty'[t].st = tty[t].st /\ tty'[t].at = tty[t].at
             /\ (tty'[t].end = "stopped" \/ tty'[t].aim = tty[t].aim)
             /\ tty'[t].st = "live" => /\ tty'[t].sid = 0
                                       /\ (Smart(t) => tty'[t].end = "stopped" /\ ~tty'[t].poll)
                                       /\ (~Smart(t) => tty'[t].end = "disconnected" /\ tty'[t].poll = tty[t].poll)
             /\ tty'[t].st # "live" => tty'[t] = tty[t]
  <2>1. tty[t] \in TtyRecords /\ RecordSound(t, tty[t])
    BY TtyNow
  <2>2. tty'[t] = IF ~TtyLive(t) THEN tty[t]
                  ELSE IF Smart(t) THEN [Delisted(EnterStopped(tty[t])) EXCEPT !.at = tty[t].at]
                  ELSE [Delisted(tty[t]) EXCEPT !.end = "disconnected", !.sid = 0]
    BY DEF Deactivate
  <2>3. CASE ~TtyLive(t)
    BY <2>1, <2>2, <2>3 DEF TtyLive
  <2>4. CASE TtyLive(t) /\ Smart(t)
    <3>1. PICK y : y = EnterStopped(tty[t])
      OBVIOUS
    <3>2. /\ y \in TtyRecords /\ y.end = "stopped" /\ ~y.poll /\ y.sid = 0 /\ y.st = tty[t].st
      BY <2>1, <3>1, EnterStoppedKeeps DEF RecordSound
    <3>3. tty'[t] = [Delisted(y) EXCEPT !.at = tty[t].at]
      BY <2>2, <2>4, <3>1
    <3> QED
      BY <2>1, <2>4, <3>2, <3>3 DEF Delisted, TtyRecords, TtyFields, TtyLive
  <2>5. CASE TtyLive(t) /\ ~Smart(t)
    <3>1. tty'[t] = [Delisted(tty[t]) EXCEPT !.end = "disconnected", !.sid = 0] /\ 0 \in 0..MaxOpens
      BY <2>2, <2>5, SerialAssumption
    <3> QED
      BY <2>1, <2>5, <3>1 DEF Delisted, TtyRecords, TtyFields, TtyLive
  <2> QED
    BY <2>3, <2>4, <2>5
<1>8. SidecarSound'
  BY <1>1, <1>3, <1>4 DEF SidecarSound
<1>9. WireTyped'
  <2>1. IsFiniteSet(pending') /\ pending' \in SUBSET Requests
    BY <1>1, FS_EmptySet
  <2>2. tty' \in [Ttys -> TtyRecords]
    <3>1. tty' = [t \in Ttys |-> tty'[t]]
      BY DEF Deactivate
    <3> QED
      BY <1>7, <3>1
  <2> QED
    BY <1>2, <1>6, <2>1, <2>2 DEF WireTyped
<1>10. AnswersSound'
  <2>1. \A a \in got' : a.kind # "close"
    BY <1>2 DEF SerialInv, IdsUnique
  <2>2. (\A a \in got : AnswerSound(a))'
    BY <1>2, <2>1 DEF AnswerSound, Unknown
  <2> QED
    BY <1>5, <1>6, <2>2 DEF AnswersSound
<1>11. IdsUnique' /\ WritesOut' /\ WritesIn' /\ OffIsOff'
  BY <1>1, <1>2, <1>3, <1>5, <1>6 DEF IdsUnique, WritesOut, WritesIn, OffIsOff
<1>12. \A a \in got' : a.t \in Ttys
  BY <1>2 DEF Answers
<1>13. AttemptsSound'
  <2>1. ASSUME NEW a \in got'
        PROVE  AttemptFits(a, tty'[a.t]) /\ (a.kind = "list" => Smart(a.t))
    <3>1. PICK r \in pending : a.t = r.t /\ a.kind = r.kind /\ a.arg = r.arg
      BY <1>2
    <3>2. AttemptFits(r, tty[r.t]) /\ (r.kind = "list" => Smart(r.t)) /\ a.t \in Ttys
      BY <1>12, <3>1 DEF SerialInv, AttemptsSound
    <3>3. RecordSound(a.t, tty[a.t])
      BY <3>2, TtyNow
    <3>4. r.kind = "open" /\ tty[a.t].st = "live" => tty[a.t].end # "stopped"
      BY <1>1, <3>1, <3>2, <3>3 DEF RecordSound, AttemptFits, Tries
    <3>5. r.kind = "open" /\ tty'[a.t].st = "live" /\ tty'[a.t].end # "stopped" => tty'[a.t].aim = a.arg
      BY <1>7, <3>1, <3>2, <3>4 DEF AttemptFits
    <3> QED
      BY <1>7, <3>1, <3>2, <3>5 DEF AttemptFits, Tries
  <2>2. \A a, b \in got' : Tries(a) /\ Tries(b) /\ a.t = b.t => a = b
    <3>1. SUFFICES ASSUME NEW a \in got', NEW b \in got', Tries(a), Tries(b), a.t = b.t PROVE a = b
      OBVIOUS
    <3>2. PICK r \in pending : a = Answer(r, FALSE, "error")
      BY <1>1
    <3>3. PICK s \in pending : b = Answer(s, FALSE, "error")
      BY <1>1
    <3>4. a.t = r.t /\ a.kind = r.kind /\ b.t = s.t /\ b.kind = s.kind
      BY <3>2, <3>3 DEF Answer
    <3>5. r = s
      BY <3>1, <3>4 DEF SerialInv, AttemptsSound, Tries
    <3> QED
      BY <3>2, <3>3, <3>5
  <2> QED
    BY <1>1, <1>4, <2>1, <2>2 DEF AttemptsSound, AttemptFits, Tries, Smart
<1>14. TtysSound'
  <2>1. tally.opens \in Nat
    BY SerialAssumption DEF SerialInv, SidecarSound
  <2>2. ASSUME NEW t \in Ttys PROVE RecordSound(t, tty[t])'
    <3>1. RecordSound(t, tty[t])
      BY TtyNow
    <3>2. CASE tty'[t].st = "live"
      BY <1>1, <1>4, <1>7, <2>1, <3>1, <3>2 DEF RecordSound, Smart
    <3>3. CASE tty'[t].st # "live"
      BY <1>1, <1>4, <1>7, <2>1, <3>1, <3>3 DEF RecordSound, Smart
    <3> QED
      BY <3>2, <3>3
  <2>3. \A t \in Ttys : ShowsItsOwn(tty[t])'
    BY <1>3 DEF ShowsItsOwn
  <2> QED
    BY <2>2, <2>3 DEF TtysSound
<1>15. WritesFit' /\ WritesGot'
  BY <1>1, <1>2 DEF WritesFit, WritesGot, UnknownFits, Unknown
<1>16. PortsKnown'
  BY <1>3 DEF PortsKnown
<1> QED
  BY <1>8, <1>9, <1>10, <1>11, <1>13, <1>14, <1>15, <1>16 DEF SerialInv

LEMMA TailHas ==
  ASSUME NEW S, NEW q \in Seq(S), q # <<>>, NEW f, f = Tail(q)
  PROVE  /\ f \in Seq(S) /\ 1 \in DOMAIN q /\ Head(q) = q[1]
         /\ \A k \in DOMAIN f : k + 1 \in DOMAIN q /\ f[k] = q[k + 1] /\ k \in Nat /\ k + 1 # 1
         /\ \A k \in DOMAIN q : k = 1 \/ (k - 1 \in DOMAIN f /\ f[k - 1] = q[k] /\ k \in Nat)
<1>1. f \in Seq(S) /\ Len(f) \in Nat /\ Len(q) = Len(f) + 1 /\ DOMAIN f = 1..Len(f) /\ DOMAIN q = 1..Len(q) /\ Head(q) = q[1]
  OBVIOUS
<1>2. \A k \in 1..Len(f) : f[k] = q[k + 1]
  BY <1>1
<1>3. 1 \in DOMAIN q
  BY <1>1
<1>4. \A k \in DOMAIN f : k + 1 \in DOMAIN q /\ f[k] = q[k + 1] /\ k \in Nat /\ k + 1 # 1
  BY <1>1, <1>2
<1>5. ASSUME NEW k \in DOMAIN q, k # 1 PROVE k - 1 \in DOMAIN f /\ f[k - 1] = q[k] /\ k \in Nat
  <2>1. k \in Nat /\ k - 1 \in 1..Len(f) /\ (k - 1) + 1 = k
    BY <1>1, <1>5
  <2> QED
    BY <1>1, <1>2, <2>1
<1> QED
  BY <1>1, <1>3, <1>4, <1>5

\* What any line does that is taken from the sidecar.
Taking(msg) ==
  /\ wire.out # <<>> /\ msg = wire.out[1] /\ sidecar.up # "none"
  /\ wire' \in [in : Seq(Requests), out : Seq(Answers \cup Notices)]
  /\ wire'.in = wire.in /\ UNCHANGED <<sidecar, tally>>
  /\ 1 \in DOMAIN wire.out
  /\ \A k \in DOMAIN wire'.out : k + 1 \in DOMAIN wire.out /\ wire'.out[k] = wire.out[k + 1] /\ k \in Nat
  /\ \A k \in DOMAIN wire.out : k = 1 \/ (k - 1 \in DOMAIN wire'.out /\ wire'.out[k - 1] = wire.out[k] /\ k \in Nat)
  /\ pending' \in SUBSET pending /\ \A r \in pending' : r.n # msg.n
  /\ got' = got \/ (msg.n # 0 /\ got' = got \cup {msg})

LEMMA TakingKeeps ==
  ASSUME SerialInv, NEW msg, Taking(msg)
  PROVE  SidecarSound' /\ AnswersSound' /\ IdsUnique' /\ WritesOut' /\ WritesIn' /\ OffIsOff'
<1>1. /\ UNCHANGED <<sidecar, tally>> /\ wire'.in = wire.in /\ pending' \in SUBSET pending /\ 1 \in DOMAIN wire.out
      /\ msg = wire.out[1] /\ \A r \in pending' : r.n # msg.n
  BY DEF Taking
<1>2. /\ \A k \in DOMAIN wire'.out : k + 1 \in DOMAIN wire.out /\ wire'.out[k] = wire.out[k + 1] /\ k \in Nat
      /\ \A k \in DOMAIN wire.out : k = 1 \/ (k - 1 \in DOMAIN wire'.out /\ wire'.out[k - 1] = wire.out[k] /\ k \in Nat)
  BY DEF Taking
<1>3. SidecarSound'
  BY <1>1 DEF SerialInv, SidecarSound, Used
<1>4. AnswersSound'
  <2>1. \A a \in got' : AnswerSound(a)
    BY <1>1 DEF Taking, SerialInv, AnswersSound
  <2>2. \A k \in DOMAIN wire'.out : IF wire'.out[k].n = 0 THEN wire'.out[k].sid \in Used \ Sids ELSE AnswerSound(wire'.out[k])
    BY <1>2 DEF SerialInv, AnswersSound
  <2>3. (\A k \in DOMAIN wire.out : IF wire.out[k].n = 0 THEN wire.out[k].sid \in Used \ Sids ELSE AnswerSound(wire.out[k]))'
    BY <1>1, <2>2 DEF AnswerSound, Used, Sids, Unknown
  <2>4. (\A a \in got : AnswerSound(a))'
    BY <1>1, <2>1 DEF AnswerSound, Used, Sids, Unknown
  <2> QED
    BY <1>1, <2>3, <2>4 DEF SerialInv, AnswersSound, Used
<1>5. IdsUnique'
  BY <1>1, <1>2 DEF SerialInv, IdsUnique
<1>6. WritesOut'
  <2>1. SUFFICES ASSUME NEW r \in pending', NEW w \in pending', NEW k \in DOMAIN wire'.out,
                        r.kind = "list", wire'.out[k].n = r.n, w.kind = "write", w.t = r.t
                 PROVE  \E j \in DOMAIN wire'.out : j < k /\ wire'.out[j].n = w.n
    BY DEF WritesOut
  <2>2. k + 1 \in DOMAIN wire.out /\ wire.out[k + 1].n = r.n /\ k \in Nat
    BY <1>2, <2>1
  <2>3. PICK i \in DOMAIN wire.out : i < k + 1 /\ wire.out[i].n = w.n
    BY <1>1, <2>1, <2>2 DEF SerialInv, WritesOut
  <2>4. i # 1
    BY <1>1, <2>3
  <2>5. i - 1 \in DOMAIN wire'.out /\ wire'.out[i - 1].n = w.n /\ i \in Nat
    BY <1>2, <2>3, <2>4
  <2>6. i - 1 < k
    BY <2>2, <2>3, <2>5
  <2> QED
    BY <2>5, <2>6
<1>7. WritesIn'
  <2>1. \A r \in pending' : Answered(r) => Answered(r)'
    BY <1>1, <1>2 DEF Answered
  <2> QED
    BY <1>1, <2>1 DEF SerialInv, WritesIn
<1>8. OffIsOff'
  BY <1>1 DEF Taking, OffIsOff, SerialInv
<1> QED
  BY <1>3, <1>4, <1>5, <1>6, <1>7, <1>8

LEMMA TakingPorts ==
  ASSUME SerialInv, NEW msg, Taking(msg),
         \A q \in sidecar.ports : msg.kind = "open" /\ msg.ok /\ msg.val = q.sid => got' = got \cup {msg} \/ q.sid \in orphan',
         orphan \in SUBSET orphan', \A q \in sidecar.ports, t \in Ttys : tty[t].sid = q.sid => tty'[t].sid = q.sid
  PROVE  PortsKnown'
<1>1. /\ sidecar' = sidecar /\ wire'.in = wire.in /\ got \in SUBSET got' /\ msg = wire.out[1]
      /\ \A k \in DOMAIN wire.out : k = 1 \/ (k - 1 \in DOMAIN wire'.out /\ wire'.out[k - 1] = wire.out[k])
  BY DEF Taking
<1>2. \A q \in sidecar.ports : OnItsWay(q.sid) => q.sid \in orphan' \/ OnItsWay(q.sid)'
  <2> TAKE q \in sidecar.ports
  <2>1. CASE \E a \in got : a.kind = "open" /\ a.ok /\ a.val = q.sid
    BY <1>1, <2>1 DEF OnItsWay
  <2>2. CASE \E r \in Lines(wire.in) : r.kind = "close" /\ r.arg = q.sid
    BY <1>1, <2>2 DEF OnItsWay
  <2>3. ASSUME NEW k \in DOMAIN wire.out, wire.out[k].kind = "open", wire.out[k].ok, wire.out[k].val = q.sid
        PROVE  q.sid \in orphan' \/ OnItsWay(q.sid)'
    <3>1. CASE k = 1
      BY <1>1, <2>3, <3>1 DEF OnItsWay
    <3>2. CASE k # 1
      BY <1>1, <2>3, <3>2 DEF OnItsWay, Lines
    <3> QED
      BY <3>1, <3>2
  <2> QED
    BY <2>1, <2>2, <2>3 DEF OnItsWay, Lines
<1> QED
  BY <1>1, <1>2 DEF SerialInv, PortsKnown

LEMMA NoticeKeeps ==
  ASSUME SerialInv, NEW msg, Taking(msg), msg.n = 0, UNCHANGED <<pending, got, orphan>>,
         tty' = [t \in Ttys |-> IF TtyLive(t) /\ About(t, msg.sid) THEN Disconnected(t) ELSE tty[t]]
  PROVE  SerialInv'
<1>1. msg.sid \in Used \ Sids /\ msg \in Notices
  <2>1. wire.out \in Seq(Answers \cup Notices) /\ 1 \in DOMAIN wire.out /\ msg = wire.out[1]
    BY DEF Taking, SerialInv, WireTyped
  <2>2. msg \in Answers \cup Notices
    BY <2>1
  <2>3. msg.sid \in Used \ Sids
    BY <2>1 DEF SerialInv, AnswersSound
  <2> QED
    BY <2>2, <2>3 DEF Answers
<1>2. ASSUME NEW t \in Ttys
      PROVE  /\ tty'[t] \in TtyRecords /\ tty'[t].st = tty[t].st /\ tty'[t].at = tty[t].at /\ tty'[t].aim = tty[t].aim
             /\ (tty'[t].sid = 0 /\ tty[t].sid = msg.sid) \/ tty'[t].sid = tty[t].sid
             /\ tty'[t].end = "stopped" <=> tty[t].end = "stopped"
             /\ RecordSound(t, tty'[t]) /\ ShowsItsOwn(tty'[t])
  <2>1. CASE TtyLive(t) /\ About(t, msg.sid)
    <3>1. PICK x : x = Disconnected(t)
      OBVIOUS
    <3>2. /\ x \in TtyRecords /\ x.st = tty[t].st /\ x.at = tty[t].at /\ x.aim = tty[t].aim
          /\ x.sid = 0 \/ x.sid = tty[t].sid
          /\ x.end = "stopped" <=> tty[t].end = "stopped"
          /\ RecordSound(t, x) /\ ShowsItsOwn(x)
      BY <2>1, <3>1, DisconnectedKeeps
    <3>3. tty'[t] = x /\ tty[t].sid = msg.sid
      BY <2>1, <3>1 DEF About
    <3> QED
      BY <3>2, <3>3
  <2>2. CASE ~(TtyLive(t) /\ About(t, msg.sid))
    BY <2>2, TtyNow
  <2> QED
    BY <2>1, <2>2
<1>3. tty' \in [Ttys -> TtyRecords]
  <2>1. tty' = [t \in Ttys |-> tty'[t]]
    OBVIOUS
  <2> QED
    BY <1>2, <2>1
<1>4. UNCHANGED <<sidecar, tally>>
  BY DEF Taking
<1>5. \A r \in pending \cup got : r.t \in Ttys
  BY DEF SerialInv, WireTyped, Requests, Answers
<1>6. WireTyped'
  BY <1>3 DEF SerialInv, WireTyped, Taking
<1>7. TtysSound'
  <2>1. \A t \in Ttys : RecordSound(t, tty[t])'
    BY <1>2, <1>4 DEF RecordSound, Smart
  <2>2. \A t \in Ttys : ShowsItsOwn(tty[t])'
    BY <1>2, <1>4 DEF ShowsItsOwn
  <2> QED
    BY <2>1, <2>2 DEF TtysSound
<1>8. AttemptsSound'
  <2>1. \A r \in pending \cup got : AttemptFits(r, tty'[r.t])
    BY <1>2, <1>5 DEF SerialInv, AttemptsSound, AttemptFits, Tries
  <2> QED
    BY <1>4, <2>1 DEF SerialInv, AttemptsSound, AttemptFits, Tries, Smart
<1>9. WritesFit'
  <2>1. \A w \in pending : WriteFits(w, tty'[w.t])
    BY <1>2, <1>5 DEF SerialInv, WritesFit, WriteFits
  <2>2. \A a \in got : UnknownFits(a, tty'[a.t])
    BY <1>2, <1>5 DEF SerialInv, WritesFit, UnknownFits
  <2> QED
    BY <2>1, <2>2 DEF WritesFit, WriteFits, UnknownFits, Unknown
<1>10. WritesGot'
  <2>1. \A r \in pending : Answered(r)' => Answered(r)
    BY DEF Taking, Answered
  <2> QED
    BY <2>1 DEF SerialInv, WritesGot
<1>11. PortsKnown'
  <2>1. \A q \in sidecar.ports, t \in Ttys : tty[t].sid = q.sid => tty'[t].sid = q.sid
    BY <1>1, <1>2 DEF Sids
  <2>2. msg.kind # "open"
    BY <1>1 DEF Notices
  <2> QED
    BY <2>1, <2>2, TakingPorts
<1> QED
  BY <1>6, <1>7, <1>8, <1>9, <1>10, <1>11, TakingKeeps DEF SerialInv

LEMMA DroppedKeeps ==
  ASSUME SerialInv, NEW msg, Taking(msg), msg.n # 0, UNCHANGED <<tty, pending, got>>,
         orphan' = IF msg.kind = "open" /\ msg.ok THEN orphan \cup {msg.val} ELSE orphan
  PROVE  SerialInv'
<1>1. UNCHANGED <<sidecar, tally>>
  BY DEF Taking
<1>2. WireTyped'
  BY DEF SerialInv, WireTyped, Taking
<1>3. TtysSound'
  BY <1>1 DEF SerialInv, TtysSound, RecordSound, ShowsItsOwn, Smart
<1>4. AttemptsSound' /\ WritesFit'
  BY <1>1 DEF SerialInv, AttemptsSound, AttemptFits, Tries, Smart, WritesFit, WriteFits, UnknownFits, Unknown
<1>5. WritesGot'
  <2>1. \A r \in pending : Answered(r)' => Answered(r)
    BY DEF Taking, Answered
  <2> QED
    BY <2>1 DEF SerialInv, WritesGot
<1>6. PortsKnown'
  BY TakingPorts
<1> QED
  BY <1>2, <1>3, <1>4, <1>5, <1>6, TakingKeeps DEF SerialInv

LEMMA ResolvedKeeps ==
  ASSUME SerialInv, NEW msg, Taking(msg), msg.n # 0, UNCHANGED <<tty, orphan>>,
         NEW r \in pending, r.n = msg.n, pending' = pending \ {r}, got' = got \cup {msg}
  PROVE  SerialInv'
<1>1. UNCHANGED <<sidecar, tally>> /\ 1 \in DOMAIN wire.out /\ msg = wire.out[1]
  BY DEF Taking
<1>2. msg \in Answers /\ msg.t = r.t /\ msg.kind = r.kind /\ msg.arg = r.arg
  <2>1. wire.out \in Seq(Answers \cup Notices)
    BY DEF SerialInv, WireTyped
  <2>2. msg \in Answers \cup Notices
    BY <1>1, <2>1
  <2> QED
    BY <1>1, <2>2 DEF Notices, SerialInv, IdsUnique
<1>3. Answered(r)
  BY <1>1 DEF Answered
<1>4. \A s \in pending : Answered(s)' => Answered(s)
  BY DEF Taking, Answered
<1>5. WireTyped'
  <2>1. IsFiniteSet(got')
    BY FS_AddElement DEF SerialInv, WireTyped
  <2>2. IsFiniteSet(pending')
    BY FS_Subset DEF SerialInv, WireTyped
  <2> QED
    BY <1>2, <2>1, <2>2 DEF SerialInv, WireTyped, Taking
<1>6. TtysSound'
  BY <1>1 DEF SerialInv, TtysSound, RecordSound, ShowsItsOwn, Smart
<1>7. AttemptsSound'
  <2>1. \A s \in pending' \cup got' : AttemptFits(s, tty[s.t]) /\ (s.kind = "list" => Smart(s.t))
    BY <1>2 DEF SerialInv, AttemptsSound, AttemptFits, Tries
  <2>2. \A s, u \in got' : Tries(s) /\ Tries(u) /\ s.t = u.t => s = u
    BY <1>2 DEF SerialInv, AttemptsSound, Tries
  <2>3. \A s \in pending', u \in got' : Tries(s) /\ Tries(u) => s.t # u.t
    BY <1>2 DEF SerialInv, AttemptsSound, Tries
  <2>4. \A s, u \in pending' : Tries(s) /\ Tries(u) /\ s.t = u.t => s = u
    BY DEF SerialInv, AttemptsSound
  <2> QED
    BY <1>1, <2>1, <2>2, <2>3, <2>4 DEF AttemptsSound, AttemptFits, Tries, Smart
<1>8. WritesFit'
  <2>1. UnknownFits(msg, tty[msg.t])
    BY <1>2 DEF SerialInv, WritesFit, WriteFits, UnknownFits, Unknown
  <2> QED
    BY <2>1 DEF SerialInv, WritesFit, WriteFits, UnknownFits, Unknown
<1>9. \A s, w \in pending \cup got : s.kind = "open" /\ w \in pending /\ w.kind = "write" => s.t # w.t
  BY DEF SerialInv, AttemptsSound, AttemptFits, Tries, WritesFit, WriteFits
<1>10. WritesGot'
  <2>1. \A a \in got', w \in pending' : a.kind = "list" /\ a.ok /\ w.kind = "write" => w.t # a.t
    <3>1. ASSUME NEW w \in pending', r.kind = "list", w.kind = "write", w.t = r.t PROVE FALSE
      <4>1. PICK j \in DOMAIN wire.out : j < 1
        BY <1>1, <3>1 DEF SerialInv, WritesOut
      <4>2. j = 1 \/ (j - 1 \in DOMAIN wire'.out /\ j \in Nat)
        BY <4>1 DEF Taking
      <4>3. \A k \in DOMAIN wire'.out : k \in Nat
        BY DEF Taking
      <4> QED
        BY <4>1, <4>2, <4>3
    <3> QED
      BY <1>2, <3>1 DEF SerialInv, WritesGot
  <2>2. \A a, b \in got' : a.kind = "open" /\ a.ok /\ b.kind = "write" => a.t # b.t
    <3>1. \A b \in got : r.kind = "open" /\ b.kind = "write" => b.t # r.t
      BY <1>3 DEF SerialInv, WritesGot
    <3>2. \A a \in got : a.kind = "open" /\ r.kind = "write" => a.t # r.t
      BY <1>9
    <3> QED
      BY <1>2, <3>1, <3>2 DEF SerialInv, WritesGot
  <2>3. \A s \in pending', b \in got' : s.kind = "open" /\ Answered(s)' /\ b.kind = "write" => b.t # s.t
    <3>1. \A s \in pending' : s.kind = "open" /\ r.kind = "write" => r.t # s.t
      BY <1>9
    <3> QED
      BY <1>2, <1>4, <3>1 DEF SerialInv, WritesGot
  <2> QED
    BY <2>1, <2>2, <2>3 DEF WritesGot
<1>11. PortsKnown'
  BY TakingPorts
<1> QED
  BY <1>5, <1>6, <1>7, <1>8, <1>10, <1>11, TakingKeeps DEF SerialInv

LEMMA DeliverKeeps ==
  ASSUME SerialInv, Deliver
  PROVE  SerialInv'
<1>1. PICK msg : msg = Head(wire.out)
  OBVIOUS
<1>2. PICK o : o = Tail(wire.out)
  OBVIOUS
<1>3. /\ wire.out # <<>> /\ sidecar.up # "none" /\ UNCHANGED <<sidecar, tally>> /\ wire' = [wire EXCEPT !.out = o]
  BY <1>2 DEF Deliver
<1>4. /\ wire \in [in : Seq(Requests), out : Seq(Answers \cup Notices)] /\ wire.out \in Seq(Answers \cup Notices)
  BY DEF SerialInv, WireTyped
<1>5. /\ o \in Seq(Answers \cup Notices) /\ 1 \in DOMAIN wire.out /\ msg = wire.out[1]
      /\ \A k \in DOMAIN o : k + 1 \in DOMAIN wire.out /\ o[k] = wire.out[k + 1] /\ k \in Nat
      /\ \A k \in DOMAIN wire.out : k = 1 \/ (k - 1 \in DOMAIN o /\ o[k - 1] = wire.out[k] /\ k \in Nat)
  BY <1>1, <1>2, <1>3, <1>4, TailHas
<1>6. wire' \in [in : Seq(Requests), out : Seq(Answers \cup Notices)] /\ wire'.in = wire.in /\ wire'.out = o
  BY <1>3, <1>4, <1>5
<1>7. ASSUME pending' \in SUBSET pending, \A r \in pending' : r.n # msg.n,
             got' = got \/ (msg.n # 0 /\ got' = got \cup {msg})
      PROVE  Taking(msg)
  BY <1>3, <1>5, <1>6, <1>7 DEF Taking
<1>8. \A r \in pending : r.n # 0
  BY DEF SerialInv, WireTyped, Requests
<1>9. ASSUME msg.n = 0, UNCHANGED <<pending, got, orphan>>,
             tty' = [t \in Ttys |-> IF TtyLive(t) /\ About(t, msg.sid) THEN Disconnected(t) ELSE tty[t]]
      PROVE  SerialInv'
  BY <1>7, <1>8, <1>9, NoticeKeeps
<1>10. ASSUME msg.n # 0, NEW r \in pending, r.n = msg.n, pending' = pending \ {r}, got' = got \cup {msg}, UNCHANGED <<orphan, tty>>
       PROVE  SerialInv'
  <2>1. \A s \in pending' : s.n # msg.n
    BY <1>10 DEF SerialInv, IdsUnique
  <2>2. Taking(msg)
    BY <1>7, <1>10, <2>1
  <2> QED
    BY <1>10, <2>2, ResolvedKeeps
<1>11. ASSUME msg.n # 0, \A r \in pending : r.n # msg.n, UNCHANGED <<pending, got, tty>>,
              orphan' = IF msg.kind = "open" /\ msg.ok THEN orphan \cup {msg.val} ELSE orphan
       PROVE  SerialInv'
  BY <1>7, <1>11, DroppedKeeps
<1> QED
  BY <1>1, <1>9, <1>10, <1>11 DEF Deliver

LEMMA SerialInvInit == SerialInit => SerialInv
<1> SUFFICES ASSUME SerialInit PROVE SerialInv
  OBVIOUS
<1>1. /\ tty = [t \in Ttys |-> NewTty] /\ sidecar = [up |-> "none", ports |-> {}, plugged |-> Ports]
      /\ wire = [in |-> <<>>, out |-> <<>>] /\ pending = {} /\ got = {}
  BY DEF SerialInit
<1>2. tally \in [opens : 0..MaxOpens, events : Nat, off : BOOLEAN, modes : {u.modes : u \in SerialSetups}] /\ ~tally.off /\ tally.opens = 0
  <2>1. PICK u \in SerialSetups : tally = [opens |-> 0, events |-> u.events, off |-> FALSE, modes |-> u.modes]
    BY DEF SerialInit
  <2>2. u.events \in Nat /\ 0 \in 0..MaxOpens
    BY SerialAssumption
  <2> QED
    BY <2>1, <2>2
<1>3. SidecarSound
  BY <1>1, <1>2 DEF SidecarSound
<1>4. NewTty \in TtyRecords /\ NewTty.st = "none" /\ NewTty.sid = 0 /\ NewTty.at = "idle" /\ NewTty.end = "no" /\ ~NewTty.poll
  <2>1. 0 \in 0..MaxOpens /\ <<>> \in AskedKeys
    BY SerialAssumption DEF AskedKeys
  <2> QED
    BY <2>1 DEF NewTty, TtyRecords, TtyFields
<1>5. DOMAIN <<>> = {} /\ <<>> \in Seq(Requests) /\ <<>> \in Seq(Answers \cup Notices) /\ IsFiniteSet({})
  BY FS_EmptySet
<1>6. WireTyped
  BY <1>1, <1>4, <1>5 DEF WireTyped
<1>7. AnswersSound /\ IdsUnique /\ AttemptsSound /\ WritesFit /\ WritesGot /\ WritesOut /\ WritesIn /\ OffIsOff /\ PortsKnown
  BY <1>1, <1>2, <1>5 DEF AnswersSound, IdsUnique, AttemptsSound, WritesFit, WritesGot, WritesOut, WritesIn, OffIsOff, PortsKnown
<1>8. TtysSound
  BY <1>1, <1>2, <1>4 DEF TtysSound, RecordSound, ShowsItsOwn
<1> QED
  BY <1>3, <1>6, <1>7, <1>8 DEF SerialInv

LEMMA SerialInvNext == SerialInv /\ [SerialNext]_serialVars => SerialInv'
<1> SUFFICES ASSUME SerialInv, [SerialNext]_serialVars PROVE SerialInv'
  OBVIOUS
<1>1. CASE UNCHANGED serialVars
  BY <1>1 DEF serialVars, SerialInv, SidecarSound, WireTyped, AnswersSound, AnswerSound, IdsUnique, AttemptsSound, AttemptFits,
              Tries, TtysSound, RecordSound, ShowsItsOwn, WritesFit, WriteFits, UnknownFits, Unknown, WritesGot, WritesOut,
              WritesIn, Answered, OffIsOff, PortsKnown, OnItsWay, Used, Sids, Smart
<1>2. ASSUME NEW k \in DOMAIN wire.in, SidecarServes(k) PROVE SerialInv'
  BY <1>2, SidecarServesKeeps
<1>3. ASSUME NEW k \in DOMAIN wire.in, SidecarRefuses(k) PROVE SerialInv'
  BY <1>3, SidecarRefusesKeeps
<1>4. CASE Plug
  BY <1>4, PlugKeeps
<1>5. CASE SidecarDies
  BY <1>5, SidecarDiesKeeps
<1>6. CASE SidecarExit
  BY <1>6, SidecarExitKeeps
<1>7. CASE RpcTimeout
  BY <1>7, RpcTimeoutKeeps
<1>8. CASE Deactivate
  BY <1>8, DeactivateKeeps
<1>9. CASE Deliver
  BY <1>9, DeliverKeeps
<1>10. ASSUME NEW t \in Ttys, OpenStandard(t) PROVE SerialInv'
  BY <1>10, OpenStandardKeeps
<1>11. ASSUME NEW t \in Ttys, OpenSmart(t) PROVE SerialInv'
  BY <1>11, OpenSmartKeeps
<1>12. ASSUME NEW t \in Ttys, RemoveProfile(t) \/ DisconnectTerminal(t) PROVE SerialInv'
  BY <1>12, RemoveProfileKeeps, DisconnectTerminalKeeps
<1>13. ASSUME NEW t \in Ttys, PollTick(t) PROVE SerialInv'
  BY <1>13, PollTickKeeps
<1>14. ASSUME NEW t \in Ttys, Type(t) PROVE SerialInv'
  BY <1>14, TypeKeeps
<1>15. ASSUME NEW t \in Ttys, CloseTerminal(t) PROVE SerialInv'
  BY <1>15, CloseTerminalKeeps
<1>16. ASSUME NEW t \in Ttys, PickPort(t) PROVE SerialInv'
  BY <1>16, PickPortKeeps
<1>17. ASSUME NEW t \in Ttys, ProfileSaved(t) PROVE SerialInv'
  BY <1>17, ProfileSavedKeeps
<1>18. ASSUME NEW a \in got, ListAnswered(a) PROVE SerialInv'
  BY <1>18, ListAnsweredKeeps
<1>19. ASSUME NEW a \in got, OpenAnswered(a) PROVE SerialInv'
  BY <1>19, OpenAnsweredKeeps
<1>20. ASSUME NEW a \in got, WriteAnswered(a) PROVE SerialInv'
  BY <1>20, WriteAnsweredKeeps
<1> QED
  BY <1>1, <1>2, <1>3, <1>4, <1>5, <1>6, <1>7, <1>8, <1>9, <1>10, <1>11, <1>12, <1>13, <1>14, <1>15, <1>16,
     <1>17, <1>18, <1>19, <1>20 DEF SerialNext

LEMMA SerialInvSound == SerialInv => SerialSound
<1> SUFFICES ASSUME SerialInv PROVE SerialSound
  OBVIOUS
<1>1. SerialTypeOK
  BY DEF SerialTypeOK, SerialInv, WireTyped, SidecarSound, TtyRecords, TtyFields
<1>2. NeverStuck
  <2>1. SUFFICES ASSUME NEW t \in Ttys, tty[t].st = "live", Smart(t), tty[t].end = "no", tty[t].at = "idle"
                 PROVE  tty[t].sid # 0 \/ tty[t].poll
    BY DEF NeverStuck, TtyLive
  <2> QED
    BY <2>1, TtyNow DEF RecordSound
<1>3. ShowsItsPort
  <2>1. \A t \in Ttys : ~tty[t].listed => tty[t].act = 0
    BY DEF SerialInv, WireTyped, TtyRecords
  <2> QED
    BY <2>1 DEF ShowsItsPort, SerialInv, TtysSound, ShowsItsOwn, OffIsOff, TtyLive
<1> QED
  BY <1>1, <1>2, <1>3 DEF SerialSound, SerialInv

\* Whatever the ports, the modes of the terminals and the bounds: no port is
\* blocked by a session nobody knows of, a terminal that has not been stopped is
\* on its way to a session; the entry of a terminal in ctx.serialTerminals, while
\* it has one, shows the port of its session; after the extension is deactivated
\* there is no sidecar.
THEOREM SerialIsSound == SerialSpec => []SerialSound
<1>1. SerialInit => SerialInv
  BY SerialInvInit
<1>2. SerialInv /\ [SerialNext]_serialVars => SerialInv'
  BY SerialInvNext
<1>3. SerialInv => SerialSound
  BY SerialInvSound
<1> QED
  BY <1>1, <1>2, <1>3, PTL DEF SerialSpec
=============================================================================
