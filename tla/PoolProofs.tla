------------------------------ MODULE PoolProofs ------------------------------
(***************************************************************************)
(* Proofs about SshConnectionPool, for any set of leases and any bounds on *)
(* connections and edits.                                                  *)
(*                                                                         *)
(* The invariant is PoolInv, in three layers:                              *)
(*   Refs      what leases, the map and the pending connect refer to:      *)
(*             an entry of a lease was established, one it fell back from  *)
(*             is out of the map for good, a standalone connection is      *)
(*             nobody's entry, a pending connect has a caller;             *)
(*   CountInv  the reference count of the entry in the map is exact even   *)
(*             after hasty disposals (those are counted twice only once    *)
(*             the entry is out of the map), and no timer is armed on a    *)
(*             connection in use;                                          *)
(*   ReachInv  nothing alive is out of reach, nothing idle is untimed.     *)
(* Each layer uses the ones before it.                                     *)
(***************************************************************************)
EXTENDS SshConnectionPool, FiniteSetTheorems, TLAPS

\* A lease that has no entry yet has opened nothing; one that owns no
\* connection has none; callers that are not hasty dispose no lease that is
\* opening a channel.
Stages ==
  \A l \in Leases :
    /\ lease[l].state \notin {"open", "disposed"} => lease[l].fallback = "none" /\ ~lease[l].opening
    /\ lease[l].fallback # "used" => lease[l].own = None
    /\ ~hasty /\ (lease[l].opening \/ lease[l].fallback = "connecting") => lease[l].state = "open"

\* Entries of leases were established, and a lease that fell back has taken its
\* entry out of the map for good.
EntriesKnown ==
  \A l \in Leases :
    /\ lease[l].entry # None => conn[lease[l].entry] # "unused"
    /\ lease[l].fallback # "none" => lease[l].entry # entry

\* A standalone connection is nobody's entry.
OwnApart ==
  \A l \in Leases : lease[l].own # None =>
    /\ conn[lease[l].own] # "unused"
    /\ lease[l].own # entry
    /\ pending = "settling" => lease[l].own # resolved
    /\ \A k \in Leases : lease[k].entry # lease[l].own

\* A pending connect has a caller waiting for it and no entry beside it.
PendingSound ==
  /\ pending = "connecting" => entry = None
  /\ pending = "settling" => resolved # None /\ conn[resolved] # "unused" /\ entry \in {None, resolved}
  /\ pending # "none" => \E l \in Leases : lease[l].state = "waiting"

Refs == TypeOK /\ MapEntryUsable /\ ListenerView /\ Stages /\ EntriesKnown /\ OwnApart /\ PendingSound

\* The reference count of the entry in the map is exact whatever callers do.
Counted == \A c \in Conns : (~hasty \/ c = entry) => pe[c].refCount = Cardinality(Users(c))

PoolInv == Refs /\ Counted /\ TimerOnlyWhenIdle /\ NoConnectionLeak /\ IdleIsTimed

------------------------------------------------------------------------------
LEMMA ConnsAreNumbers == None \notin Conns /\ Conns \subseteq Nat
  BY PoolAssumption DEF Conns, None

LEMMA InitRefs == Init => Refs
<1> SUFFICES ASSUME Init PROVE Refs
  OBVIOUS
<1>1. /\ 0 \in Versions /\ 0 \in Int
  BY PoolAssumption DEF Versions
<1>2. lease \in [Leases -> Lease] /\ pe \in [Conns -> PoolEntry]
  BY <1>1 DEF Init, PoolEntry, Lease, LeaseStates, Fallbacks
<1>3. TypeOK
  BY <1>1, <1>2 DEF Init, TypeOK
<1> QED BY <1>3 DEF Init, Refs, MapEntryUsable, ListenerView, Stages, EntriesKnown, OwnApart, PendingSound, None

\* What an assignment to fields of a lease or of an entry leaves of its type.
LEMMA LeaseAssigned ==
  ASSUME lease \in [Leases -> Lease], NEW l \in Leases, NEW b \in BOOLEAN, NEW c \in Conns,
         NEW s \in LeaseStates, NEW f \in Fallbacks
  PROVE  /\ [lease EXCEPT ![l].state = s, ![l].reused = b] \in [Leases -> Lease]
         /\ [lease EXCEPT ![l].state = s] \in [Leases -> Lease]
         /\ [lease EXCEPT ![l].opening = b] \in [Leases -> Lease]
         /\ [lease EXCEPT ![l].fallback = f] \in [Leases -> Lease]
         /\ [lease EXCEPT ![l].opening = b, ![l].fallback = f] \in [Leases -> Lease]
         /\ [lease EXCEPT ![l].fallback = f, ![l].own = c] \in [Leases -> Lease]
<1>1. /\ [lease EXCEPT ![l].state = s, ![l].reused = b] \in [Leases -> Lease]
      /\ [lease EXCEPT ![l].state = s] \in [Leases -> Lease]
  BY DEF Lease
<1>2. /\ [lease EXCEPT ![l].opening = b] \in [Leases -> Lease]
      /\ [lease EXCEPT ![l].fallback = f] \in [Leases -> Lease]
  BY DEF Lease
<1>3. [lease EXCEPT ![l].opening = b, ![l].fallback = f] \in [Leases -> Lease]
  BY DEF Lease
<1>4. [lease EXCEPT ![l].fallback = f, ![l].own = c] \in [Leases -> Lease]
  BY DEF Lease
<1> QED BY <1>1, <1>2, <1>3, <1>4

LEMMA EntryAssigned ==
  ASSUME pe \in [Conns -> PoolEntry], NEW e \in Conns,
         NEW n \in Int, NEW t \in BOOLEAN, NEW s \in BOOLEAN, NEW h \in BOOLEAN
  PROVE  /\ [pe EXCEPT ![e].refCount = n, ![e].timer = t, ![e].subscribed = s] \in [Conns -> PoolEntry]
         /\ [pe EXCEPT ![e].timer = t, ![e].subscribed = s] \in [Conns -> PoolEntry]
         /\ [pe EXCEPT ![e].timer = t, ![e].healthy = h, ![e].subscribed = s] \in [Conns -> PoolEntry]
         /\ [pe EXCEPT ![e].healthy = h, ![e].timer = t] \in [Conns -> PoolEntry]
<1>1. [pe EXCEPT ![e].refCount = n, ![e].timer = t, ![e].subscribed = s] \in [Conns -> PoolEntry]
  BY DEF PoolEntry
<1>2. [pe EXCEPT ![e].timer = t, ![e].subscribed = s] \in [Conns -> PoolEntry]
  BY DEF PoolEntry
<1>3. [pe EXCEPT ![e].timer = t, ![e].healthy = h, ![e].subscribed = s] \in [Conns -> PoolEntry]
  BY DEF PoolEntry
<1>4. [pe EXCEPT ![e].healthy = h, ![e].timer = t] \in [Conns -> PoolEntry]
  BY DEF PoolEntry
<1> QED BY <1>1, <1>2, <1>3, <1>4

LEMMA TypeAsk ==
  ASSUME TypeOK, NEW l \in Leases,
         ReuseEntry(l) \/ JoinPending(l) \/ StartConnect(l)
  PROVE  TypeOK'
  BY ConnsAreNumbers DEF TypeOK, Lease, LeaseStates, Fallbacks, Ask, ReuseEntry, JoinPending, StartConnect

LEMMA TypeCreated == ASSUME TypeOK, EntryCreated PROVE TypeOK'
  BY DEF TypeOK, PoolEntry, EntryCreated

LEMMA TypeRejected == ASSUME TypeOK, CreatedTooLate \/ ConnectFails PROVE TypeOK'
<1>1. RejectWaiters BY DEF CreatedTooLate, ConnectFails
<1>2. /\ lease' \in [Leases -> Lease]
      /\ \A l \in Leases : lease'[l].state \in {"resolved", "open", "disposed"} => lease'[l].entry # None
  BY <1>1 DEF TypeOK, Lease, LeaseStates, Fallbacks, RejectWaiters
<1> QED BY <1>2 DEF TypeOK, CreatedTooLate, ConnectFails

LEMMA TypeSettle == ASSUME Refs, SettlePending PROVE TypeOK'
<1>1. resolved \in Conns
  BY DEF Refs, TypeOK, PendingSound, SettlePending
<1>2. \A l \in Leases : Resolved(l) \in Lease /\ Resolved(l).entry # None
  BY <1>1, ConnsAreNumbers DEF Refs, TypeOK, Lease, LeaseStates, Fallbacks, Resolved
<1>3. /\ lease' \in [Leases -> Lease]
      /\ \A l \in Leases : lease'[l].state \in {"resolved", "open", "disposed"} => lease'[l].entry # None
  BY <1>2 DEF Refs, TypeOK, SettlePending
<1> QED BY <1>3 DEF Refs, TypeOK, SettlePending

LEMMA TypeLease ==
  ASSUME TypeOK, NEW l \in Leases,
         Join(l) \/ OpenChannel(l) \/ ChannelEnds(l) \/ StartFallback(l) \/ FallbackFails(l)
  PROVE  TypeOK'
<1>1. CASE Join(l)
  <2>0. lease[l].entry \in Conns
    BY <1>1 DEF Join, TypeOK, Lease
  <2>1. pe' \in [Conns -> PoolEntry]
    <3>1. pe[lease[l].entry].refCount + 1 \in Int
      BY <2>0 DEF TypeOK, PoolEntry
    <3> QED BY <1>1, <2>0, <3>1 DEF TypeOK, PoolEntry, Join, Retain
  <2>2. PICK b \in BOOLEAN : b = (pe[lease[l].entry].refCount + 1 > 1)
    <3>1. (pe[lease[l].entry].refCount + 1 > 1) \in BOOLEAN OBVIOUS
    <3> QED BY <3>1
  <2>3. /\ lease' \in [Leases -> Lease]
        /\ \A k \in Leases : lease'[k].state \in {"resolved", "open", "disposed"} => lease'[k].entry # None
    <3>1. lease' = [lease EXCEPT ![l].state = "open", ![l].reused = b]
      BY <1>1, <2>2 DEF Join
    <3>2. lease' \in [Leases -> Lease]
      BY <3>1, LeaseAssigned, <2>0 DEF TypeOK, LeaseStates, Fallbacks
    <3> QED BY <1>1, <3>1, <3>2 DEF TypeOK, Join
  <2> QED BY <1>1, <2>1, <2>3 DEF TypeOK, Join
<1>2. CASE OpenChannel(l) \/ ChannelEnds(l) \/ FallbackFails(l)
  <2>0. \/ \E b \in BOOLEAN : lease' = [lease EXCEPT ![l].opening = b]
        \/ lease' = [lease EXCEPT ![l].fallback = "failed"]
    BY <1>2 DEF OpenChannel, ChannelEnds, FallbackFails
  <2>1. lease' \in [Leases -> Lease]
    <3>1. "failed" \in Fallbacks
      BY DEF Fallbacks
    <3> QED BY <2>0, <3>1 DEF TypeOK, Lease
  <2>2. \A k \in Leases : lease'[k].state = lease[k].state /\ lease'[k].entry = lease[k].entry
    BY <2>0 DEF TypeOK, Lease
  <2> QED BY <1>2, <2>1, <2>2 DEF TypeOK, OpenChannel, ChannelEnds, FallbackFails
<1>3. CASE StartFallback(l)
  BY <1>3 DEF TypeOK, Lease, LeaseStates, Fallbacks, PoolEntry, StartFallback, Forget
<1> QED BY <1>1, <1>2, <1>3

LEMMA TypeRelease ==
  ASSUME TypeOK, NEW e \in Conns, NEW cs \in [Conns -> {"unused", "alive", "stale", "closed"}], ReleaseEntry(e, cs)
  PROVE  /\ conn' \in [Conns -> {"unused", "alive", "stale", "closed"}]
         /\ pe' \in [Conns -> PoolEntry]
<1>1. conn' \in [Conns -> {"unused", "alive", "stale", "closed"}]
  BY DEF ReleaseEntry
<1>2. pe' \in [Conns -> PoolEntry]
  <2> DEFINE left == pe[e].refCount - 1
  <2>1. left \in Int
    BY DEF TypeOK, PoolEntry
  <2>2. PICK t \in BOOLEAN : t = IF Idles(e, left) THEN IdleTimeout ELSE pe[e].timer
    BY PoolAssumption DEF TypeOK, PoolEntry
  <2>3. PICK s \in BOOLEAN : s = IF Orphaned(e, left) THEN FALSE ELSE pe[e].subscribed
    BY DEF TypeOK, PoolEntry
  <2>4. pe' = [pe EXCEPT ![e].refCount = left, ![e].timer = t, ![e].subscribed = s]
    BY <2>2, <2>3 DEF ReleaseEntry, TypeOK, PoolEntry
  <2> HIDE DEF left
  <2> QED BY <2>1, <2>4, EntryAssigned DEF TypeOK
<1> QED BY <1>1, <1>2

LEMMA TypeReleases ==
  ASSUME Refs, NEW l \in Leases, FallbackConnected(l) \/ DisposeLease(l)
  PROVE  TypeOK'
<1> USE DEF Refs
<1>1. CASE FallbackConnected(l)
  <2>1. lease[l].state \in {"open", "disposed"} /\ lease[l].entry \in Conns
    BY <1>1 DEF FallbackConnected, Stages, TypeOK, Lease
  <2>2. PICK c \in Conns :
       /\ lease' = [lease EXCEPT ![l].fallback = "used", ![l].own = c]
       /\ made' = [made EXCEPT ![c] = lease[l].asked]
       /\ ReleaseEntry(lease[l].entry, [conn EXCEPT ![c] = "alive"])
    BY <1>1 DEF FallbackConnected
  <2>3. [conn EXCEPT ![c] = "alive"] \in [Conns -> {"unused", "alive", "stale", "closed"}]
    BY DEF TypeOK
  <2>4. /\ conn' \in [Conns -> {"unused", "alive", "stale", "closed"}]
        /\ pe' \in [Conns -> PoolEntry]
    BY <2>1, <2>2, <2>3, TypeRelease
  <2>5. /\ lease' \in [Leases -> Lease] /\ made' \in [Conns -> Versions]
        /\ \A k \in Leases : lease'[k].state \in {"resolved", "open", "disposed"} => lease'[k].entry # None
    <3>1. lease[l].asked \in Versions BY DEF TypeOK, Lease
    <3>2. made' \in [Conns -> Versions]
      BY <2>2, <3>1 DEF TypeOK
    <3>3. lease' \in [Leases -> Lease]
      BY <2>2, LeaseAssigned DEF TypeOK, LeaseStates, Fallbacks
    <3> QED BY <2>2, <3>2, <3>3 DEF TypeOK
  <2> QED BY <1>1, <2>4, <2>5 DEF TypeOK, FallbackConnected
<1>2. CASE DisposeLease(l)
  <2>1. lease[l].entry \in Conns
    BY <1>2 DEF DisposeLease, TypeOK, Lease
  <2>2. /\ conn' \in [Conns -> {"unused", "alive", "stale", "closed"}]
        /\ pe' \in [Conns -> PoolEntry]
    <3>1. CASE lease[l].fallback = "used"
      BY <1>2, <3>1 DEF DisposeLease, TypeOK
    <3>2. CASE lease[l].fallback # "used"
      BY <1>2, <2>1, <3>2, TypeRelease DEF DisposeLease, TypeOK
    <3> QED BY <3>1, <3>2
  <2>3. /\ lease' \in [Leases -> Lease]
        /\ \A k \in Leases : lease'[k].state \in {"resolved", "open", "disposed"} => lease'[k].entry # None
    <3>1. lease' = [lease EXCEPT ![l].state = "disposed"] /\ "disposed" \in LeaseStates
      BY <1>2 DEF DisposeLease, LeaseStates
    <3>2. lease' \in [Leases -> Lease]
      BY <3>1 DEF TypeOK, Lease
    <3> QED BY <2>1, <3>1, <3>2, ConnsAreNumbers DEF TypeOK
  <2>4. hasty' \in BOOLEAN
    BY <1>2 DEF DisposeLease
  <2> QED BY <1>2, <2>2, <2>3, <2>4 DEF DisposeLease, TypeOK
<1> QED BY <1>1, <1>2

LEMMA TypeLeaves ==
  ASSUME TypeOK,
         \/ IdleTimerFires \/ Disconnect \/ DisposePool \/ EditAndInvalidate
         \/ \E c \in Conns : SocketDies(c) \/ CloseEvent(c)
  PROVE  TypeOK'
<1>1. CASE IdleTimerFires \/ Disconnect \/ DisposePool
  <2>1. pe' \in [Conns -> PoolEntry]
    <3>1. CASE entry \in Conns
      <4>1. pe' \in {pe, [pe EXCEPT ![entry].timer = FALSE, ![entry].subscribed = FALSE]}
        BY <1>1 DEF IdleTimerFires, Disconnect, DisposePool, Evict
      <4>2. [pe EXCEPT ![entry].timer = FALSE, ![entry].subscribed = FALSE] \in [Conns -> PoolEntry]
        BY <3>1 DEF TypeOK, PoolEntry
      <4> QED BY <4>1, <4>2 DEF TypeOK
    <3>2. CASE entry = None
      BY <1>1, <3>2, ConnsAreNumbers DEF TypeOK, IdleTimerFires, IdleDue, Disconnect, DisposePool
    <3> QED BY <3>1, <3>2 DEF TypeOK
  <2> QED BY <1>1, <2>1 DEF TypeOK, IdleTimerFires, Disconnect, DisposePool, Evict, Forget
<1>2. CASE EditAndInvalidate
  <2>1. params' \in Versions
    BY <1>2, PoolAssumption DEF EditAndInvalidate, TypeOK, Versions
  <2>2. pe' \in [Conns -> PoolEntry]
    <3>1. CASE entry = None BY <1>2, <3>1 DEF TypeOK, EditAndInvalidate
    <3>2. CASE entry # None
      <4>1. entry \in Conns
        BY <3>2 DEF TypeOK
      <4>2. PICK s \in BOOLEAN : s = IF pe[entry].refCount = 0 THEN FALSE ELSE pe[entry].subscribed
        BY <4>1 DEF TypeOK, PoolEntry
      <4>3. pe' = [pe EXCEPT ![entry].timer = FALSE, ![entry].healthy = FALSE, ![entry].subscribed = s]
        BY <1>2, <3>2, <4>1, <4>2 DEF EditAndInvalidate, TypeOK, PoolEntry
      <4> QED BY ZenonT(30), <4>1, <4>3 DEF TypeOK, PoolEntry
    <3> QED BY <3>1, <3>2
  <2> QED BY <1>2, <2>1, <2>2 DEF TypeOK, EditAndInvalidate, Forget
<1>3. ASSUME NEW c \in Conns, SocketDies(c) \/ CloseEvent(c) PROVE TypeOK'
  <2>1. pe' \in [Conns -> PoolEntry]
    <3>1. [pe EXCEPT ![c].healthy = FALSE, ![c].timer = FALSE] \in [Conns -> PoolEntry]
      BY DEF TypeOK, PoolEntry
    <3> QED BY <1>3, <3>1 DEF TypeOK, SocketDies, CloseEvent
  <2> QED BY <1>3, <2>1 DEF TypeOK, SocketDies, CloseEvent, Forget
<1> QED BY <1>1, <1>2, <1>3

------------------------------------------------------------------------------
(* What the leases and the connections refer to.                             *)

\* The step of one lease: the others are left alone.
OnlyLease(l) == \A k \in Leases : k # l => lease'[k] = lease[k]

LEMMA RefsAsk ==
  ASSUME Refs, NEW l \in Leases, ReuseEntry(l) \/ JoinPending(l) \/ StartConnect(l)
  PROVE  Refs'
<1>0. TypeOK'
  BY TypeAsk DEF Refs
<1>1. /\ OnlyLease(l)
      /\ lease[l].state = "none" /\ lease'[l].state \in {"waiting", "resolved"}
      /\ lease'[l].entry \in {None, entry} /\ lease'[l].fallback = lease[l].fallback
      /\ lease'[l].opening = lease[l].opening /\ lease'[l].own = lease[l].own
      /\ pending' = pending \/ (pending = "none" /\ pending' = "connecting" /\ entry = None /\ lease'[l].state = "waiting")
      /\ UNCHANGED <<conn, made, entry, pe, resolved, params, disposed, view, hasty>>
  BY DEF Refs, TypeOK, Lease, OnlyLease, Ask, ReuseEntry, JoinPending, StartConnect
<1>2. lease[l].fallback = "none" /\ ~lease[l].opening /\ lease[l].own = None
  BY <1>1 DEF Refs, Stages
<1>3. MapEntryUsable' /\ ListenerView'
  BY <1>1 DEF Refs, MapEntryUsable, ListenerView
<1>4. Stages'
  BY <1>1, <1>2 DEF Refs, Stages, OnlyLease
<1>5. EntriesKnown'
  BY <1>1, <1>2 DEF Refs, EntriesKnown, OnlyLease, MapEntryUsable
<1>6. OwnApart'
  BY <1>1, <1>2 DEF Refs, OwnApart, OnlyLease
<1>7. PendingSound'
  BY <1>1 DEF Refs, PendingSound, OnlyLease
<1> QED BY <1>0, <1>3, <1>4, <1>5, <1>6, <1>7 DEF Refs

\* Continuations and channels: fields of a lease, and its reference.
LEMMA RefsLease ==
  ASSUME Refs, NEW l \in Leases,
         Join(l) \/ OpenChannel(l) \/ ChannelEnds(l) \/ FallbackFails(l)
  PROVE  Refs'
<1>0. TypeOK'
  BY TypeLease DEF Refs
<1>1. /\ OnlyLease(l)
      /\ lease'[l].entry = lease[l].entry /\ lease'[l].own = lease[l].own
      /\ UNCHANGED <<conn, made, entry, pending, resolved, params, disposed, view, hasty>>
  BY DEF Refs, TypeOK, Lease, OnlyLease, Join, OpenChannel, ChannelEnds, FallbackFails
<1>2. /\ \A c \in Conns : pe'[c].healthy = pe[c].healthy /\ pe'[c].subscribed = pe[c].subscribed
  BY DEF Refs, TypeOK, PoolEntry, Join, Retain, OpenChannel, ChannelEnds, FallbackFails
<1>3. MapEntryUsable' /\ ListenerView'
  BY <1>1, <1>2 DEF Refs, MapEntryUsable, ListenerView, TypeOK
<1>4. /\ lease[l].state # "waiting" /\ lease'[l].state # "waiting"
      /\ lease[l].fallback = "none" => lease'[l].fallback = "none"
      /\ lease[l].fallback = "used" => lease'[l].fallback = "used"
      /\ lease'[l].fallback # "connecting" \/ lease'[l].fallback = lease[l].fallback
  BY DEF Refs, TypeOK, Lease, Stages, Join, OpenChannel, ChannelEnds, FallbackFails
<1>5. Stages'
  <2>1. /\ lease'[l].state \notin {"open", "disposed"} => lease'[l].fallback = "none" /\ ~lease'[l].opening
        /\ lease'[l].fallback # "used" => lease'[l].own = None
        /\ ~hasty' /\ (lease'[l].opening \/ lease'[l].fallback = "connecting") => lease'[l].state = "open"
    BY DEF Refs, TypeOK, Lease, Stages, Join, OpenChannel, ChannelEnds, FallbackFails
  <2> QED BY <1>1, <2>1 DEF Refs, Stages, OnlyLease
<1>6. EntriesKnown'
  BY <1>1, <1>4 DEF Refs, EntriesKnown, OnlyLease
<1>7. OwnApart'
  BY <1>1 DEF Refs, OwnApart, OnlyLease
<1>8. PendingSound'
  BY <1>1, <1>4 DEF Refs, PendingSound, OnlyLease
<1> QED BY <1>0, <1>3, <1>5, <1>6, <1>7, <1>8 DEF Refs

LEMMA RefsFallback == ASSUME Refs, NEW l \in Leases, StartFallback(l) PROVE Refs'
<1>0. TypeOK'
  BY TypeLease DEF Refs
<1>1. /\ OnlyLease(l)
      /\ lease'[l].entry = lease[l].entry /\ lease'[l].own = lease[l].own /\ lease'[l].state = lease[l].state
      /\ lease[l].fallback = "none" /\ lease'[l].fallback = "connecting" /\ ~lease'[l].opening /\ lease[l].opening
      /\ UNCHANGED <<conn, made, pending, resolved, params, disposed, hasty>>
      /\ entry' = None \/ (entry' = entry /\ entry # lease[l].entry)
  BY DEF Refs, TypeOK, Lease, OnlyLease, StartFallback, Forget
<1>2. lease[l].state \in {"open", "disposed"} /\ lease[l].entry # None
  BY <1>1 DEF Refs, Stages, TypeOK
<1>3. MapEntryUsable' /\ ListenerView'
  BY DEF Refs, MapEntryUsable, ListenerView, StartFallback, Forget
<1>4. Stages'
  BY <1>1, <1>2 DEF Refs, Stages, OnlyLease
<1>5. EntriesKnown'
  <2>1. \A k \in Leases : lease[k].fallback # "none" => lease[k].entry # None
    BY DEF Refs, TypeOK, Stages
  <2> QED BY <1>1, <1>2, <2>1 DEF Refs, EntriesKnown, OnlyLease
<1>6. OwnApart'
  BY <1>1 DEF Refs, OwnApart, OnlyLease
<1>7. PendingSound'
  BY <1>1 DEF Refs, PendingSound, OnlyLease
<1> QED BY <1>0, <1>3, <1>4, <1>5, <1>6, <1>7 DEF Refs

\* Releasing an entry closes it only when it is out of the map.
LEMMA ReleaseLeaves ==
  ASSUME TypeOK, NEW e \in Conns, NEW cs \in [Conns -> {"unused", "alive", "stale", "closed"}],
         ReleaseEntry(e, cs)
  PROVE  /\ \A c \in Conns : conn'[c] = cs[c] \/ (c = e /\ e # entry /\ conn'[c] = "closed")
         /\ \A c \in Conns : pe'[c].healthy = pe[c].healthy
         /\ \A c \in Conns : pe'[c].subscribed = pe[c].subscribed \/ (c = e /\ e # entry)
<1>1. \A c \in Conns : conn'[c] = cs[c] \/ (c = e /\ e # entry /\ conn'[c] = "closed")
  BY DEF ReleaseEntry, Orphaned
<1>2. \A c \in Conns : pe'[c].healthy = pe[c].healthy
  BY DEF ReleaseEntry, TypeOK, PoolEntry
<1>3. \A c \in Conns : pe'[c].subscribed = pe[c].subscribed \/ (c = e /\ e # entry)
  BY ZenonT(30) DEF ReleaseEntry, Orphaned, TypeOK, PoolEntry
<1> QED BY <1>1, <1>2, <1>3

LEMMA RefsConnected == ASSUME Refs, NEW l \in Leases, FallbackConnected(l) PROVE Refs'
<1>0. TypeOK'
  BY TypeReleases
<1>1. lease[l].state \in {"open", "disposed"} /\ lease[l].entry \in Conns /\ lease[l].fallback = "connecting"
  BY DEF FallbackConnected, Refs, Stages, TypeOK, Lease
<1>2. PICK c \in Conns :
     /\ conn[c] = "unused"
     /\ lease' = [lease EXCEPT ![l].fallback = "used", ![l].own = c]
     /\ ReleaseEntry(lease[l].entry, [conn EXCEPT ![c] = "alive"])
  BY DEF FallbackConnected, IsNext
<1>3. /\ OnlyLease(l)
      /\ lease'[l].entry = lease[l].entry /\ lease'[l].own = c /\ lease'[l].state = lease[l].state
      /\ lease'[l].fallback = "used" /\ lease'[l].opening = lease[l].opening
      /\ UNCHANGED <<entry, pending, resolved, params, disposed, view, hasty>>
  BY <1>2 DEF Refs, TypeOK, Lease, OnlyLease, FallbackConnected
<1>4. /\ \A d \in Conns : conn[d] # "unused" => conn'[d] # "unused"
      /\ conn'[c] # "unused"
      /\ \A d \in Conns : d # lease[l].entry => conn'[d] = conn[d] \/ d = c
      /\ \A d \in Conns : pe'[d].healthy = pe[d].healthy
      /\ \A d \in Conns : pe'[d].subscribed = pe[d].subscribed \/ (d = lease[l].entry /\ d # entry)
  <2> DEFINE cs == [conn EXCEPT ![c] = "alive"]
  <2>1. cs \in [Conns -> {"unused", "alive", "stale", "closed"}]
    BY DEF Refs, TypeOK
  <2>2. cs[c] = "alive" /\ \A d \in Conns : d # c => cs[d] = conn[d]
    BY DEF Refs, TypeOK
  <2>3. ReleaseEntry(lease[l].entry, cs) /\ TypeOK
    BY <1>2 DEF Refs
  <2> HIDE DEF cs
  <2>4. /\ \A d \in Conns : conn'[d] = cs[d] \/ (d = lease[l].entry /\ d # entry /\ conn'[d] = "closed")
        /\ \A d \in Conns : pe'[d].healthy = pe[d].healthy
        /\ \A d \in Conns : pe'[d].subscribed = pe[d].subscribed \/ (d = lease[l].entry /\ d # entry)
    BY <1>1, <2>1, <2>3, ReleaseLeaves
  <2> QED BY <2>2, <2>4
<1>5. MapEntryUsable' /\ ListenerView'
  BY <1>1, <1>2, <1>3, <1>4 DEF Refs, MapEntryUsable, ListenerView, TypeOK, EntriesKnown
<1>6. Stages'
  BY <1>1, <1>3 DEF Refs, Stages, OnlyLease
<1>7. \A k \in Leases : lease[k].entry # None => lease[k].entry \in Conns
  BY DEF Refs, TypeOK, Lease
<1>8. EntriesKnown'
  BY <1>1, <1>3, <1>4, <1>7 DEF Refs, EntriesKnown, OnlyLease
<1>9. OwnApart'
  <2>1. \A k \in Leases : lease[k].own # None => lease[k].own \in Conns
    BY DEF Refs, TypeOK, Lease
  <2>2. c # None
    BY ConnsAreNumbers
  <2>3. \A k \in Leases : lease[k].entry # c
    BY <1>2, <2>2 DEF Refs, EntriesKnown
  <2>4. entry # c /\ (pending = "settling" => resolved # c)
    BY <1>2, <2>2 DEF Refs, MapEntryUsable, PendingSound
  <2> QED BY <1>3, <1>4, <2>1, <2>2, <2>3, <2>4 DEF Refs, OwnApart, OnlyLease
<1>10. PendingSound'
  <2>1. lease[l].state # "waiting"
    BY <1>1
  <2> QED BY <1>3, <1>4, <2>1 DEF Refs, PendingSound, OnlyLease, TypeOK
<1> QED BY <1>0, <1>5, <1>6, <1>8, <1>9, <1>10 DEF Refs

LEMMA RefsDispose == ASSUME Refs, NEW l \in Leases, DisposeLease(l) PROVE Refs'
<1>0. TypeOK'
  BY TypeReleases
<1>1. lease[l].state = "open" /\ lease[l].entry \in Conns
  BY DEF DisposeLease, Refs, TypeOK, Lease
<1>2. /\ OnlyLease(l)
      /\ lease'[l].entry = lease[l].entry /\ lease'[l].own = lease[l].own /\ lease'[l].state = "disposed"
      /\ lease'[l].fallback = lease[l].fallback /\ lease'[l].opening = lease[l].opening
      /\ UNCHANGED <<entry, pending, resolved, params, disposed, view>>
      /\ hasty => hasty'
      /\ ~hasty' => ~lease[l].opening /\ lease[l].fallback # "connecting"
  BY DEF Refs, TypeOK, Lease, OnlyLease, DisposeLease
<1>3. /\ \A d \in Conns : conn[d] # "unused" => conn'[d] # "unused"
      /\ entry # None => conn'[entry] = conn[entry]
      /\ \A d \in Conns : pe'[d].healthy = pe[d].healthy
      /\ entry # None => pe'[entry].subscribed = pe[entry].subscribed
  <2>1. CASE lease[l].fallback = "used"
    BY <2>1 DEF DisposeLease, Refs, TypeOK, OwnApart
  <2>2. CASE lease[l].fallback # "used"
    <3>1. ReleaseEntry(lease[l].entry, conn)
      BY <2>2 DEF DisposeLease
    <3> QED BY <1>1, <3>1, ReleaseLeaves DEF Refs, TypeOK
  <2> QED BY <2>1, <2>2
<1>4. MapEntryUsable' /\ ListenerView'
  BY <1>2, <1>3 DEF Refs, MapEntryUsable, ListenerView, TypeOK
<1>5. Stages'
  BY <1>1, <1>2 DEF Refs, Stages, OnlyLease
<1>6. \A k \in Leases : /\ lease[k].entry # None => lease[k].entry \in Conns
                        /\ lease[k].own # None => lease[k].own \in Conns
  BY DEF Refs, TypeOK, Lease
<1>7. EntriesKnown'
  BY <1>1, <1>2, <1>3, <1>6 DEF Refs, EntriesKnown, OnlyLease
<1>8. OwnApart'
  BY <1>2, <1>3, <1>6 DEF Refs, OwnApart, OnlyLease
<1>9. PendingSound'
  BY <1>1, <1>2, <1>3 DEF Refs, PendingSound, OnlyLease, TypeOK
<1> QED BY <1>0, <1>4, <1>5, <1>7, <1>8, <1>9 DEF Refs

LEMMA RefsCreated == ASSUME Refs, EntryCreated PROVE Refs'
<1>0. TypeOK'
  BY TypeCreated DEF Refs
<1>1. PICK c \in Conns :
     /\ conn[c] = "unused"
     /\ conn' = [conn EXCEPT ![c] = "alive"]
     /\ pe' = [pe EXCEPT ![c] = [refCount |-> 0, healthy |-> TRUE, timer |-> FALSE, subscribed |-> TRUE]]
     /\ entry' = c /\ resolved' = c
  BY DEF EntryCreated, IsNext
<1>2. c # None
  BY ConnsAreNumbers
<1>3. pending = "connecting" /\ pending' = "settling" /\ view' = TRUE /\ UNCHANGED <<lease, hasty>>
  BY DEF EntryCreated
<1>4. \A k \in Leases : /\ lease[k].entry # None => lease[k].entry \in Conns
                        /\ lease[k].own # None => lease[k].own \in Conns
  BY DEF Refs, TypeOK, Lease
<1>5. \A k \in Leases : lease[k].entry # c /\ lease[k].own # c
  BY <1>1, <1>2 DEF Refs, EntriesKnown, OwnApart
<1>6. MapEntryUsable' /\ ListenerView'
  BY <1>1, <1>2, <1>3 DEF Refs, MapEntryUsable, ListenerView, TypeOK
<1>7. Stages'
  BY <1>3 DEF Refs, Stages
<1>8. EntriesKnown'
  BY <1>1, <1>3, <1>4, <1>5 DEF Refs, EntriesKnown, TypeOK
<1>9. OwnApart'
  BY <1>1, <1>3, <1>4, <1>5 DEF Refs, OwnApart, TypeOK
<1>10. PendingSound'
  BY <1>1, <1>2, <1>3 DEF Refs, PendingSound, TypeOK
<1> QED BY <1>0, <1>6, <1>7, <1>8, <1>9, <1>10 DEF Refs

LEMMA RefsRejected == ASSUME Refs, CreatedTooLate \/ ConnectFails PROVE Refs'
<1>0. TypeOK'
  BY TypeRejected DEF Refs
<1>1. /\ \A k \in Leases : /\ lease'[k].entry = lease[k].entry /\ lease'[k].own = lease[k].own
                           /\ lease'[k].fallback = lease[k].fallback /\ lease'[k].opening = lease[k].opening
                           /\ lease'[k].state = lease[k].state \/ (lease[k].state = "waiting" /\ lease'[k].state = "rejected")
      /\ pending' = "none" /\ UNCHANGED <<entry, pe, view, hasty>>
  <2>1. RejectWaiters /\ pending' = "none" /\ UNCHANGED <<entry, pe, view, hasty>>
    BY DEF CreatedTooLate, ConnectFails
  <2>2. lease \in [Leases -> Lease]
    BY DEF Refs, TypeOK
  <2>3. ASSUME NEW k \in Leases
        PROVE  /\ lease'[k].entry = lease[k].entry /\ lease'[k].own = lease[k].own
               /\ lease'[k].fallback = lease[k].fallback /\ lease'[k].opening = lease[k].opening
               /\ lease'[k].state = lease[k].state \/ (lease[k].state = "waiting" /\ lease'[k].state = "rejected")
    <3>1. CASE lease[k].state = "waiting"
      <4>1. PICK r \in Lease : r = lease[k]
        BY <2>2
      <4>2. lease'[k] = [r EXCEPT !.state = "rejected"]
        BY <2>1, <3>1, <4>1 DEF RejectWaiters
      <4>3. /\ lease'[k].state = "rejected" /\ lease'[k].entry = r.entry /\ lease'[k].own = r.own
            /\ lease'[k].fallback = r.fallback /\ lease'[k].opening = r.opening
        BY <4>2 DEF Lease
      <4> QED BY <3>1, <4>1, <4>3
    <3>2. CASE lease[k].state # "waiting"
      BY <2>1, <3>2 DEF RejectWaiters
    <3> QED BY <3>1, <3>2
  <2> QED BY <2>1, <2>3
<1>2. \A d \in Conns : conn[d] # "unused" => conn'[d] = conn[d]
  BY DEF CreatedTooLate, ConnectFails, IsNext, Refs, TypeOK
<1>3. \A k \in Leases : /\ lease[k].entry # None => lease[k].entry \in Conns
                        /\ lease[k].own # None => lease[k].own \in Conns
  BY DEF Refs, TypeOK, Lease
<1>4. MapEntryUsable' /\ ListenerView'
  BY <1>1, <1>2 DEF Refs, MapEntryUsable, ListenerView, TypeOK
<1>5. Stages'
  BY <1>1 DEF Refs, Stages
<1>6. EntriesKnown'
  BY <1>1, <1>2, <1>3 DEF Refs, EntriesKnown
<1>7. OwnApart'
  BY <1>1, <1>2, <1>3 DEF Refs, OwnApart
<1>8. PendingSound'
  BY <1>1 DEF PendingSound
<1> QED BY <1>0, <1>4, <1>5, <1>6, <1>7, <1>8 DEF Refs

LEMMA RefsSettle == ASSUME Refs, SettlePending PROVE Refs'
<1>0. TypeOK'
  BY TypeSettle
<1>1. /\ \A k \in Leases :
           /\ lease'[k].own = lease[k].own
           /\ lease'[k].fallback = lease[k].fallback /\ lease'[k].opening = lease[k].opening
           /\ \/ lease'[k] = lease[k]
              \/ lease[k].state = "waiting" /\ lease'[k].state = "resolved" /\ lease'[k].entry = resolved
      /\ pending = "settling" /\ pending' = "none" /\ UNCHANGED <<conn, entry, pe, view, hasty>>
  BY DEF SettlePending, Resolved, Refs, TypeOK, Lease
<1>4. MapEntryUsable' /\ ListenerView'
  BY <1>1 DEF Refs, MapEntryUsable, ListenerView
<1>5. Stages'
  BY <1>1 DEF Refs, Stages
<1>6. EntriesKnown'
  BY <1>1 DEF Refs, EntriesKnown, PendingSound, Stages
<1>7. OwnApart'
  BY <1>1 DEF Refs, OwnApart
<1>8. PendingSound'
  BY <1>1 DEF PendingSound
<1> QED BY <1>0, <1>4, <1>5, <1>6, <1>7, <1>8 DEF Refs

\* Steps of the map's entry and of sockets.
LEMMA RefsLeaves ==
  ASSUME Refs,
         \/ IdleTimerFires \/ Disconnect \/ DisposePool \/ EditAndInvalidate
         \/ \E c \in Conns : SocketDies(c) \/ CloseEvent(c)
  PROVE  Refs'
<1>0. TypeOK'
  BY TypeLeaves DEF Refs
<1>1. UNCHANGED <<lease, pending, resolved, hasty>>
  BY DEF IdleTimerFires, Disconnect, DisposePool, EditAndInvalidate, SocketDies, CloseEvent
<1>2. \A d \in Conns : conn[d] # "unused" => conn'[d] # "unused"
  BY DEF Refs, TypeOK, IdleTimerFires, Disconnect, DisposePool, EditAndInvalidate, SocketDies, CloseEvent, Evict
<1>3. entry' \in {None, entry}
  BY DEF IdleTimerFires, Disconnect, DisposePool, EditAndInvalidate, SocketDies, CloseEvent, Evict, Forget
<1>4. MapEntryUsable' /\ ListenerView'
  <2>1. CASE IdleTimerFires \/ Disconnect \/ DisposePool \/ EditAndInvalidate
    BY <2>1, ConnsAreNumbers DEF Refs, MapEntryUsable, ListenerView, IdleTimerFires, IdleDue, Disconnect, DisposePool, EditAndInvalidate, Evict, Forget
  <2>2. ASSUME NEW c \in Conns, SocketDies(c) PROVE MapEntryUsable' /\ ListenerView'
    BY <2>2 DEF Refs, TypeOK, MapEntryUsable, ListenerView, SocketDies
  <2>3. ASSUME NEW c \in Conns, CloseEvent(c) PROVE MapEntryUsable' /\ ListenerView'
    <3>1. CASE entry = c
      BY <2>3, <3>1, ConnsAreNumbers DEF Refs, MapEntryUsable, ListenerView, CloseEvent, Closed, Forget
    <3>2. CASE entry # c
      <4>1. UNCHANGED <<entry, view>> /\ (entry # None => entry \in Conns)
        BY <2>3, <3>2 DEF CloseEvent, Closed, Refs, TypeOK
      <4>2. entry # None => pe'[entry] = pe[entry] /\ conn'[entry] = conn[entry]
        BY <2>3, <3>2 DEF CloseEvent, Refs, TypeOK
      <4> QED BY <4>1, <4>2 DEF Refs, MapEntryUsable, ListenerView
    <3> QED BY <3>1, <3>2
  <2> QED BY <2>1, <2>2, <2>3
<1>5. Stages'
  BY <1>1 DEF Refs, Stages
<1>6. \A k \in Leases : /\ lease[k].entry # None => lease[k].entry \in Conns
                        /\ lease[k].own # None => lease[k].own \in Conns
                        /\ lease[k].fallback # "none" => lease[k].entry # None
  BY DEF Refs, TypeOK, Lease, Stages
<1>7. EntriesKnown'
  BY <1>1, <1>2, <1>3, <1>6 DEF Refs, EntriesKnown
<1>8. OwnApart'
  BY <1>1, <1>2, <1>3, <1>6 DEF Refs, OwnApart
<1>9. PendingSound'
  BY <1>1, <1>2, <1>3 DEF Refs, PendingSound, TypeOK
<1> QED BY <1>0, <1>4, <1>5, <1>7, <1>8, <1>9 DEF Refs

LEMMA RefsStep == Refs /\ [Next]_vars => Refs'
<1> SUFFICES ASSUME Refs, [Next]_vars PROVE Refs'
  OBVIOUS
<1>1. CASE UNCHANGED vars
  BY <1>1 DEF vars, Refs, TypeOK, MapEntryUsable, ListenerView, Stages, EntriesKnown, OwnApart, PendingSound
<1>2. CASE Next
  BY <1>2, RefsAsk, RefsLease, RefsFallback, RefsConnected, RefsDispose, RefsCreated, RefsRejected, RefsSettle, RefsLeaves DEF Next
<1> QED BY <1>1, <1>2

------------------------------------------------------------------------------
(* Reference counts, timers and what keeps a connection in reach.            *)

\* l runs channels over c.
Uses(l, c) == lease[l].state = "open" /\ lease[l].fallback # "used" /\ lease[l].entry = c

\* What a step does to the users of c: nothing, add l, or take l away.
SameUsers(c)    == \A k \in Leases : Uses(k, c)' <=> Uses(k, c)
UserAdded(l, c) == ~Uses(l, c) /\ Uses(l, c)' /\ \A k \in Leases : k # l => (Uses(k, c)' <=> Uses(k, c))
UserGone(l, c)  == Uses(l, c) /\ ~Uses(l, c)' /\ \A k \in Leases : k # l => (Uses(k, c)' <=> Uses(k, c))

LEMMA UsersSame == ASSUME NEW c, SameUsers(c) PROVE Users(c)' = Users(c)
  BY DEF SameUsers, Uses, Users

LEMMA UsersFinite == ASSUME NEW c PROVE IsFiniteSet(Users(c)) /\ IsFiniteSet(Users(c)') /\ Users(c) \subseteq Leases
<1>1. Users(c) \subseteq Leases /\ Users(c)' \subseteq Leases
  BY DEF Users
<1> QED BY <1>1, FS_Subset, PoolAssumption

LEMMA UsersAdded ==
  ASSUME NEW c, NEW l \in Leases, UserAdded(l, c)
  PROVE  Cardinality(Users(c)') = Cardinality(Users(c)) + 1
<1>1. Users(c)' = Users(c) \cup {l} /\ l \notin Users(c)
  BY DEF UserAdded, Uses, Users
<1> QED BY <1>1, UsersFinite, FS_AddElement

LEMMA UsersGone ==
  ASSUME NEW c, NEW l \in Leases, UserGone(l, c)
  PROVE  Cardinality(Users(c)') = Cardinality(Users(c)) - 1
<1>1. Users(c)' = Users(c) \ {l} /\ l \in Users(c)
  BY DEF UserGone, Uses, Users
<1> QED BY <1>1, UsersFinite, FS_RemoveElement

LEMMA NoUsers == ASSUME NEW c PROVE /\ (Cardinality(Users(c)) = 0) <=> (Users(c) = {})
                                    /\ (Cardinality(Users(c)') = 0) <=> (Users(c)' = {})
  BY UsersFinite, FS_EmptySet

CountInv == Counted /\ TimerOnlyWhenIdle

\* Steps that leave counts and users alone, and arm no timer.
CountKept ==
  /\ hasty' = hasty
  /\ \A c \in Conns : /\ SameUsers(c)
                      /\ pe'[c].refCount = pe[c].refCount
                      /\ pe'[c].timer => pe[c].timer /\ entry' = entry
  /\ entry' \in {None, entry}

LEMMA CountQuiet == ASSUME Refs, CountInv, CountKept PROVE CountInv'
<1>1. \A c \in Conns : Users(c)' = Users(c)
  BY UsersSame DEF CountKept
<1>2. \A c \in Conns : c = entry' => c = entry
  BY ConnsAreNumbers DEF CountKept
<1>3. Counted'
  <2> SUFFICES ASSUME NEW c \in Conns, ~hasty' \/ c = entry' PROVE pe'[c].refCount = Cardinality(Users(c)')
    BY DEF Counted
  <2> QED BY <1>1, <1>2 DEF CountInv, Counted, CountKept
<1>4. TimerOnlyWhenIdle'
  BY <1>1 DEF CountInv, TimerOnlyWhenIdle, CountKept
<1> QED BY <1>3, <1>4 DEF CountInv

LEMMA CountAsk ==
  ASSUME Refs, CountInv, NEW l \in Leases, ReuseEntry(l) \/ JoinPending(l) \/ StartConnect(l)
  PROVE  CountInv'
<1>1. OnlyLease(l) /\ lease[l].state = "none" /\ lease'[l].state \in {"waiting", "resolved"} /\ UNCHANGED <<entry, pe, hasty>>
  BY DEF Refs, TypeOK, Lease, OnlyLease, Ask, ReuseEntry, JoinPending, StartConnect
<1>2. CountKept
  BY <1>1 DEF CountKept, SameUsers, Uses, OnlyLease
<1> QED BY <1>2, CountQuiet

LEMMA CountChannel ==
  ASSUME Refs, CountInv, NEW l \in Leases,
         OpenChannel(l) \/ ChannelEnds(l) \/ FallbackFails(l) \/ StartFallback(l)
  PROVE  CountInv'
<1>1. /\ OnlyLease(l) /\ lease'[l].state = lease[l].state /\ lease'[l].entry = lease[l].entry
      /\ lease'[l].fallback = "used" <=> lease[l].fallback = "used"
      /\ UNCHANGED hasty
  BY DEF Refs, TypeOK, Lease, OnlyLease, OpenChannel, ChannelEnds, FallbackFails, StartFallback
<1>2. /\ entry' \in {None, entry}
      /\ \A c \in Conns : /\ pe'[c].refCount = pe[c].refCount
                          /\ pe'[c].timer => pe[c].timer /\ entry' = entry
  <2>1. CASE OpenChannel(l) \/ ChannelEnds(l) \/ FallbackFails(l)
    BY <2>1 DEF OpenChannel, ChannelEnds, FallbackFails
  <2>2. CASE StartFallback(l)
    <3>1. CASE entry = lease[l].entry
      <4>1. pe' = [pe EXCEPT ![entry].healthy = FALSE, ![entry].timer = FALSE] /\ entry' = None
        BY <2>2, <3>1 DEF StartFallback, Forget
      <4>2. \A c \in Conns : pe[c].timer => c = entry
        BY DEF CountInv, TimerOnlyWhenIdle
      <4>3. pe \in [Conns -> PoolEntry]
        BY DEF Refs, TypeOK
      <4> QED BY <4>1, <4>2, <4>3 DEF PoolEntry
    <3>2. CASE entry # lease[l].entry
      BY <2>2, <3>2 DEF StartFallback
    <3> QED BY <3>1, <3>2
  <2> QED BY <2>1, <2>2
<1>3. CountKept
  BY <1>1, <1>2 DEF CountKept, SameUsers, Uses, OnlyLease
<1> QED BY <1>3, CountQuiet

LEMMA CountJoin == ASSUME Refs, CountInv, NEW l \in Leases, Join(l) PROVE CountInv'
<1>0. PICK e \in Conns : e = lease[l].entry
  BY DEF Refs, TypeOK, Lease, Join
<1>1. lease[l].entry = e /\ lease[l].state = "resolved" /\ lease[l].fallback = "none"
  BY <1>0 DEF Refs, TypeOK, Lease, Stages, Join
<1>2. /\ OnlyLease(l) /\ lease'[l].state = "open" /\ lease'[l].entry = e
      /\ lease'[l].fallback = lease[l].fallback /\ UNCHANGED <<entry, hasty>>
  BY <1>1 DEF Refs, TypeOK, Lease, OnlyLease, Join
<1>3. /\ pe'[e].refCount = pe[e].refCount + 1 /\ ~pe'[e].timer
      /\ \A c \in Conns : c # e => pe'[c] = pe[c]
  BY <1>1 DEF Refs, TypeOK, PoolEntry, Join, Retain
<1>4. UserAdded(l, e) /\ \A c \in Conns : c # e => SameUsers(c)
  BY <1>1, <1>2 DEF UserAdded, SameUsers, Uses, OnlyLease
<1>5. /\ Cardinality(Users(e)') = Cardinality(Users(e)) + 1
      /\ \A c \in Conns : c # e => Users(c)' = Users(c)
  BY <1>1, <1>4, UsersAdded, UsersSame
<1>6. Counted'
  <2> SUFFICES ASSUME NEW c \in Conns, ~hasty' \/ c = entry' PROVE pe'[c].refCount = Cardinality(Users(c)')
    BY DEF Counted
  <2>1. pe[c].refCount = Cardinality(Users(c))
    BY <1>2, ConnsAreNumbers DEF CountInv, Counted
  <2> QED BY <1>3, <1>5, <2>1
<1>7. TimerOnlyWhenIdle'
  BY <1>2, <1>3, <1>5 DEF CountInv, TimerOnlyWhenIdle
<1> QED BY <1>6, <1>7 DEF CountInv

\* A lease that stops using its entry releases it.
LEMMA CountReleased ==
  ASSUME Refs, CountInv, NEW e \in Conns, NEW l \in Leases,
         NEW cs \in [Conns -> {"unused", "alive", "stale", "closed"}],
         ReleaseEntry(e, cs), entry' = entry, hasty => hasty',
         UserGone(l, e) \/ (hasty /\ e # entry /\ SameUsers(e)),
         \A c \in Conns : c # e => SameUsers(c)
  PROVE  CountInv' /\ \A c \in Conns : c # e => pe'[c] = pe[c]
<1>1. /\ pe'[e].refCount = pe[e].refCount - 1
      /\ \A c \in Conns : c # e => pe'[c] = pe[c]
      /\ pe'[e].timer => pe[e].timer \/ Idles(e, pe[e].refCount - 1)
  BY DEF Refs, TypeOK, PoolEntry, ReleaseEntry
<1>2. \A c \in Conns : c # e => Users(c)' = Users(c)
  BY UsersSame
<1>3. UserGone(l, e) => Cardinality(Users(e)') = Cardinality(Users(e)) - 1
  BY UsersGone
<1>4. Counted'
  <2> SUFFICES ASSUME NEW c \in Conns, ~hasty' \/ c = entry' PROVE pe'[c].refCount = Cardinality(Users(c)')
    BY DEF Counted
  <2>1. pe[c].refCount = Cardinality(Users(c))
    BY DEF CountInv, Counted
  <2> QED BY <1>1, <1>2, <1>3, <2>1
<1>5. pe'[e].timer => entry = e /\ Users(e)' = {}
  <2> SUFFICES ASSUME pe'[e].timer PROVE entry = e /\ Users(e)' = {}
    OBVIOUS
  <2>1. entry = e
    BY <1>1 DEF CountInv, TimerOnlyWhenIdle, Idles
  <2>2. UserGone(l, e)
    BY <2>1
  <2>3. Users(e) # {}
    BY <2>2 DEF UserGone, Uses, Users
  <2>4. pe'[e].refCount = 0
    BY <1>1, <2>3 DEF CountInv, TimerOnlyWhenIdle, Idles
  <2> QED BY <1>4, <2>1, <2>4, NoUsers DEF Counted
<1>6. TimerOnlyWhenIdle'
  BY <1>1, <1>2, <1>5 DEF CountInv, TimerOnlyWhenIdle
<1> QED BY <1>1, <1>4, <1>6 DEF CountInv

LEMMA CountConnected == ASSUME Refs, CountInv, NEW l \in Leases, FallbackConnected(l) PROVE CountInv'
<1>0. PICK e \in Conns : e = lease[l].entry
  BY DEF Refs, TypeOK, Lease, Stages, FallbackConnected
<1>1. lease[l].entry = e /\ lease[l].fallback = "connecting" /\ e # entry
  BY <1>0 DEF FallbackConnected, Refs, EntriesKnown
<1>2. PICK c \in Conns :
     /\ lease' = [lease EXCEPT ![l].fallback = "used", ![l].own = c]
     /\ ReleaseEntry(e, [conn EXCEPT ![c] = "alive"])
  BY <1>1 DEF FallbackConnected
<1>3. PICK cs \in [Conns -> {"unused", "alive", "stale", "closed"}] : cs = [conn EXCEPT ![c] = "alive"]
  <2>1. [conn EXCEPT ![c] = "alive"] \in [Conns -> {"unused", "alive", "stale", "closed"}]
    BY DEF Refs, TypeOK
  <2> QED BY <2>1
<1>4. ReleaseEntry(e, cs)
  BY <1>2, <1>3
<1>5. /\ OnlyLease(l) /\ lease'[l].fallback = "used" /\ lease'[l].state = lease[l].state /\ lease'[l].entry = e
      /\ UNCHANGED <<entry, hasty>>
  BY <1>1, <1>2 DEF Refs, TypeOK, Lease, OnlyLease, FallbackConnected
<1>6. lease[l].state # "open" => hasty
  BY <1>1 DEF Refs, Stages
<1>7. UserGone(l, e) \/ (hasty /\ e # entry /\ SameUsers(e))
  BY <1>1, <1>5, <1>6 DEF UserGone, SameUsers, Uses, OnlyLease
<1>8. \A d \in Conns : d # e => SameUsers(d)
  BY <1>1, <1>5 DEF SameUsers, Uses, OnlyLease
<1> QED BY <1>4, <1>5, <1>7, <1>8, CountReleased

LEMMA CountDispose == ASSUME Refs, CountInv, NEW l \in Leases, DisposeLease(l) PROVE CountInv'
<1>0. PICK e \in Conns : e = lease[l].entry
  BY DEF Refs, TypeOK, Lease, DisposeLease
<1>1. /\ OnlyLease(l) /\ lease'[l].state = "disposed" /\ lease[l].state = "open" /\ lease[l].entry = e
      /\ UNCHANGED entry /\ (hasty => hasty')
  BY <1>0 DEF Refs, TypeOK, Lease, OnlyLease, DisposeLease
<1>2. CASE lease[l].fallback = "used"
  <2>1. UNCHANGED pe
    BY <1>2 DEF DisposeLease
  <2>2. \A c \in Conns : SameUsers(c)
    BY <1>1, <1>2 DEF SameUsers, Uses, OnlyLease
  <2>3. \A c \in Conns : Users(c)' = Users(c)
    BY <2>2, UsersSame
  <2> QED BY <1>1, <2>1, <2>3 DEF CountInv, Counted, TimerOnlyWhenIdle
<1>3. CASE lease[l].fallback # "used"
  <2>1. UserGone(l, e)
    BY <1>1, <1>3 DEF UserGone, Uses, OnlyLease
  <2>2. \A d \in Conns : d # e => SameUsers(d)
    BY <1>1 DEF SameUsers, Uses, OnlyLease
  <2>3. ReleaseEntry(e, conn) /\ conn \in [Conns -> {"unused", "alive", "stale", "closed"}]
    BY <1>1, <1>3 DEF DisposeLease, Refs, TypeOK
  <2> QED BY <1>1, <2>1, <2>2, <2>3, CountReleased
<1> QED BY <1>2, <1>3

LEMMA CountCreated == ASSUME Refs, CountInv, EntryCreated PROVE CountInv'
<1>1. PICK c \in Conns :
     /\ conn[c] = "unused"
     /\ pe' = [pe EXCEPT ![c] = [refCount |-> 0, healthy |-> TRUE, timer |-> FALSE, subscribed |-> TRUE]]
     /\ entry' = c
  BY DEF EntryCreated, IsNext
<1>2. UNCHANGED <<lease, hasty>> /\ entry = None /\ c # None
  BY ConnsAreNumbers DEF EntryCreated, Refs, PendingSound
<1>3. \A d \in Conns : Users(d)' = Users(d)
  BY <1>2 DEF Users
<1>4. Users(c) = {}
  BY <1>1, <1>2 DEF Users, Refs, EntriesKnown
<1>5. pe'[c].refCount = 0 /\ ~pe'[c].timer /\ \A d \in Conns : d # c => pe'[d] = pe[d]
  BY <1>1 DEF Refs, TypeOK
<1>6. \A d \in Conns : ~pe[d].timer
  BY <1>2, ConnsAreNumbers DEF CountInv, TimerOnlyWhenIdle
<1>7. Counted'
  <2> SUFFICES ASSUME NEW d \in Conns, ~hasty' \/ d = entry' PROVE pe'[d].refCount = Cardinality(Users(d)')
    BY DEF Counted
  <2>1. CASE d = c
    BY <1>3, <1>4, <1>5, <2>1, NoUsers
  <2>2. CASE d # c
    BY <1>1, <1>2, <1>3, <1>5, <2>2 DEF CountInv, Counted
  <2> QED BY <2>1, <2>2
<1>8. TimerOnlyWhenIdle'
  BY <1>5, <1>6 DEF TimerOnlyWhenIdle
<1> QED BY <1>7, <1>8 DEF CountInv

LEMMA CountPending ==
  ASSUME Refs, CountInv, CreatedTooLate \/ ConnectFails \/ SettlePending
  PROVE  CountInv'
<1>1. \A k \in Leases : lease'[k] = lease[k] \/ (lease[k].state = "waiting" /\ lease'[k].state \in {"rejected", "resolved"})
  <2>1. CASE RejectWaiters
    BY <2>1 DEF RejectWaiters, Refs, TypeOK, Lease
  <2>2. CASE SettlePending
    BY <2>2 DEF SettlePending, Resolved, Refs, TypeOK, Lease
  <2> QED BY <2>1, <2>2 DEF CreatedTooLate, ConnectFails
<1>2. UNCHANGED <<entry, pe, hasty>>
  BY DEF CreatedTooLate, ConnectFails, SettlePending
<1>3. CountKept
  BY <1>1, <1>2 DEF CountKept, SameUsers, Uses
<1> QED BY <1>3, CountQuiet

LEMMA CountLeaves ==
  ASSUME Refs, CountInv,
         \/ IdleTimerFires \/ Disconnect \/ DisposePool \/ EditAndInvalidate
         \/ \E c \in Conns : SocketDies(c) \/ CloseEvent(c)
  PROVE  CountInv'
<1>1. UNCHANGED <<lease, hasty>>
  BY DEF IdleTimerFires, Disconnect, DisposePool, EditAndInvalidate, SocketDies, CloseEvent
<1>2. pe \in [Conns -> PoolEntry] /\ entry \in Conns \cup {None} /\ \A c \in Conns : pe[c].timer => c = entry
  BY DEF Refs, TypeOK, CountInv, TimerOnlyWhenIdle
<1>3. /\ entry' \in {None, entry}
      /\ \A d \in Conns : /\ pe'[d].refCount = pe[d].refCount
                          /\ pe'[d].timer => pe[d].timer /\ entry' = entry
  <2>1. CASE /\ entry # None /\ entry' = None
             /\ pe' = [pe EXCEPT ![entry].timer = FALSE, ![entry].subscribed = FALSE]
    BY <1>2, <2>1 DEF PoolEntry
  <2>2. CASE /\ entry # None /\ entry' = None
             /\ \E s : pe' = [pe EXCEPT ![entry].timer = FALSE, ![entry].healthy = FALSE, ![entry].subscribed = s]
    BY <1>2, <2>2 DEF PoolEntry
  <2>3. CASE UNCHANGED <<pe, entry>>
    BY <1>2, <2>3
  <2>4. ASSUME NEW c \in Conns, CloseEvent(c)
        PROVE  /\ entry' \in {None, entry}
               /\ \A d \in Conns : /\ pe'[d].refCount = pe[d].refCount
                                   /\ pe'[d].timer => pe[d].timer /\ entry' = entry
    <3>1. CASE pe[c].subscribed
      <4>1. pe' = [pe EXCEPT ![c].healthy = FALSE, ![c].timer = FALSE]
        BY <2>4, <3>1 DEF CloseEvent
      <4>2. entry' = IF entry = c THEN None ELSE entry
        BY <2>4, <3>1 DEF CloseEvent, Closed, Forget
      <4>3. ~pe'[c].timer /\ \A d \in Conns : pe'[d].refCount = pe[d].refCount /\ (d # c => pe'[d] = pe[d])
        BY <1>2, <4>1 DEF PoolEntry
      <4> QED BY <1>2, <4>2, <4>3
    <3>2. CASE ~pe[c].subscribed
      BY <1>2, <2>4, <3>2 DEF CloseEvent, Closed
    <3> QED BY <3>1, <3>2
  <2>5. CASE IdleTimerFires \/ Disconnect \/ DisposePool
    BY <2>1, <2>3, <2>5, ConnsAreNumbers DEF IdleTimerFires, IdleDue, Disconnect, DisposePool, Evict, Forget
  <2>6. CASE EditAndInvalidate
    BY <2>2, <2>3, <2>6 DEF EditAndInvalidate, Forget
  <2>7. CASE \E c \in Conns : SocketDies(c)
    BY <2>3, <2>7 DEF SocketDies
  <2> QED BY <2>4, <2>5, <2>6, <2>7
<1>4. CountKept
  BY <1>1, <1>3 DEF CountKept, SameUsers, Uses
<1> QED BY <1>4, CountQuiet

LEMMA CountStep == Refs /\ CountInv /\ [Next]_vars => CountInv'
<1> SUFFICES ASSUME Refs, CountInv, [Next]_vars PROVE CountInv'
  OBVIOUS
<1>1. CASE UNCHANGED vars
  BY <1>1 DEF vars, CountInv, Counted, TimerOnlyWhenIdle, Users
<1>2. CASE Next
  BY <1>2, CountAsk, CountChannel, CountJoin, CountConnected, CountDispose, CountCreated, CountPending, CountLeaves DEF Next
<1> QED BY <1>1, <1>2

LEMMA InitCount == Init => CountInv
<1> SUFFICES ASSUME Init PROVE CountInv
  OBVIOUS
<1>1. \A c \in Conns : pe[c].refCount = 0 /\ ~pe[c].timer /\ Users(c) = {}
  BY DEF Init, Users
<1> QED BY <1>1, NoUsers DEF CountInv, Counted, TimerOnlyWhenIdle

\* l has, or is about to take, a reference to c, or owns it.
Owns(l, c) ==
  \/ lease[l].state \in {"resolved", "open"} /\ lease[l].entry = c /\ lease[l].fallback # "used"
  \/ lease[l].state = "open" /\ lease[l].own = c

Reached(c) == \E l \in Leases : Owns(l, c)

ReachInv == NoConnectionLeak /\ IdleIsTimed

LEMMA OwnersReached == ASSUME NEW c PROVE /\ Owners(c) # {} <=> Reached(c)
                                          /\ Owners(c)' # {} <=> Reached(c)'
  BY DEF Owners, Owns, Reached

LEMMA UsersReached == ASSUME NEW c PROVE /\ Users(c) # {} => Reached(c)
                                         /\ Users(c)' # {} => Reached(c)'
  BY DEF Users, Owns, Reached

\* Connections stay in somebody's reach and the idle entry its timer.
ReachKept ==
  /\ hasty => hasty'
  /\ \A c \in Conns : /\ conn'[c] = "alive" => conn[c] = "alive"
                      /\ Reached(c) => Reached(c)' \/ conn'[c] # "alive"
  /\ pending = "settling" => pending' = "settling" /\ resolved' = resolved
  /\ entry' = entry
  /\ entry # None => /\ Reached(entry) => Reached(entry)'
                     /\ pe'[entry].timer = pe[entry].timer \/ Reached(entry)'

LEMMA ReachQuiet == ASSUME Refs, ReachInv, ReachKept PROVE ReachInv'
<1>1. NoConnectionLeak'
  <2> SUFFICES ASSUME NEW c \in Conns, conn'[c] = "alive"
               PROVE  hasty' \/ c = entry' \/ (c = resolved' /\ pending' = "settling") \/ Owners(c)' # {}
    BY DEF NoConnectionLeak
  <2>1. hasty \/ c = entry \/ (c = resolved /\ pending = "settling") \/ Reached(c)
    BY OwnersReached DEF ReachInv, NoConnectionLeak, ReachKept
  <2> QED BY <2>1, OwnersReached DEF ReachKept
<1>2. IdleIsTimed'
  <2> SUFFICES ASSUME IdleTimeout, entry' # None, pending' # "settling", (Owners(entry) = {})'
               PROVE  pe'[entry'].timer
    BY DEF IdleIsTimed
  <2>1. entry' = entry /\ ~Reached(entry)'
    <3>1. entry' = entry BY DEF ReachKept
    <3>2. (\A l \in Leases : ~Owns(l, entry))'
      BY DEF Owners, Owns
    <3> QED BY <3>1, <3>2 DEF Reached
  <2>2. ~Reached(entry) /\ pending # "settling" /\ pe'[entry].timer = pe[entry].timer
    BY <2>1 DEF ReachKept
  <2>3. pe[entry].timer
    BY <2>1, <2>2, OwnersReached DEF ReachInv, IdleIsTimed
  <2> QED BY <2>1, <2>2, <2>3
<1> QED BY <1>1, <1>2 DEF ReachInv

\* The entry is gone: nothing to time.
LEMMA ReachGone ==
  ASSUME ReachInv, entry' = None, hasty => hasty',
         pending = "settling" => pending' = "settling" /\ resolved' = resolved,
         \A c \in Conns : /\ conn'[c] = "alive" => conn[c] = "alive" /\ (c = entry => hasty' \/ Reached(c)')
                          /\ Reached(c) => Reached(c)'
  PROVE  ReachInv'
<1>1. NoConnectionLeak'
  <2> SUFFICES ASSUME NEW c \in Conns, conn'[c] = "alive"
               PROVE  hasty' \/ c = entry' \/ (c = resolved' /\ pending' = "settling") \/ Owners(c)' # {}
    BY DEF NoConnectionLeak
  <2>1. hasty \/ c = entry \/ (c = resolved /\ pending = "settling") \/ Reached(c)
    BY OwnersReached DEF ReachInv, NoConnectionLeak
  <2> QED BY <2>1, OwnersReached
<1>2. IdleIsTimed'
  BY DEF IdleIsTimed
<1> QED BY <1>1, <1>2 DEF ReachInv

LEMMA ReachAsk ==
  ASSUME Refs, ReachInv, NEW l \in Leases, ReuseEntry(l) \/ JoinPending(l) \/ StartConnect(l)
  PROVE  ReachInv'
<1>1. /\ OnlyLease(l) /\ lease[l].state = "none" /\ UNCHANGED <<conn, entry, pe, resolved, hasty>>
      /\ pending = "settling" => pending' = "settling"
  BY DEF Refs, TypeOK, Lease, OnlyLease, Ask, ReuseEntry, JoinPending, StartConnect
<1>2. \A k \in Leases, c \in Conns : Owns(k, c) => Owns(k, c)'
  BY <1>1 DEF Owns, OnlyLease
<1>3. entry # None => entry \in Conns
  BY DEF Refs, TypeOK
<1>4. ReachKept
  BY <1>1, <1>2, <1>3 DEF ReachKept, Reached
<1> QED BY <1>4, ReachQuiet

LEMMA ReachChannel ==
  ASSUME Refs, ReachInv, NEW l \in Leases,
         OpenChannel(l) \/ ChannelEnds(l) \/ FallbackFails(l) \/ Join(l)
  PROVE  ReachInv'
<1>1. /\ OnlyLease(l) /\ UNCHANGED <<conn, entry, resolved, hasty, pending>>
      /\ lease'[l].entry = lease[l].entry /\ lease'[l].own = lease[l].own
      /\ lease[l].fallback # "used" => lease'[l].fallback # "used"
      /\ lease'[l].state = lease[l].state \/ (lease[l].state = "resolved" /\ lease'[l].state = "open")
  BY DEF Refs, TypeOK, Lease, OnlyLease, OpenChannel, ChannelEnds, FallbackFails, Join
<1>2. \A k \in Leases, c \in Conns : Owns(k, c) => Owns(k, c)'
  BY <1>1 DEF Owns, OnlyLease
<1>3. entry # None => entry \in Conns
  BY DEF Refs, TypeOK
<1>4. entry # None => pe'[entry].timer = pe[entry].timer \/ Reached(entry)'
  <2>1. CASE ~Join(l)
    BY <2>1 DEF OpenChannel, ChannelEnds, FallbackFails
  <2>2. CASE Join(l) /\ lease[l].entry = entry
    <3>1. lease[l].fallback = "none" /\ lease[l].state = "resolved"
      BY <2>2 DEF Refs, Stages, Join
    <3>2. Owns(l, entry)
      BY <2>2, <3>1 DEF Owns
    <3> QED BY <1>1, <1>2, <1>3, <3>2 DEF Reached
  <2>3. CASE Join(l) /\ lease[l].entry # entry
    <3>1. entry # None => pe'[entry] = pe[entry]
      BY <1>3, <2>3 DEF Join, Retain, Refs, TypeOK
    <3> QED BY <3>1
  <2> QED BY <2>1, <2>2, <2>3
<1>5. ReachKept
  BY <1>1, <1>2, <1>3, <1>4 DEF ReachKept, Reached
<1> QED BY <1>5, ReachQuiet

LEMMA ReachFallback == ASSUME Refs, ReachInv, NEW l \in Leases, StartFallback(l) PROVE ReachInv'
<1>1. /\ OnlyLease(l) /\ UNCHANGED <<conn, resolved, hasty, pending>>
      /\ lease'[l].entry = lease[l].entry /\ lease'[l].own = lease[l].own
      /\ lease'[l].fallback = "connecting" /\ lease'[l].state = lease[l].state /\ lease[l].opening
  BY DEF Refs, TypeOK, Lease, OnlyLease, StartFallback
<1>2. \A k \in Leases, c \in Conns : Owns(k, c) => Owns(k, c)'
  BY <1>1 DEF Owns, OnlyLease
<1>3. entry # None => entry \in Conns
  BY DEF Refs, TypeOK
<1>4. CASE entry # lease[l].entry
  <2>1. UNCHANGED <<pe, entry>>
    BY <1>4 DEF StartFallback
  <2>2. ReachKept
    BY <1>1, <1>2, <1>3, <2>1 DEF ReachKept, Reached
  <2> QED BY <2>2, ReachQuiet
<1>5. CASE entry = lease[l].entry
  <2>1. entry' = None
    BY <1>5 DEF StartFallback, Forget
  <2>2. ~hasty => lease'[l].state = "open"
    BY <1>1 DEF Refs, Stages
  <2>3. \A c \in Conns : c = entry => hasty' \/ Reached(c)'
    BY <1>1, <1>5, <2>2 DEF Reached, Owns
  <2>4. \A c \in Conns : Reached(c) => Reached(c)'
    BY <1>2 DEF Reached
  <2> QED BY <1>1, <2>1, <2>3, <2>4, ReachGone
<1> QED BY <1>4, <1>5
\* A lease l stops using e.
LEMMA ReachReleased ==
  ASSUME Refs, ReachInv, CountInv', NEW e \in Conns, NEW l \in Leases,
         NEW cs \in [Conns -> {"unused", "alive", "stale", "closed"}],
         ReleaseEntry(e, cs), entry' = entry, hasty => hasty',
         UNCHANGED <<pending, resolved>>,
         \A c \in Conns : cs[c] = "alive" => conn[c] = "alive" \/ hasty' \/ Reached(c)',
         \A c \in Conns : c # e => (Reached(c) => Reached(c)')
  PROVE  ReachInv'
<1> DEFINE left == pe[e].refCount - 1
<1>1. pe'[e].refCount = left /\ \A c \in Conns : c # e => pe'[c] = pe[c]
  BY DEF Refs, TypeOK, PoolEntry, ReleaseEntry
<1>2. e = entry /\ left = 0 => pe'[e].timer = IdleTimeout
  BY DEF Refs, TypeOK, PoolEntry, ReleaseEntry, Idles
<1>3. /\ e # entry /\ left = 0 => conn'[e] = "closed"
      /\ \A c \in Conns : conn'[c] = "alive" => cs[c] = "alive"
  BY DEF ReleaseEntry, Orphaned
<1>4. ~hasty' \/ e = entry => (left = 0 <=> Users(e)' = {})
  BY <1>1, NoUsers DEF CountInv, Counted
<1> HIDE DEF left
<1>5. NoConnectionLeak'
  <2> SUFFICES ASSUME NEW c \in Conns, conn'[c] = "alive", ~hasty', c # entry'
               PROVE  (c = resolved' /\ pending' = "settling") \/ Reached(c)'
    BY OwnersReached DEF NoConnectionLeak
  <2>1. CASE c = e
    BY <1>3, <1>4, <2>1, UsersReached
  <2>2. CASE c # e
    <3>1. conn[c] = "alive" \/ Reached(c)'
      BY <1>3
    <3>2. conn[c] = "alive" => (c = resolved /\ pending = "settling") \/ Reached(c)
      BY OwnersReached DEF ReachInv, NoConnectionLeak
    <3> QED BY <2>2, <3>1, <3>2
  <2> QED BY <2>1, <2>2
<1>6. IdleIsTimed'
  <2> SUFFICES ASSUME IdleTimeout, entry' # None, pending' # "settling", (Owners(entry) = {})'
               PROVE  pe'[entry'].timer
    BY DEF IdleIsTimed
  <2>1. PICK c \in Conns : c = entry
    BY DEF Refs, TypeOK
  <2>2. ~Reached(c)'
    BY <2>1, OwnersReached
  <2>3. CASE c = e
    <3>1. Users(e)' = {}
      BY <2>2, <2>3, UsersReached
    <3> QED BY <1>2, <1>4, <2>1, <2>3, <3>1
  <2>4. CASE c # e
    <3>1. pe[c].timer
      BY <2>1, <2>2, <2>4, OwnersReached DEF ReachInv, IdleIsTimed
    <3> QED BY <1>1, <2>1, <2>4, <3>1
  <2> QED BY <2>3, <2>4
<1> QED BY <1>5, <1>6 DEF ReachInv

LEMMA ReachConnected == ASSUME Refs, CountInv, ReachInv, NEW l \in Leases, FallbackConnected(l) PROVE ReachInv'
<1>0. PICK e \in Conns : e = lease[l].entry
  BY DEF Refs, TypeOK, Lease, Stages, FallbackConnected
<1>1. lease[l].entry = e /\ lease[l].fallback = "connecting" /\ lease[l].own = None
  BY <1>0 DEF FallbackConnected, Refs, Stages
<1>2. PICK c \in Conns :
     /\ lease' = [lease EXCEPT ![l].fallback = "used", ![l].own = c]
     /\ ReleaseEntry(e, [conn EXCEPT ![c] = "alive"])
  BY <1>1 DEF FallbackConnected
<1>3. PICK cs \in [Conns -> {"unused", "alive", "stale", "closed"}] : cs = [conn EXCEPT ![c] = "alive"]
  <2>1. [conn EXCEPT ![c] = "alive"] \in [Conns -> {"unused", "alive", "stale", "closed"}]
    BY DEF Refs, TypeOK
  <2> QED BY <2>1
<1>4. ReleaseEntry(e, cs)
  BY <1>2, <1>3
<1>5. /\ OnlyLease(l) /\ lease'[l].state = lease[l].state /\ lease'[l].own = c
      /\ UNCHANGED <<entry, pending, resolved, hasty>>
  BY <1>1, <1>2 DEF Refs, TypeOK, Lease, OnlyLease, FallbackConnected
<1>6. hasty' \/ Reached(c)'
  <2>1. ~hasty => lease[l].state = "open"
    BY <1>1 DEF Refs, Stages
  <2> QED BY <1>5, <2>1 DEF Reached, Owns
<1>7. \A d \in Conns : cs[d] = "alive" => conn[d] = "alive" \/ hasty' \/ Reached(d)'
  BY <1>3, <1>6 DEF Refs, TypeOK
<1>8. \A d \in Conns : d # e => (Reached(d) => Reached(d)')
  <2>1. \A d \in Conns, k \in Leases : d # e /\ Owns(k, d) => k # l
    BY <1>1, ConnsAreNumbers DEF Owns
  <2>2. \A d \in Conns, k \in Leases : k # l /\ Owns(k, d) => Owns(k, d)'
    BY <1>5 DEF Owns, OnlyLease
  <2> QED BY <2>1, <2>2 DEF Reached
<1>9. CountInv'
  BY CountConnected
<1> QED BY <1>4, <1>5, <1>7, <1>8, <1>9, ReachReleased

LEMMA ReachDispose == ASSUME Refs, CountInv, ReachInv, NEW l \in Leases, DisposeLease(l) PROVE ReachInv'
<1>0. PICK e \in Conns : e = lease[l].entry
  BY DEF Refs, TypeOK, Lease, DisposeLease
<1>1. /\ OnlyLease(l) /\ lease[l].state = "open" /\ lease[l].entry = e
      /\ UNCHANGED <<entry, pending, resolved>> /\ (hasty => hasty')
  BY <1>0 DEF Refs, TypeOK, Lease, OnlyLease, DisposeLease
<1>2. \A d \in Conns, k \in Leases : k # l /\ Owns(k, d) => Owns(k, d)'
  BY <1>1 DEF Owns, OnlyLease
<1>3. CASE lease[l].fallback = "used"
  <2>1. UNCHANGED pe /\ conn' = [conn EXCEPT ![lease[l].own] = "closed"]
    BY <1>3 DEF DisposeLease
  <2>2. \A d \in Conns : Owns(l, d) => d = lease[l].own /\ conn'[d] = "closed"
    BY <1>1, <1>3, <2>1 DEF Owns, Refs, TypeOK
  <2>3. \A d \in Conns : Reached(d) => Reached(d)' \/ conn'[d] = "closed"
    BY <1>2, <2>2 DEF Reached
  <2>4. entry # None => entry \in Conns /\ conn'[entry] # "closed"
    <3>1. entry # None => entry \in Conns /\ conn[entry] # "closed" /\ entry # lease[l].own
      BY DEF Refs, TypeOK, MapEntryUsable, OwnApart
    <3> QED BY <2>1, <3>1 DEF Refs, TypeOK
  <2>5. \A c \in Conns : conn'[c] = "alive" => conn[c] = "alive"
    BY <2>1 DEF Refs, TypeOK
  <2>6. ReachKept
    BY <1>1, <2>1, <2>3, <2>4, <2>5 DEF ReachKept
  <2> QED BY <2>6, ReachQuiet
<1>4. CASE lease[l].fallback # "used"
  <2>1. ReleaseEntry(e, conn) /\ conn \in [Conns -> {"unused", "alive", "stale", "closed"}]
    BY <1>1, <1>4 DEF DisposeLease, Refs, TypeOK
  <2>2. lease[l].own = None
    BY <1>4 DEF Refs, Stages
  <2>3. \A d \in Conns, k \in Leases : d # e /\ Owns(k, d) => k # l
    BY <1>1, <2>2, ConnsAreNumbers DEF Owns
  <2>4. \A d \in Conns : d # e => (Reached(d) => Reached(d)')
    BY <1>2, <2>3 DEF Reached
  <2>5. CountInv'
    BY CountDispose
  <2> QED BY <1>1, <2>1, <2>4, <2>5, ReachReleased
<1> QED BY <1>3, <1>4

LEMMA ReachCreated == ASSUME Refs, ReachInv, EntryCreated PROVE ReachInv'
<1>1. PICK c \in Conns : conn' = [conn EXCEPT ![c] = "alive"] /\ entry' = c
  BY DEF EntryCreated
<1>2. UNCHANGED <<lease, hasty>> /\ entry = None /\ pending = "connecting" /\ pending' = "settling"
  BY DEF EntryCreated, Refs, PendingSound
<1>3. \A d \in Conns : Owners(d)' = Owners(d)
  BY <1>2 DEF Owners
<1>4. NoConnectionLeak'
  BY <1>1, <1>2, <1>3, ConnsAreNumbers DEF ReachInv, NoConnectionLeak, Refs, TypeOK
<1>5. IdleIsTimed'
  BY <1>2 DEF IdleIsTimed
<1> QED BY <1>4, <1>5 DEF ReachInv

LEMMA ReachRejected == ASSUME Refs, ReachInv, CreatedTooLate \/ ConnectFails PROVE ReachInv'
<1>1. RejectWaiters /\ UNCHANGED <<entry, pe, resolved, hasty>> /\ pending = "connecting"
  BY DEF CreatedTooLate, ConnectFails
<1>2. \A k \in Leases : lease[k].state # "waiting" => lease'[k] = lease[k]
  BY <1>1 DEF RejectWaiters
<1>3. \A k \in Leases, c \in Conns : Owns(k, c) => Owns(k, c)'
  BY <1>2 DEF Owns
<1>4. \A c \in Conns : conn'[c] = "alive" => conn[c] = "alive"
  BY DEF CreatedTooLate, ConnectFails, Refs, TypeOK
<1>5. entry # None => entry \in Conns
  BY DEF Refs, TypeOK
<1>6. ReachKept
  BY <1>1, <1>3, <1>4, <1>5 DEF ReachKept, Reached
<1> QED BY <1>6, ReachQuiet

LEMMA ReachSettle == ASSUME Refs, ReachInv, SettlePending PROVE ReachInv'
<1>1. /\ \A k \in Leases : lease[k].state # "waiting" => lease'[k] = lease[k]
      /\ UNCHANGED <<conn, entry, pe, hasty>> /\ pending = "settling" /\ pending' = "none"
  BY DEF SettlePending, Resolved
<1>2. PICK w \in Leases : lease[w].state = "waiting"
  BY <1>1 DEF Refs, PendingSound
<1>3. resolved \in Conns /\ entry \in {None, resolved}
  BY <1>1 DEF Refs, PendingSound, TypeOK
<1>4. lease'[w].state = "resolved" /\ lease'[w].entry = resolved /\ lease'[w].fallback # "used"
  BY <1>2 DEF SettlePending, Resolved, Refs, TypeOK, Lease, Stages
<1>5. \A k \in Leases, c \in Conns : Owns(k, c) => Owns(k, c)'
  BY <1>1 DEF Owns
<1>6. \A c \in Conns : c = resolved => Reached(c)'
  BY <1>4 DEF Owns, Reached
<1>7. NoConnectionLeak'
  <2> SUFFICES ASSUME NEW c \in Conns, conn'[c] = "alive", ~hasty', c # entry'
               PROVE  Reached(c)'
    BY OwnersReached DEF NoConnectionLeak
  <2>1. c = resolved \/ Reached(c)
    BY <1>1, OwnersReached DEF ReachInv, NoConnectionLeak
  <2> QED BY <1>5, <1>6, <2>1 DEF Reached
<1>8. IdleIsTimed'
  <2> SUFFICES ASSUME entry' # None, (Owners(entry) = {})' PROVE FALSE
    BY DEF IdleIsTimed
  <2>1. PICK c \in Conns : c = entry /\ c = resolved
    BY <1>1, <1>3
  <2>2. Owners(c)' = {}
    BY <1>1, <2>1 DEF Owners
  <2> QED BY <1>6, <2>1, <2>2, OwnersReached
<1> QED BY <1>7, <1>8 DEF ReachInv

LEMMA ReachLeaves ==
  ASSUME Refs, CountInv, ReachInv,
         \/ IdleTimerFires \/ Disconnect \/ DisposePool \/ EditAndInvalidate
         \/ \E c \in Conns : SocketDies(c) \/ CloseEvent(c)
  PROVE  ReachInv'
<1>1. UNCHANGED <<lease, pending, resolved, hasty>>
  BY DEF IdleTimerFires, Disconnect, DisposePool, EditAndInvalidate, SocketDies, CloseEvent
<1>2. \A c \in Conns : /\ conn'[c] = "alive" => conn[c] = "alive"
                       /\ Reached(c)' <=> Reached(c)
  <2>1. \A c \in Conns : Reached(c)' <=> Reached(c)
    BY <1>1 DEF Reached, Owns
  <2>2. \A c \in Conns : conn'[c] = "alive" => conn[c] = "alive"
    BY DEF Refs, TypeOK, IdleTimerFires, Disconnect, DisposePool, EditAndInvalidate, SocketDies, CloseEvent, Evict
  <2> QED BY <2>1, <2>2
<1>3. entry # None => entry \in Conns
  BY DEF Refs, TypeOK
<1>4. CASE entry' = entry
  <2>1. entry # None => pe'[entry].timer = pe[entry].timer
    <3>1. CASE UNCHANGED pe
      BY <3>1, <1>4
    <3>2. ASSUME NEW c \in Conns, CloseEvent(c), entry # None PROVE pe'[entry].timer = pe[entry].timer
      <4>1. pe[c].subscribed => c # entry
        BY <1>3, <1>4, <3>2, ConnsAreNumbers DEF CloseEvent, Closed, Forget
      <4> QED BY <3>2, <1>3, <4>1 DEF CloseEvent, Refs, TypeOK
    <3> QED BY <1>4, <3>1, <3>2, ConnsAreNumbers
        DEF IdleTimerFires, IdleDue, Disconnect, DisposePool, EditAndInvalidate, SocketDies, Evict, Forget
  <2>2. ReachKept
    BY <1>1, <1>2, <1>3, <1>4, <2>1 DEF ReachKept
  <2> QED BY <2>2, ReachQuiet
<1>5. CASE entry' # entry
  <2>1. entry' = None /\ entry \in Conns
    BY <1>3, <1>5 DEF IdleTimerFires, Disconnect, DisposePool, EditAndInvalidate, SocketDies, CloseEvent, Evict, Forget
  <2>2. conn'[entry] = "closed" \/ Reached(entry)
    <3>1. CASE EditAndInvalidate
      <4>1. CASE pe[entry].refCount = 0
        BY <1>5, <2>1, <3>1, <4>1 DEF EditAndInvalidate, Refs, TypeOK
      <4>2. CASE pe[entry].refCount # 0
        <5>1. Users(entry) # {}
          BY <2>1, <4>2, NoUsers DEF CountInv, Counted
        <5> QED BY <5>1, UsersReached
      <4> QED BY <4>1, <4>2
    <3>2. CASE IdleTimerFires \/ Disconnect \/ DisposePool
      BY <1>5, <2>1, <3>2 DEF IdleTimerFires, Disconnect, DisposePool, Evict, Refs, TypeOK
    <3>3. ASSUME NEW c \in Conns, SocketDies(c) \/ CloseEvent(c) PROVE conn'[entry] = "closed"
      BY <1>5, <2>1, <3>3 DEF SocketDies, CloseEvent, Closed, Refs, TypeOK
    <3> QED BY <3>1, <3>2, <3>3
  <2>3. \A c \in Conns : c = entry /\ conn'[c] = "alive" => hasty' \/ Reached(c)'
    BY <1>2, <2>1, <2>2
  <2> QED BY <1>1, <1>2, <2>1, <2>3, ReachGone
<1> QED BY <1>4, <1>5

LEMMA ReachStep == Refs /\ CountInv /\ ReachInv /\ [Next]_vars => ReachInv'
<1> SUFFICES ASSUME Refs, CountInv, ReachInv, [Next]_vars PROVE ReachInv'
  OBVIOUS
<1>1. CASE UNCHANGED vars
  BY <1>1 DEF vars, ReachInv, NoConnectionLeak, IdleIsTimed, Owners
<1>2. CASE Next
  BY <1>2, ReachAsk, ReachChannel, ReachFallback, ReachConnected, ReachDispose, ReachCreated, ReachRejected,
     ReachSettle, ReachLeaves DEF Next
<1> QED BY <1>1, <1>2

------------------------------------------------------------------------------
LEMMA InitPool == Init => PoolInv
<1> SUFFICES ASSUME Init PROVE PoolInv
  OBVIOUS
<1>1. NoConnectionLeak /\ IdleIsTimed
  BY DEF Init, NoConnectionLeak, IdleIsTimed
<1> QED BY <1>1, InitRefs, InitCount DEF PoolInv, CountInv

LEMMA PoolStep == PoolInv /\ [Next]_vars => PoolInv'
  BY RefsStep, CountStep, ReachStep DEF PoolInv, CountInv, ReachInv

LEMMA PoolInductive == Spec => []PoolInv
  BY InitPool, PoolStep, PTL DEF Spec

\* The pool's promises to callers, listeners and timers (PoolInvariants), for
\* any leases, connections and edits of the server: the map offers a usable
\* entry the listeners know of, no idle timer closes a connection in use, an
\* idle one has its timer, counts are exact and no connection is out of reach.
THEOREM PoolIsSound == Spec => []PoolInvariants
<1>1. PoolInv => PoolInvariants
  BY DEF PoolInv, Refs, PoolInvariants, Counted, RefCountExact
<1> QED BY <1>1, PoolInductive, PTL

\* A lease that is released never closes a connection another lease runs
\* channels over, when callers wait for the channel they open (the onRelease
\* closure of getOrCreateEntry()'s leases).
LEMMA CarefulStep ==
  ASSUME PoolInv, PoolInv', [Next]_vars, NEW c \in Conns,
         conn[c] = "alive", conn'[c] = "closed", entry' = entry, ~hasty'
  PROVE  Users(c)' = {}
<1> USE DEF PoolInv
<1>1. conn' # conn
  OBVIOUS
<1>2. ASSUME NEW e \in Conns, NEW cs \in [Conns -> {"unused", "alive", "stale", "closed"}],
             ReleaseEntry(e, cs), cs[c] = "alive"
      PROVE  Users(c)' = {}
  <2>1. c = e /\ Orphaned(e, pe[e].refCount - 1)
    BY <1>2 DEF ReleaseEntry
  <2>2. pe'[e].refCount = pe[e].refCount - 1
    BY <1>2 DEF Refs, TypeOK, PoolEntry, ReleaseEntry
  <2> QED BY <2>1, <2>2, NoUsers DEF Orphaned, Counted
<1>3. ASSUME NEW l \in Leases, FallbackConnected(l) PROVE Users(c)' = {}
  <2>1. PICK d \in Conns : ReleaseEntry(lease[l].entry, [conn EXCEPT ![d] = "alive"])
    BY <1>3 DEF FallbackConnected
  <2>2. PICK cs \in [Conns -> {"unused", "alive", "stale", "closed"}] : cs = [conn EXCEPT ![d] = "alive"]
    <3>1. [conn EXCEPT ![d] = "alive"] \in [Conns -> {"unused", "alive", "stale", "closed"}]
      BY DEF Refs, TypeOK
    <3> QED BY <3>1
  <2>3. cs[c] = "alive"
    BY <2>2 DEF Refs, TypeOK
  <2>4. lease[l].entry \in Conns
    BY <1>3 DEF FallbackConnected, Refs, Stages, TypeOK, Lease
  <2> QED BY <1>2, <2>1, <2>2, <2>3, <2>4
<1>4. ASSUME NEW l \in Leases, DisposeLease(l) PROVE Users(c)' = {}
  <2>1. CASE lease[l].fallback = "used"
    <3>1. c = lease[l].own /\ c # None
      BY <1>4, <2>1, ConnsAreNumbers DEF DisposeLease, Refs, TypeOK
    <3>2. \A k \in Leases : lease[k].entry # c /\ lease'[k].entry = lease[k].entry
      BY <1>4, <3>1 DEF DisposeLease, Refs, OwnApart, TypeOK, Lease
    <3> QED BY <3>2 DEF Users
  <2>2. CASE lease[l].fallback # "used"
    <3>1. lease[l].entry \in Conns /\ conn \in [Conns -> {"unused", "alive", "stale", "closed"}]
      BY <1>4 DEF DisposeLease, Refs, TypeOK, Lease
    <3> QED BY <1>2, <1>4, <2>2, <3>1 DEF DisposeLease
  <2> QED BY <2>1, <2>2
<1>5. ~(\E l \in Leases : ReuseEntry(l) \/ JoinPending(l) \/ StartConnect(l) \/ Join(l) \/ OpenChannel(l)
                         \/ ChannelEnds(l) \/ StartFallback(l) \/ FallbackFails(l))
  BY <1>1 DEF Ask, ReuseEntry, JoinPending, StartConnect, Join, OpenChannel, ChannelEnds, StartFallback, FallbackFails
<1>6. ~EntryCreated /\ ~CreatedTooLate /\ ~ConnectFails /\ ~SettlePending
  BY <1>1 DEF EntryCreated, CreatedTooLate, ConnectFails, SettlePending, IsNext, Refs, TypeOK
<1>7. ~IdleTimerFires /\ ~Disconnect /\ ~DisposePool /\ ~EditAndInvalidate
  BY <1>1, ConnsAreNumbers DEF IdleTimerFires, IdleDue, Disconnect, DisposePool, EditAndInvalidate, Evict, Forget
<1>8. ~(\E d \in Conns : SocketDies(d) \/ CloseEvent(d))
  BY <1>1 DEF SocketDies, CloseEvent, Refs, TypeOK
<1> QED BY <1>1, <1>3, <1>4, <1>5, <1>6, <1>7, <1>8 DEF Next, vars

\* A lease that is released, or that moves to its fallback, never closes a
\* connection another lease still runs channels over (onRelease), as long as
\* callers wait for the channel they are opening.
THEOREM LastLeaseIsCareful == Spec => CarefulLastLease
<1>1. PoolInv /\ PoolInv' /\ [Next]_vars =>
        [\A c \in Conns :
           (conn[c] = "alive" /\ conn'[c] = "closed" /\ entry' = entry /\ ~hasty') => Users(c)' = {}]_vars
  BY CarefulStep
<1> QED BY <1>1, PoolInductive, PTL DEF Spec, CarefulLastLease
==============================================================================
