-------------------------- MODULE SshConnectionPool --------------------------
(***************************************************************************)
(* services/ssh/sshConnectionPool.ts: multiplexed SSH connections, shared  *)
(* by reference-counted leases (PooledSshConnection), kept for an idle     *)
(* time, and replaced for one lease at a time when a channel cannot be     *)
(* opened on them.                                                         *)
(*                                                                         *)
(* The pool's maps are keyed by server and no operation but dispose()      *)
(* touches two keys, so the module is about one server: `entry` and        *)
(* `pending` are the values at its key.  Connections are numbered in the   *)
(* order they are established, and a PoolEntry is named by its connection. *)
(*                                                                         *)
(* Methods the callers invoke may run inside any continuation.  Timers,    *)
(* socket events and answers of the network are macrotasks: they find all  *)
(* continuations drained.                                                  *)
(***************************************************************************)
EXTENDS Integers, FiniteSets

CONSTANTS
  Leases,        \* identities of the calls of connectWithContext()
  MaxConns,      \* bound on the connections established
  MaxEdits,      \* bound on the edits of the server's connection parameters
  IdleTimeout    \* idleTimeoutMs # 0

ASSUME PoolAssumption ==
  /\ IsFiniteSet(Leases)
  /\ MaxConns \in Nat /\ MaxEdits \in Nat
  /\ IdleTimeout \in BOOLEAN

Conns    == 1..MaxConns
Versions == 0..MaxEdits   \* of the server's connection parameters
None     == 0

VARIABLES
  conn,      \* the SshConnections: "unused", "alive", "stale" (dead, close event not seen), "closed"
  made,      \* the parameters each connection was opened with
  entry,     \* entries.get(serverId)
  pe,        \* the PoolEntry of each connection
  pending,   \* pending.get(serverId): "none", "connecting", "settling"
  asking,    \* the parameters the pending connect was called with
  resolved,  \* the entry a settling promise resolves with
  lease,     \* the PooledSshConnection of each lease and the call that made it
  params,    \* the server's current parameters
  disposed,  \* the pool's disposed flag
  view,      \* what a pool listener believes: connected or not
  hasty      \* some caller disposed a lease while a channel was being opened on it

vars == <<conn, made, entry, pe, pending, asking, resolved, lease, params, disposed, view, hasty>>

PoolEntry == [refCount : Int, healthy : BOOLEAN, timer : BOOLEAN, subscribed : BOOLEAN]

LeaseStates == {"none", "waiting", "resolved", "open", "disposed", "rejected"}
Fallbacks   == {"none", "connecting", "used", "failed"}

Lease == [state    : LeaseStates,
          entry    : Conns \cup {None},
          asked    : Versions,
          reused   : BOOLEAN,
          opening  : BOOLEAN,
          fallback : Fallbacks,
          own      : Conns \cup {None}]

Init ==
  /\ conn = [c \in Conns |-> "unused"]
  /\ made = [c \in Conns |-> 0]
  /\ entry = None
  /\ pe = [c \in Conns |-> [refCount |-> 0, healthy |-> FALSE, timer |-> FALSE, subscribed |-> FALSE]]
  /\ pending = "none" /\ asking = 0 /\ resolved = None
  /\ lease = [l \in Leases |-> [state |-> "none", entry |-> None, asked |-> 0, reused |-> FALSE,
                                opening |-> FALSE, fallback |-> "none", own |-> None]]
  /\ params = 0
  /\ disposed = FALSE
  /\ view = FALSE
  /\ hasty = FALSE

Drained == pending # "settling" /\ \A l \in Leases : lease[l].state # "resolved"

\* The connection the next successful connect establishes.
IsNext(c) == conn[c] = "unused" /\ \A d \in Conns : conn[d] = "unused" => c <= d

\* Mutant: the listeners are not told.
ForgetSilently == entry' = None /\ UNCHANGED view

\* The map entry is deleted and "disconnected" emitted.
Forget == entry' = None /\ view' = FALSE

------------------------------------------------------------------------------
(* connectWithContext() and getOrCreateEntry(): three ways to get an entry. *)

Ask(l, state, e) ==
  /\ ~disposed
  /\ lease[l].state = "none"
  /\ lease' = [lease EXCEPT ![l].state = state, ![l].entry = e, ![l].asked = params]
  /\ UNCHANGED <<conn, made, entry, pe, resolved, params, disposed, view, hasty>>

ReuseEntry(l) ==
  /\ entry # None /\ pe[entry].healthy
  /\ Ask(l, "resolved", entry)
  /\ UNCHANGED <<pending, asking>>

JoinPending(l) ==
  /\ entry = None /\ pending # "none"
  /\ Ask(l, "waiting", None)
  /\ UNCHANGED <<pending, asking>>

StartConnect(l) ==
  /\ entry = None /\ pending = "none"
  /\ Ask(l, "waiting", None)
  /\ pending' = "connecting" /\ asking' = params

(* createEntry() resumes with the connection. *)
EntryCreated ==
  /\ Drained /\ pending = "connecting" /\ ~disposed
  /\ \E c \in Conns :
       /\ IsNext(c)
       /\ conn' = [conn EXCEPT ![c] = "alive"]
       /\ made' = [made EXCEPT ![c] = asking]
       /\ pe' = [pe EXCEPT ![c] = [refCount |-> 0, healthy |-> TRUE, timer |-> FALSE, subscribed |-> TRUE]]
       /\ entry' = c /\ resolved' = c
  /\ pending' = "settling"
  /\ view' = TRUE
  /\ UNCHANGED <<asking, lease, params, disposed, hasty>>

\* Mutant: the failure is swallowed.
RejectNobody == UNCHANGED lease

RejectWaiters ==
  lease' = [l \in Leases |-> IF lease[l].state = "waiting"
                             THEN [lease[l] EXCEPT !.state = "rejected"] ELSE lease[l]]

\* The pool was disposed meanwhile: the new connection is disposed again.
CreatedTooLate ==
  /\ Drained /\ pending = "connecting" /\ disposed
  /\ \E c \in Conns : IsNext(c) /\ conn' = [conn EXCEPT ![c] = "closed"]
                                /\ made' = [made EXCEPT ![c] = asking]
  /\ pending' = "none"
  /\ RejectWaiters
  /\ UNCHANGED <<entry, pe, asking, resolved, params, disposed, view, hasty>>

ConnectFails ==
  /\ Drained /\ pending = "connecting"
  /\ pending' = "none"
  /\ RejectWaiters
  /\ UNCHANGED <<conn, made, entry, pe, asking, resolved, params, disposed, view, hasty>>

\* Mutant: the shared promise resolves with nothing.
ResolvedEmpty(l) == [lease[l] EXCEPT !.state = "resolved"]

Resolved(l) == [lease[l] EXCEPT !.state = "resolved", !.entry = resolved]

\* The finally() of the pending promise, then the resolution of its waiters.
SettlePending ==
  /\ pending = "settling"
  /\ pending' = "none"
  /\ lease' = [l \in Leases |-> IF lease[l].state = "waiting"
                                THEN Resolved(l) ELSE lease[l]]
  /\ UNCHANGED <<conn, made, entry, pe, asking, resolved, params, disposed, view, hasty>>

\* Mutants: the idle timer keeps running; the reference is not counted.
RetainTimed(e)     == [pe EXCEPT ![e].refCount = @ + 1]
RetainUncounted(e) == [pe EXCEPT ![e].timer = FALSE, ![e].refCount = 1]

Retain(e) == [pe EXCEPT ![e].timer = FALSE, ![e].refCount = @ + 1]

\* connectWithContext() resumes: the entry's reference is counted and the lease made.
Join(l) ==
  LET e == lease[l].entry IN
  /\ lease[l].state = "resolved"
  /\ pe' = Retain(e)
  /\ lease' = [lease EXCEPT ![l].state = "open", ![l].reused = pe[e].refCount + 1 > 1]
  /\ UNCHANGED <<conn, made, entry, pending, asking, resolved, params, disposed, view, hasty>>

------------------------------------------------------------------------------
(* Channels of a lease, and the fallback to a standalone connection. *)

\* openShell(), openDirectTcp(), openSftp() or exec() is called.
OpenChannel(l) ==
  /\ lease[l].state = "open" /\ ~lease[l].opening
  /\ lease' = [lease EXCEPT ![l].opening = TRUE]
  /\ UNCHANGED <<conn, made, entry, pe, pending, asking, resolved, params, disposed, view, hasty>>

\* It succeeds, or fails with an error that calls for no fallback.
ChannelEnds(l) ==
  /\ Drained /\ lease[l].opening
  /\ lease' = [lease EXCEPT ![l].opening = FALSE]
  /\ UNCHANGED <<conn, made, entry, pe, pending, asking, resolved, params, disposed, view, hasty>>

\* It fails: the socket is dead ("Not connected"), or a reused connection
\* refuses another channel.  createFallback() takes the entry out of the pool
\* without disposing it.
StartFallback(l) ==
  LET e == lease[l].entry IN
  /\ Drained /\ lease[l].opening
  /\ lease[l].fallback = "none"
  /\ conn[e] # "alive" \/ lease[l].reused
  /\ lease' = [lease EXCEPT ![l].opening = FALSE, ![l].fallback = "connecting"]
  /\ IF entry = e
     THEN /\ pe' = [pe EXCEPT ![e].healthy = FALSE, ![e].timer = FALSE]
          /\ Forget
     ELSE UNCHANGED <<pe, entry, view>>
  /\ UNCHANGED <<conn, made, pending, asking, resolved, params, disposed, hasty>>

\* Mutants: a removed entry is disposed by the first release, or by none; the
\* idle timer is not started.
OrphanedAtOnce(e, left) == entry # e
OrphanedNever(e, left)  == FALSE
IdlesNever(e, left)     == FALSE

\* The last reference is gone and the entry is no longer, or still, in the map.
Orphaned(e, left) == left = 0 /\ entry # e
Idles(e, left)    == left = 0 /\ entry = e

\* The onRelease closure of a lease on entry e, the connections being cs.
ReleaseEntry(e, cs) ==
  LET left == pe[e].refCount - 1 IN
  /\ pe' = [pe EXCEPT ![e].refCount = left,
                      ![e].timer = IF Idles(e, left) THEN IdleTimeout ELSE @,
                      ![e].subscribed = IF Orphaned(e, left) THEN FALSE ELSE @]
  /\ conn' = IF Orphaned(e, left) THEN [cs EXCEPT ![e] = "closed"] ELSE cs

\* executeFallback() resumes: the pooled reference is released and later
\* disposals are for the standalone connection.
FallbackConnected(l) ==
  /\ Drained /\ lease[l].fallback = "connecting"
  /\ \E c \in Conns :
       /\ IsNext(c)
       /\ lease' = [lease EXCEPT ![l].fallback = "used", ![l].own = c]
       /\ made' = [made EXCEPT ![c] = lease[l].asked]
       /\ ReleaseEntry(lease[l].entry, [conn EXCEPT ![c] = "alive"])
  /\ UNCHANGED <<entry, pending, asking, resolved, params, disposed, view, hasty>>

FallbackFails(l) ==
  /\ Drained /\ lease[l].fallback = "connecting"
  /\ lease' = [lease EXCEPT ![l].fallback = "failed"]
  /\ UNCHANGED <<conn, made, entry, pe, pending, asking, resolved, params, disposed, view, hasty>>

\* dispose() of a lease runs onRelease once.
DisposeLease(l) ==
  /\ lease[l].state = "open"
  /\ hasty' = (hasty \/ lease[l].opening \/ lease[l].fallback = "connecting")
  /\ lease' = [lease EXCEPT ![l].state = "disposed"]
  /\ IF lease[l].fallback = "used"
     THEN conn' = [conn EXCEPT ![lease[l].own] = "closed"] /\ UNCHANGED pe
     ELSE ReleaseEntry(lease[l].entry, conn)
  /\ UNCHANGED <<made, entry, pending, asking, resolved, params, disposed, view>>

------------------------------------------------------------------------------
(* The entry leaves the pool. *)

\* evictEntry()
Evict ==
  /\ pe' = [pe EXCEPT ![entry].timer = FALSE, ![entry].subscribed = FALSE]
  /\ conn' = [conn EXCEPT ![entry] = "closed"]
  /\ Forget

\* Mutant: the reference count is tested the wrong way round.
IdleDueInverted(c) == pe[c].timer /\ pe[c].refCount # 0 /\ entry = c

IdleDue(c) == pe[c].timer /\ pe[c].refCount = 0 /\ entry = c

IdleTimerFires ==
  /\ Drained
  /\ \E c \in Conns : IdleDue(c)
  /\ Evict
  /\ UNCHANGED <<made, pending, asking, resolved, lease, params, disposed, hasty>>

Disconnect ==
  /\ entry # None
  /\ Evict
  /\ UNCHANGED <<made, pending, asking, resolved, lease, params, disposed, hasty>>

DisposePool ==
  /\ ~disposed
  /\ disposed' = TRUE
  /\ IF entry # None THEN Evict ELSE UNCHANGED <<pe, conn, entry, view>>
  /\ UNCHANGED <<made, pending, asking, resolved, lease, params, hasty>>

\* The server's parameters are edited and invalidate() soft-removes the entry.
EditAndInvalidate ==
  /\ params < MaxEdits
  /\ params' = params + 1
  /\ IF entry # None
     THEN LET idle == pe[entry].refCount = 0 IN
          /\ pe' = [pe EXCEPT ![entry].timer = FALSE, ![entry].healthy = FALSE,
                              ![entry].subscribed = IF idle THEN FALSE ELSE @]
          /\ conn' = IF idle THEN [conn EXCEPT ![entry] = "closed"] ELSE conn
          /\ Forget
     ELSE UNCHANGED <<pe, conn, entry, view>>
  /\ UNCHANGED <<made, pending, asking, resolved, lease, disposed, hasty>>

\* The peer or the network drops the connection; the close event comes later.
SocketDies(c) ==
  /\ Drained /\ conn[c] = "alive"
  /\ conn' = [conn EXCEPT ![c] = "stale"]
  /\ UNCHANGED <<made, entry, pe, pending, asking, resolved, lease, params, disposed, view, hasty>>

\* Mutants: the entry is left in the map; whatever entry is there is removed.
ClosedKeeps(c)   == FALSE
ClosedForeign(c) == pe[c].subscribed

Closed(c) == pe[c].subscribed /\ entry = c

CloseEvent(c) ==
  /\ Drained /\ conn[c] = "stale"
  /\ conn' = [conn EXCEPT ![c] = "closed"]
  /\ pe' = IF pe[c].subscribed
           THEN [pe EXCEPT ![c].healthy = FALSE, ![c].timer = FALSE] ELSE pe
  /\ IF Closed(c) THEN Forget
                  ELSE UNCHANGED <<entry, view>>
  /\ UNCHANGED <<made, pending, asking, resolved, lease, params, disposed, hasty>>

Next ==
  \/ \E l \in Leases :
       \/ ReuseEntry(l) \/ JoinPending(l) \/ StartConnect(l) \/ Join(l)
       \/ OpenChannel(l) \/ ChannelEnds(l)
       \/ StartFallback(l) \/ FallbackConnected(l) \/ FallbackFails(l)
       \/ DisposeLease(l)
  \/ EntryCreated \/ CreatedTooLate \/ ConnectFails \/ SettlePending
  \/ IdleTimerFires \/ Disconnect \/ DisposePool \/ EditAndInvalidate
  \/ \E c \in Conns : SocketDies(c) \/ CloseEvent(c)

(***************************************************************************)
(* Continuations run, timers fire, and the SSH handshake ends one way or   *)
(* the other because ssh2 bounds it with readyTimeout.                     *)
(***************************************************************************)
Fairness ==
  /\ WF_vars(EntryCreated \/ CreatedTooLate \/ ConnectFails)
  /\ WF_vars(SettlePending)
  /\ WF_vars(IdleTimerFires)
  /\ \A l \in Leases : WF_vars(Join(l))

Spec == Init /\ [][Next]_vars /\ Fairness

------------------------------------------------------------------------------
TypeOK ==
  /\ conn \in [Conns -> {"unused", "alive", "stale", "closed"}]
  /\ made \in [Conns -> Versions]
  /\ entry \in Conns \cup {None}
  /\ pe \in [Conns -> PoolEntry]
  /\ pending \in {"none", "connecting", "settling"}
  /\ asking \in Versions
  /\ resolved \in Conns \cup {None}
  /\ lease \in [Leases -> Lease]
  /\ \A l \in Leases : lease[l].state \in {"resolved", "open", "disposed"} => lease[l].entry # None
  /\ params \in Versions
  /\ disposed \in BOOLEAN
  /\ view \in BOOLEAN
  /\ hasty \in BOOLEAN

\* Leases whose channels run over connection c.
Users(c) == {l \in Leases : lease[l].state = "open" /\ lease[l].fallback # "used" /\ lease[l].entry = c}

\* Leases that hold or are about to take a reference to c, or own it.
Owners(c) ==
  {l \in Leases : \/ lease[l].state \in {"resolved", "open"} /\ lease[l].entry = c /\ lease[l].fallback # "used"
                  \/ lease[l].state = "open" /\ lease[l].own = c}

\* What the map offers to the next caller is healthy, watched for its close
\* event and not disposed, so the branch for unhealthy entries in
\* getOrCreateEntry() (sshConnectionPool.ts:376) is dead code.
MapEntryUsable ==
  entry # None => /\ pe[entry].healthy
                  /\ pe[entry].subscribed
                  /\ conn[entry] \in {"alive", "stale"}

\* Connected and disconnected events strictly alternate: a listener (it clears
\* cached sudo passwords on "disconnected") always knows whether an entry exists.
ListenerView == view <=> entry # None

\* An armed idle timer belongs to the entry in the map and nobody uses it, so
\* an idle timeout never closes a connection under a lease.
TimerOnlyWhenIdle == \A c \in Conns : pe[c].timer => entry = c /\ Users(c) = {}

\* The reference count is exactly the number of leases on the entry, as long as
\* callers dispose no lease while a channel is being opened on it.
RefCountExact == ~hasty => \A c \in Conns : pe[c].refCount = Cardinality(Users(c))

\* "The last lease to release will dispose it" (sshConnectionPool.ts:307-309):
\* a lease that is released, or moves to its fallback, never closes a
\* connection that another lease still runs channels over.
LastLeaseDisposes ==
  [][\A c \in Conns :
       (conn[c] = "alive" /\ conn'[c] = "closed" /\ entry' = entry) => Users(c)' = {}]_vars

\* The same for callers that wait for the channel they are opening.
CarefulLastLease ==
  [][\A c \in Conns :
       (conn[c] = "alive" /\ conn'[c] = "closed" /\ entry' = entry /\ ~hasty') => Users(c)' = {}]_vars

\* Every live connection is reachable by something that will close it: it is
\* the pooled entry or some lease has or will have it (RefCountExact's proviso).
NoConnectionLeak ==
  \A c \in Conns :
    conn[c] = "alive" => \/ hasty
                         \/ c = entry
                         \/ c = resolved /\ pending = "settling"
                         \/ Owners(c) # {}

\* An idle pooled connection always has its eviction scheduled.
IdleIsTimed ==
  (IdleTimeout /\ entry # None /\ pending # "settling" /\ Owners(entry) = {}) => pe[entry].timer

\* What callers, listeners and timers rely on: the map offers a usable entry,
\* the listeners know of it, no timer closes a connection in use, an idle one
\* has its timer, and no connection is out of everyone's reach.
PoolInvariants ==
  /\ TypeOK /\ MapEntryUsable /\ ListenerView /\ TimerOnlyWhenIdle
  /\ NoConnectionLeak /\ IdleIsTimed /\ RefCountExact

\* After an edit of the server "the next terminal reconnects with the new
\* settings instead of reusing a socket to the old destination"
\* (pooledConnectionParams.ts:6-8): a lease asked for after the edit does not
\* run over a connection opened with the parameters before it.
FreshParameters ==
  \A l \in Leases : lease[l].state = "open" /\ lease[l].fallback # "used"
                      => made[lease[l].entry] >= lease[l].asked

\* Callers that share one pending connect all get an answer.
WaitersAnswered ==
  \A l \in Leases : (lease[l].state \in {"waiting", "resolved"})
                      ~> (lease[l].state \notin {"waiting", "resolved"})

\* A pooled connection nobody uses is closed in the end (same proviso).
IdleEvicted ==
  \A c \in Conns : (IdleTimeout /\ pe[c].timer) ~> (~pe[c].timer \/ hasty)

\* The pool keeps nobody waiting and nothing open for ever.
PoolProgress == WaitersAnswered /\ IdleEvicted
==============================================================================
