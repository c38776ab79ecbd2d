------------------------------ MODULE DhcpLeases ------------------------------
(***************************************************************************)
(* dhcp/engine/DhcpEngine.ts and dhcp/engine/dhcpLeasePersistence.ts with  *)
(* the allocator of patches/dhcp+0.2.20.patch: the lease table, what the   *)
(* engine notices of it, the debounced and serialised writer of the lease  *)
(* file, a crash of the daemon, and the reconciliation of the file with    *)
(* the configuration of the next start.                                    *)
(*                                                                         *)
(* Addresses are numbers, the pool a set of them; packets are reduced to   *)
(* their sender.  A timer that was set at an instant fires at a later one. *)
(***************************************************************************)
EXTENDS Naturals, Sequences, FiniteSets, FiniteSetsExt

CONSTANTS
  Macs,
  Pool,           \* the addresses of the range
  StaticMaps,     \* the reservations a start may be configured with: mac -> address, 0 for none
  Period,         \* leaseTimeSec
  OfferTTL,       \* OFFER_TTL_MS
  MaxTime,        \* bound on the clock
  MaxChain,       \* bound on the writes that wait
  MaxBoots       \* bound on the starts

ASSUME DhcpAssumption ==
  /\ IsFiniteSet(Pool) /\ Pool \subseteq Nat \ {0}
  /\ Period \in Nat \ {0} /\ OfferTTL \in Nat \ {0} /\ MaxTime \in Nat
  /\ MaxChain \in Nat \ {0} /\ MaxBoots \in Nat

\* parseStaticReservations() accepts an address once.
ASSUME StaticAssumption ==
  \A s \in StaticMaps : s \in [Macs -> Nat] /\ \A m, o \in Macs : s[m] = s[o] /\ s[m] # 0 => m = o

VARIABLES
  now,
  pc,        \* "down", "running", "flushing" (stop() awaits the writer)
  static,    \* the reservations of this start
  table,     \* _state of the library
  seen,      \* _prevLeaseKeys with _prevBindTimes: mac -> bind time, Never where absent
  timer,     \* the instant of the last schedule(), Never where none is pending
  chain,     \* snapshots the writer has still to write, in order
  temp,      \* the temporary file of the snapshot in front is complete
  disk,      \* the lease file
  held,      \* what each client believes: [ip, at], ip = 0 for nothing
  saved,     \* clients whose present lease is in the file and in all that is to follow it
  failed,    \* a write failed since the last one that succeeded
  dstarts

dhcpVars == <<now, pc, static, table, seen, timer, chain, temp, disk, held, saved, failed, dstarts>>

Never == MaxTime + 1
NoEntry == [st |-> "none", ip |-> 0, at |-> Never, offer |-> Never]
Reserved(a) == [st |-> "reserved", ip |-> a, at |-> Never, offer |-> Never]
NoLease == [ip |-> 0, at |-> 0]

DhcpInit ==
  /\ now = 0 /\ pc = "down" /\ dstarts = 0
  /\ static \in StaticMaps
  /\ table = [m \in Macs |-> NoEntry]
  /\ seen = [m \in Macs |-> Never]
  /\ timer = Never /\ chain = << >> /\ temp = FALSE
  /\ disk = {}
  /\ held = [m \in Macs |-> NoLease] /\ saved = {} /\ failed = FALSE

------------------------------------------------------------------------------
(* The library *)

Lapsed(m, e) ==
  \/ e.st = "bound" /\ static[m] # e.ip /\ e.at + Period <= now
  \/ e.st = "offered" /\ e.offer + OfferTTL <= now

\* _selectAddress() first forgets what has run out, then keeps the address of
\* a known client, then looks for a reservation, then takes the first free one.
Pruned(T) == [m \in Macs |-> IF Lapsed(m, T[m]) THEN NoEntry ELSE T[m]]

Free(T) == {a \in Pool : (\A m \in Macs : T[m].ip # a) /\ (\A m \in Macs : static[m] # a)}

Select(T, m) ==
  IF T[m].ip # 0 THEN T[m].ip
  ELSE IF static[m] # 0 THEN static[m]
  ELSE IF Free(T) = {} THEN 0 ELSE Min(Free(T))

------------------------------------------------------------------------------
(* The engine's view of the table *)

LeaseKeys(T) == {m \in Macs : T[m].st \notin {"none", "reserved"}}
BindTime(e) == IF e.at = Never THEN now ELSE e.at

\* Mutant: a renewal is not noticed.
NoRenewal(T, S, m) == FALSE

Renewed(T, S, m) == m \in LeaseKeys(T) /\ S[m] # Never /\ BindTime(T[m]) > S[m]

\* _diffLeases(): a lease came, went or was renewed since the last look.
Noticed(T, S) == \E m \in Macs : (m \in LeaseKeys(T) /\ S[m] = Never) \/ (m \notin LeaseKeys(T) /\ S[m] # Never) \/ Renewed(T, S, m)

Baseline(T) == [m \in Macs |-> IF m \in LeaseKeys(T) THEN BindTime(T[m]) ELSE Never]

\* activeLeases(), which is also the snapshot that is written.
Snapshot(T) == {[mac |-> m, ip |-> T[m].ip, at |-> BindTime(T[m])] : m \in LeaseKeys(T)}

\* schedule() restarts the window; stop() has taken the store away.
Scheduled(yes) == IF yes /\ pc = "running" THEN now ELSE timer

------------------------------------------------------------------------------
(* Packets.  The library emits "message" before it handles the packet.        *)

\* The socket is open until stop() has awaited the writes.
Serving == pc = "running" \/ (pc = "flushing" /\ chain # << >>)

\* A client that looks for servers uses no address (RFC 2131, INIT).
Discover(m) ==
  LET T == Pruned(table)
      a == Select(T, m)
  IN
  /\ Serving
  /\ timer' = Scheduled(Noticed(table, seen))
  /\ seen' = Baseline(table)
  /\ table' = IF a = 0 THEN T
              ELSE [T EXCEPT ![m] = [st |-> "offered", ip |-> a, at |-> T[m].at, offer |-> now]]
  /\ held' = [held EXCEPT ![m] = NoLease] /\ saved' = saved \ {m}
  /\ UNCHANGED <<now, pc, static, chain, temp, disk, failed, dstarts>>

\* The client is acknowledged, and "bound" makes the engine look again.
RequestLease(m) ==
  LET T  == Pruned(table)
      a  == Select(T, m)
      T2 == IF a = 0 THEN T ELSE [T EXCEPT ![m] = [st |-> "bound", ip |-> a, at |-> now, offer |-> Never]]
      S1 == Baseline(table)
  IN
  /\ Serving
  /\ table' = T2
  /\ timer' = Scheduled(Noticed(table, seen) \/ (a # 0 /\ Noticed(T2, S1)))
  /\ seen' = IF a = 0 THEN S1 ELSE Baseline(T2)
  /\ held' = IF a = 0 THEN held ELSE [held EXCEPT ![m] = [ip |-> a, at |-> now]]
  /\ saved' = IF a = 0 \/ held[m] = held'[m] THEN saved ELSE saved \ {m}
  /\ UNCHANGED <<now, pc, static, chain, temp, disk, failed, dstarts>>

\* The client gives its address up; the server may not know it any more.
Release(m) ==
  LET S1    == Baseline(table)
      hit   == table[m].st = "bound" /\ table[m].ip = held[m].ip
      T     == [table EXCEPT ![m] = IF static[m] = held[m].ip /\ static[m] \in Pool THEN Reserved(static[m]) ELSE NoEntry]
  IN
  /\ Serving /\ held[m] # NoLease
  /\ held' = [held EXCEPT ![m] = NoLease] /\ saved' = saved \ {m}
  /\ table' = IF hit THEN T ELSE table
  /\ seen' = IF hit THEN Baseline(T) ELSE S1
  /\ timer' = Scheduled(hit \/ Noticed(table, seen))
  /\ UNCHANGED <<now, pc, static, chain, temp, disk, failed, dstarts>>

------------------------------------------------------------------------------
(* The writer *)

TimerFires ==
  /\ pc = "running" /\ timer < now /\ Len(chain) < MaxChain
  /\ timer' = Never
  /\ chain' = Append(chain, Snapshot(table))
  /\ UNCHANGED <<now, pc, static, table, seen, temp, disk, held, saved, failed, dstarts>>

\* Mutant: the file itself is rewritten; a crash finds it empty.
WrittenInPlace == {}

DiskWhileWriting == disk

\* writeFile() of the temporary file, then rename().
WriteTemp ==
  /\ chain # << >> /\ ~temp
  /\ temp' = TRUE
  /\ disk' = DiskWhileWriting
  /\ UNCHANGED <<now, pc, static, table, seen, timer, chain, held, saved, failed, dstarts>>

OnDisk(m, D) == held[m] # NoLease /\ [mac |-> m, ip |-> held[m].ip, at |-> held[m].at] \in D

Rename ==
  /\ temp
  /\ temp' = FALSE /\ chain' = Tail(chain)
  /\ disk' = Head(chain)
  /\ saved' = saved \cup {m \in Macs : \A k \in DOMAIN chain : OnDisk(m, chain[k])}
  /\ failed' = FALSE
  /\ UNCHANGED <<now, pc, static, table, seen, timer, held, dstarts>>

WriteFails ==
  /\ chain # << >>
  /\ temp' = FALSE /\ chain' = Tail(chain)
  /\ failed' = TRUE
  /\ UNCHANGED <<now, pc, static, table, seen, timer, disk, held, saved, dstarts>>

------------------------------------------------------------------------------
(* The life of the engine *)

\* Mutant: the file wins over the reservations.
FileWins(l) == l.at + Period > now /\ l.ip \in Pool

\* reconcilePersistedLeases()
Restorable(l) ==
  /\ l.at + Period > now
  /\ IF static[l.mac] # 0 THEN static[l.mac] = l.ip
     ELSE (\A m \in Macs : static[m] # l.ip) /\ l.ip \in Pool

RestoredTable ==
  [m \in Macs |->
     LET mine == {l \in disk : l.mac = m /\ Restorable(l)} IN
       IF mine = {} THEN NoEntry
       ELSE LET l == CHOOSE x \in mine : TRUE IN [st |-> "bound", ip |-> l.ip, at |-> l.at, offer |-> Never]]

\* seedStaticReservations()
Seeded(T) ==
  [m \in Macs |-> IF static[m] \in Pool /\ T[m].ip # static[m] THEN Reserved(static[m]) ELSE T[m]]

Start ==
  /\ pc = "down" /\ dstarts < MaxBoots /\ dstarts' = dstarts + 1
  /\ pc' = "running"
  /\ table' = Seeded(RestoredTable)
  /\ seen' = [m \in Macs |-> RestoredTable[m].at]
  /\ UNCHANGED <<now, static, timer, chain, temp, disk, held, saved, failed>>

\* The user edits the reservations; they are read at the next start.
Configure(s) ==
  /\ pc = "down" /\ s # static
  /\ static' = s /\ saved' = {}
  /\ UNCHANGED <<now, pc, table, seen, timer, chain, temp, disk, held, failed, dstarts>>

\* stop() flushes the pending write and waits for the chain, then closes.
StopFlushes ==
  /\ pc = "running"
  /\ pc' = "flushing"
  /\ chain' = IF timer = Never THEN chain ELSE Append(chain, Snapshot(table))
  /\ timer' = Never
  /\ UNCHANGED <<now, static, table, seen, temp, disk, held, saved, failed, dstarts>>

EngineGone ==
  /\ pc' = "down"
  /\ table' = [m \in Macs |-> NoEntry]
  /\ seen' = [m \in Macs |-> Never]
  /\ timer' = Never /\ chain' = << >> /\ temp' = FALSE
  /\ UNCHANGED <<now, static, disk, held, saved, failed, dstarts>>

StopCloses == pc = "flushing" /\ chain = << >> /\ EngineGone

Crash == Serving /\ EngineGone

Tick ==
  /\ now < MaxTime /\ now' = now + 1
  /\ UNCHANGED <<pc, static, table, seen, timer, chain, temp, disk, held, saved, failed, dstarts>>

DhcpNext ==
  \/ \E m \in Macs : Discover(m) \/ RequestLease(m) \/ Release(m)
  \/ TimerFires \/ WriteTemp \/ Rename \/ WriteFails
  \/ Start \/ StopFlushes \/ StopCloses \/ Crash \/ Tick
  \/ \E s \in StaticMaps : Configure(s)

DhcpSpec == DhcpInit /\ [][DhcpNext]_dhcpVars

------------------------------------------------------------------------------
Instants == 0..Never
Entries == [st : {"none", "reserved", "offered", "bound"}, ip : Nat, at : Instants, offer : Instants]
Leases == [mac : Macs, ip : Nat, at : 0..MaxTime]

DhcpTypeOK ==
  /\ now \in 0..MaxTime /\ pc \in {"down", "running", "flushing"} /\ static \in StaticMaps
  /\ table \in [Macs -> Entries] /\ seen \in [Macs -> Instants] /\ timer \in Instants
  /\ disk \subseteq Leases /\ chain \in Seq(SUBSET Leases)
  /\ held \in [Macs -> [ip : Nat, at : 0..MaxTime]] /\ saved \subseteq Macs

(* The state is well typed, and one address is one device's: no two entries  *)
(* of the table share an address, and none holds an address reserved for     *)
(* another device, whatever the file of an earlier configuration brought     *)
(* back.                                                                     *)
UniqueAddress ==
  DhcpTypeOK /\ \A m, o \in Macs : m # o /\ table[m].ip # 0 => table[m].ip # table[o].ip /\ table[m].ip # static[o]

Unexpired(o) == o \in saved /\ held[o].at + Period > now
Acknowledged(m, a) == RequestLease(m) /\ table'[m].st = "bound" /\ table'[m].ip = a

(* A lease that has reached the file is safe from restarts: until it runs    *)
(* out, its address is not acknowledged to another device, also when the     *)
(* daemon dies in the middle of a later write.                               *)
SavedNeverShared ==
  [][\A m, o \in Macs : m # o /\ Unexpired(o) => ~Acknowledged(m, held[o].ip)]_dhcpVars

(* Every lease the running server has granted is in the file, in the last    *)
(* snapshot on its way there, or waits for the debounced write; unless a     *)
(* write failed.                                                             *)
BoundIsCovered ==
  pc = "running" =>
    \A m \in Macs :
      table[m].st = "bound" =>
        \/ timer # Never \/ failed
        \/ [mac |-> m, ip |-> table[m].ip, at |-> table[m].at]
             \in (IF chain = << >> THEN disk ELSE chain[Len(chain)])

(* The lease table through restarts, crashes and changes of configuration:   *)
(* an address is one device's, and what was granted is not forgotten.        *)
LeaseTableSound == UniqueAddress /\ BoundIsCovered

(* "An orderly shutdown is precisely when the last few seconds of lease      *)
(* changes are worth keeping": what the server had acknowledged when stop()  *)
(* closed it is in the file.                                                 *)
StopKeepsLeases ==
  [][StopCloses /\ ~failed =>
       \A m \in Macs : table[m].st = "bound" => \E l \in disk : l.mac = m /\ l.ip = table[m].ip]_dhcpVars
==============================================================================
