-------------------------- MODULE NetworkServersProofs --------------------------
(* Theorems about the network servers: the lease table of the DHCP server and   *)
(* its file, the engine of the TFTP server around its sessions, the host of the *)
(* daemon process both run in, and one service from the command to the socket.  *)
EXTENDS DhcpLeases, TftpEngine, DaemonHost, ServiceLifecycle, FiniteSetTheorems, SequenceTheorems,
        WellFoundedInduction, TLAPS

------------------------------------------------------------------------------
(* The lease table *)

\* An address a client may have under the present reservations.
Proper(m, a) == IF static[m] # 0 THEN a = static[m] ELSE a \in Pool /\ \A o \in Macs : static[o] # a

\* Entries: only those that hold an address have one, and it is proper; an
\* offer is not older than the lease it follows, and its client holds nothing.
ProperEntry(m, e, h) ==
  /\ e.ip = 0 <=> e.st = "none"
  /\ e.ip # 0 => Proper(m, e.ip)
  /\ e.st \in {"none", "reserved"} => e.at = Never
  /\ e.st = "bound" => e.at <= now
  /\ e.st = "offered" /\ e.at # Never => e.at <= e.offer /\ e.at <= now
  /\ e.st = "offered" => h = NoLease
EntriesProper == \A m \in Macs : ProperEntry(m, table[m], held[m])

OneEach == \A m, o \in Macs : m # o /\ table[m].ip # 0 => table[m].ip # table[o].ip

\* A snapshot has one lease for a device and one device for an address.
SoundSnapshot(D) == \A k, l \in D : k.ip # 0 /\ k.at <= now /\ (k.mac = l.mac \/ k.ip = l.ip => k = l)

SnapshotsSound == SoundSnapshot(disk) /\ \A k \in 1..Len(chain) : SoundSnapshot(chain[k])

\* While the engine is down it holds nothing.
DownIsEmpty ==
  /\ pc = "down" => chain = << >> /\ table = [m \in Macs |-> NoEntry] /\ timer = Never
  /\ temp => chain # << >>

LEMMA DhcpRanges ==
  /\ 0..MaxTime \subseteq Instants /\ Never \in Instants /\ Instants \subseteq Nat /\ Never \notin 0..MaxTime
  /\ 0 \in 0..MaxTime
  /\ now \in 0..MaxTime => now \in Nat /\ now < Never /\ now # Never
BY DhcpAssumption DEF Instants, Never

\* A set of addresses has a first one.
LEMMA FirstIsMember ==
  ASSUME NEW S \in SUBSET Nat, S # {}
  PROVE  Min(S) \in S
<1> DEFINE R == OpToRel(<, Nat)
<1>1. PICK x \in S : \A y \in S : ~(<<y, x>> \in R)
  BY NatLessThanWellFounded, WFMin
<1>2. \A y \in S : ~(y < x)
  BY <1>1 DEF OpToRel
<1>3. \A y \in S : x <= y
  BY <1>2
<1> QED
  BY <1>3 DEF Min

LEMMA EntryTypes ==
  /\ NoEntry \in Entries /\ NoEntry.ip = 0 /\ NoEntry.st = "none" /\ NoEntry.at = Never
  /\ \A a \in Nat : Reserved(a) \in Entries /\ Reserved(a).ip = a /\ Reserved(a).st = "reserved" /\ Reserved(a).at = Never
BY DhcpRanges DEF NoEntry, Reserved, Entries

LEMMA ProperEntries ==
  /\ \A m, h : ProperEntry(m, NoEntry, h)
  /\ \A m, e, h : ProperEntry(m, e, h) => ProperEntry(m, e, NoLease)
  /\ \A m, h : \A a \in Nat : a # 0 /\ Proper(m, a) => ProperEntry(m, Reserved(a), h)
BY EntryTypes DEF ProperEntry

LEMMA ProperEntriesNext ==
  ASSUME UNCHANGED <<now, static>>, \A m \in Macs : ProperEntry(m, table'[m], held'[m])
  PROVE  EntriesProper'
BY DEF EntriesProper, ProperEntry, Proper

\* The entries that survive _selectAddress()'s first pass are those of the table.
LEMMA PrunedEntries ==
  ASSUME table \in [Macs -> Entries]
  PROVE  /\ Pruned(table) \in [Macs -> Entries]
         /\ \A m \in Macs : Pruned(table)[m] = NoEntry \/ (Pruned(table)[m] = table[m] /\ ~Lapsed(m, table[m]))
BY EntryTypes DEF Pruned

\* The address that a client is given is proper, and nobody else's.
LEMMA SelectProper ==
  ASSUME static \in StaticMaps, NEW T \in [Macs -> Entries], NEW m \in Macs,
         \A o \in Macs : T[o].ip # 0 => Proper(o, T[o].ip),
         \A n, o \in Macs : n # o /\ T[n].ip # 0 => T[n].ip # T[o].ip,
         Select(T, m) # 0
  PROVE  /\ Select(T, m) \in Nat /\ Proper(m, Select(T, m))
         /\ \A o \in Macs : o # m => T[o].ip # Select(T, m)
         /\ T[m].ip # 0 => Select(T, m) = T[m].ip
<1>0. static \in [Macs -> Nat] /\ \A n, o \in Macs : static[n] = static[o] /\ static[n] # 0 => n = o
  BY StaticAssumption
<1>1. CASE T[m].ip # 0
  BY <1>1 DEF Select, Entries
<1>2. CASE T[m].ip = 0 /\ static[m] # 0
  BY <1>2, <1>0 DEF Select, Proper
<1>3. CASE T[m].ip = 0 /\ static[m] = 0
  <2>1. Select(T, m) = Min(Free(T)) /\ Free(T) # {}
    BY <1>3 DEF Select
  <2>2. Free(T) \in SUBSET Nat
    BY DhcpAssumption DEF Free
  <2>3. Min(Free(T)) \in Free(T)
    BY <2>1, <2>2, FirstIsMember
  <2> QED
    BY <1>3, <2>1, <2>2, <2>3 DEF Free, Proper
<1> QED
  BY <1>1, <1>2, <1>3

\* The snapshot of a table is well typed and sound.
LEMMA SnapshotSound ==
  ASSUME now \in 0..MaxTime, table \in [Macs -> Entries], EntriesProper, OneEach
  PROVE  Snapshot(table) \in SUBSET Leases /\ SoundSnapshot(Snapshot(table))
BY DhcpAssumption DEF Snapshot, LeaseKeys, BindTime, Entries, Instants, Never, EntriesProper, ProperEntry, Leases,
   OneEach, SoundSnapshot

TableInv == DhcpTypeOK /\ EntriesProper /\ OneEach /\ SnapshotsSound /\ DownIsEmpty

\* Entry e takes the place of m's in the table, after what has lapsed is gone.
Granted(m, e) ==
  /\ table' = [Pruned(table) EXCEPT ![m] = e]
  /\ e \in Entries /\ e.ip # 0 /\ Proper(m, e.ip)
  /\ \A o \in Macs : o # m => Pruned(table)[o].ip # e.ip
  /\ Pruned(table)[m].ip # 0 => e.ip = Pruned(table)[m].ip

LEMMA PrunedProper ==
  ASSUME TableInv
  PROVE  /\ \A o \in Macs : Pruned(table)[o].ip # 0 => Proper(o, Pruned(table)[o].ip)
         /\ \A n, o \in Macs : n # o /\ Pruned(table)[n].ip # 0 => Pruned(table)[n].ip # Pruned(table)[o].ip
<1>1. \A o \in Macs : Pruned(table)[o].ip = 0 \/ Pruned(table)[o] = table[o]
  BY PrunedEntries, EntryTypes DEF TableInv, DhcpTypeOK
<1> QED
  BY <1>1 DEF TableInv, EntriesProper, ProperEntry, OneEach

LEMMA Offers ==
  ASSUME TableInv, NEW m \in Macs, Discover(m)
  PROVE  \/ table' = Pruned(table) /\ Pruned(table)[m].ip = 0
         \/ Granted(m, [st |-> "offered", ip |-> Select(Pruned(table), m), at |-> Pruned(table)[m].at, offer |-> now])
BY ZenonT(30), PrunedEntries, DhcpRanges, PrunedProper, SelectProper DEF TableInv, DhcpTypeOK, Discover, Select, Entries,
   Granted

LEMMA Binds ==
  ASSUME TableInv, NEW m \in Macs, RequestLease(m)
  PROVE  \/ table' = Pruned(table) /\ Pruned(table)[m].ip = 0 /\ held' = held
         \/ LET e == [st |-> "bound", ip |-> Select(Pruned(table), m), at |-> now, offer |-> Never]
            IN Granted(m, e) /\ held' = [held EXCEPT ![m] = [ip |-> e.ip, at |-> now]]
BY ZenonT(30), PrunedEntries, DhcpRanges, PrunedProper, SelectProper DEF TableInv, DhcpTypeOK, RequestLease, Select, Entries,
   Granted

\* The entries after a packet: m's, and of the others those that have not lapsed.
LEMMA GrantedEntries ==
  ASSUME TableInv, NEW m \in Macs, NEW e, Granted(m, e)
  PROVE  /\ table' \in [Macs -> Entries] /\ table'[m] = e
         /\ \A o \in Macs : o # m => table'[o] = Pruned(table)[o]
         /\ \A n, o \in Macs : n # o /\ table'[n].ip # 0 => table'[n].ip # table'[o].ip
BY PrunedEntries, PrunedProper DEF TableInv, DhcpTypeOK, Granted

\* Restored leases are proper and no two share an address.
LEMMA RestoredProper ==
  ASSUME TableInv
  PROVE  /\ RestoredTable \in [Macs -> Entries]
         /\ \A m \in Macs :
              \/ RestoredTable[m] = NoEntry /\ ~\E l \in disk : l.mac = m /\ Restorable(l)
              \/ \E l \in disk : /\ l.mac = m /\ Restorable(l) /\ l.ip # 0 /\ Proper(m, l.ip)
                                 /\ RestoredTable[m] = [st |-> "bound", ip |-> l.ip, at |-> l.at, offer |-> Never]
<1>1. ASSUME NEW m \in Macs
      PROVE  /\ RestoredTable[m] \in Entries
             /\ \/ RestoredTable[m] = NoEntry /\ ~\E l \in disk : l.mac = m /\ Restorable(l)
                \/ \E l \in disk : /\ l.mac = m /\ Restorable(l) /\ l.ip # 0 /\ Proper(m, l.ip)
                                   /\ RestoredTable[m] = [st |-> "bound", ip |-> l.ip, at |-> l.at, offer |-> Never]
  <2> DEFINE mine == {l \in disk : l.mac = m /\ Restorable(l)}
             l == CHOOSE x \in mine : TRUE
  <2>1. CASE mine = {}
    BY <2>1, EntryTypes DEF RestoredTable
  <2>2. CASE mine # {}
    BY <2>2, DhcpRanges DEF RestoredTable, TableInv, DhcpTypeOK, SnapshotsSound, SoundSnapshot, Restorable, Proper,
       Leases, Entries
  <2> QED
    BY <2>1, <2>2
<1>2. RestoredTable \in [Macs -> Entries]
  BY <1>1 DEF RestoredTable
<1> QED
  BY <1>1, <1>2

LEMMA SeededProper ==
  ASSUME TableInv
  PROVE  /\ Seeded(RestoredTable) \in [Macs -> Entries]
         /\ \A m \in Macs :
              \/ Seeded(RestoredTable)[m] = RestoredTable[m]
              \/ Seeded(RestoredTable)[m] = Reserved(static[m]) /\ static[m] \in Pool /\ RestoredTable[m] = NoEntry
         /\ \A m, o \in Macs : m # o /\ Seeded(RestoredTable)[m].ip # 0 => Seeded(RestoredTable)[m].ip # Seeded(RestoredTable)[o].ip
<1>0. static \in [Macs -> Nat] /\ (\A n, o \in Macs : static[n] = static[o] /\ static[n] # 0 => n = o) /\ 0 \notin Pool
  BY StaticAssumption, DhcpAssumption DEF TableInv, DhcpTypeOK
<1> DEFINE R == RestoredTable
           T == Seeded(R)
<1>1. R \in [Macs -> Entries] /\ T \in [Macs -> Entries]
  BY <1>0, RestoredProper, EntryTypes DEF Seeded
<1>2. ASSUME NEW m \in Macs
      PROVE  T[m] = R[m] \/ (T[m] = Reserved(static[m]) /\ static[m] \in Pool /\ R[m] = NoEntry)
  BY RestoredProper, EntryTypes, <1>0 DEF Proper, Seeded
<1>3. ASSUME NEW m \in Macs, NEW o \in Macs, m # o, T[m].ip # 0, T[m].ip = T[o].ip PROVE FALSE
  <2>1. \A n \in Macs : T[n].ip # 0 => Proper(n, T[n].ip)
    BY RestoredProper, EntryTypes, <1>0, <1>2 DEF Proper
  <2>2. static[m] = 0 /\ static[o] = 0
    BY <1>0, <1>3, <2>1 DEF Proper
  <2>3. T[m] = R[m] /\ T[o] = R[o] /\ R[m] # NoEntry /\ R[o] # NoEntry
    BY <1>0, <1>2, <1>3, <2>2, EntryTypes
  <2>4. PICK k \in disk : k.mac = m /\ k.ip = R[m].ip
    BY <2>3, RestoredProper
  <2>5. PICK l \in disk : l.mac = o /\ l.ip = R[o].ip
    BY <2>3, RestoredProper
  <2> HIDE DEF R, T
  <2> QED
    BY <1>3, <2>3, <2>4, <2>5 DEF TableInv, SnapshotsSound, SoundSnapshot
<1> QED
  BY <1>1, <1>2, <1>3

LEMMA DhcpInitial == DhcpInit => TableInv
BY DhcpRanges, EntryTypes, ProperEntries DEF NoLease, DhcpInit, DhcpTypeOK, EntriesProper, OneEach, SnapshotsSound,
   SoundSnapshot, DownIsEmpty, TableInv

\* The table stays sound.
LEMMA TableStep == TableInv /\ [DhcpNext]_dhcpVars => TableInv'
<1> SUFFICES ASSUME TableInv, [DhcpNext]_dhcpVars PROVE TableInv'
  OBVIOUS
<1>0. /\ now \in 0..MaxTime /\ pc \in {"down", "running", "flushing"} /\ static \in StaticMaps
      /\ table \in [Macs -> Entries] /\ seen \in [Macs -> Instants] /\ timer \in Instants
      /\ disk \subseteq Leases /\ chain \in Seq(SUBSET Leases)
      /\ held \in [Macs -> [ip : Nat, at : 0..MaxTime]] /\ saved \subseteq Macs
      /\ EntriesProper /\ OneEach /\ SnapshotsSound /\ DownIsEmpty
      /\ now \in Instants /\ now # Never /\ now \in Nat /\ NoLease \in [ip : Nat, at : 0..MaxTime]
  BY DhcpRanges DEF TableInv, DhcpTypeOK, NoLease
<1>00. /\ Scheduled(TRUE) \in Instants /\ Scheduled(FALSE) \in Instants /\ Baseline(table) \in [Macs -> Instants]
       /\ \A T \in [Macs -> Entries] : Baseline(T) \in [Macs -> Instants]
  BY <1>0, DhcpRanges DEF Scheduled, Baseline, BindTime, Entries
<1>01. \A yes : Scheduled(yes) \in Instants
  BY <1>0 DEF Scheduled
<1>1. ASSUME NEW m \in Macs, Discover(m) PROVE TableInv'
  <2>1. UNCHANGED <<now, pc, static, chain, temp, disk>> /\ held' = [held EXCEPT ![m] = NoLease] /\ saved' \subseteq Macs
        /\ timer' \in Instants /\ seen' \in [Macs -> Instants] /\ pc # "down"
    BY <1>0, <1>00, <1>01, <1>1 DEF Discover, Serving, DownIsEmpty
  <2>2. SnapshotsSound' /\ DownIsEmpty'
    BY <1>0, <2>1 DEF SnapshotsSound, SoundSnapshot, DownIsEmpty
  <2>3. CASE table' = Pruned(table) /\ Pruned(table)[m].ip = 0
    <3>1. OneEach'
      BY <2>3, PrunedProper DEF OneEach
    <3>2. \A o \in Macs : held'[o] = held[o] \/ held'[o] = NoLease
      BY <1>0, <2>1
    <3>3. \A o \in Macs : ProperEntry(o, table'[o], held'[o])
      <4> TAKE o \in Macs
      <4>1. ProperEntry(o, table[o], held'[o])
        BY <1>0, <3>2, ProperEntries DEF EntriesProper
      <4>2. table'[o] = NoEntry \/ table'[o] = table[o]
        BY <1>0, <2>3, PrunedEntries
      <4> QED
        BY <4>1, <4>2, ProperEntries
    <3>4. EntriesProper'
      BY <2>1, <3>3, ProperEntriesNext
    <3> QED
      BY <1>0, <2>1, <2>2, <2>3, <3>1, <3>4, PrunedEntries DEF TableInv, DhcpTypeOK
  <2>4. CASE Granted(m, [st |-> "offered", ip |-> Select(Pruned(table), m), at |-> Pruned(table)[m].at, offer |-> now])
    <3> DEFINE e == [st |-> "offered", ip |-> Select(Pruned(table), m), at |-> Pruned(table)[m].at, offer |-> now]
    <3>0. e.st = "offered" /\ e.at = Pruned(table)[m].at /\ e.offer = now
      OBVIOUS
    <3>1. e.at # Never => e.at <= now
      BY <1>0, <3>0, PrunedEntries, EntryTypes DEF EntriesProper, ProperEntry, Entries
    <3> HIDE DEF e
    <3>2. /\ table' \in [Macs -> Entries] /\ table'[m] = e /\ e.ip # 0 /\ Proper(m, e.ip)
          /\ \A o \in Macs : o # m => table'[o] = Pruned(table)[o]
          /\ \A n, o \in Macs : n # o /\ table'[n].ip # 0 => table'[n].ip # table'[o].ip
      BY ZenonT(30), <2>4, GrantedEntries DEF Granted, e
    <3>3. OneEach'
      BY <3>2 DEF OneEach
    <3>4. EntriesProper'
      <4> SUFFICES ASSUME NEW o \in Macs PROVE ProperEntry(o, table'[o], held'[o])
        BY <2>1, ProperEntriesNext
      <4>1. CASE o = m
        BY <1>0, <2>1, <3>0, <3>1, <3>2, <4>1 DEF ProperEntry
      <4>2. CASE o # m
        BY <1>0, <2>1, <3>2, <4>2, PrunedEntries, ProperEntries DEF EntriesProper
      <4> QED
        BY <4>1, <4>2
    <3> QED
      BY <1>0, <2>1, <2>2, <3>2, <3>3, <3>4 DEF TableInv, DhcpTypeOK
  <2> QED
    BY <1>1, <2>3, <2>4, Offers
<1>2. ASSUME NEW m \in Macs, RequestLease(m) PROVE TableInv'
  <2>1. /\ UNCHANGED <<now, pc, static, chain, temp, disk>> /\ saved' \subseteq Macs
        /\ timer' \in Instants /\ pc # "down"
    BY <1>0, <1>00, <1>01, <1>2 DEF RequestLease, Serving, DownIsEmpty
  <2>2. SnapshotsSound' /\ DownIsEmpty'
    BY <1>0, <2>1 DEF SnapshotsSound, SoundSnapshot, DownIsEmpty
  <2>5. seen' = Baseline(table) \/ seen' = Baseline(table')
    BY <1>2 DEF RequestLease
  <2>3. CASE table' = Pruned(table) /\ Pruned(table)[m].ip = 0 /\ held' = held
    <3>1. OneEach'
      BY <2>3, PrunedProper DEF OneEach
    <3>3. \A o \in Macs : ProperEntry(o, table'[o], held'[o])
      BY <1>0, <2>3, PrunedEntries, ProperEntries DEF EntriesProper
    <3>4. EntriesProper'
      BY <2>1, <3>3, ProperEntriesNext
    <3> QED
      BY <1>0, <1>00, <2>1, <2>2, <2>3, <2>5, <3>1, <3>4, PrunedEntries DEF TableInv, DhcpTypeOK
  <2>4. CASE LET e == [st |-> "bound", ip |-> Select(Pruned(table), m), at |-> now, offer |-> Never]
             IN Granted(m, e) /\ held' = [held EXCEPT ![m] = [ip |-> e.ip, at |-> now]]
    <3> DEFINE e == [st |-> "bound", ip |-> Select(Pruned(table), m), at |-> now, offer |-> Never]
    <3>0. e.st = "bound" /\ e.at = now
      OBVIOUS
    <3> HIDE DEF e
    <3>2. /\ table' \in [Macs -> Entries] /\ table'[m] = e /\ e.ip # 0 /\ Proper(m, e.ip) /\ e \in Entries
          /\ \A o \in Macs : o # m => table'[o] = Pruned(table)[o]
          /\ \A n, o \in Macs : n # o /\ table'[n].ip # 0 => table'[n].ip # table'[o].ip
          /\ held' = [held EXCEPT ![m] = [ip |-> e.ip, at |-> now]]
      BY ZenonT(30), <2>4, GrantedEntries DEF Granted, e
    <3>3. OneEach'
      BY <3>2 DEF OneEach
    <3>4. EntriesProper'
      <4> SUFFICES ASSUME NEW o \in Macs PROVE ProperEntry(o, table'[o], held'[o])
        BY <2>1, ProperEntriesNext
      <4>1. CASE o = m
        BY <1>0, <3>0, <3>2, <4>1 DEF ProperEntry
      <4>2. CASE o # m
        BY ZenonT(30), <1>0, <3>2, <4>2, PrunedEntries, ProperEntries DEF EntriesProper
      <4> QED
        BY <4>1, <4>2
    <3>5. held' \in [Macs -> [ip : Nat, at : 0..MaxTime]]
      BY <1>0, <3>2 DEF Entries
    <3>6. seen' \in [Macs -> Instants]
      BY <1>0, <1>00, <2>1, <2>5, <3>2
    <3> QED
      BY <1>0, <2>1, <2>2, <3>2, <3>3, <3>4, <3>5, <3>6 DEF TableInv, DhcpTypeOK
  <2> QED
    BY <1>2, <2>3, <2>4, Binds
<1>3. ASSUME NEW m \in Macs, Release(m) PROVE TableInv'
  <2> DEFINE T == [table EXCEPT ![m] = IF static[m] = held[m].ip /\ static[m] \in Pool THEN Reserved(static[m]) ELSE NoEntry]
             hit == table[m].st = "bound" /\ table[m].ip = held[m].ip
  <2>1. /\ UNCHANGED <<now, pc, static, chain, temp, disk>> /\ held' = [held EXCEPT ![m] = NoLease] /\ saved' \subseteq Macs
        /\ timer' \in Instants /\ pc # "down" /\ table' = (IF hit THEN T ELSE table)
        /\ seen' = IF hit THEN Baseline(T) ELSE Baseline(table)
    BY <1>0, <1>00, <1>01, <1>3 DEF Release, Serving, DownIsEmpty
  <2>2. SnapshotsSound' /\ DownIsEmpty'
    BY <1>0, <2>1 DEF SnapshotsSound, SoundSnapshot, DownIsEmpty
  <2>3. static[m] \in Nat /\ 0 \notin Pool
    BY <1>0, StaticAssumption, DhcpAssumption
  <2>4. T \in [Macs -> Entries]
    BY <1>0, <2>3, EntryTypes
  <2>5. EntriesProper' /\ OneEach'
    <3>1. \A o \in Macs : o # m => table'[o] = table[o]
      BY <1>0, <2>1
    <3>2. table'[m] = table[m] \/ table'[m] = NoEntry
            \/ (table'[m] = Reserved(table[m].ip) /\ table[m].ip # 0)
      BY <1>0, <2>1, <2>3
    <3> HIDE DEF T, hit
    <3>3. table[m].ip \in Nat /\ (table[m].ip # 0 => Proper(m, table[m].ip))
      BY <1>0 DEF Entries, EntriesProper, ProperEntry
    <3>4. ASSUME NEW o \in Macs PROVE ProperEntry(o, table'[o], held'[o])
      BY <1>0, <2>1, <3>2, <3>3, ProperEntries, <3>1 DEF EntriesProper
    <3>5. EntriesProper'
      BY <2>1, <3>4, ProperEntriesNext
    <3>6. OneEach'
      <4>1. table'[m].ip \in {0, table[m].ip}
        BY <3>2, <3>3, EntryTypes
      <4>2. \A o \in Macs : table'[o].ip \in {0, table[o].ip}
        BY <3>1, <4>1
      <4> QED
        BY <1>0, <4>2 DEF OneEach
    <3> QED
      BY <3>5, <3>6
  <2> HIDE DEF T, hit
  <2> QED
    BY <1>0, <1>00, <2>1, <2>2, <2>4, <2>5 DEF TableInv, DhcpTypeOK
<1>4. CASE TimerFires \/ StopFlushes
  <2>1. /\ UNCHANGED <<now, static, table, seen, temp, disk, held, saved>> /\ pc = "running" /\ pc' \in {"running", "flushing"}
        /\ timer' = Never /\ (chain' = chain \/ chain' = Append(chain, Snapshot(table)))
    BY <1>4 DEF TimerFires, StopFlushes
  <2>2. Snapshot(table) \in SUBSET Leases /\ SoundSnapshot(Snapshot(table))
    BY <1>0, SnapshotSound
  <2>3. chain' \in Seq(SUBSET Leases) /\ (temp' => chain' # << >>)
    <3>1. Append(chain, Snapshot(table)) \in Seq(SUBSET Leases) /\ Append(chain, Snapshot(table)) # << >>
      <4>1. Append(chain, Snapshot(table)) \in Seq(SUBSET Leases) /\ Len(Append(chain, Snapshot(table))) = Len(chain) + 1
        BY <1>0, <2>2
      <4>2. Len(chain) + 1 # 0
        BY <1>0
      <4>3. Len(<< >>) = 0
        OBVIOUS
      <4> QED
        BY <4>1, <4>2, <4>3, Zenon
    <3> QED
      BY <1>0, <2>1, <3>1 DEF DownIsEmpty
  <2>4. SnapshotsSound'
    BY <1>0, <2>1, <2>2 DEF SnapshotsSound, SoundSnapshot
  <2>5. EntriesProper' /\ OneEach' /\ DownIsEmpty'
    BY <1>0, <2>1, <2>3 DEF EntriesProper, ProperEntry, OneEach, Proper, DownIsEmpty
  <2> QED
    BY <1>0, <2>1, <2>3, <2>4, <2>5, DhcpRanges DEF TableInv, DhcpTypeOK
<1>5. CASE WriteTemp
  BY <1>0, <1>5 DEF WriteTemp, DiskWhileWriting, EntriesProper, ProperEntry, OneEach, Proper, DownIsEmpty,
     SnapshotsSound, SoundSnapshot, TableInv, DhcpTypeOK
<1>6. CASE Rename \/ WriteFails
  <2>1. /\ chain # << >> /\ chain' = Tail(chain) /\ temp' = FALSE /\ (disk' = Head(chain) \/ disk' = disk) /\ saved' \subseteq Macs
        /\ UNCHANGED <<now, pc, static, table, seen, timer, held>>
    BY <1>0, <1>6 DEF Rename, WriteFails, DownIsEmpty
  <2>2. chain' \in Seq(SUBSET Leases) /\ Head(chain) = chain[1] /\ chain[1] \subseteq Leases /\ 1 \in 1..Len(chain)
    BY <1>0, <2>1
  <2>3. \A k \in 1..Len(chain') : k + 1 \in 1..Len(chain) /\ chain'[k] = chain[k + 1]
    BY <1>0, <2>1
  <2>4. SnapshotsSound'
    BY <1>0, <2>1, <2>2, <2>3 DEF SnapshotsSound, SoundSnapshot
  <2>5. EntriesProper' /\ OneEach' /\ DownIsEmpty'
    BY <1>0, <2>1 DEF EntriesProper, ProperEntry, OneEach, Proper, DownIsEmpty
  <2> QED
    BY <1>0, <2>1, <2>2, <2>4, <2>5 DEF TableInv, DhcpTypeOK
<1>7. CASE Start
  <2>0. static \in [Macs -> Nat] /\ \A n, o \in Macs : static[n] = static[o] /\ static[n] # 0 => n = o
    BY <1>0, StaticAssumption
  <2>1. /\ table' = Seeded(RestoredTable) /\ seen' = [m \in Macs |-> RestoredTable[m].at] /\ pc = "down" /\ pc' = "running"
        /\ UNCHANGED <<now, static, timer, chain, temp, disk, held, saved>>
    BY <1>7 DEF Start
  <2>2. seen' \in [Macs -> Instants] /\ table' \in [Macs -> Entries]
    BY <2>1, RestoredProper, SeededProper DEF Entries
  <2>3. OneEach'
    BY <2>1, SeededProper DEF OneEach
  <2>4. EntriesProper'
    <3> SUFFICES ASSUME NEW o \in Macs PROVE ProperEntry(o, table'[o], held'[o])
      BY <2>1, ProperEntriesNext
    <3>1. CASE table'[o] = Reserved(static[o]) /\ static[o] \in Pool
      BY <1>0, <2>0, <3>1, ProperEntries, DhcpAssumption DEF Proper
    <3>2. CASE table'[o] = NoEntry
      BY <3>2, ProperEntries
    <3>3. CASE \E l \in disk : /\ l.mac = o /\ Restorable(l) /\ l.ip # 0 /\ Proper(o, l.ip)
                               /\ table'[o] = [st |-> "bound", ip |-> l.ip, at |-> l.at, offer |-> Never]
      BY <1>0, <3>3 DEF SnapshotsSound, SoundSnapshot, ProperEntry
    <3> QED
      BY <2>1, <3>1, <3>2, <3>3, RestoredProper, SeededProper
  <2>5. SnapshotsSound' /\ DownIsEmpty'
    BY <1>0, <2>1 DEF DownIsEmpty, SnapshotsSound, SoundSnapshot
  <2> QED
    BY <1>0, <2>1, <2>2, <2>3, <2>4, <2>5 DEF TableInv, DhcpTypeOK
<1>8. ASSUME NEW s \in StaticMaps, Configure(s) PROVE TableInv'
  BY <1>8, <1>0, EntryTypes DEF Configure, DownIsEmpty, EntriesProper, ProperEntry, OneEach, SnapshotsSound,
     SoundSnapshot, TableInv, DhcpTypeOK
<1>9. CASE StopCloses \/ Crash
  <2>1. EngineGone
    BY <1>9 DEF StopCloses, Crash
  <2>2. /\ pc' = "down" /\ table' = [m \in Macs |-> NoEntry] /\ seen' = [m \in Macs |-> Never]
        /\ timer' = Never /\ chain' = << >> /\ temp' = FALSE /\ UNCHANGED <<now, static, disk, held, saved>>
    BY <2>1 DEF EngineGone
  <2>3. EntriesProper' /\ OneEach'
    BY <2>2, EntryTypes DEF EntriesProper, ProperEntry, OneEach
  <2>4. SnapshotsSound' /\ DownIsEmpty'
    BY <1>0, <2>2 DEF SnapshotsSound, SoundSnapshot, DownIsEmpty
  <2>5. DhcpTypeOK'
    BY <1>0, <2>2, <2>3, <2>4, EntryTypes, DhcpRanges DEF DhcpTypeOK
  <2> QED
    BY <2>3, <2>4, <2>5 DEF TableInv
<1>10. CASE Tick
  <2>1. /\ now' \in 0..MaxTime /\ now' = now + 1
        /\ UNCHANGED <<pc, static, table, seen, timer, chain, temp, disk, held, saved>>
    BY <1>0, <1>10, DhcpAssumption DEF Tick
  <2>2. EntriesProper' /\ OneEach'
    <3>1. \A m \in Macs : table[m].at \in Nat /\ (table[m].at <= now => table[m].at <= now')
      <4> TAKE m \in Macs
      <4>1. table[m].at \in Nat
        BY <1>0, DhcpRanges DEF Entries
      <4> QED
        BY <1>0, <2>1, <4>1
    <3> QED
      BY <1>0, <2>1, <3>1 DEF EntriesProper, ProperEntry, OneEach, Proper
  <2>3. DownIsEmpty'
    BY <1>0, <2>1 DEF DownIsEmpty
  <2>4. SnapshotsSound'
    <3>1. ASSUME NEW D \in SUBSET Leases, SoundSnapshot(D)
          PROVE  \A k, l \in D : k.ip # 0 /\ k.at <= now' /\ (k.mac = l.mac \/ k.ip = l.ip => k = l)
      BY <1>0, <2>1, <3>1, DhcpRanges DEF SoundSnapshot, Leases
    <3>2. \A k \in 1..Len(chain) : chain[k] \in SUBSET Leases /\ SoundSnapshot(chain[k])
      BY <1>0 DEF SnapshotsSound
    <3>3. \A k, l \in disk : k.ip # 0 /\ k.at <= now' /\ (k.mac = l.mac \/ k.ip = l.ip => k = l)
      BY <1>0, <3>1 DEF SnapshotsSound
    <3>4. \A i \in 1..Len(chain) : \A k, l \in chain[i] : k.ip # 0 /\ k.at <= now' /\ (k.mac = l.mac \/ k.ip = l.ip => k = l)
      BY <3>1, <3>2
    <3> QED
      BY <2>1, <3>3, <3>4 DEF SnapshotsSound, SoundSnapshot
  <2> QED
    BY <1>0, <2>1, <2>2, <2>3, <2>4 DEF TableInv, DhcpTypeOK
<1>11. CASE UNCHANGED dhcpVars
  BY <1>0, <1>11 DEF dhcpVars, TableInv, DhcpTypeOK, EntriesProper, ProperEntry, OneEach, Proper, SnapshotsSound, SoundSnapshot, DownIsEmpty
<1> QED
  BY <1>1, <1>2, <1>3, <1>4, <1>5, <1>6, <1>7, <1>8, <1>9, <1>10, <1>11 DEF DhcpNext

\* What the writer has in hand for m: a write that waits, a failure that is known,
\* or the lease itself in the newest snapshot.
Latest == IF chain = << >> THEN disk ELSE chain[Len(chain)]
LeaseOf(m) == [mac |-> m, ip |-> table[m].ip, at |-> table[m].at]
Covered(m) == timer # Never \/ (failed /\ chain = << >>) \/ LeaseOf(m) \in Latest

SeenPast == \A m \in Macs : seen[m] # Never => seen[m] <= now

\* An offer whose bind time is made up is written with the time of the moment,
\* so that it must have been noticed in this very moment not to be noticed again.
LeasesCovered ==
  pc = "running" => \A m \in LeaseKeys(table) :
    /\ table[m].at # Never => Covered(m)
    /\ table[m].at = Never /\ seen[m] = now => timer = now

CoverInv == SeenPast /\ LeasesCovered

LEMMA BaselinePast ==
  ASSUME now \in 0..MaxTime, NEW T \in [Macs -> Entries],
         \A m \in Macs : T[m].at # Never /\ T[m].st \in {"offered", "bound"} => T[m].at <= now
  PROVE  \A m \in Macs : /\ Baseline(T)[m] # Never => Baseline(T)[m] <= now
                         /\ m \in LeaseKeys(T) => Baseline(T)[m] = BindTime(T[m]) /\ Baseline(T)[m] # Never
                         /\ m \notin LeaseKeys(T) => Baseline(T)[m] = Never
BY DhcpRanges DEF Entries, Baseline, BindTime, LeaseKeys

\* A packet either makes the engine write, or finds all it has noticed before.
LEMMA NoticedBefore ==
  ASSUME TableInv, CoverInv, pc = "running", ~Noticed(table, seen), timer # now, NEW m \in LeaseKeys(table)
  PROVE  table[m].at # Never /\ Covered(m) /\ table[m].at <= seen[m] /\ seen[m] <= now
<1>0. /\ now \in Nat /\ now # Never /\ m \in Macs /\ seen[m] \in Nat /\ seen[m] # Never /\ seen[m] <= now
      /\ table[m] \in Entries /\ table[m].at \in Nat
  BY DhcpRanges DEF TableInv, DhcpTypeOK, CoverInv, SeenPast, LeaseKeys, Noticed, Entries
<1>1. ~(BindTime(table[m]) > seen[m])
  BY <1>0 DEF Noticed, Renewed
<1>2. CASE table[m].at = Never
  BY <1>0, <1>1, <1>2 DEF BindTime, CoverInv, LeasesCovered
<1>3. CASE table[m].at # Never
  BY <1>0, <1>1, <1>3 DEF BindTime, CoverInv, LeasesCovered
<1> QED
  BY <1>2, <1>3

\* What has lapsed is older than this moment.
LEMMA LapsedBefore ==
  ASSUME TableInv, NEW m \in Macs, Lapsed(m, table[m]), table[m].at # Never
  PROVE  table[m].at < now /\ m \in LeaseKeys(table)
<1>1. now \in Nat /\ table[m].at \in Nat /\ table[m].offer \in Nat /\ Period \in Nat \ {0} /\ OfferTTL \in Nat \ {0}
  BY DhcpRanges, DhcpAssumption DEF TableInv, DhcpTypeOK, Entries
<1>2. ProperEntry(m, table[m], held[m])
  BY DEF TableInv, EntriesProper
<1> QED
  BY <1>1, <1>2 DEF Lapsed, ProperEntry, LeaseKeys

LEMMA CoverInitial == DhcpInit => CoverInv
BY DEF DhcpInit, CoverInv, SeenPast, LeasesCovered

\* What was granted stays covered.
LEMMA CoverStep == TableInv /\ CoverInv /\ [DhcpNext]_dhcpVars => CoverInv'
<1> SUFFICES ASSUME TableInv, CoverInv, [DhcpNext]_dhcpVars PROVE CoverInv'
  OBVIOUS
<1>0. /\ now \in 0..MaxTime /\ table \in [Macs -> Entries] /\ seen \in [Macs -> Instants] /\ timer \in Instants
      /\ disk \subseteq Leases /\ chain \in Seq(SUBSET Leases) /\ EntriesProper /\ DownIsEmpty
      /\ now \in Nat /\ now # Never /\ SeenPast /\ LeasesCovered
  BY DhcpRanges DEF TableInv, DhcpTypeOK, CoverInv
<1>00. \A m \in Macs : Baseline(table)[m] # Never => Baseline(table)[m] <= now
  BY <1>0, BaselinePast DEF EntriesProper, ProperEntry
<1>1. ASSUME NEW m \in Macs, Discover(m) PROVE CoverInv'
  <2>1. /\ UNCHANGED <<now, pc, chain, disk, failed>> /\ seen' = Baseline(table)
        /\ timer' = Scheduled(Noticed(table, seen))
    BY <1>1 DEF Discover
  <2>2. SeenPast'
    BY <1>00, <2>1 DEF SeenPast
  <2>3. CASE pc # "running"
    BY <2>1, <2>2, <2>3 DEF CoverInv, LeasesCovered
  <2>4. CASE pc = "running" /\ timer' = now
    BY <1>0, <2>1, <2>2, <2>4 DEF CoverInv, LeasesCovered, Covered
  <2>5. CASE pc = "running" /\ timer' # now
    <3>1. timer' = timer /\ ~Noticed(table, seen) /\ timer # now
      BY <2>1, <2>5 DEF Scheduled
    <3>2. \A o \in LeaseKeys(table) : table[o].at # Never /\ Covered(o) /\ table[o].at \in Nat
      BY <1>0, <2>5, <3>1, NoticedBefore, DhcpRanges DEF LeaseKeys, Entries
    <3>3. ASSUME NEW o \in LeaseKeys(table'), table'[o] = table[o]
          PROVE  table'[o].at # Never /\ Covered(o)'
      BY <2>1, <3>1, <3>2, <3>3 DEF LeaseKeys, Covered, Latest, LeaseOf
    <3>4. ASSUME NEW o \in LeaseKeys(table'), table'[o] = Pruned(table)[o]
          PROVE  table'[o].at # Never /\ Covered(o)'
      BY <1>0, <3>4, PrunedEntries, EntryTypes, <3>3 DEF LeaseKeys
    <3>5. CASE table' = Pruned(table)
      BY <2>2, <3>4, <3>5 DEF CoverInv, LeasesCovered
    <3>6. CASE Granted(m, [st |-> "offered", ip |-> Select(Pruned(table), m), at |-> Pruned(table)[m].at, offer |-> now])
      <4> DEFINE e == [st |-> "offered", ip |-> Select(Pruned(table), m), at |-> Pruned(table)[m].at, offer |-> now]
      <4>0. e.at = Pruned(table)[m].at
        OBVIOUS
      <4> HIDE DEF e
      <4>1. /\ table'[m] = e /\ \A o \in Macs : o # m => table'[o] = Pruned(table)[o]
            /\ Pruned(table)[m].ip # 0 => e.ip = Pruned(table)[m].ip
        BY <3>6, GrantedEntries DEF e, Granted
      <4>2. CASE m \in LeaseKeys(table) /\ Pruned(table)[m] = table[m]
        BY <1>0, <4>0, <4>1, <4>2, <2>1, <3>1, <3>2, <3>4, <2>2 DEF EntriesProper, ProperEntry, LeaseKeys, LeaseOf,
           Covered, Latest, CoverInv, LeasesCovered
      <4>3. CASE ~(m \in LeaseKeys(table) /\ Pruned(table)[m] = table[m])
        <5>1. e.at = Never
          BY <1>0, <4>0, <4>3, PrunedEntries, EntryTypes DEF EntriesProper, ProperEntry, LeaseKeys
        <5>2. seen'[m] # now
          BY <1>0, <2>1, BaselinePast, <4>3, PrunedEntries, <3>2, LapsedBefore DEF EntriesProper, ProperEntry,
             Pruned, Baseline, BindTime
        <5>3. \A o \in LeaseKeys(table') : o # m => table'[o].at # Never /\ Covered(o)'
          BY <3>4, <4>1 DEF LeaseKeys
        <5> QED
          BY <2>1, <2>2, <4>1, <5>1, <5>2, <5>3 DEF CoverInv, LeasesCovered
      <4> QED
        BY <4>2, <4>3
    <3> QED
      BY <1>1, <3>5, <3>6, Offers
  <2> QED
    BY <2>3, <2>4, <2>5
<1>2. ASSUME NEW m \in Macs, RequestLease(m) PROVE CoverInv'
  <2> DEFINE a == Select(Pruned(table), m)
             e == [st |-> "bound", ip |-> a, at |-> now, offer |-> Never]
  <2>0. TableInv'
    BY <1>2, TableStep DEF DhcpNext
  <2>1. /\ UNCHANGED <<now, pc, chain, disk, failed>>
        /\ seen' = IF a = 0 THEN Baseline(table) ELSE Baseline(table')
        /\ timer' = Scheduled(Noticed(table, seen) \/ (a # 0 /\ Noticed(table', Baseline(table))))
        /\ a = 0 => table' = Pruned(table)
    BY <1>2 DEF RequestLease
  <2>2. SeenPast'
    BY <2>0, <2>1, <1>0, BaselinePast, <1>00 DEF TableInv, EntriesProper, ProperEntry, DhcpTypeOK, SeenPast
  <2>3. CASE pc # "running"
    BY <2>1, <2>2, <2>3 DEF CoverInv, LeasesCovered
  <2>4. CASE pc = "running" /\ timer' = now
    BY <1>0, <2>1, <2>2, <2>4 DEF CoverInv, LeasesCovered, Covered
  <2>5. CASE pc = "running" /\ timer' # now
    <3>1. timer' = timer /\ ~Noticed(table, seen) /\ timer # now /\ (a # 0 => ~Noticed(table', Baseline(table)))
      BY <2>1, <2>5 DEF Scheduled
    <3>2. \A o \in LeaseKeys(table) : table[o].at # Never /\ Covered(o) /\ table[o].at \in Nat
      BY <1>0, <2>5, <3>1, NoticedBefore, DhcpRanges DEF LeaseKeys, Entries
    <3>3. ASSUME NEW o \in LeaseKeys(table'), table'[o] = Pruned(table)[o]
          PROVE  table'[o].at # Never /\ Covered(o)'
      BY <1>0, <3>3, PrunedEntries, EntryTypes, <2>1, <3>1, <3>2 DEF LeaseKeys, Covered, Latest, LeaseOf
    <3>4. CASE a = 0
      BY <2>1, <2>2, <3>3, <3>4 DEF CoverInv, LeasesCovered
    <3>5. CASE a # 0
      <4>1. Granted(m, e)
        <5>1. Pruned(table)[m].ip # 0 => a # 0
          BY DEF Select
        <5>2. ~(table' = Pruned(table) /\ Pruned(table)[m].ip = 0 /\ held' = held) \/ Granted(m, e)
          BY <1>2, <3>5, <1>0, PrunedEntries DEF RequestLease, TableInv, DhcpTypeOK
        <5> QED
          BY <1>2, <5>2, Binds
      <4> HIDE DEF e
      <4>2. /\ table'[m] = e /\ \A o \in Macs : o # m => table'[o] = Pruned(table)[o]
            /\ Pruned(table)[m].ip # 0 => e.ip = Pruned(table)[m].ip
        BY <4>1, GrantedEntries DEF Granted
      <4>3. e.st = "bound" /\ e.at = now
        BY DEF e
      <4>4. m \in LeaseKeys(table') /\ BindTime(table'[m]) = now
        BY <1>0, <4>2, <4>3 DEF LeaseKeys, BindTime
      <4>5. Baseline(table)[m] # Never /\ ~(now > Baseline(table)[m])
        BY <3>1, <3>5, <4>4 DEF Noticed, Renewed
      <4>6. m \in LeaseKeys(table)
        BY <4>5 DEF Baseline
      <4>7. Baseline(table)[m] = table[m].at
        BY <3>2, <4>6 DEF Baseline, BindTime
      <4>8. table[m].at = now
        BY <1>00, <4>5, <4>7, <1>0, <3>2, <4>6
      <4>9. ~Lapsed(m, table[m])
        BY <1>0, <4>8, <3>2, <4>6, LapsedBefore
      <4>10. Pruned(table)[m] = table[m]
        BY <4>9 DEF Pruned
      <4>11. e.ip = table[m].ip
        BY <1>0, <4>2, <4>6, <4>10 DEF EntriesProper, ProperEntry, LeaseKeys
      <4>12. LeaseOf(m)' = LeaseOf(m)
        BY <4>2, <4>3, <4>8, <4>11 DEF LeaseOf
      <4>13. table'[m].at # Never /\ Covered(m)'
        BY <1>0, <2>1, <3>1, <3>2, <4>2, <4>3, <4>6, <4>12 DEF Covered, Latest
      <4>14. \A o \in LeaseKeys(table') : table'[o].at # Never /\ Covered(o)'
        BY <3>3, <4>2, <4>13 DEF LeaseKeys
      <4> QED
        BY <2>2, <4>14 DEF CoverInv, LeasesCovered
    <3> QED
      BY <3>4, <3>5
  <2> QED
    BY <2>3, <2>4, <2>5
<1>3. ASSUME NEW m \in Macs, Release(m) PROVE CoverInv'
  <2> DEFINE hit == table[m].st = "bound" /\ table[m].ip = held[m].ip
  <2>0. TableInv'
    BY <1>3, TableStep DEF DhcpNext
  <2>1. /\ UNCHANGED <<now, pc, chain, disk, failed>>
        /\ seen' = IF hit THEN Baseline(table') ELSE Baseline(table)
        /\ timer' = Scheduled(hit \/ Noticed(table, seen))
        /\ ~hit => table' = table
    BY <1>3 DEF Release
  <2>2. SeenPast'
    BY <2>0, <2>1, <1>0, BaselinePast, <1>00 DEF TableInv, EntriesProper, ProperEntry, DhcpTypeOK, SeenPast
  <2>3. CASE pc # "running"
    BY <2>1, <2>2, <2>3 DEF CoverInv, LeasesCovered
  <2>4. CASE pc = "running" /\ timer' = now
    BY <1>0, <2>1, <2>2, <2>4 DEF CoverInv, LeasesCovered, Covered
  <2>5. CASE pc = "running" /\ timer' # now
    BY <2>1, <2>5, NoticedBefore, <2>2 DEF Scheduled, CoverInv, LeasesCovered, LeaseKeys, Covered, Latest, LeaseOf
  <2> QED
    BY <2>3, <2>4, <2>5
<1>4. CASE TimerFires
  BY <1>4, <1>0, SnapshotSound, DhcpRanges DEF TimerFires, TableInv, Latest, LeaseOf, Snapshot, BindTime,
     LeasesCovered, CoverInv, SeenPast, Covered, LeaseKeys
<1>5. CASE WriteTemp
  BY <1>0, <1>5 DEF WriteTemp, DiskWhileWriting, CoverInv, SeenPast, LeasesCovered, Covered, LeaseOf, LeaseKeys, Latest
<1>6. CASE Rename \/ WriteFails
  <2>1. /\ UNCHANGED <<now, pc, table, seen, timer>> /\ chain # << >> /\ chain' = Tail(chain)
        /\ disk' = Head(chain) \/ (failed' /\ disk' = disk)
    BY <1>0, <1>6 DEF Rename, WriteFails, DownIsEmpty
  <2>2. (failed' /\ chain' = << >>) \/ Latest' = Latest
    <3>1. CASE Len(chain) = 1
      BY <1>0, <2>1, <3>1 DEF Latest
    <3>2. CASE Len(chain) # 1
      <4>1. Len(chain') \in Nat /\ Len(chain') # 0 /\ chain'[Len(chain')] = chain[Len(chain)]
        <5>1. Len(chain) \in Nat /\ Len(chain) # 0
          BY <1>0, <2>1
        <5>2. Len(chain') = Len(chain) - 1 /\ \A k \in 1..(Len(chain) - 1) : chain'[k] = chain[k + 1]
          BY <1>0, <2>1
        <5>3. Len(chain) - 1 \in 1..(Len(chain) - 1) /\ (Len(chain) - 1) + 1 = Len(chain)
          BY <3>2, <5>1
        <5> QED
          BY <5>1, <5>2, <5>3
      <4>2. chain' # << >>
        BY <4>1
      <4> QED
        BY <2>1, <4>1, <4>2 DEF Latest
    <3> QED
      BY <3>1, <3>2
  <2> QED
    BY <1>0, <2>1, <2>2 DEF CoverInv, SeenPast, LeasesCovered, Covered, LeaseOf, LeaseKeys
<1>7. CASE Start
  <2>1. /\ table' = Seeded(RestoredTable) /\ seen' = [m \in Macs |-> RestoredTable[m].at]
        /\ UNCHANGED <<now, timer, chain, disk, failed>> /\ chain = << >>
    BY <1>0, <1>7 DEF Start, DownIsEmpty
  <2>2. ASSUME NEW m \in Macs
        PROVE  /\ seen'[m] # Never => seen'[m] <= now
               /\ m \in LeaseKeys(table') => LeaseOf(m)' \in disk /\ table'[m].at # Never
    <3>1. CASE RestoredTable[m] = NoEntry
      <4>1. static[m] \in Nat
        BY StaticAssumption DEF TableInv, DhcpTypeOK
      <4>2. table'[m] = NoEntry \/ table'[m] = Reserved(static[m])
        BY <2>1, <3>1, SeededProper
      <4>3. table'[m].st \in {"none", "reserved"}
        BY <4>1, <4>2, EntryTypes
      <4>4. seen'[m] = Never
        BY <2>1, <3>1, EntryTypes
      <4> QED
        BY <4>3, <4>4 DEF LeaseKeys
    <3>2. CASE \E l \in disk : /\ l.mac = m /\ Restorable(l) /\ l.ip # 0 /\ Proper(m, l.ip)
                               /\ RestoredTable[m] = [st |-> "bound", ip |-> l.ip, at |-> l.at, offer |-> Never]
      BY <3>2, <1>0, EntryTypes, <2>1, SeededProper, DhcpRanges DEF TableInv, SnapshotsSound, SoundSnapshot, Leases,
         LeaseOf
    <3> QED
      BY <3>1, <3>2, RestoredProper
  <2> QED
    BY <2>1, <2>2 DEF CoverInv, SeenPast, LeasesCovered, Covered, Latest, LeaseKeys
<1>8. CASE StopFlushes \/ StopCloses \/ Crash \/ \E s \in StaticMaps : Configure(s)
  BY <1>8, <1>0 DEF StopFlushes, StopCloses, Crash, EngineGone, Configure, CoverInv, SeenPast, LeasesCovered
<1>9. CASE Tick
  <2>1. now' = now + 1 /\ UNCHANGED <<pc, table, seen, timer, chain, disk, failed>>
    BY <1>9 DEF Tick
  <2>2. \A m \in Macs : seen[m] # Never => seen[m] <= now' /\ seen[m] # now'
    <3> SUFFICES ASSUME NEW m \in Macs, seen[m] # Never PROVE seen[m] <= now' /\ seen[m] # now'
      OBVIOUS
    <3>1. seen[m] \in Nat /\ seen[m] <= now
      BY <1>0, DhcpRanges DEF SeenPast
    <3> QED
      BY <1>0, <2>1, <3>1
  <2>3. now' # Never
    BY <1>9, <1>0, DhcpAssumption DEF Tick, Never
  <2> QED
    BY <1>0, <2>1, <2>2, <2>3 DEF CoverInv, SeenPast, LeasesCovered, Covered, LeaseOf, LeaseKeys, Latest
<1>10. CASE UNCHANGED dhcpVars
  BY <1>0, <1>10 DEF dhcpVars, CoverInv, SeenPast, LeasesCovered, Covered, LeaseOf, LeaseKeys, Latest
<1> QED
  BY <1>1, <1>2, <1>3, <1>4, <1>5, <1>6, <1>7, <1>8, <1>9, <1>10 DEF DhcpNext

\* The table has the lease that o believes in.
Current(o) == table[o].st = "bound" /\ table[o].ip = held[o].ip /\ table[o].at = held[o].at
Live(o) == held[o].at + Period > now

\* What waits to be written for a client whose lease is live is what the table has.
WrittenIsCurrent ==
  \A o \in Macs : \A k \in 1..Len(chain) : OnDisk(o, chain[k]) /\ Live(o) => Current(o)

\* A saved lease is in the file and in all that will replace it, so that a start
\* finds it wherever the engine died.
SavedIsKept ==
  \A o \in Macs : Unexpired(o) =>
    /\ OnDisk(o, disk) /\ \A k \in 1..Len(chain) : OnDisk(o, chain[k])
    /\ pc # "down" => Current(o)
    /\ Proper(o, held[o].ip)

SavedInv == WrittenIsCurrent /\ SavedIsKept

LEMMA SavedInitial == DhcpInit => SavedInv
BY DEF DhcpInit, SavedInv, WrittenIsCurrent, SavedIsKept, Unexpired

\* Forgetting what has lapsed leaves a live lease in place.
LEMMA CurrentSurvives ==
  ASSUME TableInv, NEW o \in Macs, Current(o), Live(o)
  PROVE  Pruned(table)[o] = table[o]
BY DhcpRanges, DhcpAssumption DEF TableInv, DhcpTypeOK, Current, Live, Lapsed, Pruned

\* A packet of m leaves the live leases of the others in place, and m's if it may.
Kept(o) ==
  \/ held'[o] = held[o] /\ (Current(o) /\ Live(o) => Current(o)')
  \/ held'[o] = NoLease /\ o \notin saved'
  \/ Current(o)' /\ (o \in saved' => held'[o] = held[o])

LEMMA PacketKeeps ==
  ASSUME TableInv, SavedInv, UNCHANGED <<now, pc, static, chain, disk>>, pc # "down",
         saved' \subseteq saved, \A o \in Macs : Kept(o)
  PROVE  SavedInv'
BY DEF Kept, SavedInv, WrittenIsCurrent, OnDisk, Live, Unexpired, SavedIsKept, Proper

LEMMA SavedStep == TableInv /\ SavedInv /\ [DhcpNext]_dhcpVars => SavedInv'
<1> SUFFICES ASSUME TableInv, SavedInv, [DhcpNext]_dhcpVars PROVE SavedInv'
  OBVIOUS
<1>0. /\ now \in 0..MaxTime /\ table \in [Macs -> Entries] /\ disk \subseteq Leases /\ chain \in Seq(SUBSET Leases)
      /\ held \in [Macs -> [ip : Nat, at : 0..MaxTime]] /\ saved \subseteq Macs /\ EntriesProper /\ DownIsEmpty
      /\ now \in Nat /\ now # Never /\ WrittenIsCurrent /\ SavedIsKept
  BY DhcpRanges DEF TableInv, DhcpTypeOK, SavedInv
<1>1. ASSUME NEW m \in Macs, Discover(m) PROVE SavedInv'
  BY <1>0, <1>1, Offers, GrantedEntries, CurrentSurvives, PacketKeeps DEF Discover, Serving, DownIsEmpty, Current,
     Kept
<1>2. ASSUME NEW m \in Macs, RequestLease(m) PROVE SavedInv'
  <2> DEFINE e == [st |-> "bound", ip |-> Select(Pruned(table), m), at |-> now, offer |-> Never]
  <2>1. /\ UNCHANGED <<now, pc, static, chain, disk>> /\ pc # "down" /\ saved' \subseteq saved
        /\ m \in saved' => saved' = saved /\ (held' = held \/ held'[m] = held[m])
    BY <1>0, <1>2 DEF RequestLease, Serving, DownIsEmpty
  <2>2. CASE table' = Pruned(table) /\ held' = held
    BY <2>2, CurrentSurvives, <2>1, PacketKeeps DEF Current, Kept
  <2>3. CASE Granted(m, e) /\ held' = [held EXCEPT ![m] = [ip |-> e.ip, at |-> now]]
    <3>0. e.st = "bound" /\ e.at = now
      OBVIOUS
    <3> HIDE DEF e
    <3>1. table'[m] = e /\ \A o \in Macs : o # m => table'[o] = Pruned(table)[o]
      BY <2>3, GrantedEntries
    <3>2. \A o \in Macs : o # m => held'[o] = held[o] /\ (Current(o) /\ Live(o) => Current(o)')
      BY <1>0, <2>3, <3>1, CurrentSurvives DEF Current
    <3>3. Current(m)'
      BY <1>0, <2>3, <3>0, <3>1 DEF Current
    <3>4. m \in saved' => held'[m] = held[m]
      BY <2>1
    <3> QED
      BY <3>2, <3>3, <3>4, <2>1, PacketKeeps DEF Kept
  <2> QED
    BY <1>2, <2>2, <2>3, Binds
<1>3. ASSUME NEW m \in Macs, Release(m) PROVE SavedInv'
  BY <1>0, <1>3, PacketKeeps DEF Release, Serving, DownIsEmpty, Current, Kept
<1>4. CASE TimerFires \/ StopFlushes
  <2>1. /\ UNCHANGED <<now, static, table, disk, held, saved>> /\ pc = "running" /\ pc' # "down"
        /\ chain' = chain \/ chain' = Append(chain, Snapshot(table))
    BY <1>4 DEF TimerFires, StopFlushes
  <2>2. \A k \in 1..Len(chain') : chain'[k] = Snapshot(table) \/ (k \in 1..Len(chain) /\ chain'[k] = chain[k])
    BY <1>0, SnapshotSound, <2>1 DEF TableInv
  <2>3. ASSUME NEW o \in Macs, OnDisk(o, Snapshot(table)) PROVE Current(o)
    <3>1. PICK m \in LeaseKeys(table) :
            [mac |-> o, ip |-> held[o].ip, at |-> held[o].at] = [mac |-> m, ip |-> table[m].ip, at |-> BindTime(table[m])]
      BY <2>3 DEF OnDisk, Snapshot
    <3>2. m = o /\ held[o].ip = table[o].ip /\ held[o].at = BindTime(table[o])
      BY <3>1
    <3>3. table[o].st = "bound"
      BY <1>0, <2>3, <3>1, <3>2 DEF LeaseKeys, Entries, OnDisk, EntriesProper, ProperEntry
    <3>4. table[o].at # Never
      BY <1>0, <3>3, DhcpRanges DEF EntriesProper, ProperEntry
    <3> QED
      BY <3>2, <3>3, <3>4 DEF Current, BindTime
  <2>4. ASSUME NEW o \in Macs, Unexpired(o) PROVE OnDisk(o, Snapshot(table))
    <3>1. Current(o) /\ held[o] # NoLease
      BY <1>0, <2>1, <2>4 DEF SavedIsKept, OnDisk
    <3>2. table[o].at # Never
      <4>1. table[o].at <= now
        BY <1>0, <3>1 DEF EntriesProper, ProperEntry, Current
      <4>2. now < Never
        BY <1>0, DhcpRanges
      <4> QED
        BY <1>0, <4>1, <4>2, DhcpRanges
    <3>3. o \in LeaseKeys(table)
      BY <3>1 DEF LeaseKeys, Current
    <3> QED
      BY <3>1, <3>2, <3>3 DEF OnDisk, Snapshot, Current, BindTime
  <2>5. WrittenIsCurrent'
    BY <1>0, <2>1, <2>2, <2>3 DEF WrittenIsCurrent, OnDisk, Live, Current
  <2>6. SavedIsKept'
    BY <1>0, <2>1, <2>2, <2>4 DEF SavedIsKept, OnDisk, Unexpired, Current, Proper
  <2> QED
    BY <2>5, <2>6 DEF SavedInv
<1>5. CASE WriteTemp
  BY <1>0, <1>5 DEF WriteTemp, DiskWhileWriting, SavedInv, WrittenIsCurrent, SavedIsKept, OnDisk, Unexpired, Current, Proper, Live
<1>6. CASE Rename
  <2>1. /\ UNCHANGED <<now, pc, static, table, held>> /\ chain # << >> /\ chain' = Tail(chain) /\ disk' = Head(chain)
        /\ saved' = saved \cup {m \in Macs : \A k \in DOMAIN chain : OnDisk(m, chain[k])}
        /\ pc # "down"
    BY <1>0, <1>6 DEF Rename, DownIsEmpty
  <2>2. /\ 1 \in 1..Len(chain) /\ disk' = chain[1] /\ DOMAIN chain = 1..Len(chain)
        /\ \A k \in 1..Len(chain') : k + 1 \in 1..Len(chain) /\ chain'[k] = chain[k + 1]
    BY <1>0, <2>1
  <2>3. WrittenIsCurrent'
    BY <1>0, <2>1, <2>2 DEF WrittenIsCurrent, OnDisk, Live, Current
  <2>4. ASSUME NEW o \in Macs, Unexpired(o)'
        PROVE  /\ OnDisk(o, disk') /\ \A k \in 1..Len(chain') : OnDisk(o, chain'[k])
               /\ Current(o) /\ Proper(o, held[o].ip)
    <3>1. Live(o) /\ o \in saved'
      BY <2>1, <2>4 DEF Unexpired, Live
    <3>2. \A k \in 1..Len(chain) : OnDisk(o, chain[k])
      BY <1>0, <3>1, <2>1, <2>2 DEF SavedIsKept, Unexpired, Live
    <3>3. Current(o)
      BY <1>0, <2>2, <3>1, <3>2 DEF WrittenIsCurrent
    <3>4. Proper(o, held[o].ip)
      BY <1>0, <3>3 DEF EntriesProper, ProperEntry, Current
    <3> QED
      BY <2>2, <3>2, <3>3, <3>4
  <2> QED
    BY <2>1, <2>3, <2>4 DEF SavedInv, SavedIsKept, OnDisk, Current, Proper
<1>7. CASE WriteFails
  BY <1>7, <1>0 DEF WriteFails, SavedInv, WrittenIsCurrent, SavedIsKept, OnDisk, Live, Current, Unexpired, Proper
<1>8. CASE Start
  <2>1. /\ UNCHANGED <<now, static, chain, disk, held, saved>> /\ chain = << >> /\ table' = Seeded(RestoredTable)
    BY <1>0, <1>8 DEF Start, DownIsEmpty
  <2>2. ASSUME NEW o \in Macs, Unexpired(o) PROVE Current(o)'
    <3> DEFINE l == [mac |-> o, ip |-> held[o].ip, at |-> held[o].at]
    <3>1. l \in disk /\ Proper(o, held[o].ip) /\ l.mac = o /\ l.ip = held[o].ip /\ l.at = held[o].at
      BY <1>0, <2>2 DEF SavedIsKept, OnDisk
    <3> HIDE DEF l
    <3>2. Restorable(l)
      BY <2>2, <3>1 DEF Restorable, Proper, Unexpired
    <3>3. PICK x \in disk : /\ x.mac = o
                            /\ RestoredTable[o] = [st |-> "bound", ip |-> x.ip, at |-> x.at, offer |-> Never]
      BY <3>1, <3>2, RestoredProper
    <3>4. x = l
      BY <3>1, <3>3 DEF TableInv, SnapshotsSound, SoundSnapshot
    <3>5. RestoredTable[o].st = "bound" /\ RestoredTable[o].ip = held[o].ip /\ RestoredTable[o].at = held[o].at
      BY <3>1, <3>3, <3>4
    <3>6. table'[o] = RestoredTable[o]
      BY <3>5, EntryTypes, <2>1, SeededProper
    <3> QED
      BY <2>1, <3>5, <3>6 DEF Current
  <2>3. WrittenIsCurrent'
    BY <2>1 DEF WrittenIsCurrent
  <2> QED
    BY <1>0, <2>1, <2>2, <2>3 DEF SavedInv, SavedIsKept, OnDisk, Unexpired, Proper
<1>9. ASSUME NEW s \in StaticMaps, Configure(s) PROVE SavedInv'
  BY <1>0, <1>9 DEF Configure, DownIsEmpty, SavedInv, WrittenIsCurrent, SavedIsKept, Unexpired
<1>10. CASE StopCloses \/ Crash
  <2>1. pc' = "down" /\ chain' = << >> /\ UNCHANGED <<now, static, disk, held, saved>>
    BY <1>10 DEF StopCloses, Crash, EngineGone
  <2> QED
    BY <1>0, <2>1 DEF SavedInv, WrittenIsCurrent, SavedIsKept, OnDisk, Unexpired, Proper
<1>11. CASE Tick
  <2>1. now' = now + 1 /\ UNCHANGED <<pc, static, table, chain, disk, held, saved>>
    BY <1>11 DEF Tick
  <2>2. \A o \in Macs : (Live(o)' => Live(o)) /\ (Unexpired(o)' => Unexpired(o))
    BY <1>0, DhcpRanges, DhcpAssumption, <2>1 DEF Live, Unexpired
  <2>3. WrittenIsCurrent'
    BY <1>0, <2>1, <2>2 DEF WrittenIsCurrent, OnDisk, Current
  <2>4. SavedIsKept'
    BY <1>0, <2>1, <2>2 DEF SavedIsKept, OnDisk, Current, Proper
  <2> QED
    BY <2>3, <2>4 DEF SavedInv
<1>12. CASE UNCHANGED dhcpVars
  BY <1>0, <1>12 DEF dhcpVars, SavedInv, WrittenIsCurrent, SavedIsKept, OnDisk, Live, Current, Unexpired, Proper
<1> QED
  BY <1>1, <1>2, <1>3, <1>4, <1>5, <1>6, <1>7, <1>8, <1>9, <1>10, <1>11, <1>12 DEF DhcpNext

LEMMA TableSound == TableInv /\ CoverInv => LeaseTableSound
<1> SUFFICES ASSUME TableInv, CoverInv PROVE LeaseTableSound
  OBVIOUS
<1>1. ASSUME NEW m \in Macs, NEW o \in Macs, m # o, table[m].ip # 0
      PROVE  table[m].ip # table[o].ip /\ table[m].ip # static[o]
  BY <1>1, StaticAssumption DEF TableInv, OneEach, EntriesProper, ProperEntry, DhcpTypeOK, Proper
<1>2. BoundIsCovered
  <2> SUFFICES ASSUME pc = "running", NEW m \in Macs, table[m].st = "bound"
               PROVE  timer # Never \/ failed \/ LeaseOf(m) \in Latest
    BY DEF BoundIsCovered, LeaseOf, Latest
  <2>1. m \in LeaseKeys(table)
    BY DEF LeaseKeys
  <2>2. table[m].at # Never
    BY DhcpRanges DEF TableInv, DhcpTypeOK, Entries, EntriesProper, ProperEntry
  <2> QED
    BY <2>1, <2>2 DEF CoverInv, LeasesCovered, Covered
<1> QED
  BY <1>1, <1>2 DEF LeaseTableSound, UniqueAddress, TableInv

(* However packets, the debounced writes, failures, crashes, restarts and      *)
(* edits of the reservations follow each other, no two devices share an        *)
(* address, none has one that is reserved for another, and every lease that    *)
(* was granted is in the lease file or on its way there (DhcpEngine,           *)
(* dhcpLeasePersistence and the allocator of the patched library).             *)
THEOREM LeaseTableIsSound == DhcpSpec => []LeaseTableSound
<1>1. DhcpInit => TableInv /\ CoverInv
  BY DhcpInitial, CoverInitial
<1>2. TableInv /\ CoverInv /\ [DhcpNext]_dhcpVars => (TableInv /\ CoverInv)'
  BY TableStep, CoverStep
<1> QED
  BY <1>1, <1>2, TableSound, PTL DEF DhcpSpec

(* A lease that reached the file is not acknowledged to another device until   *)
(* it has run out: reconcilePersistedLeases() brings it back after any crash,  *)
(* whichever write the crash interrupted.                                      *)
THEOREM SavedLeaseNeverShared == DhcpSpec => SavedNeverShared
<1>1. DhcpInit => TableInv /\ SavedInv
  BY DhcpInitial, SavedInitial
<1>2. TableInv /\ SavedInv /\ [DhcpNext]_dhcpVars => (TableInv /\ SavedInv)'
  BY TableStep, SavedStep
<1>3. TableInv /\ SavedInv /\ (TableInv /\ SavedInv)' /\ [DhcpNext]_dhcpVars =>
        [\A m, o \in Macs : m # o /\ Unexpired(o) => ~Acknowledged(m, held[o].ip)]_dhcpVars
  <2> SUFFICES ASSUME TableInv, SavedInv, TableInv', SavedInv',
                      NEW m \in Macs, NEW o \in Macs, m # o, Unexpired(o), Acknowledged(m, held[o].ip)
               PROVE  FALSE
    OBVIOUS
  <2>1. RequestLease(m) /\ table'[m].st = "bound" /\ table'[m].ip = held[o].ip
    BY DEF Acknowledged
  <2>2. UNCHANGED <<now, pc>> /\ pc # "down" /\ held'[o] = held[o] /\ o \in saved'
    BY <2>1 DEF RequestLease, Serving, TableInv, DownIsEmpty, DhcpTypeOK, Unexpired
  <2>3. table'[o].ip = held[o].ip
    BY <2>2 DEF SavedInv, SavedIsKept, Unexpired, Current
  <2>4. table'[m].ip # 0
    BY <2>1 DEF TableInv, EntriesProper, ProperEntry
  <2> QED
    BY <2>1, <2>3, <2>4 DEF TableInv, OneEach
<1> QED
  BY <1>1, <1>2, <1>3, PTL DEF DhcpSpec, SavedNeverShared

------------------------------------------------------------------------------
(* The engine of the TFTP server *)

\* The socket follows the operation in front of the queue.
SocketFollows ==
  /\ accepting <=> socket = "bound"
  /\ stage = "bind" <=> socket = "binding"
  /\ stage \in {"admissions", "handles"} => socket = "none"

\* The queue is empty when nothing runs, its last entry is what was asked for
\* last, and its first one is where it says.
QueueFollows ==
  /\ stage = "idle" <=> lifecycle = << >>
  /\ lifecycle # << >> => lifecycle[Len(lifecycle)] = asked.kind
  /\ stage = "bind" => lifecycle[1] = "start"
  /\ stage \in {"admissions", "handles"} => lifecycle[1] = "stop"

NoTransfers == Admitting = {} /\ \A p \in Peers : transfers[p] = 0 /\ packets[p] = << >>

\* Nothing is held while the socket is closed, but for what stop() still clears.
HoldsNothing ==
  /\ stage = "handles" => NoTransfers
  /\ socket # "bound" /\ stage \notin {"admissions", "handles"} =>
       NoTransfers /\ pendingKeys = {} /\ \A p \in Peers : writeHandles[p] = NoHandle

FinalizingIsCleanup == \A p \in finalizing : \E c \in cleanups : c.peer = p

\* A request under way reserves its key, alone.
Reserves ==
  /\ \A s \in Admitting : admission[s].peer \in pendingKeys
  /\ \A s, r \in Admitting : admission[s].peer = admission[r].peer => s = r

EngInv ==
  /\ AdmissionBound /\ LastRequestWins
  /\ SocketFollows /\ QueueFollows /\ HoldsNothing /\ FinalizingIsCleanup /\ Reserves

LEMMA EngInvSuffices == EngInv => EngineSound
BY DEF EngInv, EngineSound, StopLeavesNothing, SocketFollows, HoldsNothing, NoTransfers, FinalizingIsCleanup, Registered

LEMMA EngFacts ==
  /\ NoHandle \in FileHandles /\ \A s \in Sessions : <<s, "wx">> \in FileHandles /\ <<s, "a">> \in FileHandles
  /\ Unasked \in Requests /\ Unasked.ph = "unused" /\ 0 \in 0..NumSessions /\ 0 \in 0..MaxLifecycle
  /\ Sessions \subseteq 0..NumSessions /\ \A n \in 0..NumSessions : n # 0 => n \in Sessions
  /\ \A k \in {"start", "stop"} : [kind |-> k, n |-> 0] \in [kind : {"start", "stop"}, n : 0..MaxLifecycle]
BY EngineAssumption DEF FileHandles, Requests, Unasked, Sessions, NoHandle

LEMMA EngInitial == EngInit => EngInv
<1> SUFFICES ASSUME EngInit PROVE EngInv
  OBVIOUS
<1> USE EngFacts DEF EngInit
<1>1. EngTypeOK
  <2>1. << >> \in Seq({"start", "stop"}) /\ << >> \in Seq(Packets) /\ Len(<< >>) <= MaxPackets
    BY EngineAssumption
  <2>2. \A p \in Peers : QueueOK(packets[p], step[p])
    BY <2>1 DEF QueueOK
  <2> QED
    BY <2>1, <2>2 DEF EngTypeOK
<1>2. Admitting = {} /\ Registered = {} /\ pendingKeys = {} /\ finalizing = {}
  BY DEF Admitting, Registered
<1>3. Cardinality(Registered \cup pendingKeys) <= MaxTransfers
  BY FS_EmptySet, <1>2, EngineAssumption
<1>4. LastRequestWins /\ SocketFollows /\ FinalizingIsCleanup /\ Reserves
  BY <1>2 DEF LastRequestWins, SocketFollows, FinalizingIsCleanup, Reserves
<1>5. HoldsNothing /\ QueueFollows
  BY <1>2 DEF HoldsNothing, NoTransfers, QueueFollows
<1> QED
  BY <1>1, <1>3, <1>4, <1>5 DEF EngInv, AdmissionBound

\* A queue of packets when its first one is done, has a handle or a new one comes.
LEMMA QueueSteps ==
  ASSUME NEW q, NEW st, QueueOK(q, st)
  PROVE  /\ st # "none" => /\ QueueOK(Tail(q), IF Len(q) > 1 THEN "queued" ELSE "none")
                           /\ q[1] \in Packets
                           /\ \A h \in FileHandles : \A t \in {"open", "write", "cleanup"} : QueueOK([q EXCEPT ![1].h = h], t)
                           /\ \A t \in {"open", "write", "cleanup"} : QueueOK(q, t)
         /\ \A m \in Packets : Len(q) < MaxPackets => QueueOK(Append(q, m), IF q = << >> THEN "queued" ELSE st)
<1> USE DEF QueueOK
<1>0. q \in Seq(Packets) /\ Len(q) \in Nat /\ Len(q) <= MaxPackets /\ MaxPackets \in Nat
  BY EngineAssumption
<1>1. ASSUME st # "none"
      PROVE  /\ QueueOK(Tail(q), IF Len(q) > 1 THEN "queued" ELSE "none")
             /\ q[1] \in Packets
             /\ \A h \in FileHandles : \A t \in {"open", "write", "cleanup"} : QueueOK([q EXCEPT ![1].h = h], t)
             /\ \A t \in {"open", "write", "cleanup"} : QueueOK(q, t)
  <2>1. q # << >> /\ Len(q) # 0 /\ 1 \in 1..Len(q)
    BY <1>0, <1>1
  <2>2. q[1] \in Packets
    BY <1>0, <2>1
  <2>3. Tail(q) \in Seq(Packets) /\ Len(Tail(q)) = Len(q) - 1
    BY <1>0, <2>1
  <2>4. Tail(q) = << >> <=> ~(Len(q) > 1)
    <3>1. Tail(q) = << >> <=> Len(Tail(q)) = 0
      BY <2>3, EmptySeq
    <3> QED
      BY <1>0, <2>1, <2>3, <3>1
  <2>5. QueueOK(Tail(q), IF Len(q) > 1 THEN "queued" ELSE "none")
    BY <1>0, <2>1, <2>3, <2>4
  <2>6. ASSUME NEW h \in FileHandles PROVE LET r == [q EXCEPT ![1].h = h] IN r \in Seq(Packets) /\ Len(r) = Len(q) /\ r # << >>
    BY <2>2, <1>0, <2>1, ExceptSeq DEF Packets
  <2>7. ASSUME NEW h \in FileHandles, NEW t \in {"open", "write", "cleanup"} PROVE QueueOK([q EXCEPT ![1].h = h], t)
    BY <1>0, <2>6, <2>7
  <2>8. ASSUME NEW t \in {"open", "write", "cleanup"} PROVE QueueOK(q, t)
    BY <1>0, <2>1
  <2> QED
    BY <2>2, <2>5, <2>7, <2>8
<1>2. ASSUME NEW m \in Packets, Len(q) < MaxPackets PROVE QueueOK(Append(q, m), IF q = << >> THEN "queued" ELSE st)
  BY <1>0, <1>2
<1> QED
  BY <1>1, <1>2

\* Fewer keys stay within the limit.
LEMMA StaysBounded ==
  ASSUME EngTypeOK, EngTypeOK', Cardinality(Registered \cup pendingKeys) <= MaxTransfers,
         (Registered \cup pendingKeys)' \subseteq Registered \cup pendingKeys
  PROVE  Cardinality(Registered \cup pendingKeys)' <= MaxTransfers
<1> DEFINE A == Registered \cup pendingKeys
<1>1. A \subseteq Peers
  BY DEF EngTypeOK, Registered
<1>2. IsFiniteSet(A)
  BY <1>1, EngineAssumption, FS_Subset
<1>3. A' \subseteq A
  OBVIOUS
<1> HIDE DEF A
<1>4. Cardinality(A') <= Cardinality(A) /\ IsFiniteSet(A')
  BY <1>2, <1>3, FS_Subset
<1>5. Cardinality(A) \in Nat /\ Cardinality(A') \in Nat
  BY <1>2, <1>4, FS_CardinalityType
<1> QED
  BY <1>4, <1>5, EngineAssumption DEF A

\* Packets and finalizations only take keys away; handles and packets come only
\* for peers that have some, or while the socket is open.
LEMMA HandlingKeeps ==
  ASSUME EngInv, EngTypeOK', UNCHANGED <<lifeVars, admVars>>,
         \A q \in Peers : transfers'[q] \in {transfers[q], 0},
         \/ socket = "bound"
         \/ \A q \in Peers : packets[q] = << >> =>
              packets'[q] = << >> /\ (writeHandles[q] = NoHandle => writeHandles'[q] = NoHandle),
         FinalizingIsCleanup'
  PROVE  EngInv'
BY StaysBounded DEF Registered, admVars, EngInv, AdmissionBound, LastRequestWins, SocketFollows, QueueFollows,
   lifeVars, Reserves, Admitting, HoldsNothing, NoTransfers

\* What a finalization does to the maps.
LEMMA Finalizes ==
  ASSUME EngTypeOK, FinalizingIsCleanup, NEW p \in Peers, NEW s \in Sessions, Finalize(s, p)
  PROVE  /\ transfers' \in [Peers -> 0..NumSessions] /\ \A q \in Peers : transfers'[q] \in {transfers[q], 0}
         /\ writeHandles' \in [Peers -> FileHandles] /\ \A q \in Peers : writeHandles'[q] \in {writeHandles[q], NoHandle}
         /\ finalizing' \subseteq Peers /\ cleanups' \subseteq Cleanups /\ announced' \in [Sessions -> Nat]
         /\ FinalizingIsCleanup'
<1>0. /\ transfers \in [Peers -> 0..NumSessions] /\ writeHandles \in [Peers -> FileHandles] /\ announced \in [Sessions -> Nat]
      /\ finalizing \subseteq Peers /\ cleanups \subseteq Cleanups /\ NoHandle \in FileHandles /\ 0 \in 0..NumSessions
  BY EngFacts DEF EngTypeOK
<1>1. CASE UNCHANGED <<transfers, writeHandles, finalizing, cleanups, announced>>
  BY <1>0, <1>1 DEF FinalizingIsCleanup
<1>2. CASE transfers' = [transfers EXCEPT ![p] = 0] /\ Announce(s) /\ UNCHANGED <<writeHandles, finalizing, cleanups>>
  BY <1>0, <1>2 DEF FinalizingIsCleanup, Announce
<1>3. ASSUME NEW h \in FileHandles,
             finalizing' = finalizing \cup {p}, cleanups' = cleanups \cup {[s |-> s, peer |-> p, closes |-> h]},
             writeHandles' = IF h = NoHandle THEN writeHandles ELSE [writeHandles EXCEPT ![p] = NoHandle],
             UNCHANGED <<transfers, announced>>
      PROVE  /\ transfers' \in [Peers -> 0..NumSessions] /\ \A q \in Peers : transfers'[q] \in {transfers[q], 0}
             /\ writeHandles' \in [Peers -> FileHandles] /\ \A q \in Peers : writeHandles'[q] \in {writeHandles[q], NoHandle}
             /\ finalizing' \subseteq Peers /\ cleanups' \subseteq Cleanups /\ announced' \in [Sessions -> Nat]
             /\ FinalizingIsCleanup'
  <2> DEFINE c == [s |-> s, peer |-> p, closes |-> h]
  <2>1. c \in Cleanups /\ c.peer = p
    BY DEF Cleanups
  <2>2. FinalizingIsCleanup'
    BY <1>3, <2>1 DEF FinalizingIsCleanup
  <2>3. writeHandles' \in [Peers -> FileHandles] /\ \A q \in Peers : writeHandles'[q] \in {writeHandles[q], NoHandle}
    BY <1>0, <1>3
  <2>4. cleanups' \subseteq Cleanups
    BY <1>0, <1>3, <2>1
  <2> QED
    BY <1>0, <1>3, <2>2, <2>3, <2>4
<1> QED
  BY <1>0, <1>1, <1>2, <1>3 DEF Finalize

\* The end of the packet in front of a peer's queue.
LEMMA Pops ==
  ASSUME EngTypeOK, NEW p \in Peers, step[p] # "none", Popped(p)
  PROVE  /\ DOMAIN packets' = Peers /\ DOMAIN step' = Peers /\ \A q \in Peers : QueueOK(packets'[q], step'[q])
         /\ \A q \in Peers : packets[q] = << >> => packets'[q] = << >>
BY QueueSteps DEF EngTypeOK, QueueOK, Popped

\* routeExisting() awaits the finalization, or is done.
LEMMA EndsWell ==
  ASSUME EngInv, NEW p \in Peers, step[p] # "none", EndsSession(p),
         UNCHANGED <<lifeVars, admVars, opened>>, over' \subseteq Sessions
  PROVE  EngInv'
<1>0. EngTypeOK /\ FinalizingIsCleanup
  BY DEF EngInv, AdmissionBound
<1>1. /\ DOMAIN packets = Peers /\ DOMAIN step = Peers /\ \A q \in Peers : QueueOK(packets[q], step[q])
  BY <1>0 DEF EngTypeOK
<1>2. First(p) \in Packets /\ First(p).s \in Sessions
  BY <1>1, QueueSteps DEF First, Packets
<1>3. /\ transfers' \in [Peers -> 0..NumSessions] /\ \A q \in Peers : transfers'[q] \in {transfers[q], 0}
      /\ writeHandles' \in [Peers -> FileHandles] /\ \A q \in Peers : writeHandles'[q] \in {writeHandles[q], NoHandle}
      /\ finalizing' \subseteq Peers /\ cleanups' \subseteq Cleanups /\ announced' \in [Sessions -> Nat]
      /\ FinalizingIsCleanup'
  BY <1>0, <1>2, Finalizes DEF EndsSession
<1>4. /\ DOMAIN packets' = Peers /\ DOMAIN step' = Peers /\ \A q \in Peers : QueueOK(packets'[q], step'[q])
      /\ \A q \in Peers : packets[q] = << >> => packets'[q] = << >>
  BY <1>0, Pops, <1>1, QueueSteps DEF EndsSession
<1>5. EngTypeOK'
  BY <1>0, <1>3, <1>4 DEF EngTypeOK, lifeVars, admVars
<1> QED
  BY <1>3, <1>4, <1>5, HandlingKeeps

\* Packets, finalizations and the user's cancels.
LEMMA PacketsKeep ==
  ASSUME EngInv, NEW p \in Peers,
         Collect(p) \/ CancelTransfer(p) \/ Handles(p) \/ \E kind \in {"data", "last", "error"} : PacketArrives(p, kind)
  PROVE  EngInv'
<1>0. /\ EngTypeOK /\ FinalizingIsCleanup
      /\ DOMAIN packets = Peers /\ DOMAIN step = Peers /\ \A q \in Peers : QueueOK(packets[q], step[q])
      /\ transfers \in [Peers -> 0..NumSessions] /\ writeHandles \in [Peers -> FileHandles] /\ over \subseteq Sessions
      /\ opened \subseteq FileHandles
  BY DEF EngInv, AdmissionBound, EngTypeOK
<1>1. CASE Collect(p) \/ CancelTransfer(p)
  BY <1>1, <1>0, EngFacts, Finalizes, HandlingKeeps DEF Collect, CancelTransfer, EngTypeOK, lifeVars, admVars
<1>2. ASSUME NEW kind \in {"data", "last", "error"}, PacketArrives(p, kind) PROVE EngInv'
  BY <1>0, <1>2, EngFacts, QueueSteps, HandlingKeeps DEF Packets, PacketArrives, EngTypeOK, lifeVars, admVars,
     FinalizingIsCleanup
<1>3. CASE PacketIgnored(p)
  BY <1>3, <1>0, Pops, HandlingKeeps DEF PacketIgnored, EngTypeOK, lifeVars, admVars, FinalizingIsCleanup
<1>4. ASSUME step[p] # "none" PROVE First(p).s \in Sessions /\ packets[p] # << >>
  BY <1>0, <1>4, QueueSteps DEF First, Packets, QueueOK
<1>5. CASE PacketEnds(p)
  BY <1>5, <1>0, <1>4, EndsWell DEF PacketEnds, Routes
<1>6. ASSUME step[p] # "none", NEW h \in FileHandles, NEW t \in {"open", "write"}, step' = [step EXCEPT ![p] = t],
             Writing(p, h) \/ UNCHANGED packets
      PROVE  /\ DOMAIN packets' = Peers /\ DOMAIN step' = Peers /\ \A q \in Peers : QueueOK(packets'[q], step'[q])
             /\ \A q \in Peers : packets[q] = << >> => packets'[q] = << >>
  <2>0. packets[p] # << >>
    BY <1>4, <1>6
  <2>1. QueueOK(packets[p], t) /\ QueueOK([packets[p] EXCEPT ![1].h = h], t)
    BY <1>0, <1>6, QueueSteps
  <2>2. step'[p] = t /\ \A q \in Peers : q # p => step'[q] = step[q]
    BY <1>0, <1>6
  <2>3. CASE Writing(p, h)
    BY <1>0, <2>3, <1>6, <2>0, <2>1, <2>2 DEF Writing
  <2>4. CASE UNCHANGED packets
    BY <1>0, <1>6, <2>1, <2>2, <2>4
  <2> QED
    BY <1>6, <2>3, <2>4
<1>7. CASE DataAccepted(p)
  BY <1>0, <1>7, <1>6, <1>4, HandlingKeeps DEF DataAccepted, Routes, EngTypeOK, lifeVars, admVars,
     FinalizingIsCleanup
<1>8. CASE Reopened(p)
  <2> DEFINE h == <<First(p).s, "a">>
  <2>1. step[p] = "open"
    BY <1>8 DEF Reopened
  <2>2. h \in FileHandles /\ packets[p] # << >>
    BY <1>4, <2>1, EngFacts
  <2>3. /\ writeHandles' = [writeHandles EXCEPT ![p] = h] /\ opened' = opened \cup {h}
        /\ step' = [step EXCEPT ![p] = "write"] /\ Writing(p, h)
        /\ UNCHANGED <<lifeVars, admVars, transfers, over, finalizing, cleanups, announced>>
    BY <1>8 DEF Reopened
  <2> HIDE DEF h
  <2>4. /\ DOMAIN packets' = Peers /\ DOMAIN step' = Peers /\ \A q \in Peers : QueueOK(packets'[q], step'[q])
        /\ \A q \in Peers : packets[q] = << >> => packets'[q] = << >>
    BY <1>6, <2>1, <2>2, <2>3
  <2>5. writeHandles' \in [Peers -> FileHandles] /\ \A q \in Peers : q # p => writeHandles'[q] = writeHandles[q]
    BY <1>0, <2>2, <2>3
  <2>6. opened' \subseteq FileHandles
    BY <1>0, <2>2, <2>3
  <2>7. EngTypeOK'
    BY <1>0, <2>3, <2>4, <2>5, <2>6 DEF EngTypeOK, lifeVars, admVars
  <2>8. FinalizingIsCleanup'
    BY <1>0, <2>3 DEF FinalizingIsCleanup
  <2> QED
    BY <2>2, <2>3, <2>4, <2>5, <2>7, <2>8, HandlingKeeps
<1>9. CASE DataWritten(p) \/ AppendFails(p)
  BY <1>0, EndsWell, Pops, HandlingKeeps, <1>9 DEF EngTypeOK, lifeVars, admVars, FinalizingIsCleanup, DataWritten,
     AppendFails
<1> QED
  BY <1>1, <1>2, <1>3, <1>5, <1>7, <1>8, <1>9 DEF Handles

\* The ends of cleanup().
LEMMA CleanupsKeep ==
  ASSUME EngInv, NEW c \in cleanups, FileClosed(c) \/ CleanedUp(c)
  PROVE  EngInv'
<1>0. /\ EngTypeOK /\ FinalizingIsCleanup /\ c \in Cleanups /\ c.peer \in Peers /\ c.s \in Sessions /\ c.closes \in FileHandles
      /\ DOMAIN packets = Peers /\ DOMAIN step = Peers /\ \A q \in Peers : QueueOK(packets[q], step[q])
      /\ transfers \in [Peers -> 0..NumSessions] /\ writeHandles \in [Peers -> FileHandles]
      /\ opened \subseteq FileHandles /\ cleanups \subseteq Cleanups /\ announced \in [Sessions -> Nat] /\ finalizing \subseteq Peers
  BY DEF EngInv, AdmissionBound, EngTypeOK, Cleanups
<1>1. CASE FileClosed(c)
  <2> DEFINE d == [c EXCEPT !.closes = writeHandles[c.peer]]
  <2>1. d \in Cleanups /\ d.peer = c.peer
    BY <1>0 DEF Cleanups
  <2>2. /\ cleanups' = (cleanups \ {c}) \cup {d}
        /\ writeHandles' = [writeHandles EXCEPT ![c.peer] = NoHandle]
        /\ UNCHANGED <<lifeVars, admVars, transfers, over, packets, step, opened, finalizing, announced>>
    BY <1>1 DEF FileClosed
  <2> HIDE DEF d
  <2>3. writeHandles' \in [Peers -> FileHandles] /\ \A q \in Peers : writeHandles'[q] \in {writeHandles[q], NoHandle}
    BY <1>0, <2>2, EngFacts
  <2>4. cleanups' \subseteq Cleanups
    BY <1>0, <2>1, <2>2
  <2>5. EngTypeOK'
    BY <1>0, <2>2, <2>3, <2>4 DEF EngTypeOK, lifeVars, admVars
  <2>6. FinalizingIsCleanup'
    BY <1>0, <2>1, <2>2 DEF FinalizingIsCleanup
  <2> QED
    BY <2>2, <2>3, <2>5, <2>6, HandlingKeeps
<1>2. CASE CleanedUp(c)
  <2>1. /\ cleanups' = cleanups \ {c} /\ opened' = opened \ {c.closes}
        /\ transfers' = [transfers EXCEPT ![c.peer] = 0] /\ finalizing' = finalizing \ {c.peer}
        /\ announced' = [announced EXCEPT ![c.s] = @ + 1]
        /\ (step[c.peer] = "cleanup" /\ Popped(c.peer)) \/ UNCHANGED <<packets, step>>
        /\ UNCHANGED <<lifeVars, admVars, over, writeHandles>>
    BY <1>2 DEF CleanedUp, Announce
  <2>2. /\ DOMAIN packets' = Peers /\ DOMAIN step' = Peers /\ \A q \in Peers : QueueOK(packets'[q], step'[q])
        /\ \A q \in Peers : packets[q] = << >> => packets'[q] = << >>
    BY <1>0, Pops, <2>1
  <2>3. transfers' \in [Peers -> 0..NumSessions] /\ announced' \in [Sessions -> Nat] /\ \A q \in Peers : transfers'[q] \in {transfers[q], 0}
    <3>1. announced[c.s] + 1 \in Nat
      BY <1>0
    <3>2. announced' \in [Sessions -> Nat]
      BY <1>0, <2>1, <3>1
    <3>3. 0 \in 0..NumSessions
      BY EngFacts
    <3>4. transfers' \in [Peers -> 0..NumSessions] /\ \A q \in Peers : transfers'[q] \in {transfers[q], 0}
      BY <1>0, <2>1, <3>3
    <3> QED
      BY <3>2, <3>4
  <2>4. EngTypeOK'
    BY <1>0, <2>1, <2>2, <2>3 DEF EngTypeOK, lifeVars, admVars
  <2>5. FinalizingIsCleanup'
    BY <1>0, <2>1 DEF FinalizingIsCleanup
  <2> QED
    BY <2>1, <2>2, <2>3, <2>4, <2>5, HandlingKeeps
<1> QED
  BY <1>1, <1>2

\* What an operation of the queue leaves alone when it ends.
LEMMA EndedQueue ==
  ASSUME EngTypeOK, QueueFollows, lifecycle # << >>, Ended
  PROVE  /\ lifecycle' \in Seq({"start", "stop"}) /\ stage' \in {"idle", "queued"}
         /\ stage' = "idle" <=> lifecycle' = << >>
         /\ stage' = "idle" <=> Len(lifecycle) = 1
         /\ lifecycle' # << >> => lifecycle'[Len(lifecycle')] = asked.kind
         /\ Len(lifecycle) = 1 => lifecycle[1] = asked.kind
<1>1. lifecycle \in Seq({"start", "stop"}) /\ Len(lifecycle) \in Nat /\ Len(lifecycle) # 0
  BY DEF EngTypeOK
<1>2. lifecycle' \in Seq({"start", "stop"}) /\ Len(lifecycle') = Len(lifecycle) - 1
  BY <1>1 DEF Ended
<1>3. lifecycle' = << >> <=> Len(lifecycle) = 1
  BY <1>1, <1>2, EmptySeq
<1>4. stage' = IF Len(lifecycle) > 1 THEN "queued" ELSE "idle"
  BY DEF Ended
<1>5. CASE Len(lifecycle) = 1
  BY <1>1, <1>2, <1>3, <1>4, <1>5 DEF QueueFollows
<1>6. CASE Len(lifecycle) # 1
  <2>1. Len(lifecycle) > 1
    <3>1. \A n \in Nat : n # 0 /\ n # 1 => n > 1
      OBVIOUS
    <3> QED
      BY <1>1, <1>6, <3>1
  <2>2. \A k \in 1..(Len(lifecycle) - 1) : lifecycle'[k] = lifecycle[k + 1]
    BY <1>1 DEF Ended
  <2>3. Len(lifecycle') \in 1..(Len(lifecycle) - 1) /\ Len(lifecycle') + 1 = Len(lifecycle)
    BY <1>1, <1>2, <2>1
  <2>4. lifecycle'[Len(lifecycle')] = lifecycle[Len(lifecycle)]
    BY <2>2, <2>3
  <2> QED
    BY <1>2, <1>3, <1>4, <1>6, <2>1, <2>4 DEF QueueFollows
<1> QED
  BY <1>5, <1>6

\* start() and stop().
LEMMA LifecycleKeeps ==
  ASSUME EngInv, Lifecycle
  PROVE  EngInv'
<1>0. /\ EngTypeOK /\ LastRequestWins /\ SocketFollows /\ QueueFollows /\ HoldsNothing /\ FinalizingIsCleanup /\ Reserves
      /\ Cardinality(Registered \cup pendingKeys) <= MaxTransfers /\ generation \in Nat /\ generation + 1 \in Nat
      /\ asked \in [kind : {"start", "stop"}, n : 0..MaxLifecycle] /\ accepting \in BOOLEAN
      /\ lifecycle \in Seq({"start", "stop"})
  BY DEF EngInv, AdmissionBound, EngTypeOK
<1>1. ASSUME EngTypeOK', UNCHANGED <<admission, pendingKeys, transfers, finalizing, cleanups>>
      PROVE  AdmissionBound' /\ FinalizingIsCleanup' /\ Reserves' /\ Admitting' = Admitting
  BY <1>0, <1>1 DEF AdmissionBound, FinalizingIsCleanup, Reserves, Registered, Admitting
<1>2. stage # "idle" => lifecycle # << >>
  BY <1>0 DEF QueueFollows
<1>3. CASE StartAgain \/ StartIgnored \/ Bound \/ BindFails
  <2>1. /\ Ended /\ lifecycle # << >> /\ generation' = generation
        /\ asked' = asked \/ asked' = [asked EXCEPT !.kind = IF Len(lifecycle) = 1 THEN "stop" ELSE @]
        /\ UNCHANGED <<admVars, transfers, over, packets, step, writeHandles, opened, finalizing, cleanups, announced>>
        /\ \/ accepting' = accepting /\ socket' = socket /\ stage = "queued"
           \/ accepting' = TRUE /\ socket' = "bound"
           \/ accepting' = accepting /\ socket' = "none" /\ stage = "bind"
    BY <1>2, <1>3 DEF StartAgain, StartIgnored, Bound, BindFails, InFront
  <2>2. /\ lifecycle' \in Seq({"start", "stop"}) /\ stage' \in {"idle", "queued"}
        /\ stage' = "idle" <=> lifecycle' = << >>
        /\ stage' = "idle" <=> Len(lifecycle) = 1
        /\ lifecycle' # << >> => lifecycle'[Len(lifecycle')] = asked.kind
        /\ Len(lifecycle) = 1 => lifecycle[1] = asked.kind
    BY <1>0, <2>1, EndedQueue
  <2>3. asked' \in [kind : {"start", "stop"}, n : 0..MaxLifecycle] /\ (Len(lifecycle) # 1 => asked'.kind = asked.kind)
    BY <1>0, <2>1
  <2>4. EngTypeOK'
    BY <1>0, <2>1, <2>2, <2>3 DEF EngTypeOK, admVars
  <2>5. SocketFollows'
    BY <1>0, <2>1, <2>2 DEF SocketFollows
  <2>6. QueueFollows'
    BY <2>2, <2>3 DEF QueueFollows
  <2>7. HoldsNothing'
    BY <2>1, <1>0, <2>2 DEF Admitting, admVars, SocketFollows, HoldsNothing, NoTransfers
  <2>8. LastRequestWins'
    BY <2>2, <1>0, <1>3 DEF LastRequestWins, StartAgain, InFront, StartIgnored, SocketFollows, Bound, QueueFollows,
       BindFails
  <2>9. AdmissionBound' /\ FinalizingIsCleanup' /\ Reserves'
    BY <1>1, <2>1, <2>4 DEF admVars
  <2> QED
    BY <2>5, <2>6, <2>7, <2>8, <2>9 DEF EngInv
<1>4. CASE StartBinds \/ EngineStops
  BY <1>4, <1>0, <1>1 DEF StartBinds, EngineStops, EngTypeOK, admVars, SocketFollows, QueueFollows, LastRequestWins,
     InFront, Admitting, HoldsNothing, NoTransfers, EngInv
<1>5. CASE StopClears
  <2>1. /\ stage = "admissions" /\ stage' = "handles" /\ Admitting = {} /\ \A p \in Peers : packets[p] = << >>
        /\ transfers' = [p \in Peers |-> 0] /\ finalizing' = {}
        /\ UNCHANGED <<generation, accepting, socket, lifecycle, asked, admVars, over, packets, step, writeHandles, opened, cleanups, announced>>
    BY <1>5 DEF StopClears, StopAwaits
  <2>2. EngTypeOK'
    BY <1>0, <2>1, EngFacts DEF EngTypeOK, admVars
  <2>3. SocketFollows' /\ QueueFollows' /\ LastRequestWins' /\ FinalizingIsCleanup'
    BY <1>0, <2>1 DEF SocketFollows, QueueFollows, LastRequestWins, FinalizingIsCleanup
  <2>4. Admitting' = Admitting
    BY <2>1 DEF Admitting, admVars
  <2>5. HoldsNothing' /\ Reserves'
    BY <2>1, <2>4 DEF HoldsNothing, NoTransfers, Reserves
  <2>6. AdmissionBound'
    BY <2>1, <1>0, <2>2, StaysBounded DEF Registered, admVars, AdmissionBound
  <2> QED
    BY <2>3, <2>5, <2>6 DEF EngInv
<1>6. CASE StopClosesHandles
  <2>1. /\ stage = "handles" /\ Ended /\ pendingKeys' = {}
        /\ opened' \subseteq opened /\ writeHandles' = [p \in Peers |-> NoHandle]
        /\ UNCHANGED <<generation, accepting, socket, asked, admission, transfers, over, packets, step, finalizing, cleanups, announced>>
    BY <1>6 DEF StopClosesHandles
  <2>2. /\ lifecycle' \in Seq({"start", "stop"}) /\ stage' \in {"idle", "queued"}
        /\ stage' = "idle" <=> lifecycle' = << >>
        /\ stage' = "idle" <=> Len(lifecycle) = 1
        /\ lifecycle' # << >> => lifecycle'[Len(lifecycle')] = asked.kind
        /\ Len(lifecycle) = 1 => lifecycle[1] = asked.kind
    BY <1>0, <1>2, <2>1, EndedQueue
  <2>3. writeHandles' \in [Peers -> FileHandles] /\ opened' \subseteq FileHandles
    BY <1>0, <2>1, EngFacts DEF EngTypeOK
  <2>4. EngTypeOK'
    BY <1>0, <2>1, <2>2, <2>3 DEF EngTypeOK
  <2>5. NoTransfers /\ Admitting' = Admitting
    BY <1>0, <2>1 DEF HoldsNothing, Admitting
  <2>6. Reserves' /\ HoldsNothing' /\ FinalizingIsCleanup'
    BY <1>0, <2>1, <2>2, <2>5 DEF Reserves, HoldsNothing, NoTransfers, FinalizingIsCleanup
  <2>7. SocketFollows' /\ QueueFollows'
    BY <1>0, <2>1, <2>2 DEF SocketFollows, QueueFollows
  <2>8. LastRequestWins'
    BY <1>0, <2>1, <2>2 DEF LastRequestWins, SocketFollows, QueueFollows
  <2>9. AdmissionBound'
    BY <2>1, <1>0, <2>4, StaysBounded DEF Registered, AdmissionBound
  <2> QED
    BY <2>6, <2>7, <2>8, <2>9 DEF EngInv
<1> QED
  BY <1>3, <1>4, <1>5, <1>6 DEF Lifecycle

LEMMA AskingKeeps ==
  ASSUME EngInv, NEW kind \in {"start", "stop"}, AskLifecycle(kind)
  PROVE  EngInv'
<1>0. /\ EngTypeOK /\ LastRequestWins /\ SocketFollows /\ QueueFollows /\ HoldsNothing /\ FinalizingIsCleanup /\ Reserves
      /\ Cardinality(Registered \cup pendingKeys) <= MaxTransfers
      /\ asked \in [kind : {"start", "stop"}, n : 0..MaxLifecycle] /\ lifecycle \in Seq({"start", "stop"})
  BY DEF EngInv, AdmissionBound, EngTypeOK
<1>1. /\ asked.n < MaxLifecycle /\ asked' = [kind |-> kind, n |-> asked.n + 1]
      /\ lifecycle' = IF JoinsLast(kind) THEN lifecycle ELSE Append(lifecycle, kind)
      /\ stage' = IF lifecycle = << >> THEN "queued" ELSE stage
      /\ UNCHANGED <<generation, accepting, socket, admVars, transfers, over, packets, step, writeHandles, opened, finalizing, cleanups, announced>>
  BY DEF AskLifecycle
<1>2. asked' \in [kind : {"start", "stop"}, n : 0..MaxLifecycle] /\ asked'.kind = kind
  BY <1>0, <1>1, EngineAssumption
<1>3. /\ lifecycle' \in Seq({"start", "stop"}) /\ lifecycle' # << >> /\ lifecycle'[Len(lifecycle')] = kind
      /\ lifecycle # << >> => lifecycle'[1] = lifecycle[1]
  <2>1. CASE JoinsLast(kind)
    BY <1>0, <1>1, <2>1 DEF JoinsLast
  <2>2. CASE ~JoinsLast(kind)
    BY <1>1, <2>2, <1>0
  <2> QED
    BY <2>1, <2>2
<1>4. EngTypeOK'
  BY <1>0, <1>1, <1>2, <1>3 DEF EngTypeOK, admVars
<1>5. SocketFollows' /\ QueueFollows' /\ LastRequestWins'
  BY <1>0, <1>1, <1>2, <1>3 DEF SocketFollows, QueueFollows, LastRequestWins
<1>6. Admitting' = Admitting
  BY <1>1 DEF Admitting, admVars
<1>7. HoldsNothing' /\ Reserves' /\ FinalizingIsCleanup'
  BY <1>0, <1>1, <1>6 DEF HoldsNothing, NoTransfers, Reserves, FinalizingIsCleanup, QueueFollows, admVars
<1>8. AdmissionBound'
  BY <1>0, <1>1, <1>4 DEF AdmissionBound, Registered, admVars
<1> QED
  BY <1>5, <1>7, <1>8 DEF EngInv

\* Requests, from their first look at the file system to their session.
LEMMA RequestsKeep ==
  ASSUME EngInv, (\E p \in Peers, up \in BOOLEAN : NewRequest(p, up)) \/ (\E s \in Sessions : Resolves(s))
  PROVE  EngInv'
<1>0. /\ EngTypeOK /\ LastRequestWins /\ SocketFollows /\ QueueFollows /\ HoldsNothing /\ FinalizingIsCleanup /\ Reserves
      /\ Cardinality(Registered \cup pendingKeys) <= MaxTransfers /\ generation \in Nat
      /\ admission \in [Sessions -> Requests] /\ pendingKeys \subseteq Peers /\ transfers \in [Peers -> 0..NumSessions]
      /\ writeHandles \in [Peers -> FileHandles] /\ opened \subseteq FileHandles
  BY DEF EngInv, AdmissionBound, EngTypeOK
<1>1. ASSUME UNCHANGED <<lifeVars, finalizing, cleanups>>
      PROVE  LastRequestWins' /\ SocketFollows' /\ QueueFollows' /\ FinalizingIsCleanup'
  BY <1>0, <1>1 DEF LastRequestWins, SocketFollows, QueueFollows, FinalizingIsCleanup, lifeVars
<1>2. ASSUME NEW p \in Peers, NEW up \in BOOLEAN, NewRequest(p, up) PROVE EngInv'
  <2>1. /\ socket = "bound" /\ p \notin pendingKeys /\ RoomForOne /\ pendingKeys' = pendingKeys \cup {p}
        /\ UNCHANGED <<lifeVars, transfers, over, packets, step, writeHandles, opened, finalizing, cleanups, announced>>
    BY <1>2 DEF NewRequest
  <2>2. PICK s \in Sessions : /\ admission[s].ph = "unused"
                              /\ admission' = [admission EXCEPT ![s] = [ph |-> "stat", peer |-> p, gen |-> generation, upload |-> up]]
    BY <1>2 DEF NewRequest
  <2>3. /\ admission' \in [Sessions -> Requests] /\ admission'[s].ph = "stat" /\ admission'[s].peer = p
        /\ \A r \in Sessions : r # s => admission'[r] = admission[r]
    BY <1>0, <2>2 DEF Requests
  <2>4. EngTypeOK'
    BY <1>0, <2>1, <2>3 DEF EngTypeOK, lifeVars
  <2>5. Admitting' = Admitting \cup {s} /\ s \notin Admitting
    BY <2>2, <2>3 DEF Admitting
  <2>6. Reserves'
    BY <1>0, <2>1, <2>3, <2>5 DEF Reserves, Admitting
  <2>7. HoldsNothing'
    BY <1>0, <2>1 DEF HoldsNothing, SocketFollows, lifeVars
  <2>8. Cardinality(Registered \cup pendingKeys)' <= MaxTransfers
    <3>1. Registered' = Registered /\ Registered \subseteq Peers
      BY <2>1 DEF Registered
    <3>2. IsFiniteSet(Registered) /\ IsFiniteSet(pendingKeys)
      BY <1>0, <3>1, EngineAssumption, FS_Subset
    <3>3. IsFiniteSet(pendingKeys \cup {p}) /\ Cardinality(pendingKeys \cup {p}) = Cardinality(pendingKeys) + 1
      BY <2>1, <3>2, FS_AddElement
    <3>4. Cardinality(Registered \cup (pendingKeys \cup {p})) <= Cardinality(Registered) + Cardinality(pendingKeys \cup {p})
      <4>1. /\ IsFiniteSet(Registered \cup (pendingKeys \cup {p})) /\ IsFiniteSet(Registered \cap (pendingKeys \cup {p}))
            /\ Cardinality(Registered \cup (pendingKeys \cup {p}))
                 = Cardinality(Registered) + Cardinality(pendingKeys \cup {p}) - Cardinality(Registered \cap (pendingKeys \cup {p}))
        BY <3>2, <3>3, FS_Union, FS_Intersection
      <4>2. Cardinality(Registered \cap (pendingKeys \cup {p})) \in Nat /\ Cardinality(Registered) \in Nat
            /\ Cardinality(pendingKeys \cup {p}) \in Nat
        BY <3>2, <3>3, <4>1, FS_CardinalityType
      <4> QED
        BY <4>1, <4>2
    <3>5. /\ Cardinality(Registered) \in Nat /\ Cardinality(pendingKeys) \in Nat
          /\ Cardinality(Registered \cup (pendingKeys \cup {p})) \in Nat
      BY <3>2, <3>3, FS_Union, FS_CardinalityType
    <3>6. Cardinality(Registered) + Cardinality(pendingKeys) < MaxTransfers
      BY <2>1 DEF RoomForOne
    <3>7. Cardinality(Registered \cup (pendingKeys \cup {p})) <= MaxTransfers
      BY <3>3, <3>4, <3>5, <3>6, EngineAssumption
    <3> QED
      BY <2>1, <3>1, <3>7
  <2> QED
    BY <1>1, <2>1, <2>4, <2>6, <2>7, <2>8 DEF EngInv, AdmissionBound
<1>3. ASSUME NEW s \in Sessions, Resolves(s) PROVE EngInv'
  <2> DEFINE p == admission[s].peer
  <2>1. /\ s \in Admitting /\ p \in Peers /\ p \in pendingKeys
        /\ \E ph \in {"settled", "produce", "open"} :
             admission' = [admission EXCEPT ![s].ph = ph] /\ pendingKeys' = IF ph = "settled" THEN pendingKeys \ {p} ELSE pendingKeys
        /\ \/ UNCHANGED <<transfers, writeHandles, opened>>
           \/ socket = "bound" /\ transfers' = [transfers EXCEPT ![p] = s] /\ UNCHANGED <<writeHandles, opened>>
           \/ /\ socket = "bound" /\ transfers' = [transfers EXCEPT ![p] = s]
              /\ writeHandles' = [writeHandles EXCEPT ![p] = <<s, "wx">>] /\ opened' = opened \cup {<<s, "wx">>}
        /\ UNCHANGED <<lifeVars, over, packets, step, finalizing, cleanups, announced>>
    BY <1>0, <1>3 DEF Reserves, Requests, AdmissionEnds, Settled, Admitting, DownloadAdmitted, OwnsAdmission,
       SocketFollows, UploadResolved, UploadAdmitted, Resolves
  <2>2. PICK ph \in {"settled", "produce", "open"} :
             admission' = [admission EXCEPT ![s].ph = ph] /\ pendingKeys' = IF ph = "settled" THEN pendingKeys \ {p} ELSE pendingKeys
    BY <2>1
  <2>3. /\ admission' \in [Sessions -> Requests] /\ admission'[s].ph = ph /\ admission'[s].peer = p
        /\ \A r \in Sessions : r # s => admission'[r] = admission[r]
    BY <1>0, <2>2 DEF Requests
  <2> HIDE DEF p
  <2>4. /\ transfers' \in [Peers -> 0..NumSessions] /\ writeHandles' \in [Peers -> FileHandles] /\ opened' \subseteq FileHandles
        /\ \A q \in Peers : q # p => transfers'[q] = transfers[q]
    <3>1. s \in 0..NumSessions /\ <<s, "wx">> \in FileHandles
      BY EngFacts
    <3> QED
      BY <1>0, <2>1, <3>1
  <2>5. EngTypeOK'
    BY <1>0, <2>1, <2>2, <2>3, <2>4 DEF EngTypeOK, lifeVars
  <2>6. Admitting' = IF ph = "settled" THEN Admitting \ {s} ELSE Admitting
    BY <2>1, <2>3 DEF Admitting
  <2>7. Reserves'
    BY <2>3, <2>6, <1>0, <2>1, <2>2 DEF Admitting, p, Reserves
  <2>8. HoldsNothing'
    BY <1>0, <2>1 DEF HoldsNothing, SocketFollows, lifeVars, NoTransfers
  <2>9. (Registered \cup pendingKeys)' \subseteq Registered \cup pendingKeys
    BY <2>1, <2>2, <2>4 DEF Registered
  <2>10. AdmissionBound'
    BY <1>0, <2>5, <2>9, StaysBounded DEF AdmissionBound
  <2> QED
    BY <1>1, <2>1, <2>7, <2>8, <2>10 DEF EngInv
<1> QED
  BY <1>2, <1>3

(* However requests, packets, finalizations, start() and stop() interleave    *)
(* with the awaits of the file system, the TFTP engine keeps maxTransfers,    *)
(* leaves nothing behind when it stops and ends as it was last told.          *)
THEOREM EngineIsSound == EngSpec => []EngineSound
<1>1. EngInv /\ [EngNext]_engVars => EngInv'
  BY HandlingKeeps, AskingKeeps, LifecycleKeeps, RequestsKeep, PacketsKeep, CleanupsKeep DEF engVars, lifeVars,
     admVars, EngInv, AdmissionBound, EngTypeOK, FinalizingIsCleanup, EngNext
<1> QED
  BY <1>1, EngInitial, EngInvSuffices, PTL DEF EngSpec

------------------------------------------------------------------------------
(* The daemon host                                                            *)

\* A startup that is under way has a child.
Unfinished == {"waiting", "resolved", "rejected", "caught"}

\* A child that runs is the current one or is being terminated, and the end of
\* one that was ready is announced once.
ChildrenSound ==
  \A g \in Children :
    /\ proc[g].life = "none" => ~proc[g].sawReady /\ ~proc[g].eof /\ proc[g].exits = 0 /\ proc[g].stage = "live"
    /\ proc[g].life = "alive" => g = cur \/ proc[g].stage # "live"
    /\ proc[g].exits <= 1
    /\ proc[g].sawReady /\ g # cur /\ ~disposed => proc[g].exits = 1

\* The current child runs, has not been announced, and the host is ready when
\* its ready line has come.
CurrentSound ==
  /\ cur # 0 => /\ proc[cur].life = "alive" /\ proc[cur].stage = "live" /\ proc[cur].exits = 0
                /\ proc[cur].sawReady = ready /\ ~disposed
  /\ cur = 0 => ~ready

\* A startup attempt whose child became ready cannot be rejected any more.
AttemptsSound ==
  /\ \A a \in Attempts : att[a].pc \in Unfinished => att[a].gen # 0 /\ proc[att[a].gen].life # "none"
  /\ \A a \in Attempts : att[a].pc \in {"waiting", "rejected"} /\ ready => att[a].gen # cur
  /\ attempt # 0 => att[attempt].pc \in Unfinished

\* A call that was sent waits for the child that is ready, one that may go on
\* will find it, and a frame belongs to a child that was spawned.
CallsSound ==
  \A r \in HostCalls :
    /\ req[r].pc = "sent" => req[r].gen = cur /\ ready
    /\ req[r].pc = "starting" /\ Startup(r) = "ok" => ready \/ disposed
    /\ req[r].frame = "retained" => req[r].gen # 0 /\ proc[req[r].gen].life # "none"
    /\ req[r].pc = "expired" /\ req[r].frame = "retained" => req[r].gen # cur

HostInv == HostTypeOK /\ IsFiniteSet(admitted) /\ ChildrenSound /\ CurrentSound /\ AttemptsSound /\ CallsSound

LEMMA HostSound == HostInv => NoOrphanDaemon
BY DEF HostInv, ChildrenSound, ExitAnnouncedOnce, CallsSound, PendingOnCurrent, CurrentSound, NoOrphanDaemon

LEMMA HostFacts ==
  /\ 0 \notin Children /\ 0 \notin Attempts
  /\ \A g \in Unspawned : g \in Children /\ proc[g].life = "none"
  /\ \A a \in Unused : a \in Attempts /\ att[a].pc = "none"
BY HostAssumption DEF Children, Attempts, Unspawned, Unused

LEMMA HostInitial == HostInit => HostInv
<1> SUFFICES ASSUME HostInit PROVE HostInv
  OBVIOUS
<1>1. admitted = {} /\ IsFiniteSet({}) /\ Cardinality({}) = 0
  BY FS_EmptySet DEF HostInit
<1>2. HostTypeOK
  <2>1. att \in [Attempts -> StartupRecords]
    BY DEF HostInit, StartupRecords
  <2>2. proc \in [Children -> ChildRecords]
    BY DEF HostInit, ChildRecords
  <2>3. req \in [HostCalls -> CallRecords]
    BY DEF HostInit, CallRecords
  <2>4. admitted \subseteq HostCalls /\ Cardinality(admitted) <= MaxInFlight
    BY <1>1, HostAssumption
  <2> QED
    BY <2>1, <2>2, <2>3, <2>4 DEF HostInit, HostTypeOK
<1>3. ChildrenSound /\ CurrentSound
  BY DEF HostInit, ChildrenSound, CurrentSound
<1>4. AttemptsSound /\ CallsSound
  BY DEF HostInit, AttemptsSound, CallsSound, Unfinished
<1> QED
  BY <1>1, <1>2, <1>3, <1>4 DEF HostInv

------------------------------------------------------------------------------
(* What settling calls does, and what retiring a child does.                  *)

\* The calls after those of S have ended or expired.
SettledAs(S, fate) ==
  /\ req' \in [HostCalls -> CallRecords]
  /\ admitted' \subseteq HostCalls /\ IsFiniteSet(admitted') /\ Cardinality(admitted') <= MaxInFlight
  /\ \A r \in HostCalls :
       /\ req'[r].pc = "starting" => req[r].pc = "starting" /\ req'[r].att = req[r].att /\ r \notin S
       /\ req'[r].pc = "sent" => req[r].pc = "sent" /\ req'[r].gen = req[r].gen /\ r \notin S
       /\ req'[r].frame = "retained" => req[r].frame = "retained" /\ req'[r].gen = req[r].gen
       /\ req'[r].pc = "expired" => req[r].pc = "expired" \/ (r \in S /\ fate[r] = "expired")

LEMMA SettlesFacts ==
  ASSUME HostTypeOK, IsFiniteSet(admitted),
         NEW S \in SUBSET HostCalls, NEW W \in SUBSET HostCalls,
         NEW fate, \A r \in S : fate[r] \in {"ended", "expired"}, SettlesAs(S, W, fate)
  PROVE  SettledAs(S, fate)
<1> DEFINE handled(r) == [req[r] EXCEPT !.pc = IF r \in S THEN fate[r] ELSE @,
                                        !.frame = IF r \in W THEN "none" ELSE @]
<1>1. /\ req' = [r \in HostCalls |-> IF CallOver(handled(r)) THEN Gone ELSE handled(r)]
      /\ admitted' = {r \in admitted : ~CallOver(handled(r))}
  BY DEF SettlesAs
<1>2. /\ req \in [HostCalls -> CallRecords] /\ admitted \subseteq HostCalls
      /\ Cardinality(admitted) <= MaxInFlight /\ MaxInFlight \in Nat
  BY HostAssumption DEF HostTypeOK
<1>3. Gone \in CallRecords /\ Gone.pc = "ended" /\ Gone.frame = "none"
  BY DEF Gone, CallRecords
<1>4. ASSUME NEW r \in HostCalls
      PROVE  /\ handled(r) \in CallRecords
             /\ handled(r).att = req[r].att /\ handled(r).gen = req[r].gen
             /\ handled(r).pc = IF r \in S THEN fate[r] ELSE req[r].pc
             /\ handled(r).frame = IF r \in W THEN "none" ELSE req[r].frame
  BY <1>2 DEF CallRecords
<1> HIDE DEF handled
<1>5. req' \in [HostCalls -> CallRecords]
  BY <1>1, <1>3, <1>4
<1>6. \A r \in HostCalls : req'[r] = Gone \/ req'[r] = handled(r)
  BY <1>1
<1>7. admitted' \subseteq admitted
  BY <1>1
<1>8. IsFiniteSet(admitted') /\ Cardinality(admitted') <= MaxInFlight
  BY <1>7, FS_Subset, FS_CardinalityType, <1>2
<1>9. ASSUME NEW r \in HostCalls
      PROVE  /\ req'[r].pc = "starting" => req[r].pc = "starting" /\ req'[r].att = req[r].att /\ r \notin S
             /\ req'[r].pc = "sent" => req[r].pc = "sent" /\ req'[r].gen = req[r].gen /\ r \notin S
             /\ req'[r].frame = "retained" => req[r].frame = "retained" /\ req'[r].gen = req[r].gen
             /\ req'[r].pc = "expired" => req[r].pc = "expired" \/ (r \in S /\ fate[r] = "expired")
  BY <1>3, <1>4, <1>6
<1> QED
  BY <1>2, <1>5, <1>7, <1>8, <1>9 DEF SettledAs

LEMMA SettlesEnded ==
  ASSUME NEW S \in SUBSET HostCalls, NEW W \in SUBSET HostCalls, Settles(S, W)
  PROVE  \E fate : SettlesAs(S, W, fate) /\ \A r \in S : fate[r] = "ended"
BY DEF Settles

\* Waiting startups are resolved or rejected together.
LEMMA WaitersOutFacts ==
  ASSUME HostTypeOK, NEW outcome \in {"resolved", "rejected"}
  PROVE  /\ WaitersOut(outcome) \in [Attempts -> StartupRecords]
         /\ \A a \in Attempts : /\ WaitersOut(outcome)[a].gen = att[a].gen
                                /\ WaitersOut(outcome)[a].native = att[a].native
                                /\ att[a].pc = "waiting" => WaitersOut(outcome)[a].pc = outcome
                                /\ att[a].pc # "waiting" => WaitersOut(outcome)[a].pc = att[a].pc
BY DEF HostTypeOK, StartupRecords, WaitersOut

\* A step that admits no call and writes no new frame.
CallsSettle ==
  /\ req' \in [HostCalls -> CallRecords]
  /\ admitted' \subseteq HostCalls /\ IsFiniteSet(admitted') /\ Cardinality(admitted') <= MaxInFlight
  /\ \A r \in HostCalls :
       /\ req'[r].pc = "starting" => req[r].pc = "starting" /\ req'[r].att = req[r].att
       /\ req'[r].pc = "sent" => req[r].pc = "sent" /\ req'[r].gen = req[r].gen
       /\ req'[r].frame = "retained" => req[r].frame = "retained" /\ req'[r].gen = req[r].gen

\* The current child is retired.
Retires ==
  /\ cur # 0 /\ cur' = 0 /\ ready' = FALSE
  /\ proc' \in [Children -> ChildRecords]
  /\ \A h \in Children : h # cur => proc'[h] = proc[h]
  /\ proc'[cur].life \in {"alive", "exited"}
  /\ proc'[cur].life = "alive" => proc'[cur].stage # "live"
  /\ proc'[cur].sawReady = proc[cur].sawReady /\ proc'[cur].exits \in {0, 1}
  /\ attempt' \in Attempts \cup {0}
  /\ attempt' # 0 => attempt' = attempt

\* No startup ends, and none begins.
SameStartups ==
  /\ att' \in [Attempts -> StartupRecords]
  /\ \A a \in Attempts : /\ att'[a].gen = att[a].gen
                         /\ att'[a].pc \in Unfinished <=> att[a].pc \in Unfinished
                         /\ att'[a].pc = "ok" <=> att[a].pc = "ok"
                         /\ att'[a].pc = "waiting" => att[a].pc = "waiting"

LEMMA RetireKeeps ==
  ASSUME HostInv, Retires, SameStartups, CallsSettle,
         disposed' \in BOOLEAN, disposed => disposed',
         ready /\ ~disposed' => proc'[cur].exits = 1,
         \A r \in HostCalls : req'[r].pc # "sent",
         disposed' \/ \A r \in HostCalls : ~(req[r].pc = "starting" /\ Startup(r) = "ok")
  PROVE  HostInv'
<1>1. /\ HostTypeOK /\ ChildrenSound /\ CurrentSound /\ AttemptsSound /\ CallsSound
  BY DEF HostInv
<1>2. cur \in Children /\ cur # 0 /\ cur' = 0 /\ ready' = FALSE
  BY <1>1 DEF Retires, HostTypeOK
<1>3. HostTypeOK'
  BY <1>1, <1>2, HostFacts DEF HostTypeOK, Retires, SameStartups, CallsSettle
<1>4. ChildrenSound'
  BY <1>1, <1>2, HostFacts DEF ChildrenSound, Retires, CurrentSound
<1>5. CurrentSound'
  BY <1>2 DEF CurrentSound
<1>6. \A g \in Children : proc[g].life # "none" => proc'[g].life # "none"
  BY DEF Retires
<1>7. AttemptsSound'
  BY <1>1, <1>6, <1>2 DEF HostTypeOK, StartupRecords, SameStartups, AttemptsSound, Retires
<1>8. CallsSound'
  BY <1>1, <1>6, <1>2 DEF CallsSound, HostTypeOK, CallRecords, CallsSettle, SameStartups, Startup
<1> QED
  BY <1>3, <1>4, <1>5, <1>7, <1>8 DEF HostInv, CallsSettle

\* Steps that only answer calls, write frames or give up.
LEMMA AnswerKeeps ==
  ASSUME HostInv, CallsSettle, UNCHANGED <<cur, ready, disposed, attempt, att, proc>>,
         \A r \in HostCalls : req'[r].pc = "expired" /\ req'[r].frame = "retained" => req'[r].gen # cur
  PROVE  HostInv'
BY DEF HostInv, HostTypeOK, CallsSettle, ChildrenSound, CurrentSound, AttemptsSound, CallsSound, Startup

\* Steps of a child that leave the host and its calls alone.
LEMMA ChildKeeps ==
  ASSUME HostInv, UNCHANGED <<cur, ready, disposed, attempt, att>>, CallsSettle,
         \A r \in HostCalls : req'[r].pc = "expired" => req[r].pc = "expired",
         NEW g \in Children, proc' \in [Children -> ChildRecords],
         \A h \in Children : h # g => proc'[h] = proc[h],
         proc[g].life # "none", proc'[g].life # "none",
         proc'[g].sawReady = proc[g].sawReady, proc'[g].exits = proc[g].exits,
         g = cur => proc'[g].life = "alive" /\ proc'[g].stage = "live",
         proc'[g].life = "alive" => proc[g].life = "alive" /\ (g = cur \/ proc'[g].stage # "live")
  PROVE  HostInv'
<1>1. /\ HostTypeOK /\ ChildrenSound /\ CurrentSound /\ AttemptsSound /\ CallsSound
  BY DEF HostInv
<1>2. HostTypeOK'
  BY <1>1 DEF HostTypeOK, CallsSettle
<1>3. ChildrenSound'
  BY <1>1 DEF ChildrenSound
<1>4. CurrentSound'
  BY <1>1 DEF HostTypeOK, CurrentSound
<1>5. \A h \in Children : proc[h].life # "none" => proc'[h].life # "none"
  OBVIOUS
<1>6. AttemptsSound'
  BY <1>1, <1>5 DEF HostTypeOK, StartupRecords, AttemptsSound
<1>7. CallsSound'
  BY <1>1, <1>5 DEF CallsSound, HostTypeOK, CallRecords, CallsSettle, Startup
<1> QED
  BY <1>2, <1>3, <1>4, <1>6, <1>7 DEF HostInv, CallsSettle

\* Steps of one startup attempt that leave the children alone.
LEMMA StartupKeeps ==
  ASSUME HostInv, UNCHANGED <<cur, ready, disposed, proc, req, admitted>>,
         NEW a \in Attempts, NEW t \in StartupRecords, att' = [att EXCEPT ![a] = t],
         attempt' \in {attempt, 0},
         t.pc \in Unfinished => att[a].pc \in Unfinished /\ t.gen = att[a].gen,
         t.pc \in {"waiting", "rejected"} /\ ready => t.gen # cur,
         t.pc \notin Unfinished => attempt' # a,
         t.pc = "ok" => ready
  PROVE  HostInv'
BY DEF HostInv, HostTypeOK, ChildrenSound, CurrentSound, AttemptsSound, CallsSound, CallRecords, Startup

\* A child is spawned when there is none.
LEMMA SpawnKeeps ==
  ASSUME HostInv, cur = 0, ~disposed, NEW a \in Attempts, NEW g \in Unspawned, NEW native \in BOOLEAN,
         Spawns(a, g, native), UNCHANGED <<ready, disposed>>,
         req' \in [HostCalls -> CallRecords],
         admitted' \subseteq HostCalls, IsFiniteSet(admitted'), Cardinality(admitted') <= MaxInFlight,
         \A r \in HostCalls : \/ req'[r] = req[r]
                                 \/ /\ req'[r].pc = "starting" /\ req'[r].att = a
                                    /\ req'[r].frame = req[r].frame /\ req'[r].gen = req[r].gen
  PROVE  HostInv'
BY HostFacts DEF HostInv, HostTypeOK, CurrentSound, Spawns, ChildRecords, ChildrenSound, StartupRecords,
   AttemptsSound, Unfinished, CallsSound, CallRecords, Startup

\* The parts of an invariant state that the steps look at.
LEMMA HostParts ==
  ASSUME HostInv
  PROVE  /\ HostTypeOK /\ IsFiniteSet(admitted)
         /\ ChildrenSound /\ CurrentSound /\ AttemptsSound /\ CallsSound
         /\ cur \in Children \cup {0} /\ attempt \in Attempts \cup {0}
         /\ ready \in BOOLEAN /\ disposed \in BOOLEAN
         /\ att \in [Attempts -> StartupRecords] /\ proc \in [Children -> ChildRecords]
         /\ req \in [HostCalls -> CallRecords]
         /\ admitted \subseteq HostCalls /\ Cardinality(admitted) <= MaxInFlight
BY DEF HostInv, HostTypeOK

\* Nothing changes for the calls.
LEMMA SameCalls == HostInv /\ UNCHANGED <<req, admitted>> => CallsSettle
BY HostParts DEF CallsSettle

LEMMA SettlesAreCalls ==
  ASSUME HostInv, NEW S \in SUBSET HostCalls, NEW W \in SUBSET HostCalls, Settles(S, W)
  PROVE  /\ CallsSettle
         /\ \A r \in HostCalls : req'[r].pc = "expired" => req[r].pc = "expired"
         /\ \A r \in S : req'[r].pc # "sent"
<1>1. PICK fate : SettlesAs(S, W, fate) /\ \A r \in S : fate[r] = "ended"
  BY SettlesEnded
<1>2. SettledAs(S, fate)
  BY <1>1, HostParts, SettlesFacts
<1>3. \A r \in HostCalls : req'[r].pc = "expired" => req[r].pc = "expired"
  BY <1>1, <1>2 DEF SettledAs
<1> QED
  BY <1>2, <1>3 DEF CallsSettle, SettledAs

\* What the assignment of one field of a child leaves alone.
LEMMA ChildUpdates ==
  ASSUME NEW c \in ChildRecords
  PROVE  /\ \A s \in {"live", "eof", "term", "kill"} :
              LET d == [c EXCEPT !.stage = s]
              IN  d \in ChildRecords /\ d.life = c.life /\ d.stage = s /\ d.sawReady = c.sawReady /\ d.exits = c.exits
         /\ LET d == [c EXCEPT !.eof = FALSE]
            IN  d \in ChildRecords /\ d.life = c.life /\ d.stage = c.stage /\ d.sawReady = c.sawReady /\ d.exits = c.exits
         /\ \A l \in {"exited", "closed"} :
              LET d == [c EXCEPT !.life = l]
              IN  d \in ChildRecords /\ d.life = l /\ d.stage = c.stage /\ d.sawReady = c.sawReady /\ d.exits = c.exits
BY DEF ChildRecords

LEMMA ExitsUpdate ==
  ASSUME NEW c \in ChildRecords, NEW n \in Nat
  PROVE  /\ [c EXCEPT !.exits = n] \in ChildRecords
         /\ [c EXCEPT !.exits = n].life = c.life /\ [c EXCEPT !.exits = n].stage = c.stage
         /\ [c EXCEPT !.exits = n].sawReady = c.sawReady /\ [c EXCEPT !.exits = n].exits = n
BY DEF ChildRecords

\* terminateChild() of the current child.
LEMMA TerminatedFacts ==
  ASSUME HostInv, cur # 0, NEW told \in BOOLEAN, proc' = Terminated(cur, told), Forget(cur)
  PROVE  Retires /\ (told => proc'[cur].exits = 1)
<1>1. /\ cur \in Children /\ proc[cur] \in ChildRecords
      /\ proc[cur].life = "alive" /\ proc[cur].stage = "live" /\ proc[cur].exits = 0
  BY HostParts DEF CurrentSound
<1>2. PICK n \in {0, 1} : n = IF told THEN 1 ELSE 0
  OBVIOUS
<1> DEFINE p1 == [proc EXCEPT ![cur].stage = "eof"]
<1> DEFINE p2 == [p1 EXCEPT ![cur].eof = FALSE]
<1> DEFINE p3 == [p2 EXCEPT ![cur].exits = n]
<1>3. proc' = p3
  BY <1>1, <1>2, HostParts DEF Terminated
<1>4. p1 \in [Children -> ChildRecords] /\ p1[cur].life = "alive" /\ p1[cur].stage = "eof"
      /\ p1[cur].sawReady = proc[cur].sawReady /\ \A h \in Children : h # cur => p1[h] = proc[h]
  BY <1>1, HostParts, ChildUpdates
<1> HIDE DEF p1
<1>5. p2 \in [Children -> ChildRecords] /\ p2[cur].life = "alive" /\ p2[cur].stage = "eof"
      /\ p2[cur].sawReady = proc[cur].sawReady /\ \A h \in Children : h # cur => p2[h] = proc[h]
  BY ZenonT(30), <1>1, <1>4, ChildUpdates
<1> HIDE DEF p2
<1>6. p3 \in [Children -> ChildRecords] /\ p3[cur].life = "alive" /\ p3[cur].stage = "eof" /\ p3[cur].exits = n
      /\ p3[cur].sawReady = proc[cur].sawReady /\ \A h \in Children : h # cur => p3[h] = proc[h]
  BY <1>1, <1>5, ExitsUpdate
<1> HIDE DEF p3
<1>7. cur' = 0 /\ ready' = FALSE /\ attempt' \in {attempt, 0}
  BY DEF Forget
<1>8. told => n = 1
  BY <1>2
<1> QED
  BY <1>1, <1>3, <1>6, <1>7, <1>8, HostParts DEF Retires

LEMMA WaitersOutSame ==
  ASSUME HostInv, NEW outcome \in {"resolved", "rejected"}, att' = WaitersOut(outcome)
  PROVE  SameStartups
BY HostParts, WaitersOutFacts DEF SameStartups, Unfinished

\* Between two events no call is about to go on.
LEMMA QuietCalls == HostQuiet => \A r \in HostCalls : ~(req[r].pc = "starting" /\ Startup(r) = "ok")
BY DEF HostQuiet, Resumes

\* The current child is given up with all who wait for it.
LEMMA FailsKeeps ==
  ASSUME HostInv, cur # 0, HostQuiet, Fails(cur), CallsSettle,
         \A r \in HostCalls : req'[r].pc # "sent", UNCHANGED disposed
  PROVE  HostInv'
BY HostParts, TerminatedFacts, WaitersOutSame, QuietCalls, RetireKeeps DEF Fails

LEMMA PendingEnds ==
  ASSUME HostInv, Settles(RejectAllPending, {})
  PROVE  CallsSettle /\ \A r \in HostCalls : req'[r].pc # "sent"
<1>1. RejectAllPending \in SUBSET HostCalls /\ {} \in SUBSET HostCalls
  BY DEF RejectAllPending, Pending
<1>2. CallsSettle /\ \A r \in RejectAllPending : req'[r].pc # "sent"
  BY <1>1, SettlesAreCalls
<1> QED
  BY <1>2 DEF RejectAllPending, Pending, CallsSettle

\* A startup attempt moves on, its child the same.
LEMMA StartupMoves ==
  ASSUME HostInv, UNCHANGED <<cur, ready, disposed, attempt, proc, req, admitted>>,
         NEW a \in Attempts, NEW fate \in {"rejected", "caught"}, att' = [att EXCEPT ![a].pc = fate],
         att[a].pc \in Unfinished, fate = "rejected" => ~(cur = att[a].gen /\ ready)
  PROVE  HostInv'
BY HostParts, StartupKeeps DEF StartupRecords, Unfinished

LEMMA HostStep == HostInv /\ [HostNext]_hostVars => HostInv'
<1> SUFFICES ASSUME HostInv, [HostNext]_hostVars PROVE HostInv'
  OBVIOUS
<1> USE HostParts
<1>1. ASSUME NEW r \in HostCalls, Request(r) PROVE HostInv'
  <2>1. CASE Cardinality(admitted) >= MaxInFlight \/ disposed
    BY <1>1, <2>1, SettlesAreCalls, AnswerKeeps DEF Request, CallsSound, CallsSettle
  <2>2. CASE ~(Cardinality(admitted) >= MaxInFlight \/ disposed)
    <3>1. /\ admitted \cup {r} \subseteq HostCalls /\ IsFiniteSet(admitted \cup {r})
          /\ Cardinality(admitted \cup {r}) <= MaxInFlight
      <4>1. Cardinality(admitted) \in Nat /\ MaxInFlight \in Nat /\ Cardinality(admitted) < MaxInFlight
        BY <2>2, HostAssumption, FS_CardinalityType
      <4>2. /\ IsFiniteSet(admitted \cup {r})
            /\ Cardinality(admitted \cup {r}) = Cardinality(admitted)
                 \/ Cardinality(admitted \cup {r}) = Cardinality(admitted) + 1
        BY FS_AddElement
      <4> QED
        BY <4>1, <4>2
    <3>2. ASSUME NEW a \in Attempts \cup {0}, Enter(r, a)
          PROVE  /\ req' \in [HostCalls -> CallRecords] /\ admitted' = admitted \cup {r}
                 /\ req'[r].pc = "starting" /\ req'[r].att = a /\ req'[r].frame = req[r].frame /\ req'[r].gen = req[r].gen
                 /\ \A q \in HostCalls : q # r => req'[q] = req[q]
      BY <3>2 DEF CallRecords, Enter
    <3>3. ASSUME NEW a \in Attempts \cup {0}, Enter(r, a), UNCHANGED <<cur, ready, disposed, proc>>,
                 att' \in [Attempts -> StartupRecords], attempt' \in Attempts \cup {0},
                 \A b \in Attempts : att'[b] = att[b] \/ att'[b].pc = "failed",
                 AttemptsSound', a = 0 => ready, a # 0 => att'[a].pc # "ok"
          PROVE  HostInv'
      <4>1. HostTypeOK' /\ IsFiniteSet(admitted')
        BY <3>1, <3>2, <3>3 DEF HostTypeOK
      <4>2. ChildrenSound' /\ CurrentSound'
        BY <3>3 DEF ChildrenSound, CurrentSound
      <4>3. CallsSound'
        BY <3>2, <3>3 DEF CallsSound, Startup, CallRecords
      <4> QED
        BY <3>3, <4>1, <4>2, <4>3 DEF HostInv
    <3>4. CASE cur # 0 /\ ready /\ Enter(r, 0) /\ UNCHANGED <<cur, ready, attempt, att, proc>>
      BY <1>1, <3>4, <3>3 DEF Request, AttemptsSound
    <3>5. CASE Joinable /\ Enter(r, attempt) /\ UNCHANGED <<cur, ready, attempt, att, proc>>
      BY <1>1, <3>5, <3>3 DEF Request, AttemptsSound, Joinable, Unfinished
    <3>6. ASSUME NEW a \in Unused, Enter(r, a), ~(cur # 0 /\ ready),
                 \/ cur = 0 /\ UNCHANGED ready /\ \E g \in Unspawned, n \in BOOLEAN : Spawns(a, g, n)
                 \/ /\ att' = [att EXCEPT ![a].pc = "failed"]
                    /\ attempt' = 0
                    /\ UNCHANGED <<cur, ready, proc>>
          PROVE  HostInv'
      <4>1. a \in Attempts /\ a # 0 /\ att[a].pc = "none" /\ UNCHANGED disposed
        BY <1>1, <3>6, HostFacts DEF Request
      <4>2. CASE cur = 0 /\ UNCHANGED ready /\ \E g \in Unspawned, n \in BOOLEAN : Spawns(a, g, n)
        BY SMTT(30), <4>2, <3>2, <3>6, <4>1, <1>1, <2>2, <3>1, SpawnKeeps DEF Request
      <4>3. CASE att' = [att EXCEPT ![a].pc = "failed"] /\ attempt' = 0 /\ UNCHANGED <<cur, ready, proc>>
        BY <4>1, <4>3, <3>3, <3>6 DEF StartupRecords, AttemptsSound, Unfinished
      <4> QED
        BY <3>6, <4>2, <4>3
    <3> QED
      BY <1>1, <2>2, <3>4, <3>5, <3>6 DEF Request
  <2> QED
    BY <2>1, <2>2
<1>2. ASSUME NEW r \in HostCalls, Resume(r) PROVE HostInv'
  <2>1. CASE cur = 0 \/ Startup(r) = "failed"
    BY <1>2, <2>1, SettlesAreCalls, AnswerKeeps DEF Resume, CallsSound, CallsSettle
  <2>2. CASE ~(cur = 0 \/ Startup(r) = "failed")
    <3> DEFINE sent == [req[r] EXCEPT !.pc = "sent", !.gen = cur, !.frame = "retained"]
    <3>1. req' = [req EXCEPT ![r] = sent] /\ UNCHANGED <<cur, ready, disposed, attempt, att, proc, admitted>>
      BY <1>2, <2>2 DEF Resume
    <3>2. sent \in CallRecords /\ sent.pc = "sent" /\ sent.gen = cur
      BY DEF CallRecords
    <3> HIDE DEF sent
    <3>3. req' \in [HostCalls -> CallRecords] /\ req'[r] = sent /\ \A q \in HostCalls : q # r => req'[q] = req[q]
      BY <3>1, <3>2
    <3>4. ready /\ ~disposed /\ cur # 0 /\ proc[cur].life # "none"
      BY <1>2, <2>2 DEF Resume, Resumes, CallsSound, CurrentSound
    <3>5. HostTypeOK'
      BY <3>1, <3>3 DEF HostTypeOK
    <3>6. ChildrenSound' /\ CurrentSound' /\ AttemptsSound'
      BY <3>1 DEF ChildrenSound, CurrentSound, AttemptsSound
    <3>7. CallsSound'
      BY <3>1, <3>2, <3>3, <3>4 DEF CallsSound, Startup
    <3> QED
      BY <3>1, <3>5, <3>6, <3>7 DEF HostInv
  <2> QED
    BY <2>1, <2>2
<1>3. ASSUME NEW r \in HostCalls, AnswerLine(r) PROVE HostInv'
  BY <1>3, SettlesAreCalls, AnswerKeeps DEF AnswerLine, CallsSound, CallsSettle
<1>4. ASSUME NEW r \in HostCalls, FrameWritten(r) PROVE HostInv'
  BY <1>4, SettlesAreCalls, AnswerKeeps DEF FrameWritten, CallsSound, CallsSettle
<1>5. ASSUME NEW r \in HostCalls, RpcTimeout(r) PROVE HostInv'
  <2>1. ASSUME NEW S \in SUBSET HostCalls, r \in S, SettlesAs(S, {}, Expires(r))
        PROVE  /\ CallsSettle
               /\ \A q \in HostCalls : q # r /\ req'[q].pc = "expired" => req[q].pc = "expired"
               /\ \A q \in S : req'[q].pc # "sent"
    <3>1. \A q \in S : Expires(r)[q] \in {"ended", "expired"}
      BY DEF Expires
    <3>2. SettledAs(S, Expires(r))
      BY <2>1, <3>1, SettlesFacts
    <3>3. \A q \in HostCalls : q # r => Expires(r)[q] # "expired"
      BY DEF Expires
    <3> QED
      BY <3>2, <3>3 DEF CallsSettle, SettledAs
  <2>2. CASE Undrained(r)
    BY <1>5, <2>2, <2>1, FailsKeeps DEF RpcTimeout, Undrained, CallsSound, RejectAllPending, Pending, CallsSettle
  <2>3. CASE ~Undrained(r)
    BY <1>5, <2>3, <2>1, AnswerKeeps DEF RpcTimeout, Undrained, CallsSettle, CallsSound
  <2> QED
    BY <2>2, <2>3
<1>6. ASSUME NEW a \in Attempts, StartupSettles(a) PROVE HostInv'
  <2>1. CASE cur = att[a].gen /\ ready
    BY <1>6, <2>1, StartupKeeps, HostFacts DEF StartupSettles, Finished, StartupRecords, Unfinished
  <2>2. CASE ~(cur = att[a].gen /\ ready)
    BY <1>6, <2>2, StartupMoves DEF StartupSettles, Unfinished
  <2> QED
    BY <2>1, <2>2
<1>7. ASSUME NEW a \in Attempts, StartupCaught(a) PROVE HostInv'
  BY <1>7, StartupMoves, TerminatedFacts, SameCalls, RetireKeeps DEF StartupCaught, TerminateLate, Unfinished,
     AttemptsSound, StartupRecords, SameStartups, CallsSound, CurrentSound
<1>8. ASSUME NEW a \in Attempts, StartupRetries(a) PROVE HostInv'
  BY <1>8, SpawnKeeps DEF StartupRetries, MayRetry
<1>9. ASSUME NEW a \in Attempts, StartupFails(a) PROVE HostInv'
  BY <1>9, StartupKeeps, HostFacts DEF StartupFails, Finished, StartupRecords, Unfinished
<1>10. ASSUME NEW a \in Attempts, ReadyTimeout(a) PROVE HostInv'
  BY <1>10, StartupMoves DEF ReadyTimeout, Unfinished, AttemptsSound
<1>11. ASSUME NEW g \in Children, ReadyLine(g) PROVE HostInv'
  <2>1. /\ HostQuiet /\ g = cur /\ ready' = TRUE /\ att' = WaitersOut("resolved")
        /\ proc' = [proc EXCEPT ![g].sawReady = TRUE]
        /\ UNCHANGED <<cur, disposed, attempt, req, admitted>>
    BY <1>11 DEF ReadyLine
  <2>2. /\ cur # 0 /\ proc[g].life = "alive" /\ proc[g].stage = "live" /\ proc[g].exits = 0 /\ ~disposed
    BY <2>1, HostFacts DEF CurrentSound
  <2>3. /\ proc' \in [Children -> ChildRecords]
        /\ proc'[g].life = "alive" /\ proc'[g].stage = "live" /\ proc'[g].exits = 0 /\ proc'[g].sawReady = TRUE
        /\ \A h \in Children : h # g => proc'[h] = proc[h]
    BY <2>1, <2>2 DEF ChildRecords
  <2>4. /\ att' \in [Attempts -> StartupRecords]
        /\ \A a \in Attempts : /\ att'[a].gen = att[a].gen
                               /\ att[a].pc = "waiting" => att'[a].pc = "resolved"
                               /\ att[a].pc # "waiting" => att'[a].pc = att[a].pc
    BY <2>1, WaitersOutFacts
  <2>5. HostTypeOK'
    BY <2>1, <2>3, <2>4 DEF HostTypeOK
  <2>6. ChildrenSound'
    BY <2>1, <2>3 DEF ChildrenSound
  <2>7. CurrentSound'
    BY <2>1, <2>2, <2>3 DEF CurrentSound
  <2>8. \A h \in Children : proc[h].life # "none" => proc'[h].life # "none"
    BY <2>3
  <2>9. AttemptsSound'
    BY <2>1, <2>4, <2>8 DEF StartupRecords, HostQuiet, Runnable, AttemptsSound, Unfinished
  <2>10. CallsSound'
    BY <2>1, <2>8 DEF CallRecords, CallsSound
  <2> QED
    BY <2>1, <2>5, <2>6, <2>7, <2>9, <2>10 DEF HostInv
<1>12. ASSUME NEW g \in Children, ChildFails(g) PROVE HostInv'
  BY <1>12, PendingEnds, FailsKeeps, HostFacts DEF ChildFails
<1>13. ASSUME NEW g \in Children, EofDeadline(g) PROVE HostInv'
  BY <1>13, PendingEnds, FailsKeeps, HostFacts DEF EofDeadline
<1>14. ASSUME NEW g \in Children, NEW c \in ChildRecords, proc' = [proc EXCEPT ![g] = c],
              UNCHANGED <<cur, ready, disposed, attempt, att, req, admitted>>,
              proc[g].life # "none", c.life # "none",
              c.sawReady = proc[g].sawReady, c.exits = proc[g].exits,
              g = cur => c.life = "alive" /\ c.stage = "live",
              c.life = "alive" => proc[g].life = "alive" /\ (g = cur \/ c.stage # "live")
       PROVE  HostInv'
  BY <1>14, SameCalls, ChildKeeps
<1>15. ASSUME NEW g \in Children, StdoutEnds(g) PROVE HostInv'
  <2> DEFINE c == [proc[g] EXCEPT !.eof = TRUE]
  <2>1. /\ g = cur /\ proc' = [proc EXCEPT ![g] = c]
        /\ UNCHANGED <<cur, ready, disposed, attempt, att, req, admitted>>
    BY <1>15 DEF StdoutEnds
  <2>2. /\ c \in ChildRecords /\ c.life = proc[g].life /\ c.stage = proc[g].stage
        /\ c.sawReady = proc[g].sawReady /\ c.exits = proc[g].exits
    BY DEF ChildRecords
  <2> HIDE DEF c
  <2>3. proc[g].life = "alive" /\ proc[g].stage = "live"
    BY <2>1, HostFacts DEF CurrentSound
  <2> QED
    BY <1>14, <2>1, <2>2, <2>3
<1>16. ASSUME NEW g \in Children, TermTimer(g) PROVE HostInv'
  <2> PICK signal \in {"term", "kill"} : signal = IF proc[g].stage = "eof" THEN "term" ELSE "kill"
    OBVIOUS
  <2> DEFINE c == [proc[g] EXCEPT !.stage = signal]
  <2>1. /\ proc[g].life = "alive" /\ proc[g].stage \in {"eof", "term"}
        /\ proc' = [proc EXCEPT ![g] = c]
        /\ UNCHANGED <<cur, ready, disposed, attempt, att, req, admitted>>
    BY <1>16 DEF TermTimer
  <2>2. /\ c \in ChildRecords /\ c.life = proc[g].life /\ c.stage = signal
        /\ c.sawReady = proc[g].sawReady /\ c.exits = proc[g].exits
    BY DEF ChildRecords
  <2> HIDE DEF c
  <2>3. g # cur
    BY <2>1, HostFacts DEF CurrentSound
  <2> QED
    BY <1>14, <2>1, <2>2, <2>3
<1>17. ASSUME NEW g \in Children, ProcessExits(g) PROVE HostInv'
  <2>1. HostQuiet /\ proc[g].life = "alive" /\ UNCHANGED disposed
    BY <1>17 DEF ProcessExits
  <2>2. CASE CurrentExit(g)
    <3>1. /\ Forget(g) /\ g = cur /\ cur # 0 /\ att' = WaitersOut("rejected") /\ Settles(RejectAllPending, {})
          /\ proc' = [proc EXCEPT ![g].life = "exited", ![g].eof = FALSE, ![g].exits = @ + 1]
      BY <1>17, <2>2, HostFacts DEF ProcessExits, CurrentExit
    <3>2. proc[g].exits = 0
      BY <3>1 DEF CurrentSound
    <3> DEFINE p1 == [proc EXCEPT ![g].life = "exited"]
    <3> DEFINE p2 == [p1 EXCEPT ![g].eof = FALSE]
    <3> DEFINE p3 == [p2 EXCEPT ![g].exits = 1]
    <3>3. /\ p1 \in [Children -> ChildRecords] /\ p1[g].life = "exited" /\ p1[g].sawReady = proc[g].sawReady
          /\ p1[g].exits = 0 /\ \A h \in Children : h # g => p1[h] = proc[h]
      BY <3>2, ChildUpdates
    <3>4. proc' = p3
      BY <3>1, <3>2
    <3> HIDE DEF p1
    <3>5. /\ p2 \in [Children -> ChildRecords] /\ p2[g].life = "exited" /\ p2[g].sawReady = proc[g].sawReady
          /\ \A h \in Children : h # g => p2[h] = proc[h]
      <4>1. p2 = [p1 EXCEPT ![g] = [p1[g] EXCEPT !.eof = FALSE]] /\ p1[g] \in ChildRecords
        BY <3>3
      <4> HIDE DEF p2
      <4>2. /\ [p1[g] EXCEPT !.eof = FALSE] \in ChildRecords
            /\ [p1[g] EXCEPT !.eof = FALSE].life = "exited"
            /\ [p1[g] EXCEPT !.eof = FALSE].sawReady = proc[g].sawReady
        BY <3>3, <4>1, ChildUpdates
      <4> QED
        BY <3>3, <4>1, <4>2
    <3> HIDE DEF p2
    <3>6. /\ p3 \in [Children -> ChildRecords] /\ p3[g].life = "exited" /\ p3[g].sawReady = proc[g].sawReady
          /\ p3[g].exits = 1 /\ \A h \in Children : h # g => p3[h] = proc[h]
      <4>1. p3 = [p2 EXCEPT ![g] = [p2[g] EXCEPT !.exits = 1]] /\ p2[g] \in ChildRecords
        BY <3>5
      <4> HIDE DEF p3
      <4>2. /\ [p2[g] EXCEPT !.exits = 1] \in ChildRecords
            /\ [p2[g] EXCEPT !.exits = 1].life = "exited"
            /\ [p2[g] EXCEPT !.exits = 1].exits = 1
            /\ [p2[g] EXCEPT !.exits = 1].sawReady = proc[g].sawReady
        BY <3>5, <4>1, ExitsUpdate
      <4> QED
        BY <3>5, <4>1, <4>2
    <3> HIDE DEF p3
    <3>7. cur' = 0 /\ ready' = FALSE /\ attempt' \in {attempt, 0}
      BY <3>1 DEF Forget
    <3>8. Retires /\ proc'[cur].exits = 1
      BY <3>1, <3>4, <3>6, <3>7 DEF Retires
    <3>9. SameStartups /\ CallsSettle /\ \A r \in HostCalls : req'[r].pc # "sent"
      BY <3>1, WaitersOutSame, PendingEnds
    <3> QED
      BY <2>1, <3>8, <3>9, QuietCalls, RetireKeeps
  <2>3. CASE ~CurrentExit(g)
    <3> DEFINE p1 == [proc EXCEPT ![g].life = "exited"]
    <3> DEFINE p2 == [p1 EXCEPT ![g].stage = "live"]
    <3>1. proc' = p2 /\ UNCHANGED <<cur, ready, attempt, att, req, admitted>> /\ g # cur
      BY <1>17, <2>3 DEF ProcessExits, CurrentExit
    <3>2. /\ p1 \in [Children -> ChildRecords] /\ p1[g].life = "exited" /\ p1[g].sawReady = proc[g].sawReady
          /\ p1[g].exits = proc[g].exits /\ \A h \in Children : h # g => p1[h] = proc[h]
      BY ChildUpdates
    <3> HIDE DEF p1
    <3>3. /\ p2 \in [Children -> ChildRecords] /\ p2[g].life = "exited" /\ p2[g].sawReady = proc[g].sawReady
          /\ p2[g].exits = proc[g].exits /\ \A h \in Children : h # g => p2[h] = proc[h]
      <4>1. p2 = [p1 EXCEPT ![g] = [p1[g] EXCEPT !.stage = "live"]] /\ p1[g] \in ChildRecords
        BY <3>2
      <4> HIDE DEF p2
      <4>2. /\ [p1[g] EXCEPT !.stage = "live"] \in ChildRecords
            /\ [p1[g] EXCEPT !.stage = "live"].life = "exited"
            /\ [p1[g] EXCEPT !.stage = "live"].exits = proc[g].exits
            /\ [p1[g] EXCEPT !.stage = "live"].sawReady = proc[g].sawReady
        BY <3>2, <4>1, ChildUpdates
      <4> QED
        BY <3>2, <4>1, <4>2
    <3> HIDE DEF p2
    <3>4. CallsSettle
      BY <3>1, SameCalls
    <3> QED
      BY <2>1, <3>1, <3>3, <3>4, ChildKeeps
  <2> QED
    BY <2>2, <2>3
<1>18. ASSUME NEW g \in Children, ProcessCloses(g) PROVE HostInv'
  <2> DEFINE c == [proc[g] EXCEPT !.life = "closed"]
  <2>1. /\ proc[g].life = "exited" /\ proc' = [proc EXCEPT ![g] = c] /\ Settles({}, LostFrames(g))
        /\ UNCHANGED <<cur, ready, disposed, attempt, att>>
    BY <1>18 DEF ProcessCloses
  <2>2. /\ c \in ChildRecords /\ c.life = "closed" /\ c.stage = proc[g].stage
        /\ c.sawReady = proc[g].sawReady /\ c.exits = proc[g].exits
    BY ChildUpdates
  <2> HIDE DEF c
  <2>3. proc' \in [Children -> ChildRecords] /\ proc'[g] = c /\ \A h \in Children : h # g => proc'[h] = proc[h]
    BY <2>1, <2>2
  <2>4. g # cur
    BY <2>1, HostFacts DEF CurrentSound
  <2>5. CallsSettle /\ \A r \in HostCalls : req'[r].pc = "expired" => req[r].pc = "expired"
    BY <2>1, SettlesAreCalls DEF LostFrames
  <2> QED
    BY <2>1, <2>2, <2>3, <2>4, <2>5, ChildKeeps
<1>19. ASSUME Dispose PROVE HostInv'
  <2>1. ~disposed /\ disposed' = TRUE /\ att' = WaitersOut("rejected") /\ Settles(RejectAllPending, {})
    BY <1>19 DEF Dispose
  <2>2. SameStartups /\ CallsSettle /\ \A r \in HostCalls : req'[r].pc # "sent"
    BY <2>1, WaitersOutSame, PendingEnds
  <2>3. CASE cur # 0
    BY <1>19, <2>3, TerminatedFacts, <2>1, <2>2, RetireKeeps DEF Dispose
  <2>4. CASE cur = 0
    <3>1. ready' = FALSE /\ UNCHANGED <<cur, attempt, proc>>
      BY <1>19, <2>4 DEF Dispose
    <3>2. HostTypeOK'
      BY <2>1, <2>2, <3>1 DEF HostTypeOK, SameStartups, CallsSettle
    <3>3. ChildrenSound' /\ CurrentSound'
      BY <2>1, <2>4, <3>1 DEF ChildrenSound, CurrentSound
    <3>4. AttemptsSound'
      BY <2>2, <2>4, <3>1 DEF AttemptsSound, SameStartups
    <3>5. CallsSound'
      BY <2>2, <3>1, <2>4, <2>1 DEF CallsSettle, CallsSound
    <3> QED
      BY <2>2, <3>2, <3>3, <3>4, <3>5 DEF HostInv, CallsSettle
  <2> QED
    BY <2>3, <2>4
<1>20. CASE UNCHANGED hostVars
  BY <1>20 DEF hostVars, HostInv, HostTypeOK, ChildrenSound, CurrentSound, AttemptsSound, CallsSound, Startup
<1> QED
  BY <1>1, <1>2, <1>3, <1>4, <1>5, <1>6, <1>7, <1>8, <1>9, <1>10, <1>11, <1>12, <1>13, <1>15, <1>16, <1>17,
     <1>18, <1>19, <1>20
  DEF HostNext

(* No daemon process is left behind: one that runs is the current child or is *)
(* being terminated, one that was ready is announced as ended exactly once,   *)
(* and no request waits for a child that was retired (daemonHost.ts:          *)
(* terminateChild(), emitExit(), rejectAllPending()), for any number of calls *)
(* and children.                                                              *)
THEOREM NoDaemonIsOrphaned == HostSpec => []NoOrphanDaemon
BY HostInitial, HostStep, HostSound, PTL DEF HostSpec

------------------------------------------------------------------------------
(* One service from the command to the socket                                 *)

\* What the daemon says on the pipe, what is asked of it, and what it keeps.
Statuses == {"stopped", "starting", "running", "stopping", "error"}
StatusLines == [kind : {"status"}, status : Statuses]
ReplyLines ==
  {line \in [kind : {"reply"}, by : 0..Nobody, op : {"read", "configure", "stop", "start", "restart"}, ok : BOOLEAN,
             status : {"none"} \cup Statuses, newest : BOOLEAN] :
     line.op = "read" => line.status \in Statuses}
Asked ==
  [op : {"read", "configure", "stop", "start", "restart"}, config : 0..MaxSettings, by : 0..Nobody]
Instances == [status : {"none"} \cup Statuses, config : 0..MaxSettings, engine : BOOLEAN]
Daemons ==
  [up : BOOLEAN, store : 0..MaxSettings, stale : BOOLEAN, inst : Instances, queue : Seq(Asked),
   pipe : Seq(StatusLines \cup ReplyLines)]

\* An instance at rest, and one whose configuration is marked if it is not the newest.
AtRest(d) ==
  /\ d.inst.status \in {"none", "stopped", "running", "error"}
  /\ d.inst.status = "none" <=> d.inst = NoInstance
Marked(d) == d.inst # NoInstance /\ d.inst.config # d.store => d.stale

\* What a status on the screen claims of the service.
Right(status, inst) ==
  /\ status \in {"stopped", "running", "error"}
  /\ status = "running" => inst = "running"
  /\ status = "stopped" => inst # "running"

\* The answers that put a status on the screen.
Telling(line) == line.kind = "reply" /\ (line.op = "read" \/ (line.op = "stop" /\ line.ok))
Tells(line) == IF line.op = "read" THEN line.status ELSE "stopped"

Busy == {c \in Commands : command[c] \in {"request", "refresh"}}
StatusAfter(i) == \E j \in DOMAIN daemon.pipe : j > i /\ daemon.pipe[j].kind = "status"

DaemonSound ==
  /\ daemon \in Daemons /\ AtRest(daemon) /\ Marked(daemon)
  /\ \A i \in DOMAIN daemon.queue : daemon.queue[i].by = Background => daemon.queue[i].op = "read"
  /\ \A i \in DOMAIN daemon.pipe :
       LET line == daemon.pipe[i] IN
       line.kind = "reply" => (line.by = Background => line.op = "read") /\ (line.ok => line.newest)

PanelTyped ==
  /\ panel \in [status : Statuses, timer : BOOLEAN, settings : 1..MaxSettings, missed : BOOLEAN]
  /\ command \in [Commands -> {"unused", "request", "refresh", "over"}]
  /\ trouble \in 0..MaxTrouble
  /\ settled \in Seq(ReplyLines)
  /\ \A i \in DOMAIN settled : settled[i].by \in Commands \/ (settled[i].by = Background /\ settled[i].op = "read")

\* Where no daemon runs nothing is under way, and the screen shows none.
DownIsQuiet ==
  ~daemon.up => daemon = Down /\ settled = <<>> /\ Busy = {} /\ panel.status \in {"stopped", "error"}

\* An answer is true when it is read, or a status event is behind it.
AnswersTrue ==
  /\ \A i \in DOMAIN daemon.pipe :
       Telling(daemon.pipe[i]) => Right(Tells(daemon.pipe[i]), daemon.inst.status) \/ StatusAfter(i)
  /\ \A i \in DOMAIN settled :
       Telling(settled[i]) => Right(Tells(settled[i]), daemon.inst.status) \/ panel.timer \/ StatusAfter(0)

\* What is wrong on the screen is going to be put right.
Repaired ==
  \/ Right(panel.status, daemon.inst.status) \/ panel.missed
  \/ panel.timer \/ StatusAfter(0) \/ Busy # {}
  \/ \E i \in DOMAIN daemon.queue : daemon.queue[i].by = Background
  \/ \E i \in DOMAIN daemon.pipe : daemon.pipe[i].kind = "reply" /\ daemon.pipe[i].by = Background
  \/ \E i \in DOMAIN settled : settled[i].op = "read"

ServiceInv == DaemonSound /\ PanelTyped /\ DownIsQuiet /\ AnswersTrue /\ Repaired

\* What a workflow may do to the daemon: the lines it adds to the pipe are status
\* events, and there is one if the service has begun or ceased to run.
Goes(d, e) ==
  /\ d \in Daemons /\ e \in Daemons /\ e.up = d.up /\ e.queue = d.queue
  /\ Len(e.pipe) >= Len(d.pipe)
  /\ \A i \in 1..Len(d.pipe) : e.pipe[i] = d.pipe[i]
  /\ \A i \in Len(d.pipe) + 1..Len(e.pipe) : e.pipe[i].kind = "status"
  /\ Len(e.pipe) = Len(d.pipe) => (e.inst.status = "running" <=> d.inst.status = "running")

\* It leaves the configuration of the daemon and of the instance alone.
Keeps(d, e) == e.store = d.store /\ e.stale = d.stale /\ e.inst.config = d.inst.config

LEMMA GoesNowhere == ASSUME NEW d \in Daemons PROVE Goes(d, d)
BY DEF Daemons, Goes

LEMMA GoesFurther == ASSUME NEW d, NEW e, NEW f, Goes(d, e), Goes(e, f) PROVE Goes(d, f)
<1>1. Len(d.pipe) \in Nat /\ Len(e.pipe) \in Nat /\ Len(f.pipe) \in Nat
  BY DEF Goes, Daemons
<1> QED
  BY SMTT(30), <1>1 DEF Goes

\* A step that leaves the pipe alone.
LEMMA GoesInside ==
  ASSUME NEW d \in Daemons, NEW e \in Daemons, e.up = d.up, e.queue = d.queue, e.pipe = d.pipe,
         e.inst.status = "running" <=> d.inst.status = "running"
  PROVE  Goes(d, e)
BY DEF Daemons, Goes

LEMMA SetStatusGoes ==
  ASSUME NEW d \in Daemons, NEW s \in Statuses
  PROVE  /\ Goes(d, SetStatus(d, s)) /\ Keeps(d, SetStatus(d, s))
         /\ SetStatus(d, s).inst.status = s /\ SetStatus(d, s).inst.engine = d.inst.engine
<1>1. CASE d.inst.status = s
  BY <1>1, GoesNowhere DEF SetStatus, Keeps
<1>2. CASE d.inst.status # s
  <2> DEFINE i == [d.inst EXCEPT !.status = s]
             q == Append(d.pipe, [kind |-> "status", status |-> s])
  <2>1. PICK e : e = SetStatus(d, s)
    OBVIOUS
  <2>2. e = [d EXCEPT !.inst = i, !.pipe = q]
    BY <1>2, <2>1 DEF SetStatus, Daemons
  <2>3. i \in Instances /\ i.status = s /\ i.engine = d.inst.engine /\ i.config = d.inst.config
    BY DEF Instances, Daemons
  <2>4. d.pipe \in Seq(StatusLines \cup ReplyLines) /\ Len(d.pipe) \in Nat
    BY DEF Daemons
  <2>5. [kind |-> "status", status |-> s] \in StatusLines \cup ReplyLines
    BY DEF StatusLines
  <2>6. /\ q \in Seq(StatusLines \cup ReplyLines) /\ Len(q) = Len(d.pipe) + 1
        /\ \A k \in 1..Len(d.pipe) : q[k] = d.pipe[k]
        /\ q[Len(d.pipe) + 1] = [kind |-> "status", status |-> s]
    BY <2>4, <2>5
  <2> HIDE DEF i, q
  <2>7. e \in Daemons /\ e.up = d.up /\ e.queue = d.queue /\ e.pipe = q /\ e.inst = i /\ e.store = d.store /\ e.stale = d.stale
    BY <2>2, <2>3, <2>6 DEF Daemons
  <2>8. Goes(d, e)
    BY <2>4, <2>6, <2>7 DEF Goes
  <2> QED
    BY <2>1, <2>3, <2>7, <2>8 DEF Keeps
<1> QED
  BY <1>1, <1>2

\* The engine comes and goes within a transition.
LEMMA EngineGoes ==
  ASSUME NEW d \in Daemons, NEW b \in BOOLEAN
  PROVE  /\ Goes(d, [d EXCEPT !.inst.engine = b]) /\ Keeps(d, [d EXCEPT !.inst.engine = b])
         /\ [d EXCEPT !.inst.engine = b].inst.status = d.inst.status /\ [d EXCEPT !.inst.engine = b].inst.engine = b
BY SMTT(30), GoesInside DEF Instances, Daemons, Keeps

\* An outcome of an operation that started at d.
Outcomes == [d : Daemons, ok : BOOLEAN, failures : Nat]
From(d, o) == o \in Outcomes /\ Goes(d, o.d)

LEMMA AdapterStopGoes ==
  ASSUME NEW d \in Daemons, NEW o \in AdapterStop(d)
  PROVE  /\ From(d, o) /\ Keeps(d, o.d)
         /\ o.d.inst.status \in {"stopped", "error"} /\ (o.ok => o.d.inst.status = "stopped")
<1>1. CASE ~d.inst.engine /\ d.inst.status = "stopped"
  <2>1. o = [d |-> d, ok |-> TRUE, failures |-> 0]
    BY <1>1 DEF AdapterStop, Done, Outcome
  <2>2. o \in Outcomes /\ o.d = d
    BY <2>1 DEF Outcomes
  <2> QED
    BY <1>1, <2>2, GoesNowhere DEF Keeps, From
<1>2. CASE ~(~d.inst.engine /\ d.inst.status = "stopped")
  <2>1. PICK s : s = SetStatus(d, "stopping")
    OBVIOUS
  <2>2. Goes(d, s) /\ Keeps(d, s) /\ s \in Daemons
    BY SMTT(30), <2>1, SetStatusGoes DEF Statuses, Goes
  <2>3. PICK r : r = ReleaseEngine(s)
    OBVIOUS
  <2>4. Goes(s, r) /\ Keeps(s, r) /\ r \in Daemons
    BY <2>2, <2>3, EngineGoes DEF ReleaseEngine, Goes
  <2>5. PICK e, f : e = SetStatus(r, "stopped") /\ f = SetStatus(s, "error")
    OBVIOUS
  <2>6. /\ Goes(r, e) /\ Keeps(r, e) /\ e.inst.status = "stopped"
        /\ Goes(s, f) /\ Keeps(s, f) /\ f.inst.status = "error"
    BY <2>2, <2>4, <2>5, SetStatusGoes DEF Statuses
  <2>7. Goes(d, e) /\ Goes(d, f) /\ Keeps(d, e) /\ Keeps(d, f)
    BY <2>2, <2>4, <2>6, GoesFurther DEF Keeps
  <2>8. o = [d |-> e, ok |-> TRUE, failures |-> 0] \/ o = [d |-> f, ok |-> FALSE, failures |-> 1]
    BY <1>2, <2>1, <2>3, <2>5 DEF AdapterStop, Outcome
  <2> QED
    <3>1. CASE o = [d |-> e, ok |-> TRUE, failures |-> 0]
      BY <2>7, <3>1, <2>6 DEF Outcomes, Goes, From
    <3>2. CASE o = [d |-> f, ok |-> FALSE, failures |-> 1]
      BY <2>7, <3>2, <2>6 DEF Outcomes, Goes, From
    <3> QED
      BY <2>8, <3>1, <3>2
<1> QED
  BY <1>1, <1>2

LEMMA AdapterStartGoes ==
  ASSUME NEW d \in Daemons, NEW o \in AdapterStart(d)
  PROVE  /\ From(d, o) /\ Keeps(d, o.d) /\ o.d.inst.status \in {"running", "error"}
<1>1. CASE d.inst.engine /\ d.inst.status = "running"
  <2>1. o = [d |-> d, ok |-> TRUE, failures |-> 0]
    BY <1>1 DEF AdapterStart, Done, Outcome
  <2>2. o \in Outcomes /\ o.d = d
    BY <2>1 DEF Outcomes
  <2> QED
    BY <1>1, <2>2, GoesNowhere DEF Keeps, From
<1>2. CASE ~(d.inst.engine /\ d.inst.status = "running")
  <2>1. PICK r : r = ReleaseEngine(d)
    OBVIOUS
  <2>2. Goes(d, r) /\ Keeps(d, r) /\ r \in Daemons
    BY <2>1, EngineGoes DEF ReleaseEngine, Goes
  <2>3. PICK s : s = SetStatus(r, "starting")
    OBVIOUS
  <2>4. Goes(r, s) /\ Keeps(r, s) /\ s \in Daemons
    BY <2>2, <2>3, SetStatusGoes DEF Statuses, Goes
  <2>5. PICK b : b = [s EXCEPT !.inst.engine = TRUE]
    OBVIOUS
  <2>6. Goes(s, b) /\ Keeps(s, b) /\ b \in Daemons
    BY <2>4, <2>5, EngineGoes DEF Goes
  <2>7. PICK e, f, g, h : /\ e = SetStatus(d, "error") /\ f = SetStatus(b, "running")
                          /\ g = SetStatus(s, "error") /\ h = SetStatus(b, "error")
    OBVIOUS
  <2>8. /\ Goes(d, e) /\ Keeps(d, e) /\ e.inst.status = "error"
        /\ Goes(b, f) /\ Keeps(b, f) /\ f.inst.status = "running"
        /\ Goes(s, g) /\ Keeps(s, g) /\ g.inst.status = "error"
        /\ Goes(b, h) /\ Keeps(b, h) /\ h.inst.status = "error"
    BY <2>4, <2>6, <2>7, SetStatusGoes DEF Statuses
  <2>9. Goes(d, s) /\ Keeps(d, s)
    BY <2>2, <2>4, GoesFurther DEF Keeps
  <2>10. Goes(d, b) /\ Keeps(d, b)
    BY <2>6, <2>9, GoesFurther DEF Keeps
  <2>11. Goes(d, f) /\ Goes(d, g) /\ Goes(d, h) /\ Keeps(d, f) /\ Keeps(d, g) /\ Keeps(d, h)
    BY <2>8, <2>9, <2>10, GoesFurther DEF Keeps
  <2>12. \/ o = [d |-> e, ok |-> FALSE, failures |-> 1] \/ o = [d |-> f, ok |-> TRUE, failures |-> 0] \/ o = [d |-> g, ok |-> FALSE, failures |-> 1] \/ o = [d |-> h, ok |-> FALSE, failures |-> 2]
    BY <1>2, <2>1, <2>3, <2>5, <2>7 DEF AdapterStart, Outcome
  <2> QED
    <3>1. CASE o = [d |-> e, ok |-> FALSE, failures |-> 1]
      BY <2>8, <2>11, <3>1 DEF Outcomes, Goes, From
    <3>2. CASE o = [d |-> f, ok |-> TRUE, failures |-> 0]
      BY <2>8, <2>11, <3>2 DEF Outcomes, Goes, From
    <3>3. CASE o = [d |-> g, ok |-> FALSE, failures |-> 1]
      BY <2>8, <2>11, <3>3 DEF Outcomes, Goes, From
    <3>4. CASE o = [d |-> h, ok |-> FALSE, failures |-> 2]
      BY <2>8, <2>11, <3>4 DEF Outcomes, Goes, From
    <3> QED
      BY <2>12, <3>1, <3>2, <3>3, <3>4
<1> QED
  BY <1>1, <1>2

\* Keeps the settings and the mark, and ends at rest.
LEMMA AtRestAfter ==
  ASSUME NEW d, NEW e \in Daemons, e.inst.status \in {"stopped", "running", "error"}
  PROVE  AtRest(e) /\ e.inst # NoInstance
BY DEF AtRest, NoInstance

LEMMA EnsureGoes ==
  ASSUME NEW d \in Daemons, AtRest(d)
  PROVE  /\ Goes(d, EnsureInstance(d)) /\ AtRest(EnsureInstance(d)) /\ EnsureInstance(d).inst # NoInstance
         /\ EnsureInstance(d).store = d.store /\ EnsureInstance(d).stale = d.stale
         /\ EnsureInstance(d).inst.config = IF d.inst = NoInstance THEN d.store ELSE d.inst.config
<1>1. PICK e : e = EnsureInstance(d)
  OBVIOUS
<1>2. CASE d.inst # NoInstance
  BY <1>1, <1>2, GoesNowhere DEF EnsureInstance
<1>3. CASE d.inst = NoInstance
  <2> DEFINE i == [status |-> "stopped", config |-> d.store, engine |-> FALSE]
  <2>1. e = [d EXCEPT !.inst = i]
    BY <1>1, <1>3 DEF EnsureInstance
  <2>2. i \in Instances /\ i.status = "stopped" /\ i.config = d.store
    BY DEF Instances, Statuses, Daemons
  <2> HIDE DEF i
  <2>3. /\ e \in Daemons /\ e.up = d.up /\ e.queue = d.queue /\ e.pipe = d.pipe /\ e.inst = i
        /\ e.store = d.store /\ e.stale = d.stale
    BY <2>1, <2>2 DEF Daemons
  <2>4. d.inst.status = "none"
    BY <1>3 DEF NoInstance
  <2> QED
    BY <1>1, <1>3, <2>2, <2>3, <2>4, GoesInside, AtRestAfter
<1> QED
  BY <1>2, <1>3

\* An operation ends at rest, and what it leaves of the configuration.
Ends(d, o) == From(d, o) /\ AtRest(o.d) /\ o.d.store = d.store

LEMMA ManagerStopGoes ==
  ASSUME NEW d \in Daemons, AtRest(d), NEW o \in ManagerStop(d)
  PROVE  Ends(d, o) /\ Keeps(d, o.d) /\ (o.ok => o.d.inst.status # "running") /\ (o.d.inst = NoInstance <=> d.inst = NoInstance)
<1>1. CASE d.inst = NoInstance
  <2>1. o = [d |-> d, ok |-> TRUE, failures |-> 0]
    BY <1>1 DEF ManagerStop, Done, Outcome
  <2>2. o \in Outcomes /\ o.d = d
    BY <2>1 DEF Outcomes
  <2> QED
    BY <1>1, <2>2, GoesNowhere DEF Keeps, Ends, From, NoInstance
<1>2. CASE d.inst # NoInstance
  BY <1>2, AdapterStopGoes, AtRestAfter DEF ManagerStop, From, Goes, Ends, Keeps
<1> QED
  BY <1>1, <1>2

LEMMA ManagerStartGoes ==
  ASSUME NEW d \in Daemons, AtRest(d), NEW o \in ManagerStart(d)
  PROVE  /\ Ends(d, o) /\ o.d.stale = d.stale /\ o.d.inst # NoInstance
         /\ o.d.inst.config = IF d.inst = NoInstance THEN d.store ELSE d.inst.config
<1>1. PICK e : e = EnsureInstance(d)
  OBVIOUS
<1>2. Goes(d, e) /\ e \in Daemons /\ e.store = d.store /\ e.stale = d.stale
  BY <1>1, EnsureGoes DEF Goes
<1>3. e.inst.config = IF d.inst = NoInstance THEN d.store ELSE d.inst.config
  BY <1>1, EnsureGoes
<1>4. o \in AdapterStart(e)
  BY <1>1 DEF ManagerStart
<1>5. From(e, o) /\ Keeps(e, o.d) /\ o.d.inst.status \in {"running", "error"}
  BY <1>2, <1>4, AdapterStartGoes
<1>6. Goes(d, o.d)
  BY <1>2, <1>5, GoesFurther DEF From
<1>7. AtRest(o.d) /\ o.d.inst # NoInstance
  BY <1>5, AtRestAfter DEF From, Goes
<1> QED
  BY <1>2, <1>3, <1>5, <1>6, <1>7 DEF From, Keeps, Ends

LEMMA NoneIsTyped == NoInstance \in Instances /\ 0 \in 0..MaxSettings
BY ServiceAssumption DEF NoInstance, Instances

LEMMA DropGoes ==
  ASSUME NEW d \in Daemons, d.inst # NoInstance, AtRest(d), NEW o \in DropInstance(d)
  PROVE  /\ Ends(d, o) /\ o.d.stale = d.stale
         /\ o.ok => o.d.inst = NoInstance
         /\ ~o.ok => o.d.inst.config = d.inst.config
<1>1. PICK p \in AdapterStop(d) :
        o \in IF p.ok THEN {[n EXCEPT !.failures = @ + p.failures] : n \in Done([p.d EXCEPT !.inst = NoInstance])} ELSE {p}
  BY DEF DropInstance, Then
<1>2. From(d, p) /\ Keeps(d, p.d) /\ p.d.inst.status \in {"stopped", "error"} /\ (p.ok => p.d.inst.status = "stopped")
  BY <1>1, AdapterStopGoes
<1>3. CASE ~p.ok
  BY <1>1, <1>3, <1>2, AtRestAfter DEF Ends, Keeps, From, Goes
<1>4. CASE p.ok
  <2>1. PICK f : f = p.d
    OBVIOUS
  <2>2. PICK e : e = [f EXCEPT !.inst = NoInstance]
    OBVIOUS
  <2>3. f \in Daemons /\ Goes(d, f) /\ p \in Outcomes
    BY <1>2, <2>1 DEF From, Goes
  <2>4. /\ e \in Daemons /\ e.up = f.up /\ e.queue = f.queue /\ e.pipe = f.pipe /\ e.inst = NoInstance
        /\ e.store = f.store /\ e.stale = f.stale
    BY <2>2, <2>3, NoneIsTyped DEF Daemons
  <2>5. Goes(f, e)
    BY <1>2, <1>4, <2>1, <2>3, <2>4, GoesInside DEF NoInstance
  <2>6. Goes(d, e)
    BY <2>3, <2>5, GoesFurther
  <2>7. o = [d |-> e, ok |-> TRUE, failures |-> 0 + p.failures]
    BY <1>1, <1>4, <2>1, <2>2 DEF Done, Outcome
  <2>8. o \in Outcomes /\ o.d = e /\ o.ok = TRUE
    BY <2>3, <2>4, <2>7 DEF Outcomes
  <2>9. AtRest(e)
    BY <2>4 DEF AtRest, NoInstance
  <2> QED
    BY <1>2, <2>1, <2>4, <2>6, <2>8, <2>9 DEF Ends, Keeps, From
<1> QED
  BY <1>3, <1>4

\* await first; await Second: what a later operation adds to the outcome of an earlier one.
LEMMA AwaitGoes ==
  ASSUME NEW d, NEW p, From(d, p), NEW n, From(p.d, n), NEW o, o = [n EXCEPT !.failures = @ + p.failures]
  PROVE  From(d, o) /\ o.d = n.d /\ o.ok = n.ok
BY GoesFurther DEF From, Outcomes

LEMMA EvictIfIdleGoes ==
  ASSUME NEW d \in Daemons, AtRest(d), NEW o \in EvictIfIdle(d)
  PROVE  /\ Ends(d, o) /\ Marked(o.d)
         /\ o.ok /\ d.inst.status # "running" => o.d.inst = NoInstance
<1>1. PICK m, u : m = [d EXCEPT !.stale = TRUE] /\ u = [d EXCEPT !.stale = FALSE]
  OBVIOUS
<1>2. /\ m \in Daemons /\ m.up = d.up /\ m.queue = d.queue /\ m.pipe = d.pipe
      /\ m.store = d.store /\ m.stale = TRUE /\ m.inst = d.inst
  BY <1>1 DEF Daemons
<1>10. /\ u \in Daemons /\ u.up = d.up /\ u.queue = d.queue /\ u.pipe = d.pipe
       /\ u.store = d.store /\ u.stale = FALSE /\ u.inst = d.inst
  BY <1>1 DEF Daemons
<1>3. Goes(d, m) /\ m.store = d.store /\ m.stale = TRUE /\ m.inst = d.inst
  BY <1>2, GoesInside
<1>11. Goes(d, u) /\ u.store = d.store /\ u.stale = FALSE /\ u.inst = d.inst
  BY <1>10, GoesInside
<1>4. m \in Daemons /\ u \in Daemons /\ AtRest(m) /\ AtRest(u)
  BY <1>2, <1>10 DEF AtRest
<1>5. CASE d.inst = NoInstance
  <2>1. o = [d |-> u, ok |-> TRUE, failures |-> 0]
    BY <1>1, <1>5 DEF EvictIfIdle, Done, Outcome
  <2>2. o \in Outcomes /\ o.d = u
    BY <1>4, <2>1 DEF Outcomes
  <2> QED
    BY <1>11, <1>4, <1>5, <2>2 DEF Ends, From, Marked
<1>6. CASE d.inst # NoInstance /\ d.inst.status = "running"
  <2>1. o = [d |-> m, ok |-> TRUE, failures |-> 0]
    BY <1>1, <1>6 DEF EvictIfIdle, Done, Outcome
  <2>2. o \in Outcomes /\ o.d = m
    BY <1>4, <2>1 DEF Outcomes
  <2> QED
    BY <1>3, <1>4, <1>6, <2>2 DEF Ends, From, Marked
<1>7. CASE d.inst # NoInstance /\ d.inst.status # "running"
  <2>1. PICK p \in DropInstance(m) :
          o \in IF p.ok THEN {[n EXCEPT !.failures = @ + p.failures] : n \in Done([p.d EXCEPT !.stale = FALSE])} ELSE {p}
    BY <1>1, <1>7 DEF EvictIfIdle, Then
  <2>2. /\ Ends(m, p) /\ p.d.stale = TRUE
        /\ p.ok => p.d.inst = NoInstance
        /\ ~p.ok => p.d.inst.config = m.inst.config
    BY <1>3, <1>4, <1>7, DropGoes
  <2>3. From(d, p) /\ AtRest(p.d) /\ p.d.store = d.store /\ p.d \in Daemons /\ p \in Outcomes
    BY <1>3, <2>2, GoesFurther DEF Ends, From, Outcomes
  <2>4. CASE ~p.ok
    BY <2>1, <2>4, <2>2, <2>3 DEF Ends, Marked
  <2>5. CASE p.ok
    <3>1. PICK f, e : f = p.d /\ e = [f EXCEPT !.stale = FALSE]
      OBVIOUS
    <3>2. f \in Daemons /\ f.store \in 0..MaxSettings
      BY <2>3, <3>1 DEF Daemons
    <3>4. Goes(f, e) /\ e.store = f.store /\ e.inst = f.inst
      <4>1. /\ e \in Daemons /\ e.up = f.up /\ e.queue = f.queue /\ e.pipe = f.pipe
            /\ e.store = f.store /\ e.inst = f.inst
        BY <3>1, <3>2 DEF Daemons
      <4> QED
        BY <3>2, <4>1, GoesInside
    <3>5. PICK n : n = [d |-> e, ok |-> TRUE, failures |-> 0]
      OBVIOUS
    <3>6. n \in Outcomes /\ n.d = e /\ n.ok = TRUE
      BY <3>4, <3>5 DEF Outcomes, Goes
    <3>7. From(p.d, n)
      BY <3>1, <3>4, <3>6 DEF From
    <3>8. o = [n EXCEPT !.failures = @ + p.failures]
      BY <2>1, <2>5, <3>1, <3>5 DEF Done, Outcome
    <3>9. From(d, o) /\ o.d = n.d
      BY <2>3, <3>7, <3>8, AwaitGoes
    <3> QED
      BY <2>2, <2>3, <2>5, <3>1, <3>4, <3>6, <3>9 DEF Ends, AtRest, Marked
  <2> QED
    BY <2>4, <2>5
<1> QED
  BY <1>5, <1>6, <1>7

\* What a step of the workflow "configure" leaves.
Configured(d, o, c) == From(d, o) /\ AtRest(o.d) /\ Marked(o.d) /\ o.d.store = c

LEMMA ApplyConfigGoes ==
  ASSUME NEW d \in Daemons, AtRest(d), Marked(d), NEW c \in 0..MaxSettings, NEW o \in ApplyConfig(d, c)
  PROVE  /\ Configured(d, o, c)
         /\ o.ok /\ d.inst.status # "running" => o.d.inst.status # "running"
<1>1. CASE d.store = c
  <2>1. o = [d |-> d, ok |-> TRUE, failures |-> 0]
    BY <1>1 DEF ApplyConfig, Done, Outcome
  <2>2. o \in Outcomes /\ o.d = d
    BY <2>1 DEF Outcomes
  <2> QED
    BY <1>1, <2>2, GoesNowhere DEF Configured, From
<1>2. CASE d.store # c
  <2>1. PICK e : e = [d EXCEPT !.store = c]
    OBVIOUS
  <2>2. /\ e \in Daemons /\ e.up = d.up /\ e.queue = d.queue /\ e.pipe = d.pipe
        /\ e.store = c /\ e.inst = d.inst
    BY <2>1 DEF Daemons
  <2>3. Goes(d, e) /\ e.store = c /\ e.inst = d.inst
    BY <2>2, GoesInside
  <2>4. e \in Daemons /\ AtRest(e)
    BY <2>3 DEF Goes, AtRest
  <2>5. o \in EvictIfIdle(e)
    BY <1>2, <2>1 DEF ApplyConfig
  <2>6. /\ Ends(e, o) /\ Marked(o.d)
        /\ o.ok /\ e.inst.status # "running" => o.d.inst = NoInstance
    BY <2>4, <2>5, EvictIfIdleGoes
  <2>7. From(d, o)
    BY <2>3, <2>6, GoesFurther DEF From, Ends
  <2> QED
    BY <2>3, <2>6, <2>7 DEF Configured, Ends, NoInstance
<1> QED
  BY <1>1, <1>2

LEMMA EvictStaleGoes ==
  ASSUME NEW d \in Daemons, AtRest(d), Marked(d), NEW o \in EvictStale(d)
  PROVE  /\ Configured(d, o, d.store)
         /\ o.ok /\ d.inst.status # "running" => o.d.inst = NoInstance \/ o.d.inst.config = o.d.store
<1>1. CASE ~d.stale
  <2>1. o = [d |-> d, ok |-> TRUE, failures |-> 0]
    BY <1>1 DEF EvictStale, Done, Outcome
  <2>2. o \in Outcomes /\ o.d = d
    BY <2>1 DEF Outcomes
  <2> QED
    BY <1>1, <2>2, GoesNowhere DEF Configured, From, Marked
<1>2. CASE d.stale
  BY <1>2, EvictIfIdleGoes DEF EvictStale, Configured, Ends
<1> QED
  BY <1>1, <1>2

\* A service is prepared to start: the newest configuration, and no instance that has an older one.
Prepared(d, o, c) ==
  Configured(d, o, c) /\ (o.ok /\ d.inst.status # "running" => o.d.inst = NoInstance \/ o.d.inst.config = c)

LEMMA PrepareGoes ==
  ASSUME NEW d \in Daemons, AtRest(d), Marked(d), NEW c \in 0..MaxSettings,
         NEW p \in ApplyConfig(d, c),
         NEW o \in IF p.ok THEN {[n EXCEPT !.failures = @ + p.failures] : n \in EvictStale(p.d)} ELSE {p}
  PROVE  Prepared(d, o, c)
<1>1. Configured(d, p, c) /\ (p.ok /\ d.inst.status # "running" => p.d.inst.status # "running")
  BY ApplyConfigGoes
<1>2. CASE ~p.ok
  BY <1>1, <1>2 DEF Prepared
<1>3. CASE p.ok
  <2>1. PICK n \in EvictStale(p.d) : o = [n EXCEPT !.failures = @ + p.failures]
    BY <1>3
  <2>2. p.d \in Daemons /\ AtRest(p.d) /\ Marked(p.d) /\ p.d.store = c /\ From(d, p)
    BY <1>1 DEF Configured, From, Goes
  <2>3. /\ Configured(p.d, n, c)
        /\ n.ok /\ p.d.inst.status # "running" => n.d.inst = NoInstance \/ n.d.inst.config = c
    BY <2>1, <2>2, EvictStaleGoes DEF Configured
  <2>4. From(d, o) /\ o.d = n.d /\ o.ok = n.ok
    BY <2>1, <2>2, <2>3, AwaitGoes DEF Configured
  <2> QED
    BY <1>1, <1>3, <2>3, <2>4 DEF Prepared, Configured
<1> QED
  BY <1>2, <1>3

LEMMA PreparedStart ==
  ASSUME NEW d \in Daemons, NEW c \in 0..MaxSettings, NEW p, Prepared(d, p, c),
         NEW o \in IF p.ok THEN {[n EXCEPT !.failures = @ + p.failures] : n \in ManagerStart(p.d)} ELSE {p}
  PROVE  /\ From(d, o) /\ AtRest(o.d) /\ Marked(o.d)
         /\ o.ok /\ d.inst.status # "running" => o.d.inst.config = c
<1>1. From(d, p) /\ AtRest(p.d) /\ Marked(p.d) /\ p.d.store = c /\ p.d \in Daemons
  BY DEF Prepared, Configured, From, Goes
<1>2. CASE ~p.ok
  BY <1>1, <1>2
<1>3. CASE p.ok
  BY <1>3, <1>1, ManagerStartGoes, AwaitGoes DEF Ends, Marked, Prepared
<1> QED
  BY <1>2, <1>3

\* What a workflow leaves, and what its answer says.
Works(d, r, o) ==
  /\ From(d, o) /\ AtRest(o.d) /\ Marked(o.d)
  /\ r.op = "read" => o.ok /\ o.d.inst # NoInstance
  /\ r.op = "stop" /\ o.ok => o.d.inst.status # "running"
  /\ r.op = "restart" /\ o.ok => o.d.inst.config = r.config
  /\ r.op = "start" /\ o.ok /\ d.inst.status # "running" => o.d.inst.config = r.config

LEMMA WorkflowGoes ==
  ASSUME NEW d \in Daemons, AtRest(d), Marked(d), NEW r \in Asked, NEW o \in Workflow(d, r)
  PROVE  Works(d, r, o)
<1>1. r.config \in 0..MaxSettings /\ r.op \in {"read", "configure", "stop", "start", "restart"}
  BY DEF Asked
<1>2. CASE r.op = "read"
  <2>1. PICK e : e = EnsureInstance(d)
    OBVIOUS
  <2>2. o = [d |-> e, ok |-> TRUE, failures |-> 0]
    BY <1>2, <2>1 DEF Workflow, Done, Outcome
  <2>3. Goes(d, e) /\ AtRest(e) /\ e.inst # NoInstance /\ e.store = d.store /\ e.stale = d.stale
        /\ e.inst.config = IF d.inst = NoInstance THEN d.store ELSE d.inst.config
    BY <2>1, EnsureGoes
  <2>4. o \in Outcomes /\ o.d = e /\ o.ok = TRUE
    BY <2>2, <2>3 DEF Outcomes, Goes
  <2> QED
    BY <1>2, <2>3, <2>4 DEF Works, From, Marked
<1>3. CASE r.op = "configure"
  BY <1>3, <1>1, ApplyConfigGoes DEF Workflow, Works, Configured
<1>4. CASE r.op = "stop"
  BY <1>4, ManagerStopGoes DEF Workflow, Works, Ends, Keeps, Marked
<1>5. CASE r.op = "start"
  BY <1>5, <1>1, PrepareGoes, PreparedStart DEF Workflow, Then, Works
<1>6. CASE r.op = "restart"
  <2>1. PICK p, q, s :
          /\ s \in ManagerStop(d)
          /\ q \in IF s.ok THEN {[n EXCEPT !.failures = @ + s.failures] : n \in ApplyConfig(s.d, r.config)} ELSE {s}
          /\ p \in IF q.ok THEN {[n EXCEPT !.failures = @ + q.failures] : n \in EvictStale(q.d)} ELSE {q}
          /\ o \in IF p.ok THEN {[n EXCEPT !.failures = @ + p.failures] : n \in ManagerStart(p.d)} ELSE {p}
    BY <1>6 DEF Workflow, Then
  <2>2. Ends(d, s) /\ Keeps(d, s.d) /\ (s.ok => s.d.inst.status # "running") /\ (s.d.inst = NoInstance <=> d.inst = NoInstance)
    BY <2>1, ManagerStopGoes
  <2>3. s.d \in Daemons /\ AtRest(s.d) /\ Marked(s.d) /\ From(d, s)
    BY <2>2 DEF Ends, Keeps, Marked, From, Goes
  <2>4. CASE ~s.ok
    BY <2>1, <2>4, <1>6, <2>3 DEF Works
  <2>5. CASE s.ok
    <3>1. PICK n \in ApplyConfig(s.d, r.config) : q = [n EXCEPT !.failures = @ + s.failures]
      BY <2>1, <2>5
    <3>2. Configured(s.d, n, r.config) /\ (n.ok => n.d.inst.status # "running")
      BY <1>1, <2>2, <2>3, <2>5, <3>1, ApplyConfigGoes
    <3>3. From(d, q) /\ q.d = n.d /\ q.ok = n.ok
      BY <2>3, <3>1, <3>2, AwaitGoes DEF Configured
    <3>4. q.d \in Daemons /\ AtRest(q.d) /\ Marked(q.d) /\ q.d.store = r.config /\ (q.ok => q.d.inst.status # "running")
      BY <3>2, <3>3 DEF Configured, From, Goes
    <3>5. CASE ~q.ok
      BY <2>1, <3>5, <1>6, <3>3, <3>4 DEF Works
    <3>6. CASE q.ok
      <4>1. PICK m \in EvictStale(q.d) : p = [m EXCEPT !.failures = @ + q.failures]
        BY <2>1, <3>6
      <4>2. Configured(q.d, m, r.config) /\ (m.ok => m.d.inst = NoInstance \/ m.d.inst.config = r.config)
        BY <3>4, <3>6, <4>1, EvictStaleGoes DEF Configured
      <4>3. From(d, p) /\ p.d = m.d /\ p.ok = m.ok
        BY <3>3, <4>1, <4>2, AwaitGoes DEF Configured
      <4>4. p.d \in Daemons /\ AtRest(p.d) /\ Marked(p.d) /\ p.d.store = r.config /\ (p.ok => p.d.inst = NoInstance \/ p.d.inst.config = r.config)
        BY <4>2, <4>3 DEF Configured, From, Goes
      <4>5. CASE ~p.ok
        BY <2>1, <4>5, <1>6, <4>3, <4>4 DEF Works
      <4>6. CASE p.ok
        BY <2>1, <4>6, <4>4, ManagerStartGoes, <4>3, AwaitGoes, <1>6 DEF Ends, Marked, Works
      <4> QED
        BY <4>5, <4>6
    <3> QED
      BY <3>5, <3>6
  <2> QED
    BY <2>4, <2>5
<1> QED
  BY <1>1, <1>2, <1>3, <1>4, <1>5, <1>6

\* A line that a workflow may add to the pipe of a daemon that it leaves as e.
Says(line, e) ==
  \/ line.kind = "status"
  \/ /\ line.kind = "reply" /\ (line.by = Background => line.op = "read") /\ (line.ok => line.newest)
     /\ Telling(line) => Right(Tells(line), e.inst.status)

\* The pipe of the daemon only grows, and a status event is among the new lines if the
\* service has begun or ceased to run.
Grows(d, e) ==
  /\ d.up /\ e.up /\ e \in Daemons /\ AtRest(e) /\ Marked(e)
  /\ Len(e.pipe) >= Len(d.pipe)
  /\ \A i \in 1..Len(d.pipe) : e.pipe[i] = d.pipe[i]
  /\ \A i \in Len(d.pipe) + 1..Len(e.pipe) : Says(e.pipe[i], e)
  /\ \/ e.inst.status = "running" <=> d.inst.status = "running"
     \/ \E i \in Len(d.pipe) + 1..Len(e.pipe) : e.pipe[i].kind = "status"

Refreshing(d) ==
  \/ \E i \in DOMAIN d.queue : d.queue[i].by = Background
  \/ \E i \in DOMAIN d.pipe : d.pipe[i].kind = "reply" /\ d.pipe[i].by = Background

LEMMA Shapes ==
  ASSUME NEW d \in Daemons
  PROVE  /\ d.pipe \in Seq(StatusLines \cup ReplyLines) /\ Len(d.pipe) \in Nat /\ DOMAIN d.pipe = 1..Len(d.pipe)
         /\ d.queue \in Seq(Asked) /\ Len(d.queue) \in Nat /\ DOMAIN d.queue = 1..Len(d.queue)
         /\ \A i \in DOMAIN d.pipe : d.pipe[i] \in StatusLines \cup ReplyLines
         /\ \A i \in DOMAIN d.queue : d.queue[i] \in Asked
BY DEF Daemons

LEMMA GrowingKeeps ==
  ASSUME ServiceInv, UNCHANGED <<panel, command, settled>>, trouble' \in 0..MaxTrouble,
         Grows(daemon, daemon'), Refreshing(daemon) => Refreshing(daemon'),
         \A i \in DOMAIN daemon'.queue : daemon'.queue[i].by = Background => daemon'.queue[i].op = "read"
  PROVE  ServiceInv'
<1>1. DaemonSound /\ PanelTyped /\ AnswersTrue /\ Repaired
  BY DEF ServiceInv
<1>2. daemon \in Daemons /\ daemon' \in Daemons /\ AtRest(daemon') /\ Marked(daemon')
  BY <1>1 DEF DaemonSound, Grows
<1>3. /\ Len(daemon.pipe) \in Nat /\ DOMAIN daemon.pipe = 1..Len(daemon.pipe)
      /\ Len(daemon'.pipe) \in Nat /\ DOMAIN daemon'.pipe = 1..Len(daemon'.pipe)
  BY <1>2, Shapes
<1>4. /\ Len(daemon'.pipe) >= Len(daemon.pipe)
      /\ \A i \in 1..Len(daemon.pipe) : daemon'.pipe[i] = daemon.pipe[i]
      /\ \A i \in Len(daemon.pipe) + 1..Len(daemon'.pipe) : Says(daemon'.pipe[i], daemon')
  BY DEF Grows
<1>5. /\ \A i \in DOMAIN daemon.pipe : i \in DOMAIN daemon'.pipe /\ daemon'.pipe[i] = daemon.pipe[i]
      /\ \A i \in DOMAIN daemon'.pipe : i \in DOMAIN daemon.pipe \/ Says(daemon'.pipe[i], daemon')
  BY <1>3, <1>4
<1>6. ASSUME NEW k, StatusAfter(k) PROVE StatusAfter(k)'
  BY <1>6, <1>5 DEF StatusAfter
<1>7. \/ daemon'.inst.status = "running" <=> daemon.inst.status = "running"
      \/ StatusAfter(0)' /\ \A i \in DOMAIN daemon.pipe : StatusAfter(i)'
  BY SMTT(30), <1>3 DEF StatusAfter, Grows
<1>8. DaemonSound'
  BY <1>1, <1>5, <1>2 DEF DaemonSound, Says
<1>9. PanelTyped'
  BY <1>1 DEF PanelTyped
<1>10. DownIsQuiet'
  BY DEF DownIsQuiet, Grows
<1>11. ASSUME NEW s, Right(s, daemon.inst.status), daemon'.inst.status = "running" <=> daemon.inst.status = "running"
       PROVE  Right(s, daemon'.inst.status)
  BY <1>11 DEF Right
<1>12. AnswersTrue'
  BY <1>1, <1>5, <1>6, <1>7, <1>11 DEF AnswersTrue, Says, Telling, Tells
<1>13. Repaired'
  BY <1>1, <1>7, <1>11, <1>6 DEF Repaired, Refreshing, Busy
<1> QED
  BY <1>8, <1>9, <1>10, <1>12, <1>13 DEF ServiceInv

LEMMA Counted == ASSUME NEW n \in Nat, CountTrouble(n), trouble \in 0..MaxTrouble PROVE trouble' \in 0..MaxTrouble
BY ServiceAssumption DEF CountTrouble

LEMMA SocketFailsKeeps == ASSUME ServiceInv, SocketFails PROVE ServiceInv'
<1>1. DaemonSound /\ PanelTyped /\ DownIsQuiet
  BY DEF ServiceInv
<1>2. daemon \in Daemons /\ daemon.up /\ daemon.inst # NoInstance /\ Marked(daemon)
  BY <1>1 DEF DaemonSound, DownIsQuiet, Down, NoInstance, SocketFails
<1>3. daemon' = SetStatus(daemon, "error") /\ "error" \in Statuses
  BY DEF SocketFails, Statuses
<1>4. Goes(daemon, daemon') /\ Keeps(daemon, daemon') /\ daemon'.inst.status = "error"
  BY <1>2, <1>3, SetStatusGoes
<1>5. /\ daemon' \in Daemons /\ daemon'.up /\ daemon'.queue = daemon.queue
      /\ Len(daemon'.pipe) >= Len(daemon.pipe)
      /\ \A i \in 1..Len(daemon.pipe) : daemon'.pipe[i] = daemon.pipe[i]
      /\ \A i \in Len(daemon.pipe) + 1..Len(daemon'.pipe) : daemon'.pipe[i].kind = "status"
      /\ Len(daemon'.pipe) = Len(daemon.pipe) => (daemon'.inst.status = "running" <=> daemon.inst.status = "running")
  BY <1>2, <1>4 DEF Goes
<1>6. AtRest(daemon') /\ Marked(daemon')
  BY <1>2, <1>4, <1>5, AtRestAfter DEF Marked, Keeps
<1>7. Len(daemon.pipe) \in Nat /\ Len(daemon'.pipe) \in Nat /\ DOMAIN daemon.pipe = 1..Len(daemon.pipe) /\ DOMAIN daemon'.pipe = 1..Len(daemon'.pipe)
  BY <1>2, <1>5, Shapes
<1>8. Grows(daemon, daemon')
  BY <1>5, <1>7, <1>2, <1>6 DEF Grows, Says
<1>9. Refreshing(daemon) => Refreshing(daemon')
  BY <1>5, <1>7 DEF Refreshing
<1>10. trouble' \in 0..MaxTrouble /\ UNCHANGED <<panel, command, settled>>
  BY <1>1, Counted, 1 \in Nat DEF SocketFails, PanelTyped
<1>11. \A i \in DOMAIN daemon'.queue : daemon'.queue[i].by = Background => daemon'.queue[i].op = "read"
  BY <1>1, <1>5 DEF DaemonSound
<1> QED
  BY <1>8, <1>9, <1>10, <1>11, GrowingKeeps

LEMMA ExecuteKeeps == ASSUME ServiceInv, ExecuteWorkflow PROVE ServiceInv'
<1>1. DaemonSound /\ PanelTyped /\ DownIsQuiet
  BY DEF ServiceInv
<1>2. daemon \in Daemons /\ AtRest(daemon) /\ Marked(daemon) /\ daemon.queue # <<>>
  BY <1>1 DEF DaemonSound, ExecuteWorkflow
<1>3. daemon.up
  BY <1>1, <1>2 DEF DownIsQuiet, Down
<1>4. PICK r, rest : r = Head(daemon.queue) /\ rest = Tail(daemon.queue)
  OBVIOUS
<1>5. daemon.queue \in Seq(Asked) /\ Len(daemon.queue) \in Nat
  BY <1>2, Shapes
<1>6. /\ r \in Asked /\ rest \in Seq(Asked) /\ r = daemon.queue[1] /\ Len(daemon.queue) > 0
      /\ DOMAIN rest = 1..(Len(daemon.queue) - 1) /\ DOMAIN daemon.queue = 1..Len(daemon.queue)
      /\ \A i \in DOMAIN rest : rest[i] = daemon.queue[i + 1]
  BY <1>2, <1>4, <1>5
<1>7. PICK d : d = [daemon EXCEPT !.queue = rest]
  OBVIOUS
<1>8. /\ d \in Daemons /\ d.queue = rest /\ d.pipe = daemon.pipe /\ d.inst = daemon.inst
      /\ d.store = daemon.store /\ d.stale = daemon.stale /\ d.up = daemon.up
  BY <1>2, <1>6, <1>7 DEF Daemons
<1>9. AtRest(d) /\ Marked(d)
  BY <1>2, <1>8 DEF AtRest, Marked
<1>10. PICK o \in Workflow(d, r) :
         CountTrouble(o.failures) /\ daemon' = [o.d EXCEPT !.pipe = @ \o Reply(r, o, daemon.inst.status = "running")]
  BY <1>4, <1>7 DEF ExecuteWorkflow
<1>11. Works(d, r, o)
  BY <1>6, <1>8, <1>9, <1>10, WorkflowGoes
<1>12. PICK e : e = o.d
  OBVIOUS
<1>13. /\ o \in Outcomes /\ Goes(d, e) /\ e \in Daemons /\ AtRest(e) /\ Marked(e)
       /\ e.up = d.up /\ e.queue = d.queue
  BY <1>11, <1>12 DEF Works, From, Goes
<1>14. PICK w : w = Reply(r, o, daemon.inst.status = "running")
  OBVIOUS
<1>15. r.by \in 0..Nobody /\ r.op \in {"read", "configure", "stop", "start", "restart"} /\ o.ok \in BOOLEAN
  BY <1>6, <1>13 DEF Asked, Outcomes
<1>16. e.inst.status \in {"none"} \cup Statuses
  BY <1>13 DEF Daemons, Instances
<1>17. PICK line : line = [kind |-> "reply", by |-> r.by, op |-> r.op, ok |-> o.ok,
                           status |-> IF r.op = "read" THEN e.inst.status ELSE "none",
                           newest |-> r.op = "restart" \/ (r.op = "start" /\ ~(daemon.inst.status = "running")) => e.inst.config = r.config]
  OBVIOUS
<1>18. w = IF r.by = Nobody THEN <<>> ELSE <<line>>
  BY <1>12, <1>14, <1>17 DEF Reply
<1>19. line \in ReplyLines
  BY <1>11, <1>12, <1>13, <1>15, <1>16, <1>17 DEF Works, AtRest, Statuses, ReplyLines
<1>20. /\ line.kind = "reply" /\ line.by = r.by /\ line.op = r.op /\ line.ok = o.ok
       /\ r.op = "read" => line.status = e.inst.status
       /\ line.newest <=> (r.op = "restart" \/ (r.op = "start" /\ ~(daemon.inst.status = "running")) => e.inst.config = r.config)
  BY <1>17
<1>21. line.ok => line.newest
  BY <1>8, <1>11, <1>12, <1>20 DEF Works
<1>22. Telling(line) => Right(Tells(line), e.inst.status)
  BY <1>11, <1>12, <1>13, <1>20 DEF Works, AtRest, Right, Tells, Telling
<1>23. r.by = Background => r.op = "read"
  BY <1>1, <1>6 DEF DaemonSound
<1>24. Says(line, e)
  BY <1>20, <1>21, <1>22, <1>23 DEF Says
<1>25. /\ e.pipe \in Seq(StatusLines \cup ReplyLines) /\ Len(e.pipe) \in Nat
       /\ d.pipe \in Seq(StatusLines \cup ReplyLines) /\ Len(d.pipe) \in Nat
  BY <1>8, <1>13, Shapes
<1>26. PICK p : p = e.pipe \o w
  OBVIOUS
<1>27. /\ p \in Seq(StatusLines \cup ReplyLines) /\ Len(p) \in Nat /\ Len(p) >= Len(e.pipe)
       /\ \A i \in 1..Len(e.pipe) : p[i] = e.pipe[i]
       /\ \A i \in Len(e.pipe) + 1..Len(p) : p[i] = line
       /\ r.by # Nobody => Len(p) = Len(e.pipe) + 1
  <2>1. CASE r.by = Nobody
    BY <1>18, <1>25, <1>26, <2>1
  <2>2. CASE r.by # Nobody
    BY <1>18, <1>26, <2>2, <1>25, <1>19
  <2> QED
    BY <2>1, <2>2
<1>28. daemon' = [e EXCEPT !.pipe = p]
  BY <1>10, <1>12, <1>14, <1>26
<1>29. /\ daemon' \in Daemons /\ daemon'.pipe = p /\ daemon'.queue = rest /\ daemon'.up = daemon.up
       /\ daemon'.inst = e.inst /\ daemon'.store = e.store /\ daemon'.stale = e.stale
  BY <1>8, <1>13, <1>27, <1>28 DEF Daemons
<1>30. AtRest(daemon') /\ Marked(daemon')
  BY <1>13, <1>29 DEF AtRest, Marked
<1>31. \A l : Says(l, e) => Says(l, daemon')
  BY <1>29 DEF Says
<1>32. /\ Len(e.pipe) >= Len(daemon.pipe)
       /\ \A i \in 1..Len(daemon.pipe) : e.pipe[i] = daemon.pipe[i]
       /\ \A i \in Len(daemon.pipe) + 1..Len(e.pipe) : e.pipe[i].kind = "status"
       /\ Len(e.pipe) = Len(daemon.pipe) => (e.inst.status = "running" <=> daemon.inst.status = "running")
  BY <1>8, <1>13 DEF Goes
<1>33. Grows(daemon, daemon')
  <2>1. Len(p) >= Len(daemon.pipe) /\ \A i \in 1..Len(daemon.pipe) : p[i] = daemon.pipe[i]
    BY <1>8, <1>25, <1>27, <1>32
  <2>2. ASSUME NEW i \in Len(daemon.pipe) + 1..Len(p) PROVE Says(p[i], daemon')
    BY <1>8, <1>25, <1>27, <1>32, <1>24, <1>31 DEF Says
  <2>3. \/ daemon'.inst.status = "running" <=> daemon.inst.status = "running"
        \/ \E i \in Len(daemon.pipe) + 1..Len(p) : p[i].kind = "status"
    <3>1. CASE Len(e.pipe) = Len(daemon.pipe)
      BY <1>29, <1>32, <3>1
    <3>2. CASE Len(e.pipe) > Len(daemon.pipe)
      <4>1. PICK k : k = Len(daemon.pipe) + 1
        OBVIOUS
      <4>2. k \in Len(daemon.pipe) + 1..Len(e.pipe) /\ k \in Len(daemon.pipe) + 1..Len(p) /\ k \in 1..Len(e.pipe)
        BY <1>8, <1>25, <1>27, <3>2, <4>1
      <4>3. p[k].kind = "status"
        BY <1>27, <1>32, <4>2
      <4> QED
        BY <4>2, <4>3
    <3> QED
      BY <1>8, <1>25, <1>32, <3>1, <3>2
  <2> QED
    BY <1>3, <1>29, <1>30, <2>1, <2>2, <2>3 DEF Grows
<1>34. Refreshing(daemon) => Refreshing(daemon')
  <2>1. /\ DOMAIN daemon.pipe = 1..Len(daemon.pipe) /\ DOMAIN p = 1..Len(p)
    BY <1>2, <1>27, Shapes
  <2>2. ASSUME NEW i \in DOMAIN daemon.pipe, daemon.pipe[i].kind = "reply", daemon.pipe[i].by = Background
        PROVE  Refreshing(daemon')
    <3>1. i \in DOMAIN p /\ p[i] = daemon.pipe[i]
      <4>1. i \in 1..Len(daemon.pipe) /\ Len(daemon.pipe) \in Nat
        BY <1>8, <1>25, <2>1
      <4>2. i \in 1..Len(e.pipe) /\ i \in 1..Len(p)
        BY <1>25, <1>27, <1>32, <4>1
      <4> QED
        BY <1>27, <1>32, <2>1, <4>1, <4>2
    <3> QED
      BY <1>29, <2>2, <3>1 DEF Refreshing
  <2>3. ASSUME NEW i \in DOMAIN daemon.queue, daemon.queue[i].by = Background
        PROVE  Refreshing(daemon')
    <3>1. CASE i = 1
      <4>1. r.by = Background /\ r.by # Nobody
        BY <1>6, <2>3, <3>1, ServiceAssumption DEF Background, Nobody
      <4>2. Len(p) = Len(e.pipe) + 1
        BY <1>27, <4>1
      <4>3. Len(p) \in DOMAIN p /\ p[Len(p)] = line
        BY <1>25, <1>27, <2>1, <4>2
      <4> QED
        BY <1>20, <1>29, <4>1, <4>3 DEF Refreshing
    <3>2. CASE i # 1
      <4>1. PICK k : k = i - 1
        OBVIOUS
      <4>2. k \in DOMAIN rest /\ i = k + 1
        BY <1>5, <1>6, <2>3, <3>2, <4>1
      <4> QED
        BY <1>6, <1>29, <2>3, <4>2 DEF Refreshing
    <3> QED
      BY <3>1, <3>2
  <2> QED
    BY <2>2, <2>3 DEF Refreshing
<1>35. trouble' \in 0..MaxTrouble /\ UNCHANGED <<panel, command, settled>>
  BY <1>1, <1>10, <1>13, Counted DEF ExecuteWorkflow, PanelTyped, Outcomes
<1>36. \A i \in DOMAIN daemon'.queue : daemon'.queue[i].by = Background => daemon'.queue[i].op = "read"
  BY <1>5, <1>6, <1>1, <1>29 DEF DaemonSound
<1> QED
  BY <1>33, <1>34, <1>35, <1>36, GrowingKeeps

\* d has been sent a request and is now e.
WasSent(d, op, by, e) ==
  /\ e \in Daemons /\ e.pipe = d.pipe /\ e.inst = d.inst /\ e.store = d.store /\ e.stale = d.stale
  /\ e.up = d.up
  /\ \A i \in DOMAIN d.queue : i \in DOMAIN e.queue /\ e.queue[i] = d.queue[i]
  /\ \A i \in DOMAIN e.queue : i \in DOMAIN d.queue \/ (e.queue[i].op = op /\ e.queue[i].by = by)
  /\ \E i \in DOMAIN e.queue : e.queue[i].by = by

Operations == {"read", "configure", "stop", "start", "restart"}

LEMMA Sent ==
  ASSUME NEW d \in Daemons, NEW op \in Operations,
         NEW c \in 0..MaxSettings, NEW by \in 0..Nobody
  PROVE  WasSent(d, op, by, Send(d, op, c, by))
<1> PICK e : e = Send(d, op, c, by)
  OBVIOUS
<1>1. PICK r, q : r = [op |-> op, config |-> c, by |-> by] /\ q = Append(d.queue, r)
  OBVIOUS
<1>2. r \in Asked /\ r.op = op /\ r.by = by
  BY <1>1 DEF Asked, Operations
<1>3. d.queue \in Seq(Asked) /\ Len(d.queue) \in Nat /\ DOMAIN d.queue = 1..Len(d.queue)
  BY Shapes
<1>4. /\ q \in Seq(Asked) /\ DOMAIN q = 1..(Len(d.queue) + 1) /\ q[Len(d.queue) + 1] = r
      /\ \A i \in 1..Len(d.queue) : q[i] = d.queue[i]
  BY <1>1, <1>2, <1>3
<1>5. e = [d EXCEPT !.queue = q]
  BY <1>1 DEF Send
<1>6. /\ e \in Daemons /\ e.pipe = d.pipe /\ e.inst = d.inst /\ e.store = d.store /\ e.stale = d.stale
      /\ e.up = d.up /\ e.queue = q
  BY <1>4, <1>5 DEF Daemons
<1>7. Len(d.queue) + 1 \in DOMAIN q
  BY <1>3, <1>4
<1>8. \A i \in DOMAIN q : i \in DOMAIN d.queue \/ i = Len(d.queue) + 1
  BY <1>3, <1>4
<1>9. \A i \in DOMAIN d.queue : i \in DOMAIN q
  BY <1>3, <1>4
<1> QED
  BY <1>2, <1>3, <1>4, <1>6, <1>7, <1>8, <1>9 DEF WasSent

\* A request that the daemon has not seen changes nothing of what it has said.
Asks(d, e) ==
  /\ e \in Daemons /\ e.pipe = d.pipe /\ e.inst = d.inst /\ e.store = d.store /\ e.stale = d.stale
  /\ \A i \in DOMAIN e.queue : e.queue[i].by = Background => e.queue[i].op = "read"

LEMMA RequestingKeeps ==
  ASSUME ServiceInv, UNCHANGED settled, Asks(daemon, daemon'),
         panel.timer => panel'.timer \/ settled = <<>>
  PROVE  DaemonSound' /\ AnswersTrue'
BY DEF ServiceInv, Asks, DaemonSound, AtRest, Marked, StatusAfter, AnswersTrue, Telling, Tells

LEMMA CommandKeeps ==
  ASSUME ServiceInv, NEW c \in Commands, NEW op \in {"start", "stop", "restart"}, Command(c, op)
  PROVE  ServiceInv'
<1>1. DaemonSound /\ PanelTyped /\ DownIsQuiet
  BY DEF ServiceInv
<1>2. panel.settings \in 0..MaxSettings /\ 0 \in 0..MaxSettings /\ c \in 0..Nobody /\ c # Background
  BY <1>1, ServiceAssumption DEF PanelTyped, Commands, Nobody, Background
<1>3. PICK d : d = Spawned
  OBVIOUS
<1>4. /\ d \in Daemons /\ d.up /\ d.pipe = daemon.pipe /\ d.inst = daemon.inst /\ d.queue = daemon.queue
      /\ AtRest(d) /\ Marked(d)
  BY <1>1, <1>3, <1>2 DEF Spawned, DaemonSound, DownIsQuiet, Down, Daemons, AtRest, Marked, NoInstance
<1>5. PICK k : k = IF op = "stop" THEN 0 ELSE panel.settings
  OBVIOUS
<1>6. k \in 0..MaxSettings
  BY <1>2, <1>5
<1>7. daemon' = Send(d, op, k, c)
  BY <1>3, <1>5 DEF Command
<1>8. /\ daemon' \in Daemons /\ daemon'.pipe = d.pipe /\ daemon'.inst = d.inst /\ daemon'.store = d.store /\ daemon'.stale = d.stale
      /\ daemon'.up = d.up
      /\ \A i \in DOMAIN d.queue : i \in DOMAIN daemon'.queue /\ daemon'.queue[i] = d.queue[i]
      /\ \A i \in DOMAIN daemon'.queue : i \in DOMAIN d.queue \/ (daemon'.queue[i].op = op /\ daemon'.queue[i].by = c)
  <2>1. op \in Operations
    BY DEF Operations
  <2>2. WasSent(d, op, c, daemon')
    BY <1>2, <1>4, <1>6, <1>7, <2>1, Sent
  <2> QED
    BY <2>2 DEF WasSent
<1>9. DaemonSound'
  BY <1>1, <1>2, <1>4, <1>8 DEF DaemonSound, AtRest, Marked
<1>10. settled = <<>> /\ settled' = <<>> /\ DOMAIN settled' = {}
  BY DEF Command
<1>11. AnswersTrue'
  BY <1>4, <1>8, <1>10 DEF StatusAfter, ServiceInv, AnswersTrue, Telling, Tells
<1>12. PanelTyped'
  BY <1>1, <1>10 DEF Command, Statuses, PanelTyped
<1>13. DownIsQuiet'
  BY <1>4, <1>8 DEF DownIsQuiet
<1>14. Repaired'
  BY <1>1 DEF Command, PanelTyped, Repaired, Busy
<1> QED
  BY <1>9, <1>11, <1>12, <1>13, <1>14 DEF ServiceInv

LEMMA RefreshTimerKeeps == ASSUME ServiceInv, RefreshTimer PROVE ServiceInv'
<1>1. DaemonSound /\ PanelTyped /\ DownIsQuiet /\ daemon \in Daemons
  BY DEF ServiceInv, DaemonSound
<1>2. settled = <<>> /\ settled' = <<>> /\ command' = command /\ trouble' = trouble /\ panel' = [panel EXCEPT !.timer = FALSE]
  BY DEF RefreshTimer
<1>3. PanelTyped' /\ panel'.status = panel.status
  BY <1>1, <1>2 DEF PanelTyped
<1>4. CASE daemon.up
  <2>1. daemon' = Send(daemon, "read", 0, Background)
    BY <1>4 DEF RefreshTimer, Refresh
  <2>2. 0 \in 0..MaxSettings /\ Background \in 0..Nobody
    BY ServiceAssumption DEF Background, Nobody
  <2>3. /\ daemon' \in Daemons /\ daemon'.pipe = daemon.pipe /\ daemon'.inst = daemon.inst
        /\ daemon'.store = daemon.store /\ daemon'.stale = daemon.stale /\ daemon'.up = daemon.up
        /\ \A i \in DOMAIN daemon.queue : i \in DOMAIN daemon'.queue /\ daemon'.queue[i] = daemon.queue[i]
        /\ \A i \in DOMAIN daemon'.queue : i \in DOMAIN daemon.queue \/ (daemon'.queue[i].op = "read" /\ daemon'.queue[i].by = Background)
        /\ \E i \in DOMAIN daemon'.queue : daemon'.queue[i].by = Background
    <3>1. "read" \in Operations
      BY DEF Operations
    <3>2. WasSent(daemon, "read", Background, daemon')
      BY <1>1, <2>1, <2>2, <3>1, Sent
    <3> QED
      BY <3>2 DEF WasSent
  <2>4. Asks(daemon, daemon')
    BY <1>1, <2>3 DEF Asks, DaemonSound
  <2>5. DaemonSound' /\ AnswersTrue'
    BY <1>2, <2>4, RequestingKeeps
  <2>6. DownIsQuiet' /\ Repaired'
    BY <1>4, <2>3 DEF DownIsQuiet, Repaired
  <2> QED
    BY <1>3, <2>5, <2>6 DEF ServiceInv
<1>5. CASE ~daemon.up
  BY <1>5, <1>1, <1>2, RequestingKeeps, <1>3 DEF RefreshTimer, Refresh, Asks, DaemonSound, DownIsQuiet, Busy, Down,
     NoInstance, Repaired, Right, ServiceInv
<1> QED
  BY <1>4, <1>5

\* What is going to put the screen right is still there.
StillRepairing ==
  /\ daemon'.pipe = daemon.pipe /\ daemon'.inst = daemon.inst
  /\ \A i \in DOMAIN daemon.queue : i \in DOMAIN daemon'.queue /\ daemon'.queue[i] = daemon.queue[i]
  /\ panel'.status = panel.status /\ panel'.timer = panel.timer /\ panel'.missed = panel.missed
  /\ UNCHANGED <<command, settled>>

LEMMA RepairingKeeps == ASSUME Repaired, StillRepairing PROVE Repaired'
BY DEF StillRepairing, Repaired, Right, StatusAfter, Busy

LEMMA SettingsChangeKeeps == ASSUME ServiceInv, SettingsChange PROVE ServiceInv'
<1>1. DaemonSound /\ PanelTyped /\ DownIsQuiet /\ Repaired /\ daemon \in Daemons
  BY DEF ServiceInv, DaemonSound
<1>2. settled = <<>> /\ settled' = <<>> /\ command' = command /\ trouble' = trouble
  BY DEF SettingsChange
<1>3. PICK n : n = panel.settings + 1
  OBVIOUS
<1>4. n \in 1..MaxSettings /\ n \in 0..MaxSettings
  BY <1>1, <1>3, ServiceAssumption DEF PanelTyped, SettingsChange
<1>5. panel' = [panel EXCEPT !.settings = n]
  BY <1>1, <1>3 DEF SettingsChange, PanelTyped
<1>6. PanelTyped' /\ panel'.status = panel.status /\ panel'.timer = panel.timer /\ panel'.missed = panel.missed
  BY <1>1, <1>2, <1>4, <1>5 DEF PanelTyped
<1>7. CASE daemon.up
  <2>1. daemon' = Send(daemon, "configure", n, Nobody)
    BY <1>3, <1>7 DEF SettingsChange
  <2>2. Nobody \in 0..Nobody /\ Nobody # Background
    BY ServiceAssumption DEF Background, Nobody
  <2>3. /\ daemon' \in Daemons /\ daemon'.pipe = daemon.pipe /\ daemon'.inst = daemon.inst
        /\ daemon'.store = daemon.store /\ daemon'.stale = daemon.stale /\ daemon'.up = daemon.up
        /\ \A i \in DOMAIN daemon.queue : i \in DOMAIN daemon'.queue /\ daemon'.queue[i] = daemon.queue[i]
        /\ \A i \in DOMAIN daemon'.queue : i \in DOMAIN daemon.queue \/ (daemon'.queue[i].op = "configure" /\ daemon'.queue[i].by = Nobody)
    <3>1. "configure" \in Operations
      BY DEF Operations
    <3>2. WasSent(daemon, "configure", Nobody, daemon')
      BY <1>1, <1>4, <2>1, <2>2, <3>1, Sent
    <3> QED
      BY <3>2 DEF WasSent
  <2>4. Asks(daemon, daemon')
    BY <1>1, <2>2, <2>3 DEF Asks, DaemonSound
  <2>5. DaemonSound' /\ AnswersTrue'
    BY <1>2, <2>4, RequestingKeeps
  <2>6. DownIsQuiet'
    BY <1>7, <2>3 DEF DownIsQuiet
  <2>7. Repaired'
    BY <1>1, <1>2, <1>6, <2>3, RepairingKeeps DEF StillRepairing
  <2> QED
    BY <1>6, <2>5, <2>6, <2>7 DEF ServiceInv
<1>8. CASE ~daemon.up
  BY <1>8, <1>1, <1>2, RequestingKeeps, <1>6, RepairingKeeps DEF SettingsChange, Asks, DaemonSound, DownIsQuiet,
     Busy, StillRepairing, ServiceInv
<1> QED
  BY <1>7, <1>8

LEMMA ReceiveKeeps == ASSUME ServiceInv, Receive PROVE ServiceInv'
<1>1. DaemonSound /\ PanelTyped /\ DownIsQuiet /\ Repaired /\ AnswersTrue /\ daemon \in Daemons
  BY DEF ServiceInv, DaemonSound
<1>2. PICK line, q : line = Head(daemon.pipe) /\ q = Tail(daemon.pipe)
  OBVIOUS
<1>3. /\ daemon.pipe # <<>> /\ daemon' = [daemon EXCEPT !.pipe = q] /\ command' = command /\ trouble' = trouble
      /\ \/ /\ line.kind = "status" /\ settled' = settled
            /\ panel' = [panel EXCEPT !.status = line.status, !.timer = TRUE]
         \/ /\ line.kind = "reply" /\ panel' = panel
            /\ settled' = IF Awaited(line) THEN Append(settled, line) ELSE settled
  BY <1>2 DEF Receive
<1>4. daemon.pipe \in Seq(StatusLines \cup ReplyLines) /\ Len(daemon.pipe) \in Nat /\ DOMAIN daemon.pipe = 1..Len(daemon.pipe)
  BY <1>1, Shapes
<1>5. /\ q \in Seq(StatusLines \cup ReplyLines) /\ DOMAIN q = 1..(Len(daemon.pipe) - 1) /\ Len(daemon.pipe) > 0
      /\ line = daemon.pipe[1] /\ line \in StatusLines \cup ReplyLines
      /\ \A i \in DOMAIN q : q[i] = daemon.pipe[i + 1]
  BY <1>2, <1>3, <1>4
<1>6. /\ daemon' \in Daemons /\ daemon'.pipe = q /\ daemon'.queue = daemon.queue /\ daemon'.inst = daemon.inst
      /\ daemon'.store = daemon.store /\ daemon'.stale = daemon.stale /\ daemon'.up = daemon.up
  BY <1>1, <1>3, <1>5 DEF Daemons
<1>7. \A i \in DOMAIN q : i \in Nat /\ i + 1 \in DOMAIN daemon.pipe /\ q[i] = daemon.pipe[i + 1]
  BY <1>4, <1>5
<1>8. ASSUME NEW k \in DOMAIN daemon.pipe, k # 1 PROVE \E i \in DOMAIN q : k = i + 1 /\ q[i] = daemon.pipe[k]
  <2>1. PICK i : i = k - 1
    OBVIOUS
  <2>2. i \in DOMAIN q /\ k = i + 1
    BY <1>4, <1>5, <1>8, <2>1
  <2> QED
    BY <1>7, <2>2
<1>9. DaemonSound'
  BY <1>1, <1>6, <1>7 DEF DaemonSound, AtRest, Marked
<1>10. DownIsQuiet'
  BY <1>1, <1>3, <1>6 DEF DownIsQuiet, Down
<1>11. ASSUME NEW k \in Nat, StatusAfter(k + 1) PROVE StatusAfter(k)'
  BY <1>11, <1>4, <1>8, <1>7, <1>6 DEF StatusAfter
<1>12. ASSUME NEW i \in DOMAIN q, Telling(q[i])
       PROVE  Right(Tells(q[i]), daemon'.inst.status) \/ StatusAfter(i)'
  BY <1>7, <1>1, <1>12, <1>6, <1>11 DEF AnswersTrue
<1>13. CASE line.kind = "status" /\ settled' = settled /\ panel' = [panel EXCEPT !.status = line.status, !.timer = TRUE]
  BY ZenonT(30), <1>13, <1>5, <1>1, <1>3, <1>6, <1>12, <1>9, <1>10 DEF ReplyLines, StatusLines, PanelTyped, AnswersTrue,
     Repaired, Telling, Tells, ServiceInv
<1>14. CASE line.kind = "reply" /\ panel' = panel /\ settled' = IF Awaited(line) THEN Append(settled, line) ELSE settled
  <2>1. line \in ReplyLines
    BY <1>14, <1>5 DEF StatusLines
  <2>2. settled \in Seq(ReplyLines) /\ Len(settled) \in Nat /\ DOMAIN settled = 1..Len(settled)
    BY <1>1 DEF PanelTyped
  <2>3. 1 \in DOMAIN daemon.pipe /\ line = daemon.pipe[1]
    BY <1>4, <1>5
  <2>4. /\ settled' \in Seq(ReplyLines)
        /\ \A i \in DOMAIN settled : i \in DOMAIN settled' /\ settled'[i] = settled[i]
        /\ \A i \in DOMAIN settled' : (i \in DOMAIN settled /\ settled'[i] = settled[i]) \/ (Awaited(line) /\ settled'[i] = line)
        /\ Awaited(line) => \E i \in DOMAIN settled' : settled'[i] = line
    BY <1>14, <2>2, <2>1
  <2>5. PanelTyped'
    BY <1>1, <1>14, <2>3, <2>4, <1>3 DEF Awaited, DaemonSound, PanelTyped
  <2>6. StatusAfter(0) => StatusAfter(0)'
    BY <1>11, <1>14, <2>3, <1>4 DEF StatusAfter
  <2>7. ASSUME NEW i \in DOMAIN settled', Telling(settled'[i])
        PROVE  Right(Tells(settled'[i]), daemon'.inst.status) \/ panel'.timer \/ StatusAfter(0)'
    BY <1>1, <1>6, <1>14, <2>6, <2>7, <2>3, <1>11, <2>4 DEF AnswersTrue
  <2>8. AnswersTrue'
    BY <1>6, <1>12, <2>7 DEF AnswersTrue, Telling, Tells
  <2>9. Repaired'
    BY <1>3, <1>6, <1>14, <2>6, <1>1, <2>3, <2>4, <1>8 DEF Repaired, Right, Busy, Awaited, DaemonSound
  <2> QED
    BY <1>9, <1>10, <2>5, <2>8, <2>9 DEF ServiceInv
<1> QED
  BY <1>3, <1>13, <1>14

\* A continuation that puts a status on the screen.
LEMMA ShowingKeeps ==
  ASSUME ServiceInv, NEW s \in Statuses, settled # <<>>, settled' = Tail(settled), trouble' = trouble, daemon' = daemon,
         panel' = [panel EXCEPT !.status = s], command' \in [Commands -> {"unused", "request", "refresh", "over"}],
         Right(s, daemon.inst.status) \/ panel.timer \/ StatusAfter(0)
  PROVE  ServiceInv'
BY DEF ServiceInv, PanelTyped, DaemonSound, DownIsQuiet, StatusAfter, AnswersTrue, Telling, Tells, Repaired

LEMMA ContinueKeeps == ASSUME ServiceInv, Continue PROVE ServiceInv'
<1>1. DaemonSound /\ PanelTyped /\ DownIsQuiet /\ Repaired /\ AnswersTrue /\ daemon \in Daemons
  BY DEF ServiceInv, DaemonSound
<1>2. PICK line : line = Head(settled)
  OBVIOUS
<1>3. settled \in Seq(ReplyLines) /\ settled # <<>> /\ settled' = Tail(settled) /\ trouble' = trouble
  BY <1>1 DEF PanelTyped, Continue
<1>4. 1 \in DOMAIN settled /\ line = settled[1] /\ line \in ReplyLines
  BY <1>2, <1>3
<1>5. line.by \in Commands \/ (line.by = Background /\ line.op = "read")
  BY <1>1, <1>4 DEF PanelTyped
<1>6. Telling(line) => Right(Tells(line), daemon.inst.status) \/ panel.timer \/ StatusAfter(0)
  BY <1>1, <1>4 DEF AnswersTrue
<1>7. line.kind = "reply" /\ line.ok \in BOOLEAN /\ line.op \in Operations
  BY <1>4 DEF ReplyLines, Operations
<1>8. command \in [Commands -> {"unused", "request", "refresh", "over"}]
  BY <1>1 DEF PanelTyped
<1>9. \A c : Over(c) \in [Commands -> {"unused", "request", "refresh", "over"}]
  BY <1>8 DEF Over
<1>10. CASE line.op = "read"
  BY <1>2, <1>10, <1>6, <1>7, <1>8, <1>9, <1>4, <1>3, ShowingKeeps DEF Continue, Telling, Tells, ReplyLines
<1>11. CASE line.op # "read" /\ ~line.ok
  BY <1>2, <1>11, <1>3, <1>9, ShowingKeeps DEF Continue, Right, Statuses
<1>12. CASE line.op = "stop" /\ line.ok
  BY <1>2, <1>12, <1>6, <1>7, <1>3, <1>9, ShowingKeeps DEF Continue, Telling, Tells, Statuses
<1>13. CASE line.op \in {"start", "restart"} /\ line.ok
  <2>1. command' = [command EXCEPT ![line.by] = "refresh"] /\ daemon' = Refresh(daemon, line.by) /\ panel' = panel
    BY <1>2, <1>13 DEF Continue
  <2>2. daemon.up
    BY <1>1, <1>3 DEF DownIsQuiet
  <2>3. line.by \in Commands /\ line.by \in 0..Nobody /\ line.by # Background /\ 0 \in 0..MaxSettings
    BY <1>5, <1>13, ServiceAssumption DEF Commands, Nobody, Background
  <2>4. daemon' = Send(daemon, "read", 0, line.by)
    BY <2>1, <2>2 DEF Refresh
  <2>5. WasSent(daemon, "read", line.by, daemon')
    BY <1>1, <2>3, <2>4, Sent DEF Operations
  <2>6. Asks(daemon, daemon')
    BY <1>1, <2>3, <2>5 DEF Asks, WasSent, DaemonSound
  <2>7. settled' \in Seq(ReplyLines) /\ \A i \in DOMAIN settled' : i + 1 \in DOMAIN settled /\ settled'[i] = settled[i + 1]
    BY <1>3
  <2>8. DaemonSound'
    BY <1>1, <2>6 DEF DaemonSound, AtRest, Marked, Asks
  <2>9. AnswersTrue'
    BY <2>6, <1>1, <2>7, <2>1 DEF Asks, StatusAfter, AnswersTrue
  <2>10. PanelTyped'
    <3>1. command' \in [Commands -> {"unused", "request", "refresh", "over"}]
      BY <1>8, <2>1
    <3>2. \A i \in DOMAIN settled' : settled'[i].by \in Commands \/ (settled'[i].by = Background /\ settled'[i].op = "read")
      BY <1>1, <2>7 DEF PanelTyped
    <3> QED
      BY <1>1, <1>3, <2>1, <2>7, <3>1, <3>2 DEF PanelTyped
  <2>11. DownIsQuiet'
    BY <2>2, <2>5 DEF DownIsQuiet, WasSent
  <2>12. Repaired'
    BY <1>8, <2>1, <2>3 DEF Busy, Repaired
  <2> QED
    BY <2>8, <2>9, <2>10, <2>11, <2>12 DEF ServiceInv
<1> QED
  BY <1>2, <1>10, <1>11, <1>12, <1>13 DEF Continue

LEMMA SettleTyped ==
  ASSUME command \in [Commands -> {"unused", "request", "refresh", "over"}], NEW cs
  PROVE  Settle(cs) \in [Commands -> {"unused", "request", "refresh", "over"}]
BY DEF Settle

LEMMA CommandTimesOutKeeps ==
  ASSUME ServiceInv, NEW c \in Commands, CommandTimesOut(c)
  PROVE  ServiceInv'
<1>1. DaemonSound /\ PanelTyped /\ DownIsQuiet /\ AnswersTrue
  BY DEF ServiceInv
<1>2. settled' = settled /\ daemon' = daemon /\ command' = Settle({c}) /\ c \in Busy
  BY DEF CommandTimesOut, Busy
<1>3. trouble' \in 0..MaxTrouble
  BY <1>1, Counted, 1 \in Nat DEF CommandTimesOut, PanelTyped
<1>4. command' \in [Commands -> {"unused", "request", "refresh", "over"}]
  BY <1>1, <1>2, SettleTyped DEF PanelTyped
<1>5. \/ panel' = [panel EXCEPT !.status = "error"]
      \/ panel' = [panel EXCEPT !.missed = TRUE]
  BY DEF CommandTimesOut
<1>6. PanelTyped' /\ panel'.timer = panel.timer /\ (panel'.status = "error" \/ panel'.missed)
  BY <1>1, <1>2, <1>3, <1>4, <1>5 DEF PanelTyped, Statuses
<1>7. DaemonSound'
  BY <1>1, <1>2 DEF DaemonSound
<1>8. DownIsQuiet'
  BY <1>1, <1>2 DEF DownIsQuiet
<1>9. AnswersTrue'
  BY <1>2, <1>1, <1>6 DEF StatusAfter, AnswersTrue, Telling, Tells
<1>10. Repaired'
  BY <1>6 DEF Repaired, Right
<1> QED
  BY <1>6, <1>7, <1>8, <1>9, <1>10 DEF ServiceInv

LEMMA RefreshTimesOutKeeps ==
  ASSUME ServiceInv, NEW i \in DOMAIN daemon.queue, RefreshTimesOut(i)
  PROVE  ServiceInv'
<1>1. DaemonSound /\ PanelTyped /\ DownIsQuiet /\ AnswersTrue /\ daemon \in Daemons
  BY DEF ServiceInv, DaemonSound
<1>2. settled = <<>> /\ settled' = settled /\ command' = command /\ panel' = [panel EXCEPT !.missed = TRUE]
  BY DEF RefreshTimesOut
<1>3. trouble' \in 0..MaxTrouble
  BY <1>1, Counted, 1 \in Nat DEF RefreshTimesOut, PanelTyped
<1>4. daemon.queue \in Seq(Asked) /\ daemon.queue[i] \in Asked
  BY <1>1, Shapes
<1>5. PICK r, q : r = [daemon.queue[i] EXCEPT !.by = Nobody] /\ q = [daemon.queue EXCEPT ![i] = r]
  OBVIOUS
<1>6. Nobody \in 0..Nobody /\ Nobody # Background
  BY ServiceAssumption DEF Nobody, Background
<1>7. r \in Asked /\ r.by = Nobody
  BY <1>4, <1>5, <1>6 DEF Asked
<1>8. /\ q \in Seq(Asked) /\ DOMAIN q = DOMAIN daemon.queue /\ q[i] = r
      /\ \A k \in DOMAIN q : k # i => q[k] = daemon.queue[k]
  BY <1>4, <1>5, <1>7
<1>9. daemon' = [daemon EXCEPT !.queue = q]
  BY <1>1, <1>5 DEF RefreshTimesOut, Daemons
<1>10. /\ daemon' \in Daemons /\ daemon'.pipe = daemon.pipe /\ daemon'.inst = daemon.inst
       /\ daemon'.store = daemon.store /\ daemon'.stale = daemon.stale /\ daemon'.up = daemon.up /\ daemon'.queue = q
  BY <1>1, <1>8, <1>9 DEF Daemons
<1>11. Asks(daemon, daemon')
  BY <1>1, <1>6, <1>7, <1>8, <1>10 DEF Asks, DaemonSound
<1>12. DaemonSound' /\ AnswersTrue'
  BY <1>2, <1>11, RequestingKeeps
<1>13. PanelTyped' /\ panel'.missed
  BY <1>1, <1>2, <1>3 DEF PanelTyped
<1>14. DownIsQuiet'
  BY <1>1, <1>10 DEF DownIsQuiet, Down
<1>15. Repaired'
  BY <1>13 DEF Repaired
<1> QED
  BY <1>12, <1>13, <1>14, <1>15 DEF ServiceInv

LEMMA DownIsSound ==
  /\ Down \in Daemons /\ AtRest(Down) /\ Marked(Down) /\ DOMAIN Down.queue = {} /\ DOMAIN Down.pipe = {}
  /\ Down.inst.status = "none" /\ Down.up = FALSE
BY NoneIsTyped DEF Down, Daemons, AtRest, Marked, NoInstance

LEMMA DaemonExitsKeeps == ASSUME ServiceInv, DaemonExits PROVE ServiceInv'
<1>1. DaemonSound /\ PanelTyped
  BY DEF ServiceInv
<1>2. PICK s \in {"stopped", "error"} : panel' = [panel EXCEPT !.status = s]
  BY DEF DaemonExits
<1>3. /\ settled = <<>> /\ settled' = <<>> /\ daemon' = Down
      /\ command' = Settle(Waiting("request") \cup Waiting("refresh"))
  BY DEF DaemonExits
<1>4. trouble' \in 0..MaxTrouble
  BY <1>1, Counted, 1 \in Nat DEF DaemonExits, PanelTyped
<1>5. command' \in [Commands -> {"unused", "request", "refresh", "over"}]
  BY <1>1, <1>3, SettleTyped DEF PanelTyped
<1>6. PanelTyped' /\ panel'.status = s
  BY <1>1, <1>2, <1>3, <1>4, <1>5 DEF PanelTyped, Statuses
<1>7. Busy' = {}
  BY <1>3 DEF Settle, Waiting, Busy
<1>8. DaemonSound'
  BY <1>3, DownIsSound DEF DaemonSound
<1>9. DownIsQuiet'
  BY <1>3, <1>6, <1>7 DEF DownIsQuiet
<1>10. DOMAIN settled' = {}
  BY <1>3
<1>11. AnswersTrue'
  BY <1>3, <1>10, DownIsSound DEF AnswersTrue
<1>12. Repaired'
  BY <1>3, <1>6, DownIsSound DEF Repaired, Right
<1> QED
  BY <1>6, <1>8, <1>9, <1>11, <1>12 DEF ServiceInv

LEMMA ServiceInit == ASSUME SvcInit PROVE ServiceInv
BY ServiceAssumption, DownIsSound DEF SvcInit, PanelTyped, Statuses, Busy, DaemonSound, DownIsQuiet, AnswersTrue,
   Repaired, Right, ServiceInv

LEMMA ServiceNext == ASSUME ServiceInv, [SvcNext]_svcVars PROVE ServiceInv'
<1>1. ASSUME NEW c \in Commands, \E op \in {"start", "stop", "restart"} : Command(c, op) PROVE ServiceInv'
  BY <1>1, CommandKeeps
<1>2. ASSUME NEW c \in Commands, CommandTimesOut(c) PROVE ServiceInv'
  BY <1>2, CommandTimesOutKeeps
<1>3. ASSUME NEW i \in DOMAIN daemon.queue, RefreshTimesOut(i) PROVE ServiceInv'
  BY <1>3, RefreshTimesOutKeeps
<1>4. CASE UNCHANGED svcVars
  BY <1>4 DEF svcVars, ServiceInv, DaemonSound, AtRest, Marked, PanelTyped, DownIsQuiet, AnswersTrue, Repaired,
              Right, Telling, Tells, Busy, StatusAfter
<1> QED
  BY <1>1, <1>2, <1>3, <1>4, ReceiveKeeps, ContinueKeeps, RefreshTimerKeeps, SettingsChangeKeeps, DaemonExitsKeeps,
     ExecuteKeeps, SocketFailsKeeps DEF SvcNext

\* Once nothing is under way and no refresh has been missed nothing is left to repair.
LEMMA SoundIsHonest == ASSUME ServiceInv PROVE ServiceHonest
<1>1. DaemonSound /\ PanelTyped /\ Repaired
  BY DEF ServiceInv
<1>2. SvcTypeOK
  BY <1>1 DEF SvcTypeOK, PanelTyped, Statuses, DaemonSound, AtRest
<1>3. ASSUME Quiet, ~panel.missed PROVE Right(panel.status, daemon.inst.status)
  BY <1>3, <1>1 DEF Quiet, Busy, StatusAfter, Repaired
<1>4. PanelHonest
  BY <1>2, <1>3 DEF PanelHonest, Right, Running
<1>5. NewestConfig
  BY <1>1 DEF NewestConfig, DaemonSound
<1> QED
  BY <1>4, <1>5 DEF ServiceHonest

\* However many commands, changes of the settings and failures there are: once nothing is
\* under way the sidebar shows whether the service runs, and a service that was (re)started
\* runs the configuration that its request brought.
THEOREM ServiceIsHonest == SvcSpec => []ServiceHonest
<1>1. SvcInit => ServiceInv
  BY ServiceInit
<1>2. ServiceInv /\ [SvcNext]_svcVars => ServiceInv'
  BY ServiceNext
<1>3. ServiceInv => ServiceHonest
  BY SoundIsHonest
<1> QED
  BY <1>1, <1>2, <1>3, PTL DEF SvcSpec
==============================================================================
