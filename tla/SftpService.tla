----------------------------- MODULE SftpService -----------------------------
(* SftpService for one server: the session, which holds a lease of the pool,  *)
(* its watcher, and the cache of directory listings.  There is a directory    *)
(* root with a child; a listing is the version of its directory.              *)
(* Connections, the SFTP channel and the server's file system are external.   *)
EXTENDS Naturals, FiniteSets

CONSTANTS MaxConnects,  \* bound: connections made
          MaxOps,       \* bound: operations in progress
          MaxVersion    \* bound: versions of a directory

ASSUME SftpAssumption == MaxConnects \in Nat /\ MaxOps \in Nat /\ MaxVersion \in Nat \ {0}

VARIABLES svc,      \* the maps of the service, for this server
          lease,    \* the lease of each connection
          channel,  \* the SFTP channel of each connection
          cache,    \* dirCache
          ops,      \* operations in progress
          version,  \* the directories on the server
          acked     \* history: the version that an operation was told it had made
sftpVars == <<svc, lease, channel, cache, ops, version, acked>>

Conns == 1..MaxConnects
Dirs == {"root", "child"}
Kinds == {"read", "save", "make", "upload", "rename", "delete"}
Uncached == [tag |-> 0, raced |-> FALSE, moved |-> FALSE]

Services == [session : 0..MaxConnects, pending : {"none", "ssh", "sftp"}, attempt : 0..MaxConnects,
             watcher : 0..MaxConnects, unsub : 0..MaxConnects]
Listings == [tag : 0..MaxVersion, raced : BOOLEAN, moved : BOOLEAN]
Operations == [kind : Kinds, dir : Dirs, conn : Conns, tags : [Dirs -> 0..MaxVersion], raced : BOOLEAN]

SftpTypeOK ==
  /\ svc \in Services
  /\ lease \in [Conns -> {"none", "held", "released", "twice"}]
  /\ channel \in [Conns -> {"none", "open", "closed"}]
  /\ cache \in [Dirs -> Listings]
  /\ ops \subseteq Operations
  /\ version \in [Dirs -> 1..MaxVersion] /\ acked \in [Dirs -> 0..MaxVersion]

SftpInit ==
  /\ svc = [session |-> 0,      \* sessions.get(serverId), by its connection
            pending |-> "none", \* what the pending connect() waits for
            attempt |-> 0,      \* its connection
            watcher |-> 0,      \* the connection that watchers.get(serverId) uses
            unsub   |-> 0]      \* the connection whose close is listened to
  /\ lease = [n \in Conns |-> "none"] /\ channel = [n \in Conns |-> "none"]
  /\ cache = [d \in Dirs |-> Uncached]
  /\ ops = {}
  /\ version = [d \in Dirs |-> 1] /\ acked = [d \in Dirs |-> 0]

------------------------------------------------------------------------------
(* The session                                                                *)

Dispose(n) == [lease EXCEPT ![n] = IF @ = "held" THEN "released" ELSE "twice"]

\* cleanupSession()
CleanupSession ==
  /\ svc' = [svc EXCEPT !.session = 0, !.watcher = 0, !.unsub = 0]
  /\ cache' = [d \in Dirs |-> Uncached]

\* Mutant: whatever session there is is cleaned up.
TeardownAny(n) == CleanupSession /\ lease' = Dispose(n)
\* teardownSession(): only the session that is still in the map.
TeardownSession(n) ==
  \/ svc.session = n /\ CleanupSession /\ lease' = Dispose(n)
  \/ svc.session # n /\ UNCHANGED <<svc, cache, lease>>

\* connect(): a session, or a connect() in progress, is shared.
Connect ==
  /\ svc.session = 0 /\ svc.pending = "none" /\ svc.attempt < MaxConnects
  /\ svc' = [svc EXCEPT !.pending = "ssh", !.attempt = @ + 1]
  /\ UNCHANGED <<lease, channel, cache, ops, version, acked>>

\* doConnect(): the factory answers, then openSftp().
SshAnswers ==
  /\ svc.pending = "ssh"
  /\ \/ svc' = [svc EXCEPT !.pending = "none"] /\ UNCHANGED lease
     \/ /\ svc' = [svc EXCEPT !.pending = "sftp"]
        /\ lease' = [lease EXCEPT ![svc.attempt] = "held"]
  /\ UNCHANGED <<channel, cache, ops, version, acked>>

SftpOpens ==
  /\ svc.pending = "sftp"
  /\ \/ /\ svc' = [svc EXCEPT !.pending = "none"]
        /\ lease' = Dispose(svc.attempt) /\ UNCHANGED channel
     \/ /\ svc' = [svc EXCEPT !.pending = "none", !.session = svc.attempt, !.unsub = svc.attempt]
        /\ channel' = [channel EXCEPT ![svc.attempt] = "open"] /\ UNCHANGED lease
  /\ UNCHANGED <<cache, ops, version, acked>>

\* disconnect(), and dispose() for this server; a connect() in progress goes on.
Disconnect ==
  /\ svc.session # 0
  /\ TeardownSession(svc.session)
  /\ UNCHANGED <<channel, ops, version, acked>>

\* The channel fails or closes, by itself or some time after end().
ChannelCloses(n) ==
  /\ channel[n] = "open"
  /\ channel' = [channel EXCEPT ![n] = "closed"]
  /\ TeardownSession(n)
  /\ UNCHANGED <<ops, version, acked>>

\* The SSH connection closes, and its listener is called.
ConnectionCloses ==
  /\ svc.unsub # 0
  /\ TeardownSession(svc.unsub)
  /\ UNCHANGED <<channel, ops, version, acked>>

\* startWatching() and stopWatching()
StartWatching ==
  /\ svc.session # 0 /\ svc.watcher = 0
  /\ svc' = [svc EXCEPT !.watcher = svc.session]
  /\ UNCHANGED <<lease, channel, cache, ops, version, acked>>

StopWatching ==
  /\ svc.watcher # 0
  /\ svc' = [svc EXCEPT !.watcher = 0]
  /\ UNCHANGED <<lease, channel, cache, ops, version, acked>>

------------------------------------------------------------------------------
(* Operations.  "save" is writeFile(); "make" is createDirectory(),           *)
(* copyRemote() or writeFileElevated(); "rename" moves the child away, or     *)
(* another directory into its place, and "delete" removes it.  download()     *)
(* changes nothing here but for its timeout, which is that of "save".  The    *)
(* verification at the end of upload() is part of it.                         *)

\* The directories that an operation changes, and those whose listing is dropped.
Changes(op) ==
  CASE op.kind = "read"                 -> {}
    [] op.kind \in {"rename", "delete"} -> Dirs
    [] OTHER                            -> {op.dir}
\* Mutant: delete() drops the listing of the parent only.
InvalidatesParent(op) ==
  CASE op.kind = "read"                 -> {}
    [] op.kind \in {"rename", "delete"} -> {"root"}
    [] OTHER                            -> {op.dir}
Invalidates(op) ==
  CASE op.kind = "read"   -> {}
    [] op.kind = "rename" -> {"root"}
    [] op.kind = "delete" -> Dirs
    [] OTHER              -> {op.dir}

NoTags == [d \in Dirs |-> 0]
Drop(c, ds) == [d \in Dirs |-> IF d \in ds THEN Uncached ELSE c[d]]

Targets(kind) == IF kind \in {"rename", "delete"} THEN {"child"} ELSE Dirs

\* The call, up to its request; readDirectory() looks in the cache first.
Begin(kind) ==
  /\ svc.session # 0 /\ Cardinality(ops) < MaxOps
  /\ \E d \in Targets(kind) :
       /\ kind = "read" => cache[d] = Uncached
       /\ ops' = ops \cup {[kind |-> kind, dir |-> d, conn |-> svc.session, tags |-> NoTags, raced |-> FALSE]}
  /\ UNCHANGED <<svc, lease, channel, cache, version, acked>>

\* The server executes it: the directory is listed, or new versions are made.
ServerActs(op) ==
  /\ op.tags = NoTags /\ channel[op.conn] = "open"
  /\ \A d \in Changes(op) : version[d] < MaxVersion
  /\ version' = [d \in Dirs |-> IF d \in Changes(op) THEN version[d] + 1 ELSE version[d]]
  /\ ops' = (ops \ {op}) \cup
       {[op EXCEPT !.tags = [d \in Dirs |-> IF d = op.dir \/ d \in Changes(op) THEN version'[d] ELSE 0]]}
  /\ UNCHANGED <<svc, lease, channel, cache, acked>>

Later(v, w) == IF v > w THEN v ELSE w

\* The answer arrives: the listing is cached, or listings are dropped.  A
\* listing that a read has already fetched is not.
OpSucceeds(op) ==
  /\ op.tags # NoTags /\ channel[op.conn] = "open"
  /\ \/ /\ op.kind = "read"
        /\ cache' = [cache EXCEPT ![op.dir] = [tag |-> op.tags[op.dir], raced |-> op.raced, moved |-> FALSE]]
        /\ ops' = ops \ {op} /\ UNCHANGED acked
     \/ /\ op.kind # "read"
        /\ cache' = [d \in Dirs |->
             LET c == Drop(cache, Invalidates(op))[d]
             IN [c EXCEPT !.moved = @ \/ (op.kind = "rename" /\ c # Uncached)]]
        /\ ops' = {IF r.kind = "read" /\ r.dir \in Changes(op) THEN [r EXCEPT !.raced = TRUE] ELSE r
                     : r \in ops \ {op}}
        /\ acked' = [d \in Dirs |-> Later(acked[d], op.tags[d])]
  /\ UNCHANGED <<svc, lease, channel, version>>

\* It is refused or its channel closes.  upload() and delete() drop listings all the same.
Finally(op) == IF op.kind \in {"upload", "delete"} THEN Invalidates(op) ELSE {}
OpFails(op) ==
  /\ ops' = ops \ {op}
  /\ cache' = Drop(cache, Finally(op))
  /\ UNCHANGED <<svc, lease, channel, version, acked>>

\* A write that stalls takes its own session with it.
OpStalls(op) ==
  /\ op.kind \in {"save", "upload"}
  /\ ops' = ops \ {op}
  /\ \/ svc.session = op.conn /\ CleanupSession /\ lease' = Dispose(op.conn)
     \/ svc.session # op.conn /\ cache' = Drop(cache, Finally(op)) /\ UNCHANGED <<svc, lease>>
  /\ UNCHANGED <<channel, version, acked>>

\* A listing grows old or is evicted.
Expire(d) ==
  /\ cache[d] # Uncached /\ cache' = Drop(cache, {d})
  /\ UNCHANGED <<svc, lease, channel, ops, version, acked>>

\* The watcher reports a change below d: invalidateCacheTree(); below root it
\* is what refresh() does, too.
RemoteChange(d) ==
  /\ svc.watcher # 0 \/ d = "root"
  /\ cache' = Drop(cache, IF d = "root" THEN Dirs ELSE {d})
  /\ UNCHANGED <<svc, lease, channel, ops, version, acked>>

SftpNext ==
  \/ Connect \/ SshAnswers \/ SftpOpens \/ Disconnect \/ ConnectionCloses
  \/ \E n \in Conns : ChannelCloses(n)
  \/ StartWatching \/ StopWatching
  \/ \E kind \in Kinds : Begin(kind)
  \/ \E op \in ops : ServerActs(op) \/ OpSucceeds(op) \/ OpFails(op) \/ OpStalls(op)
  \/ \E d \in Dirs : Expire(d) \/ RemoteChange(d)

SftpSpec == SftpInit /\ [][SftpNext]_sftpVars

------------------------------------------------------------------------------
(* Properties                                                                 *)

\* "releases the pool lease rather than leaking it", and exactly once: of all
\* the connections, those of the session and of a connect() that opens its
\* channel are held, whatever events of older sessions arrive late.  The
\* watcher and the close listener are the session's, and its channel works.
LeaseOnce ==
  /\ SftpTypeOK
  /\ \A n \in Conns :
       /\ lease[n] # "twice"
       /\ lease[n] = "held" <=> n = svc.session \/ (n = svc.attempt /\ svc.pending = "sftp")
  /\ svc.watcher \in {0, svc.session} /\ svc.unsub = svc.session
  /\ svc.session # 0 => channel[svc.session] = "open"

Outdated(d) == cache[d] # Uncached /\ cache[d].tag < acked[d]

\* A cached listing shows every change whose success the service has reported,
\* unless the read that fetched it was under way at that moment, or a rename
\* has put another directory under its name.
ListingCurrent == \A d \in Dirs : Outdated(d) => cache[d].raced \/ cache[d].moved

\* Sessions, leases and listings agree with what the service has done.
SftpSound == LeaseOnce /\ ListingCurrent

\* The same of renamed directories.
RenameForgets == \A d \in Dirs : Outdated(d) => cache[d].raced

\* The same of reads that were under way when the listing was invalidated.
InvalidationLasts == \A d \in Dirs : Outdated(d) => cache[d].moved
==============================================================================
