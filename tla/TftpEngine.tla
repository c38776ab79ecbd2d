------------------------------ MODULE TftpEngine ------------------------------
(***************************************************************************)
(* tftp/engine/TftpEngine.ts around its sessions: the queue of start() and *)
(* stop(), the admission of requests across the file system's awaits, the  *)
(* queue of packets of each peer with its disk writes, and the             *)
(* finalization of sessions by packets, by the collector and by the user.  *)
(* What a session does with a packet is TftpTransfer.                      *)
(*                                                                         *)
(* A session is the number of its admission.  A write handle is a pair of  *)
(* the session that opened it and the open() call: "wx" when it was        *)
(* admitted, "a" in appendWrite().                                         *)
(***************************************************************************)
EXTENDS Naturals, Sequences, FiniteSets

CONSTANTS
  Peers,          \* source addresses with their ports
  MaxTransfers,   \* opts.maxTransfers
  NumSessions,    \* bound on the admissions
  MaxPackets,     \* bound on the packets queued for a peer
  MaxLifecycle    \* bound on the calls of start() and stop()

ASSUME EngineAssumption ==
  /\ IsFiniteSet(Peers) /\ Peers # {} /\ MaxTransfers \in Nat \ {0} /\ NumSessions \in Nat
  /\ MaxPackets \in Nat \ {0} /\ MaxLifecycle \in Nat

VARIABLES
  generation,     \* lifecycleGeneration
  accepting,      \* acceptingRequests
  socket,         \* "none", "binding", "bound"
  lifecycle,      \* operations of lifecycleQueue that have not ended, the first one runs
  stage,          \* where the first one is: "queued", or what it awaits
  asked,          \* the last operation asked for, and how many there were
  admission,      \* per session: its request
  pendingKeys,    \* pendingAdmissionKeys
  transfers,      \* peer -> session, 0 for none
  over,           \* sessions whose phase is Done or Error
  packets,        \* peerPacketTasks: peer -> packets, the first one runs
  step,           \* peer -> what the first packet awaits
  writeHandles,   \* peer -> handle
  opened,         \* handles open in the operating system
  finalizing,     \* peers
  cleanups,       \* calls of cleanup() that await a close
  announced       \* session -> number of transfer:complete and transfer:error

engVars == <<generation, accepting, socket, lifecycle, stage, asked, admission, pendingKeys, transfers,
             over, packets, step, writeHandles, opened, finalizing, cleanups, announced>>
lifeVars == <<generation, accepting, socket, lifecycle, stage, asked>>
admVars == <<admission, pendingKeys>>

Sessions == 1..NumSessions
NoHandle == <<0, "none">>
Unasked == [ph |-> "unused", peer |-> CHOOSE p \in Peers : TRUE, gen |-> 0, upload |-> FALSE]

EngInit ==
  /\ generation = 0 /\ accepting = FALSE /\ socket = "none"
  /\ lifecycle = << >> /\ stage = "idle" /\ asked = [kind |-> "stop", n |-> 0]
  /\ admission = [s \in Sessions |-> Unasked] /\ pendingKeys = {}
  /\ transfers = [p \in Peers |-> 0] /\ over = {}
  /\ packets = [p \in Peers |-> << >>] /\ step = [p \in Peers |-> "none"]
  /\ writeHandles = [p \in Peers |-> NoHandle] /\ opened = {}
  /\ finalizing = {} /\ cleanups = {} /\ announced = [s \in Sessions |-> 0]

------------------------------------------------------------------------------
(* start() and stop(), one at a time *)

\* Mutant: any operation under way answers for the new one.
JoinsAny(kind) == lifecycle # << >>

\* lastLifecycleOperation: a request of the kind asked last, still under way.
JoinsLast(kind) == lifecycle # << >> /\ lifecycle[Len(lifecycle)] = kind

AskLifecycle(kind) ==
  /\ asked.n < MaxLifecycle
  /\ asked' = [kind |-> kind, n |-> asked.n + 1]
  /\ lifecycle' = IF JoinsLast(kind) THEN lifecycle ELSE Append(lifecycle, kind)
  /\ stage' = IF lifecycle = << >> THEN "queued" ELSE stage
  /\ UNCHANGED <<generation, accepting, socket, admVars, transfers, over, packets, step,
                 writeHandles, opened, finalizing, cleanups, announced>>

\* The operation in front has ended; the next one may run.
Ended ==
  /\ lifecycle' = Tail(lifecycle)
  /\ stage' = IF Len(lifecycle) > 1 THEN "queued" ELSE "idle"

InFront(kind) == stage = "queued" /\ lifecycle[1] = kind

StartAgain ==
  /\ InFront("start") /\ accepting /\ socket # "none"
  /\ Ended
  /\ UNCHANGED <<generation, accepting, socket, asked, admVars, transfers, over, packets, step,
                 writeHandles, opened, finalizing, cleanups, announced>>

StartBinds ==
  /\ InFront("start") /\ ~(accepting /\ socket # "none")
  /\ generation' = generation + 1 /\ accepting' = FALSE /\ socket' = "binding"
  /\ stage' = "bind"
  /\ UNCHANGED <<lifecycle, asked, admVars, transfers, over, packets, step,
                 writeHandles, opened, finalizing, cleanups, announced>>

Bound ==
  /\ stage = "bind"
  /\ socket' = "bound" /\ accepting' = TRUE
  /\ Ended
  /\ UNCHANGED <<generation, asked, admVars, transfers, over, packets, step,
                 writeHandles, opened, finalizing, cleanups, announced>>

\* The port is taken; the caller of start() is told.
BindFails ==
  /\ stage = "bind"
  /\ socket' = "none" /\ asked' = [asked EXCEPT !.kind = IF Len(lifecycle) = 1 THEN "stop" ELSE @]
  /\ Ended
  /\ UNCHANGED <<generation, accepting, admVars, transfers, over, packets, step,
                 writeHandles, opened, finalizing, cleanups, announced>>

\* PathGuard refuses the root before anything is touched.
StartIgnored ==
  /\ InFront("start") /\ ~(accepting /\ socket # "none")
  /\ asked' = [asked EXCEPT !.kind = IF Len(lifecycle) = 1 THEN "stop" ELSE @]
  /\ Ended
  /\ UNCHANGED <<generation, accepting, socket, admVars, transfers, over, packets, step,
                 writeHandles, opened, finalizing, cleanups, announced>>

EngineStops ==
  /\ InFront("stop")
  /\ accepting' = FALSE /\ generation' = generation + 1 /\ socket' = "none"
  /\ stage' = "admissions"
  /\ UNCHANGED <<lifecycle, asked, admVars, transfers, over, packets, step,
                 writeHandles, opened, finalizing, cleanups, announced>>

Admitting == {s \in Sessions : admission[s].ph \in {"stat", "open", "produce"}}

\* Mutant: stop() forgets the packets that are being written.
StopAwaitsAdmissions == Admitting = {}

\* Promise.allSettled() of the admissions, then of the packet tails; nothing
\* joins either while the socket is closed.
StopAwaits == Admitting = {} /\ \A p \in Peers : packets[p] = << >>

StopClears ==
  /\ stage = "admissions" /\ StopAwaits
  /\ stage' = "handles"
  /\ transfers' = [p \in Peers |-> 0] /\ finalizing' = {}
  /\ UNCHANGED <<generation, accepting, socket, lifecycle, asked, admVars, over, packets, step,
                 writeHandles, opened, cleanups, announced>>

StopClosesHandles ==
  /\ stage = "handles"
  /\ opened' = opened \ {writeHandles[p] : p \in Peers}
  /\ writeHandles' = [p \in Peers |-> NoHandle]
  /\ pendingKeys' = {}
  /\ Ended
  /\ UNCHANGED <<generation, accepting, socket, asked, admission, transfers, over, packets, step,
                 finalizing, cleanups, announced>>

------------------------------------------------------------------------------
(* Admission *)

Registered == {p \in Peers : transfers[p] # 0}

\* Mutant: the limit counts only the sessions that are in the map.
RoomForRegistered == Cardinality(Registered) < MaxTransfers

RoomForOne == Cardinality(Registered) + Cardinality(pendingKeys) < MaxTransfers

\* A request of a peer without a session; beyond the limit it is refused.
NewRequest(p, up) ==
  /\ socket = "bound" /\ accepting
  /\ transfers[p] = 0 /\ p \notin pendingKeys
  /\ RoomForOne
  /\ \E s \in Sessions :
       /\ admission[s].ph = "unused" /\ \A r \in 1..(s - 1) : admission[r].ph # "unused"
       /\ admission' = [admission EXCEPT ![s] = [ph |-> "stat", peer |-> p, gen |-> generation, upload |-> up]]
  /\ pendingKeys' = pendingKeys \cup {p}
  /\ UNCHANGED <<lifeVars, transfers, over, packets, step, writeHandles, opened, finalizing, cleanups, announced>>

OwnsAdmission(s) == accepting /\ generation = admission[s].gen

\* The finally of handleNewRequest().
Settled(s, ph) ==
  /\ admission' = [admission EXCEPT ![s].ph = ph]
  /\ pendingKeys' = IF ph = "settled" THEN pendingKeys \ {admission[s].peer} ELSE pendingKeys

\* The file is missing, is refused or cannot be created; or the lifecycle is over.
AdmissionEnds(s) ==
  /\ admission[s].ph \in {"stat", "open", "produce"}
  /\ Settled(s, "settled")
  /\ UNCHANGED <<lifeVars, transfers, over, packets, step, writeHandles, opened, finalizing, cleanups, announced>>

DownloadAdmitted(s) ==
  /\ admission[s].ph = "stat" /\ ~admission[s].upload /\ OwnsAdmission(s)
  /\ transfers' = [transfers EXCEPT ![admission[s].peer] = s]
  /\ Settled(s, "produce")
  /\ UNCHANGED <<lifeVars, over, packets, step, writeHandles, opened, finalizing, cleanups, announced>>

UploadResolved(s) ==
  /\ admission[s].ph = "stat" /\ admission[s].upload /\ OwnsAdmission(s)
  /\ Settled(s, "open")
  /\ UNCHANGED <<lifeVars, transfers, over, packets, step, writeHandles, opened, finalizing, cleanups, announced>>

UploadAdmitted(s) ==
  LET p == admission[s].peer IN
  /\ admission[s].ph = "open" /\ OwnsAdmission(s)
  /\ writeHandles' = [writeHandles EXCEPT ![p] = <<s, "wx">>]
  /\ opened' = opened \cup {<<s, "wx">>}
  /\ transfers' = [transfers EXCEPT ![p] = s]
  /\ Settled(s, "settled")
  /\ UNCHANGED <<lifeVars, over, packets, step, finalizing, cleanups, announced>>

------------------------------------------------------------------------------
(* Finalization *)

Popped(p) ==
  /\ packets' = [packets EXCEPT ![p] = Tail(@)]
  /\ step' = [step EXCEPT ![p] = IF Len(packets[p]) > 1 THEN "queued" ELSE "none"]

Announce(s) == announced' = [announced EXCEPT ![s] = @ + 1]

\* An upload without a handle has nothing to await.
Immediate(p) == transfers[p] # 0 => admission[transfers[p]].upload /\ writeHandles[p] = NoHandle

\* cleanupDone() and cleanupErroneous() of a session, with the part of
\* cleanup() before its await: a download closes its file, an upload the
\* handle it finds under its key.
Finalize(s, p) ==
  \/ p \in finalizing /\ UNCHANGED <<transfers, writeHandles, finalizing, cleanups, announced>>
  \/ /\ p \notin finalizing /\ Immediate(p)
     /\ transfers' = [transfers EXCEPT ![p] = 0]
     /\ Announce(s)
     /\ UNCHANGED <<writeHandles, finalizing, cleanups>>
  \/ /\ p \notin finalizing /\ ~Immediate(p)
     /\ finalizing' = finalizing \cup {p}
     /\ LET h == IF admission[transfers[p]].upload THEN writeHandles[p] ELSE NoHandle IN
          /\ cleanups' = cleanups \cup {[s |-> s, peer |-> p, closes |-> h]}
          /\ writeHandles' = IF h = NoHandle THEN writeHandles ELSE [writeHandles EXCEPT ![p] = NoHandle]
     /\ UNCHANGED <<transfers, announced>>

\* close() waits for the operations under way on the handle.
InUse(h) == \E p \in Peers : step[p] = "write" /\ packets[p][1].h = h

\* The file of a download is closed; a handle left under its key is next.
FileClosed(c) ==
  /\ c.closes = NoHandle /\ writeHandles[c.peer] # NoHandle
  /\ cleanups' = (cleanups \ {c}) \cup {[c EXCEPT !.closes = writeHandles[c.peer]]}
  /\ writeHandles' = [writeHandles EXCEPT ![c.peer] = NoHandle]
  /\ UNCHANGED <<lifeVars, admVars, transfers, over, packets, step, opened, finalizing, announced>>

\* The await is over: the key leaves the maps, whoever uses it now.
CleanedUp(c) ==
  /\ ~InUse(c.closes) /\ (c.closes = NoHandle => writeHandles[c.peer] = NoHandle)
  /\ cleanups' = cleanups \ {c}
  /\ opened' = opened \ {c.closes}
  /\ transfers' = [transfers EXCEPT ![c.peer] = 0]
  /\ finalizing' = finalizing \ {c.peer}
  /\ Announce(c.s)
  /\ IF step[c.peer] = "cleanup" /\ packets[c.peer][1].s = c.s
       THEN Popped(c.peer) ELSE UNCHANGED <<packets, step>>
  /\ UNCHANGED <<lifeVars, admVars, over, writeHandles>>

\* gcTick() finds a session that is done, silent for too long or out of
\* retries; it does not change the phase.
Collect(p) ==
  /\ socket = "bound" /\ accepting
  /\ transfers[p] # 0 /\ p \notin finalizing
  /\ Finalize(transfers[p], p)
  /\ UNCHANGED <<lifeVars, admVars, over, packets, step, opened>>

CancelTransfer(p) ==
  /\ transfers[p] # 0 /\ p \notin finalizing
  /\ over' = over \cup {transfers[p]}
  /\ Finalize(transfers[p], p)
  /\ UNCHANGED <<lifeVars, admVars, packets, step, opened>>

------------------------------------------------------------------------------
(* Packets of a peer that has a session, one at a time *)

PacketArrives(p, kind) ==
  /\ socket = "bound" /\ transfers[p] # 0 /\ Len(packets[p]) < MaxPackets
  /\ kind = "data" => admission[transfers[p]].upload
  /\ packets' = [packets EXCEPT ![p] = Append(@, [s |-> transfers[p], kind |-> kind, h |-> NoHandle])]
  /\ step' = [step EXCEPT ![p] = IF packets[p] = << >> THEN "queued" ELSE @]
  /\ UNCHANGED <<lifeVars, admVars, transfers, over, writeHandles, opened, finalizing, cleanups, announced>>

First(p) == packets[p][1]

\* The session has been replaced or removed, or its phase ignores the packet.
PacketIgnored(p) ==
  /\ step[p] = "queued"
  /\ \/ transfers[p] # First(p).s
     \/ First(p).s \in over /\ First(p).kind # "error"
  /\ Popped(p)
  /\ UNCHANGED <<lifeVars, admVars, transfers, over, writeHandles, opened, finalizing, cleanups, announced>>

Routes(p) == step[p] = "queued" /\ transfers[p] = First(p).s /\ (First(p).kind = "error" \/ First(p).s \notin over)

\* The packet ends the session: routeExisting() awaits the finalization.
EndsSession(p) ==
  /\ Finalize(First(p).s, p)
  /\ IF p \in finalizing \/ Immediate(p) THEN Popped(p)
     ELSE step' = [step EXCEPT ![p] = "cleanup"] /\ UNCHANGED packets

\* An ERROR of the client, or the last ACK of a download.
PacketEnds(p) ==
  /\ Routes(p) /\ (First(p).kind = "error" \/ (First(p).kind = "last" /\ ~admission[First(p).s].upload))
  /\ over' = IF First(p).kind = "last" THEN over \cup {First(p).s} ELSE over
  /\ EndsSession(p)
  /\ UNCHANGED <<lifeVars, admVars, opened>>

Writing(p, h) == packets' = [packets EXCEPT ![p][1].h = h]

\* handleDATA() accepts the block; appendWrite() finds its handle or opens one.
DataAccepted(p) ==
  /\ Routes(p) /\ First(p).kind # "error" /\ admission[First(p).s].upload
  /\ over' = IF First(p).kind = "last" THEN over \cup {First(p).s} ELSE over
  /\ IF writeHandles[p] = NoHandle
       THEN step' = [step EXCEPT ![p] = "open"] /\ UNCHANGED packets
       ELSE step' = [step EXCEPT ![p] = "write"] /\ Writing(p, writeHandles[p])
  /\ UNCHANGED <<lifeVars, admVars, transfers, writeHandles, opened, finalizing, cleanups, announced>>

Reopened(p) ==
  LET h == <<First(p).s, "a">> IN
  /\ step[p] = "open"
  /\ writeHandles' = [writeHandles EXCEPT ![p] = h] /\ opened' = opened \cup {h}
  /\ step' = [step EXCEPT ![p] = "write"] /\ Writing(p, h)
  /\ UNCHANGED <<lifeVars, admVars, transfers, over, finalizing, cleanups, announced>>

DataWritten(p) ==
  /\ step[p] = "write"
  /\ IF First(p).kind = "last" THEN EndsSession(p)
     ELSE Popped(p) /\ UNCHANGED <<transfers, writeHandles, finalizing, cleanups, announced>>
  /\ UNCHANGED <<lifeVars, admVars, over, opened>>

AppendFails(p) ==
  /\ step[p] \in {"open", "write"}
  /\ EndsSession(p)
  /\ UNCHANGED <<lifeVars, admVars, over, opened>>

------------------------------------------------------------------------------
Lifecycle == StartAgain \/ StartBinds \/ StartIgnored \/ Bound \/ BindFails \/ EngineStops \/ StopClears \/ StopClosesHandles

Resolves(s) == AdmissionEnds(s) \/ DownloadAdmitted(s) \/ UploadResolved(s) \/ UploadAdmitted(s)

Handles(p) == PacketIgnored(p) \/ PacketEnds(p) \/ DataAccepted(p) \/ Reopened(p) \/ DataWritten(p) \/ AppendFails(p)

EngNext ==
  \/ \E kind \in {"start", "stop"} : AskLifecycle(kind)
  \/ Lifecycle
  \/ \E p \in Peers, up \in BOOLEAN : NewRequest(p, up)
  \/ \E s \in Sessions : Resolves(s)
  \/ \E p \in Peers, kind \in {"data", "last", "error"} : PacketArrives(p, kind)
  \/ \E p \in Peers : Collect(p) \/ CancelTransfer(p) \/ Handles(p)
  \/ \E c \in cleanups : FileClosed(c) \/ CleanedUp(c)

EngSpec == EngInit /\ [][EngNext]_engVars

------------------------------------------------------------------------------
FileHandles == {NoHandle} \cup (Sessions \X {"wx", "a"})
Requests == [ph : {"unused", "stat", "open", "produce", "settled"}, peer : Peers, gen : Nat, upload : BOOLEAN]
Packets == [s : Sessions, kind : {"data", "last", "error"}, h : FileHandles]
Cleanups == [s : Sessions, peer : Peers, closes : FileHandles]

\* The queue of a peer and what its first packet does.
QueueOK(q, st) ==
  /\ q \in Seq(Packets) /\ Len(q) <= MaxPackets
  /\ st \in {"none", "queued", "open", "write", "cleanup"} /\ (st = "none" <=> q = << >>)

EngTypeOK ==
  /\ generation \in Nat /\ accepting \in BOOLEAN /\ socket \in {"none", "binding", "bound"}
  /\ lifecycle \in Seq({"start", "stop"}) /\ stage \in {"idle", "queued", "bind", "admissions", "handles"}
  /\ asked \in [kind : {"start", "stop"}, n : 0..MaxLifecycle]
  /\ admission \in [Sessions -> Requests] /\ pendingKeys \subseteq Peers
  /\ transfers \in [Peers -> 0..NumSessions] /\ over \subseteq Sessions
  /\ DOMAIN packets = Peers /\ DOMAIN step = Peers /\ \A p \in Peers : QueueOK(packets[p], step[p])
  /\ writeHandles \in [Peers -> FileHandles] /\ opened \subseteq FileHandles
  /\ finalizing \subseteq Peers /\ cleanups \subseteq Cleanups /\ announced \in [Sessions -> Nat]

(* A burst of requests never takes more than maxTransfers sessions, counting *)
(* those whose admission still crosses the file system; the maps and the     *)
(* packet queues of the sessions stay consistent.                            *)
AdmissionBound == EngTypeOK /\ Cardinality(Registered \cup pendingKeys) <= MaxTransfers

(* stop() leaves nothing behind: once it has ended and until the next start  *)
(* no session, no reservation and no write handle is held, although          *)
(* admissions and disk writes were under way when it was called.             *)
StopLeavesNothing ==
  socket = "none" /\ stage = "idle" =>
    /\ Registered = {} /\ pendingKeys = {} /\ finalizing \subseteq {c.peer : c \in cleanups}
    /\ \A p \in Peers : writeHandles[p] = NoHandle /\ packets[p] = << >>

(* When the queue has drained the engine is in the state that was asked for  *)
(* last, however start() and stop() were interleaved and joined.             *)
LastRequestWins == stage = "idle" => (accepting <=> asked.kind = "start")

(* The engine through any order of requests, packets, start() and stop():    *)
(* it keeps its limit, stops completely and ends as it was last told.        *)
EngineSound == AdmissionBound /\ StopLeavesNothing /\ LastRequestWins

(* The finalizing set is there so that no transfer emits transfer:complete   *)
(* or transfer:error twice.                                                  *)
AnnouncedOnce == \A s \in Sessions : announced[s] <= 1
==============================================================================
