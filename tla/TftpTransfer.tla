---------------------------- MODULE TftpTransfer ----------------------------
(***************************************************************************)
(* services/networkServers/tftp/engine: one TransferSession, the routing   *)
(* and the GC tick of TftpEngine that drive it, a client that follows      *)
(* RFC 1350 and RFC 7440, and a UDP path that loses, duplicates, swaps and *)
(* delays datagrams.                                                       *)
(*                                                                         *)
(* A behaviour starts after the admission of the request, with the first   *)
(* answer on its way.  Packets of one peer are serialised by               *)
(* enqueueExistingPacket(), so the handling of a packet, with its file     *)
(* access, is one step.  The file has FileBlocks blocks and block i        *)
(* carries the value i; only the last is shorter than blksize.  Times are  *)
(* in seconds and pass in steps of the GC interval; while no fault delays  *)
(* them, datagrams travel faster than that.                                *)
(***************************************************************************)
EXTENDS Integers, Sequences

CONSTANTS
  Transfers,    \* the requests considered, each with the blocks of its file
  BlockSpace,   \* BLOCK_SPACE
  MaxQueue,     \* MAX_RETRANSMISSION_PACKETS
  MaxRetries,   \* DEFAULT_MAX_RETRIES
  Timeout,      \* timeoutMs
  GcInterval,   \* gcIntervalMs
  MaxBackoff,   \* the cap of the exponential backoff
  MaxFaults     \* bound on the faults of the path

ASSUME TftpAssumption ==
  /\ Transfers \subseteq [op : {"RRQ", "WRQ"}, options : BOOLEAN, window : Nat \ {0}, swaps : BOOLEAN, blocks : Nat \ {0}]
  /\ \A r \in Transfers : /\ r.window > 1 => r.options
                          /\ r.window <= MaxQueue
                          /\ 2 * r.window + 2 < BlockSpace
  /\ BlockSpace \in Nat /\ MaxQueue \in Nat
  /\ {MaxRetries, Timeout, GcInterval, MaxBackoff, MaxFaults} \subseteq Nat

VARIABLES
  req,      \* opcode, presence of options, windowsize; whether the path swaps datagrams;
            \* the blocks of the file
  ses,      \* the TransferSession
  outcome,  \* "open" while the engine has the session, then the event it emitted
  client,   \* the client: blocks it has, or has had acknowledged, and blocks it sent
  file,     \* what the receiving side has stored
  up, down, \* datagrams on their way to the server and to the client
  faults,   \* faults of the path so far
  excused   \* history: the transfer was cut short by the client, the operator or the
            \* disk, or ended by an ACK that confirms no block

vars == <<req, ses, outcome, client, file, up, down, faults, excused>>

FileBlocks == req.blocks

OACK   == [op |-> "OACK", num |-> 0, value |-> 0]
ERROR  == [op |-> "ERROR", num |-> 0, value |-> 0]
ACK(k) == [op |-> "ACK", num |-> k, value |-> 0]
DATA(k, i) == [op |-> "DATA", num |-> k, value |-> i]

Packet == [op : {"OACK", "ERROR", "ACK", "DATA"}, num : 0..(BlockSpace - 1), value : 0..FileBlocks]

Session == [phase     : {"SendOACK", "Sending", "SentLast", "RecvInitialACK", "Receiving", "Error", "Done"},
            blockNum  : 0..(BlockSpace - 1),
            lastAcked : 0..(BlockSpace - 1),
            offset    : 0..FileBlocks,
            queue     : Seq(Packet),
            retries   : Nat,
            idle      : Nat,    \* time since lastActivity
            quiet     : Nat,    \* time since outboundSentLast
            backoff   : Nat]    \* retxBackoffMs

------------------------------------------------------------------------------
(* Block numbers. *)

BlockDistance(from, to) == (to - from + BlockSpace) % BlockSpace

BlockAtOrAfter(earlier, later) == BlockDistance(earlier, later) < BlockSpace \div 2

NextBlock(b) == IF b >= BlockSpace - 1 THEN 1 ELSE b + 1

\* Mutant: the plain predecessor.
PlainPrevious(b) == b - 1

PreviousBlock(b) == IF b <= 1 THEN BlockSpace - 1 ELSE b - 1

\* The wire number of the i-th block, as both ends count it.
Number(i) == IF i = 0 THEN 0 ELSE ((i - 1) % (BlockSpace - 1)) + 1

------------------------------------------------------------------------------
(* TransferSession: operations on a session s. *)

\* touch() and the reset of the retries that always follows it.
Touch(s) == [s EXCEPT !.idle = 0, !.backoff = Timeout, !.retries = 0]

\* Mutant: the queue is not capped.
NewestAll(q) == q

Newest(q) == IF Len(q) > MaxQueue THEN SubSeq(q, Len(q) - MaxQueue + 1, Len(q)) ELSE q

\* recordOutbound(), called by sendForTransfer() when there is something to send.
Record(s, pkts) ==
  IF pkts = <<>> THEN s ELSE [s EXCEPT !.queue = Newest(@ \o pkts), !.quiet = 0]

\* Mutant: block numbers are compared as numbers.
ConfirmsPlain(k, p) == p.op \in {"OACK", "ERROR"} \/ (k # 0 /\ p.num <= k)

Confirms(k, p) == p.op \in {"OACK", "ERROR"} \/ (k # 0 /\ BlockAtOrAfter(p.num, k))

\* clearOutboundUpToAck()
Clear(s, k) ==
  LET q    == s.queue
      kept == {i \in 1..Len(q) : ~Confirms(k, q[i])}
      rest == IF kept = {} THEN <<>>
              ELSE SubSeq(q, CHOOSE i \in kept : \A j \in kept : i <= j, Len(q))
  IN [s EXCEPT !.queue = rest, !.backoff = Timeout]

\* Mutant: one block more than the window.
HasRoomForOneMore(s, b) == BlockDistance(s.lastAcked, b) <= req.window

\* The loop of produceNextSendPackets() goes on after block b.
HasRoom(s, b) == BlockDistance(s.lastAcked, b) < req.window

\* produceNextSendPackets(): the session after it and the packets it returns.
Produce(s) ==
  LET left == FileBlocks - s.offset
      num[j \in 0..left] == IF j = 0 THEN s.blockNum ELSE NextBlock(num[j - 1])
      stops == {j \in 0..left : j = left \/ ~HasRoom(s, num[j])}
      n == CHOOSE j \in stops : \A i \in stops : j <= i
  IN [s    |-> [s EXCEPT !.blockNum = num[n], !.offset = @ + n,
                         !.phase = IF n = left THEN "SentLast" ELSE @],
      pkts |-> [j \in 1..n |-> DATA(num[j], s.offset + j)]]

\* initForRRQ() and initForWRQ()
Fresh == [phase |-> IF req.options THEN "SendOACK"
                    ELSE IF req.op = "RRQ" THEN "Sending" ELSE "RecvInitialACK",
          blockNum |-> IF req.op = "RRQ" THEN 0 ELSE 1,
          lastAcked |-> 0, offset |-> 0, queue |-> <<>>,
          retries |-> 0, idle |-> 0, quiet |-> 0, backoff |-> Timeout]

\* What admitNewRequest() sends once the session is registered.
FirstAnswer ==
  CASE req.options                      -> [s |-> Fresh, pkts |-> <<OACK>>]
    [] req.op = "RRQ" /\ ~req.options   -> Produce(Fresh)
    [] req.op = "WRQ" /\ ~req.options   -> [s |-> Fresh, pkts |-> <<ACK(0)>>]

Init ==
  /\ req \in Transfers
  /\ ses = Record(FirstAnswer.s, FirstAnswer.pkts)
  /\ down = FirstAnswer.pkts /\ up = <<>>
  /\ outcome = "open"
  /\ client = [alive |-> TRUE, greeted |-> FALSE, blocks |-> 0, acked |-> 0, sent |-> 0]
  /\ file = <<>>
  /\ faults = 0
  /\ excused = FALSE

\* The engine takes the next datagram of the peer, whose session it has.
Takes(op) == outcome = "open" /\ up # <<>> /\ Head(up).op = op /\ up' = Tail(up)

\* sendForTransfer(): record, then send.
Send(s, pkts) == ses' = Record(s, pkts) /\ down' = down \o pkts

------------------------------------------------------------------------------
(* An ACK arrives: handleACK() and the ACK case of routeExisting(). *)

\* The client confirms the OACK.
OptionsAcked ==
  /\ Takes("ACK") /\ ses.phase = "SendOACK" /\ Head(up).num = 0
  /\ LET s == Clear(Touch(ses), 0) IN
     \/ req.op = "RRQ" /\ LET p == Produce([s EXCEPT !.phase = "Sending"]) IN Send(p.s, p.pkts)
     \/ req.op = "WRQ" /\ Send([s EXCEPT !.phase = "Receiving"], <<>>)
  /\ UNCHANGED <<req, outcome, client, file, faults, excused>>

Advances(s, k) == BlockAtOrAfter(s.lastAcked, k)

\* An ACK moves the window and the next blocks are sent.
WindowAcked ==
  LET k == Head(up).num
      s == [Clear(Touch(ses), k) EXCEPT !.lastAcked = k]
      p == Produce(s) IN
  /\ Takes("ACK") /\ ses.phase = "Sending" /\ Advances(ses, k)
  /\ IF HasRoom(s, s.blockNum) THEN Send(p.s, p.pkts) ELSE Send(s, <<>>)
  /\ UNCHANGED <<req, outcome, client, file, faults, excused>>

\* An old ACK only proves that the client is there.
StaleAck ==
  /\ Takes("ACK") /\ ses.phase = "Sending" /\ ~Advances(ses, Head(up).num)
  /\ Send(Clear(Touch(ses), Head(up).num), <<>>)
  /\ UNCHANGED <<req, outcome, client, file, faults, excused>>

\* Mutant: any ACK ends the transfer.
EndsOnAny(s, k) == TRUE

Ends(s, k) == k = s.blockNum \/ k = 0

\* The transfer is over: cleanupDone() announces it and forgets the session.
LastAcked ==
  /\ Takes("ACK") /\ ses.phase = "SentLast" /\ Ends(ses, Head(up).num)
  /\ Send([Clear(Touch(ses), Head(up).num) EXCEPT !.phase = "Done"], <<>>)
  /\ outcome' = "complete" /\ excused' = (excused \/ Head(up).num = 0)
  /\ UNCHANGED <<req, client, file, faults>>

PartlyAcked ==
  /\ Takes("ACK") /\ ses.phase = "SentLast" /\ ~Ends(ses, Head(up).num)
  /\ Send(Clear(Touch(ses), Head(up).num), <<>>)
  /\ UNCHANGED <<req, outcome, client, file, faults, excused>>

\* An ACK for an upload that is under way.
StrayAck ==
  /\ Takes("ACK") /\ ses.phase \in {"RecvInitialACK", "Receiving"}
  /\ Send(Touch(ses), <<>>)
  /\ UNCHANGED <<req, outcome, client, file, faults, excused>>

------------------------------------------------------------------------------
(* DATA arrives: handleDATA() and the DATA case of routeExisting(). *)

\* The session once the first DATA packet ends the negotiation.
Opened ==
  IF ses.phase = "SendOACK" THEN [Clear(ses, 0) EXCEPT !.phase = "Receiving"]
  ELSE [ses EXCEPT !.phase = "Receiving"]

TakesData(k) ==
  /\ Takes("DATA") /\ k = Head(up).num
  /\ req.op = "WRQ"
  /\ ses.phase \in {"RecvInitialACK", "Receiving"} \/ (ses.phase = "SendOACK" /\ k = 1)

AckDue(s, k) == BlockDistance(s.lastAcked, k) >= req.window

\* handleDATA() accepts block k, the last one or not; the ACKs it returns.
Accepted(s, k, last) ==
  LET t == [Touch(s) EXCEPT !.blockNum = IF last THEN @ ELSE NextBlock(@)] IN
  IF last \/ AckDue(s, k)
  THEN [Clear(t, k) EXCEPT !.lastAcked = k, !.phase = IF last THEN "Done" ELSE @]
  ELSE t

AcksFor(s, k, last) == IF last \/ AckDue(s, k) THEN <<ACK(k)>> ELSE <<>>

\* Mutant: every block is taken for the expected one.
ExpectsAny(k) == TRUE

Expects(k) == k = ses.blockNum

\* The expected block is written and, at the end of a window, acknowledged.
DataArrives ==
  \E k \in 0..(BlockSpace - 1) :
    LET last == Head(up).value = FileBlocks IN
    /\ TakesData(k) /\ Expects(k)
    /\ file' = Append(file, Head(up).value)
    /\ Send(Accepted(Opened, k, last), AcksFor(ses, k, last))
    /\ outcome' = IF last THEN "complete" ELSE outcome
    /\ UNCHANGED <<req, client, faults, excused>>

\* The write fails: writeFailedCleanup() sends ERROR and announces the failure.
WriteFails ==
  \E k \in 0..(BlockSpace - 1) :
    LET last == Head(up).value = FileBlocks IN
    /\ TakesData(k) /\ Expects(k)
    /\ ses' = Accepted(Opened, k, last)
    /\ down' = Append(down, ERROR)
    /\ outcome' = "error" /\ excused' = TRUE
    /\ UNCHANGED <<req, client, file, faults>>

\* The previous block again: its ACK was lost or is late.
DataRepeated ==
  \E k \in 0..(BlockSpace - 1) :
    /\ TakesData(k) /\ ~Expects(k) /\ k = PreviousBlock(ses.blockNum)
    /\ Send(Touch(Opened), <<ACK(k)>>)
    /\ UNCHANGED <<req, outcome, client, file, faults, excused>>

\* Any other block: setError(), ERROR, and cleanupDone() because done is set.
DataUnexpected ==
  \E k \in 0..(BlockSpace - 1) :
    /\ TakesData(k) /\ ~Expects(k) /\ k # PreviousBlock(ses.blockNum)
    /\ Send([Opened EXCEPT !.phase = "Error"], <<ERROR>>)
    /\ outcome' = "complete"
    /\ UNCHANGED <<req, client, file, faults, excused>>

\* handleDATA() ignores DATA while it waits for something else.
DataIgnored ==
  /\ Takes("DATA")
  /\ req.op = "RRQ" \/ (ses.phase = "SendOACK" /\ Head(up).num # 1)
  /\ UNCHANGED <<req, ses, outcome, client, file, down, faults, excused>>

------------------------------------------------------------------------------
(* The ends of a transfer that the protocol did not bring about. *)

\* The client reports an error.
ErrorArrives ==
  /\ Takes("ERROR")
  /\ outcome' = "error"
  /\ UNCHANGED <<req, ses, client, file, down, faults, excused>>

\* The engine knows no session of this peer.
UnknownTransfer ==
  /\ outcome # "open" /\ up # <<>>
  /\ up' = Tail(up)
  /\ down' = Append(down, ERROR)
  /\ UNCHANGED <<req, ses, outcome, client, file, faults, excused>>

CancelTransfer ==
  /\ outcome = "open"
  /\ ses' = [ses EXCEPT !.phase = "Error"]
  /\ down' = Append(down, ERROR)
  /\ outcome' = "error" /\ excused' = TRUE
  /\ UNCHANGED <<req, client, file, up, faults>>

------------------------------------------------------------------------------
(* gcTick() *)

RetransmissionDue(s) == s.queue # <<>> /\ s.quiet >= s.backoff

IsTimedOut(s) == s.idle > Timeout * (s.retries + 1)

Least(a, b) == IF a <= b THEN a ELSE b

\* The session when d seconds have passed; times beyond every limit are equal.
Later(s, d) == [s EXCEPT !.idle = Least(@ + d, Timeout * (MaxRetries + 2)),
                         !.quiet = Least(@ + d, MaxBackoff)]

ClientFinished == client.blocks = FileBlocks

CanRepeat == client.alive /\ ~ClientFinished /\ (client.greeted \/ client.blocks > 0)

\* Mutant: start() does not arm the interval of gcTick().
TicksUnarmed == FALSE

\* Nothing is under way, and a client that has something to repeat does so
\* before the server's timeout.
Ticks ==
  /\ outcome = "open" /\ up = <<>> /\ down = <<>>
  /\ CanRepeat => ses.idle + GcInterval <= Timeout

GcWaits ==
  LET s == Later(ses, GcInterval) IN
  /\ Ticks /\ ~RetransmissionDue(s) /\ ~IsTimedOut(s)
  /\ ses' = s
  /\ UNCHANGED <<req, outcome, client, file, up, down, faults, excused>>

\* consumeRetransmission() on a session whose time is up: the packets are sent
\* again, or the session fails when it has no attempt left.
Retransmit(s) ==
  IF s.retries >= MaxRetries
  THEN /\ ses' = [s EXCEPT !.retries = @ + 1, !.phase = "Error"]
       /\ outcome' = "error"
       /\ UNCHANGED down
  ELSE /\ ses' = [s EXCEPT !.retries = @ + 1, !.backoff = Least(2 * @, MaxBackoff),
                           !.quiet = 0, !.idle = 0]
       /\ down' = down \o s.queue
       /\ UNCHANGED outcome

GcRetransmits ==
  LET s == Later(ses, GcInterval) IN
  /\ Ticks /\ RetransmissionDue(s)
  /\ Retransmit(s)
  /\ UNCHANGED <<req, client, file, up, faults, excused>>

GcTimesOut ==
  LET s == Later(ses, GcInterval) IN
  /\ Ticks /\ ~RetransmissionDue(s) /\ IsTimedOut(s)
  /\ ses' = s
  /\ outcome' = "error"
  /\ UNCHANGED <<req, client, file, up, down, faults, excused>>

------------------------------------------------------------------------------
(***************************************************************************)
(* The client, external to the repository.  A reader acknowledges at the   *)
(* end of a window and whenever a block is not the one it expects; a       *)
(* writer sends a window from the last acknowledged block.  Both repeat    *)
(* their last datagrams after a timeout.                                   *)
(***************************************************************************)
Hears(op) == client.alive /\ down # <<>> /\ Head(down).op = op /\ down' = Tail(down)

Window(base) == base + req.window

\* The DATA packets of a writer whose first `base` blocks are acknowledged.
Burst(base) ==
  LET n == Least(req.window, FileBlocks - base) IN
  [j \in 1..n |-> DATA(Number(base + j), base + j)]

\* The OACK, or the ACK(0) of a plain upload.  Some writers confirm the OACK.
ClientGreeted ==
  /\ \/ Hears("OACK")
     \/ req.op = "WRQ" /\ Hears("ACK") /\ Head(down).num = 0 /\ ~req.options
  /\ IF req.op = "RRQ"
     THEN /\ up' = IF client.blocks = 0 THEN Append(up, ACK(0)) ELSE up
          /\ client' = [client EXCEPT !.greeted = TRUE]
     ELSE IF client.greeted THEN UNCHANGED <<up, client>>
     ELSE /\ \/ up' = up \o Burst(0)
             \/ req.options /\ up' = up \o <<ACK(0)>> \o Burst(0)
          /\ client' = [client EXCEPT !.greeted = TRUE, !.sent = Len(Burst(0))]
  /\ UNCHANGED <<req, ses, outcome, file, faults, excused>>

\* A reader gets DATA.
ClientReads ==
  LET p    == Head(down)
      i    == client.blocks + 1
      good == i <= FileBlocks /\ p.num = Number(i)
      got  == IF good THEN i ELSE client.blocks
      acks == ~good \/ got = FileBlocks \/ got >= Window(client.acked) IN
  /\ Hears("DATA")
  /\ file' = IF good THEN Append(file, p.value) ELSE file
  /\ up' = IF acks THEN Append(up, ACK(Number(got))) ELSE up
  /\ client' = [client EXCEPT !.blocks = got, !.acked = IF acks THEN got ELSE @]
  /\ UNCHANGED <<req, ses, outcome, faults, excused>>

\* A writer gets an ACK and slides, or ignores one it already had.
ClientSlides ==
  LET k == Head(down).num
      hit == {i \in (client.blocks + 1)..client.sent : Number(i) = k} IN
  /\ req.op = "WRQ" /\ Hears("ACK") /\ client.greeted
  /\ \/ \E i \in hit :
          /\ up' = up \o Burst(i)
          /\ client' = [client EXCEPT !.blocks = i, !.sent = i + Len(Burst(i))]
     \/ hit = {} /\ UNCHANGED <<up, client>>
  /\ UNCHANGED <<req, ses, outcome, file, faults, excused>>

\* After a timeout the last ACK, or the unacknowledged window, is sent again.
ClientRepeats ==
  /\ CanRepeat /\ up = <<>> /\ down = <<>>
  /\ up' = IF req.op = "RRQ" THEN <<ACK(Number(client.blocks))>> ELSE Burst(client.blocks)
  /\ client' = [client EXCEPT !.acked = client.blocks]
  /\ UNCHANGED <<req, ses, outcome, file, down, faults, excused>>

ClientHearsError ==
  /\ Hears("ERROR")
  /\ client' = [client EXCEPT !.alive = ClientFinished]
  /\ UNCHANGED <<req, ses, outcome, file, up, faults, excused>>

\* The client goes away, with or without a word.
ClientStops ==
  /\ client.alive /\ ~ClientFinished
  /\ client' = [client EXCEPT !.alive = FALSE]
  /\ up' \in {up, Append(up, ERROR)}
  /\ excused' = TRUE
  /\ UNCHANGED <<req, ses, outcome, file, down, faults>>

------------------------------------------------------------------------------
(* The path. *)

Without(q, i) == SubSeq(q, 1, i - 1) \o SubSeq(q, i + 1, Len(q))
Swapped(q)    == <<q[2], q[1]>> \o SubSeq(q, 3, Len(q))
Doubled(q)    == <<Head(q)>> \o q

Damaged(q) ==
  {Without(q, i) : i \in 1..Len(q)}
    \cup (IF q # <<>> THEN {Doubled(q)} ELSE {})
    \cup (IF req.swaps /\ Len(q) > 1 THEN {Swapped(q)} ELSE {})

Fault ==
  /\ outcome = "open" /\ faults < MaxFaults
  /\ faults' = faults + 1
  /\ \/ up' \in Damaged(up) /\ UNCHANGED down
     \/ down' \in Damaged(down) /\ UNCHANGED up
  /\ UNCHANGED <<req, ses, outcome, client, file, excused>>

\* Datagrams are so late that the server's timer fires first.
Delay ==
  /\ outcome = "open" /\ faults < MaxFaults /\ up \o down # <<>> /\ ses.queue # <<>>
  /\ faults' = faults + 1
  /\ Retransmit(Later(ses, ses.backoff))
  /\ UNCHANGED <<req, client, file, up, excused>>

\* Nobody listens any more.
Lost ==
  /\ ~client.alive /\ down # <<>>
  /\ down' = Tail(down)
  /\ UNCHANGED <<req, ses, outcome, client, file, up, faults, excused>>

Server ==
  \/ OptionsAcked \/ WindowAcked \/ StaleAck \/ LastAcked \/ PartlyAcked \/ StrayAck
  \/ DataArrives \/ DataRepeated \/ DataUnexpected \/ DataIgnored
  \/ ErrorArrives \/ UnknownTransfer

Gc == GcWaits \/ GcRetransmits \/ GcTimesOut

Client == ClientGreeted \/ ClientReads \/ ClientSlides \/ ClientHearsError

Next == Server \/ Gc \/ WriteFails \/ CancelTransfer
          \/ Client \/ ClientRepeats \/ ClientStops \/ Fault \/ Delay \/ Lost

(***************************************************************************)
(* The event loop handles every datagram, the GC interval fires whatever   *)
(* arrives in between, and the path delivers what it does not lose.        *)
(***************************************************************************)
Fairness == WF_vars(Server) /\ SF_vars(Gc) /\ WF_vars(Client) /\ WF_vars(ClientRepeats) /\ WF_vars(Lost)

Spec == Init /\ [][Next]_vars /\ Fairness

------------------------------------------------------------------------------
TypeOK ==
  /\ req \in Transfers
  /\ ses \in Session
  /\ Len(ses.queue) <= MaxQueue
  /\ outcome \in {"open", "complete", "error"}
  /\ client \in [alive : BOOLEAN, greeted : BOOLEAN, blocks : 0..FileBlocks, acked : 0..FileBlocks,
                 sent : 0..FileBlocks]
  /\ file \in Seq(1..FileBlocks)
  /\ up \in Seq(Packet) /\ down \in Seq(Packet)
  /\ faults \in 0..MaxFaults
  /\ excused \in BOOLEAN

\* The receiver stores the blocks of the file in order, each once, also when
\* the numbers wrap and whatever is lost, repeated or late: blocks are told
\* apart by 16-bit numbers alone.
FileInOrder == \A i \in 1..Len(file) : file[i] = i

\* produceNextSendPackets() never has more blocks under way than the
\* negotiated window, nor does the wrap let it run ahead.
WindowRespected == req.op = "RRQ" => ses.offset <= client.blocks + req.window

\* What the client may still miss is in the retransmission queue, so that any
\* loss can be repaired: every block sent after the last one confirmed.
QueueHoldsMissing ==
  (req.op = "RRQ" /\ outcome = "open") =>
    \A i \in (client.blocks + 1)..ses.offset :
      \E j \in 1..Len(ses.queue) : ses.queue[j] = DATA(Number(i), i)

\* A download can always be repaired: the window bounds what is under way, and
\* what the client may miss is at hand, also across the wrap.
Repairable == WindowRespected /\ QueueHoldsMissing

\* Either way the file arrives in order, and can arrive completely.
FileIntact == TypeOK /\ FileInOrder /\ Repairable

\* The uploads whose recovery the code supports: handleDATA() fails a session
\* on any block but the expected and the previous one.
Supported == req.op = "RRQ" \/ (req.window = 1 /\ ~req.swaps)

\* Faults of the path alone do not make the server abandon a transfer.
NoFalseAbort == (Supported /\ ~excused) => ses.phase # "Error" /\ outcome # "error"

\* A supported transfer is announced as complete only when the receiver has the
\* whole file.  handleACK() takes an ACK(0) for the final one as well: the one
\* that confirmed the options, repeated and late.  That case is left out.
CompleteIsWhole == (outcome = "complete" /\ Supported /\ ~excused) => Len(file) = FileBlocks

\* The announced outcome is true: no fault of the path alone ends a supported
\* transfer with an error, nor with a success that did not happen.
HonestOutcome == NoFalseAbort /\ CompleteIsWhole

\* "SentLast: last DATA sent, waiting for final ACK" (TransferSession.ts:16),
\* and cleanupDone() "finalizes a session successfully" (TftpEngine.ts:1025):
\* a transfer announced as complete has delivered the whole file.
CompleteMeansDelivered == outcome = "complete" => Len(file) = FileBlocks

\* The inactivity limit "ensures we give enough time for all scheduled retx
\* before declaring the peer dead" (TransferSession.ts:274-275): a download
\* with blocks to repeat is given up only after all its retransmissions.
AllRetriesUsed ==
  [][(req.op = "RRQ" /\ outcome = "open" /\ outcome' = "error" /\ up = <<>> /\ ses'.phase # "Error")
       => ses'.retries >= MaxRetries]_vars

\* Every transfer ends and is announced, also when the client has gone.
TransferEnds == <>(outcome # "open")
==============================================================================
