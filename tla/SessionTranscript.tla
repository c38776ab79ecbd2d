-------------------------- MODULE SessionTranscript --------------------------
(* FileSessionTranscript: one session's output on its way to a rotating file. *)
(* A unit of text stands for a character, and carries the number of the write *)
(* it came with and its place in it.  The file system is external: an open, a *)
(* write or a rename may fail, and a write may fail after a part of it.       *)
EXTENDS Naturals, Sequences, SequencesExt, FiniteSets

CONSTANTS MaxFile,      \* rotation.maxFileSizeBytes
          MaxRotated,   \* rotation.maxRotatedFiles
          MaxAppend,    \* MAX_APPEND_BYTES
          MaxRetained,  \* maxRetainedBytes
          CloseRetries, \* the number of CLOSE_RETRY_DELAYS_MS
          ChunkSizes,   \* how much a write may bring
          MaxChunks,    \* bound: writes, the header and the footer included
          MaxFaults,    \* bound: failures of the file system
          MaxChain      \* bound: links of flushChain that have not run

\* normalizeRetainedCap() replaces a cap below one append.
ASSUME TranscriptAssumption ==
  /\ {MaxFile, MaxAppend} \cup ChunkSizes \subseteq Nat \ {0}
  /\ {MaxRotated, MaxRetained, CloseRetries, MaxChunks, MaxFaults, MaxChain} \subseteq Nat
  /\ MaxRetained >= MaxAppend

VARIABLES tr,     \* the fields of the transcript
          disk,   \* the live file and its rotated generations
          loop,   \* the drainSync() in progress, and what follows it
          offset, \* how much of the batch in flight is in the file
          faults, \* failures so far
          chunks, \* the size of each write so far
          gone    \* history: text given up by the cap, by close or with its file
trVars == <<tr, disk, loop, offset, faults, chunks, gone>>

Chunk(c, n) == [i \in 1..n |-> <<c, i>>]

\* The constructor: the file is open and the header is enqueued.
TrInit ==
  /\ tr = [pending  |-> Chunk(1, 1), \* the writes one after the other
           owed     |-> <<>>,
           inFlight |-> <<>>,
           fd       |-> TRUE,
           size     |-> 0,       \* currentSize
           closed   |-> FALSE,
           timer    |-> TRUE,    \* flushTimer
           chain    |-> <<>>,    \* flushChain
           queued   |-> FALSE,   \* drainQueued
           draining |-> FALSE,
           attempt  |-> 0,       \* closeAttempt
           retry    |-> FALSE,   \* closeRetryTimer
           stranded |-> FALSE]   \* history: rotateNow() found text owed to the live file
  /\ disk = [live |-> <<>>, old |-> [g \in 1..MaxRotated |-> <<>>]]
  /\ loop = "none" /\ offset = 0 /\ faults = 0 /\ chunks = <<1>> /\ gone = {}

------------------------------------------------------------------------------
(* Operators on the transcript                                                *)

RetainedCount(t) == Len(t.owed) + Len(t.pending)
From(s, k) == SubSeq(s, k + 1, Len(s))
Monus(a, b) == IF a > b THEN a - b ELSE 0

\* The lengths of the prefixes of p that consist of whole writes, and of the first write.
WholeWrites(p) == {0, Len(p)} \cup {n \in 1..(Len(p) - 1) : p[n][1] # p[n + 1][1]}
HeadLength(p) == Min(WholeWrites(p) \ {0})

\* shedOldest(): the excess is cut from what is owed, then from the writes in order.
ShedOldest(t, excess) ==
  [t EXCEPT !.owed = From(t.owed, excess), !.pending = From(t.pending, Monus(excess, Len(t.owed)))]

Shed(t) == Monus(RetainedCount(t), MaxRetained)
\* admit()
Admit(t, chunk) ==
  LET pushed == [t EXCEPT !.pending = t.pending \o chunk]
  IN ShedOldest(pushed, Shed(pushed))
ShedText(t, chunk) ==
  LET pushed == [t EXCEPT !.pending = t.pending \o chunk]
  IN ToSet(SubSeq(t.owed \o pushed.pending, 1, Shed(pushed)))

\* shiftGenerations(); "moved" tells whether the live file could be renamed, or
\* deleted when no generation is kept.
ShiftGenerations(d, moved) ==
  [live |-> IF moved THEN <<>> ELSE d.live,
   old  |-> [g \in 1..MaxRotated |-> IF g > 1 THEN d.old[g - 1] ELSE IF moved THEN d.live ELSE <<>>]]
\* The text that goes with the oldest generation.
RotatedAway(d, moved) ==
  IF MaxRotated > 0 THEN ToSet(d.old[MaxRotated]) ELSE IF moved THEN ToSet(d.live) ELSE {}

Fault(ok) == IF ok THEN 0 ELSE 1

\* rotateNow(): its possible outcomes.
Rotations(t) ==
  {[tr     |-> [t EXCEPT !.fd = FALSE, !.size = 0,
                         !.stranded = t.stranded \/ t.owed \o t.inFlight # <<>>],
    disk   |-> ShiftGenerations(disk, moved),
    lost   |-> RotatedAway(disk, moved),
    failed |-> Fault(moved)] : moved \in BOOLEAN}

\* The part of promote() before its loop: the next write is owed to the live
\* file, after a rotation if it does not fit.
\* Mutant: the rest of a write that is owed to the file is not looked at.
MustRotateWhateverIsOwed(t) ==
  t.pending # <<>> /\ t.size + HeadLength(t.pending) > MaxFile
MustRotate(t) ==
  t.owed = <<>> /\ t.pending # <<>> /\ t.size + HeadLength(t.pending) > MaxFile
TakeHead(t) ==
  IF t.owed # <<>> \/ t.pending = <<>> THEN t
  ELSE LET n == HeadLength(t.pending)
       IN [t EXCEPT !.owed = SubSeq(t.pending, 1, n), !.pending = From(t.pending, n)]

\* The loop of promote(): whole writes, while they fit the file and one append.
Fits(t, n) ==
  LET placed == Len(t.owed) + n IN n = 0 \/ (t.size + placed <= MaxFile /\ placed <= MaxAppend)
TakeMore(t) ==
  LET n == Max({m \in WholeWrites(t.pending) : Fits(t, m)})
  IN IF t.owed = <<>> THEN t
     ELSE [t EXCEPT !.owed = t.owed \o SubSeq(t.pending, 1, n), !.pending = From(t.pending, n)]

\* promote(): its possible outcomes.
Promotions(t) ==
  LET start == IF MustRotate(t) THEN Rotations(t)
               ELSE {[tr |-> t, disk |-> disk, lost |-> {}, failed |-> 0]}
      headed == {[s EXCEPT !.tr = TakeHead(s.tr)] : s \in start}
  IN {[h EXCEPT !.tr = TakeMore(h.tr)] : h \in headed}

TakeAppendBatch(t) ==
  LET n == IF Len(t.owed) <= MaxAppend THEN Len(t.owed) ELSE MaxAppend
  IN [t EXCEPT !.inFlight = SubSeq(t.owed, 1, n), !.owed = From(t.owed, n)]

\* The batches a turn of a drain may start with.
Batches(t) == {[p EXCEPT !.tr = TakeAppendBatch(p.tr)] : p \in Promotions(t)}

\* ensureOpen(): the file may have to be opened, and that may fail.
MayOpen(t, opens) == opens \/ (~t.fd /\ t.inFlight # <<>>)
Opened(t, d) == IF t.fd \/ t.inFlight = <<>> THEN t ELSE [t EXCEPT !.fd = TRUE, !.size = Len(d.live)]

\* The end of an append that got "written" units into the file.
ReturnUnwritten(t, written) ==
  [t EXCEPT !.inFlight = <<>>, !.owed = From(t.inFlight, written) \o t.owed]
Settled(t, written) ==
  ReturnUnwritten([t EXCEPT !.size = t.size + written], written)

\* Nothing else runs while drainSync() loops or a link of the chain is due.
TrIdle == loop = "none" /\ (tr.chain = <<>> \/ tr.draining)

CountFailures(n) == faults + n <= MaxFaults /\ faults' = faults + n

------------------------------------------------------------------------------
(* drainAsync()                                                               *)

\* A turn of its loop up to the first write of the batch.  The loop ends when
\* nothing is owed, or when the file cannot be opened.
AsyncTurn(t) ==
  \E b \in Batches(t), opens \in BOOLEAN :
    /\ MayOpen(b.tr, opens)
    /\ CountFailures(b.failed + Fault(opens))
    /\ disk' = b.disk /\ gone' = gone \cup b.lost
    /\ tr' = [(IF opens THEN Opened(b.tr, b.disk) ELSE ReturnUnwritten(b.tr, 0))
                EXCEPT !.draining = opens /\ b.tr.inFlight # <<>>]
    /\ offset' = 0
    /\ UNCHANGED <<loop, chunks>>

\* A write() ends with some of what was left of the batch.
WriteDone ==
  /\ tr.draining /\ TrIdle
  /\ \E n \in 1..(Len(tr.inFlight) - offset) :
       /\ disk' = [disk EXCEPT !.live = @ \o SubSeq(tr.inFlight, offset + 1, offset + n)]
       /\ offset' = offset + n
  /\ UNCHANGED <<tr, loop, faults, chunks, gone>>

\* The whole batch is in the file: the next turn, without an event in between.
BatchDone ==
  /\ tr.draining /\ TrIdle /\ offset = Len(tr.inFlight)
  /\ \E t \in {Settled(tr, offset)} : AsyncTurn(t)

\* A write() fails: the rest of the batch is owed again, and the loop ends.
WriteFails ==
  /\ tr.draining /\ TrIdle /\ offset < Len(tr.inFlight)
  /\ CountFailures(1)
  /\ tr' = [Settled(tr, offset) EXCEPT !.draining = FALSE]
  /\ offset' = 0
  /\ UNCHANGED <<disk, loop, chunks, gone>>

\* The next link of flushChain: a drain, or the end of close().
RunChain ==
  /\ loop = "none" /\ ~tr.draining /\ tr.chain # <<>>
  /\ \E link \in {Head(tr.chain)} :
       \E t \in {[tr EXCEPT !.chain = Tail(@), !.queued = @ /\ link # "drain"]} :
        \/ /\ link = "finish"
           /\ tr' = t /\ loop' = "finish"
           /\ UNCHANGED <<disk, offset, faults, chunks, gone>>
        \/ /\ link # "finish" /\ (t.closed \/ RetainedCount(t) = 0)
           /\ tr' = t
           /\ UNCHANGED <<disk, loop, offset, faults, chunks, gone>>
        \/ /\ link # "finish" /\ ~t.closed /\ RetainedCount(t) > 0
           /\ AsyncTurn(t)

------------------------------------------------------------------------------
(* drainSync() and finishClose()                                              *)

AfterLoop == IF loop = "finish" THEN "end" ELSE "none"

\* A turn of drainSync(): n units of the batch reach the file.
SyncTurn ==
  /\ loop \in {"sync", "finish"} /\ RetainedCount(tr) > 0
  /\ \E b \in Batches(tr), opens \in BOOLEAN :
       /\ MayOpen(b.tr, opens)
       /\ \E t \in {IF opens THEN Opened(b.tr, b.disk) ELSE b.tr}, n \in 0..Len(b.tr.inFlight) :
            LET whole == n = Len(b.tr.inFlight)
            IN /\ opens \/ n = 0
               /\ CountFailures(b.failed + Fault(whole))
               /\ disk' = [b.disk EXCEPT !.live = @ \o SubSeq(t.inFlight, 1, n)]
               /\ gone' = gone \cup b.lost
               /\ tr' = Settled(t, n)
               /\ loop' = IF whole THEN loop ELSE AfterLoop
  /\ UNCHANGED <<offset, chunks>>

\* drainSync() finds nothing left.
SyncDone ==
  /\ loop \in {"sync", "finish"} /\ RetainedCount(tr) = 0
  /\ loop' = AfterLoop
  /\ UNCHANGED <<tr, disk, offset, faults, chunks, gone>>

\* The rest of finishClose(): release the file, try again later, or give up.
\* Mutant: a hopeless close keeps its text, and its file with it.
FinishCloseKeeps ==
  /\ loop = "end" /\ loop' = "none"
  /\ \/ /\ RetainedCount(tr) = 0
        /\ tr' = [tr EXCEPT !.fd = FALSE]
     \/ /\ RetainedCount(tr) > 0 /\ tr.attempt < CloseRetries
        /\ tr' = [tr EXCEPT !.attempt = @ + 1, !.retry = TRUE]
     \/ RetainedCount(tr) > 0 /\ tr.attempt = CloseRetries /\ UNCHANGED tr
  /\ UNCHANGED <<disk, offset, faults, chunks, gone>>
FinishClose ==
  /\ loop = "end" /\ loop' = "none"
  /\ \/ /\ RetainedCount(tr) = 0
        /\ tr' = [tr EXCEPT !.fd = FALSE] /\ UNCHANGED gone
     \/ /\ RetainedCount(tr) > 0 /\ tr.attempt < CloseRetries
        /\ tr' = [tr EXCEPT !.attempt = @ + 1, !.retry = TRUE] /\ UNCHANGED gone
     \/ /\ RetainedCount(tr) > 0 /\ tr.attempt = CloseRetries
        /\ tr' = [tr EXCEPT !.owed = <<>>, !.pending = <<>>, !.fd = FALSE]
        /\ gone' = gone \cup ToSet(tr.owed \o tr.pending)
  /\ UNCHANGED <<disk, offset, faults, chunks>>

------------------------------------------------------------------------------
(* The interface and the timers                                               *)

\* write()
Write ==
  /\ TrIdle /\ ~tr.closed
  /\ \E n \in ChunkSizes :
       LET chunk == Chunk(Len(chunks) + 1, n)
       IN /\ Len(chunks) < MaxChunks - 1
          /\ tr' = [Admit(tr, chunk) EXCEPT !.timer = TRUE]
          /\ gone' = gone \cup ShedText(tr, chunk)
          /\ chunks' = Append(chunks, n)
  /\ UNCHANGED <<disk, loop, offset, faults>>

\* The flush timer fires: scheduleDrain().
FlushTimer ==
  /\ TrIdle /\ tr.timer
  /\ tr' = [tr EXCEPT !.timer = FALSE, !.queued = TRUE,
                      !.chain = IF tr.queued THEN @ ELSE Append(@, "drain")]
  /\ UNCHANGED <<disk, loop, offset, faults, chunks, gone>>

\* flush()
Flush ==
  /\ TrIdle /\ ~tr.closed /\ Len(tr.chain) < MaxChain
  /\ tr' = [tr EXCEPT !.timer = FALSE, !.chain = IF tr.draining THEN Append(@, "flush") ELSE @]
  /\ loop' = IF tr.draining THEN loop ELSE "sync"
  /\ UNCHANGED <<disk, offset, faults, chunks, gone>>

\* close(), with its footer.
Close ==
  /\ TrIdle /\ ~tr.closed
  /\ LET footer == Chunk(Len(chunks) + 1, 1)
     IN /\ tr' = [Admit(tr, footer) EXCEPT !.closed = TRUE, !.timer = FALSE,
                        !.chain = IF tr.draining THEN Append(@, "finish") ELSE @]
        /\ gone' = gone \cup ShedText(tr, footer)
  /\ chunks' = Append(chunks, 1)
  /\ loop' = IF tr.draining THEN loop ELSE "finish"
  /\ UNCHANGED <<disk, offset, faults>>

\* The timer of scheduleCloseRetry() fires.
CloseRetry ==
  /\ TrIdle /\ tr.retry
  /\ tr' = [tr EXCEPT !.retry = FALSE]
  /\ loop' = "finish"
  /\ UNCHANGED <<disk, offset, faults, chunks, gone>>

\* settle(), at shutdown, once the chain it waits for is idle.
Settle ==
  /\ TrIdle /\ ~tr.draining
  /\ tr.closed => RetainedCount(tr) > 0
  /\ tr' = [tr EXCEPT !.timer = FALSE, !.retry = FALSE]
  /\ loop' = IF tr.closed THEN "finish" ELSE "sync"
  /\ UNCHANGED <<disk, offset, faults, chunks, gone>>

\* What the event loop and the file system bring about by themselves.
TrProgress ==
  \/ WriteDone \/ BatchDone \/ WriteFails \/ RunChain
  \/ SyncTurn \/ SyncDone \/ FinishClose \/ FlushTimer \/ CloseRetry

TrNext == TrProgress \/ Write \/ Flush \/ Close \/ Settle

TrSpec == TrInit /\ [][TrNext]_trVars /\ WF_trVars(TrProgress)

------------------------------------------------------------------------------
(* Properties                                                                 *)

Units == UNION {ToSet(Chunk(c, chunks[c])) : c \in DOMAIN chunks}
Files == {disk.live} \cup {disk.old[g] : g \in 1..MaxRotated}
RotatedText == UNION {ToSet(disk.old[g]) : g \in 1..MaxRotated}
\* The live file and what is still on its way to it.
Line == disk.live \o From(tr.inFlight, offset) \o tr.owed \o tr.pending

Later(a, b) == a[1] < b[1] \/ (a[1] = b[1] /\ a[2] < b[2])
InOrder(s) == \A i, j \in DOMAIN s : i < j => Later(s[i], s[j])
Precedes(s, t) == \A a \in ToSet(s), b \in ToSet(t) : Later(a, b)

Text == Seq(Nat \X Nat)
Disks == [live : Text, old : [1..MaxRotated -> Text]]
Links == Seq({"drain", "flush", "finish"})
Transcripts ==
  [pending : Text, owed : Text, inFlight : Text, fd : BOOLEAN, size : Nat, closed : BOOLEAN, timer : BOOLEAN,
   chain : Links, queued : BOOLEAN, draining : BOOLEAN, attempt : 0..CloseRetries,
   retry : BOOLEAN, stranded : BOOLEAN]

TrTypeOK ==
  /\ tr \in Transcripts
  /\ disk \in Disks
  /\ loop \in {"none", "sync", "finish", "end"}
  /\ offset \in 0..Len(tr.inFlight) /\ faults \in 0..MaxFaults
  /\ chunks \in Seq(Nat) /\ gone \subseteq Nat \X Nat

\* Partial writes, rotations, the cap and a close that races a drain neither
\* reorder nor repeat nor lose text, except what the cap, a deleted generation
\* or a hopeless close gives up.  What is retained stays within the cap, and
\* rotateNow() never meets its "invariant violation".  What a write brings ends
\* in one file: no rotation comes between the parts of a write that failed half
\* way.
TranscriptIntact ==
  /\ TrTypeOK
  /\ InOrder(Line)
  /\ \A g \in 1..MaxRotated : InOrder(disk.old[g]) /\ Precedes(disk.old[g], Line)
  /\ \A g, h \in 1..MaxRotated : h < g => Precedes(disk.old[g], disk.old[h])
  /\ Units = ToSet(Line) \cup RotatedText \cup gone
  /\ RetainedCount(tr) <= MaxRetained + MaxAppend
  /\ ~tr.stranded
  /\ \A f, g \in Files : f # g => {u[1] : u \in ToSet(f)} \cap {u[1] : u \in ToSet(g)} = {}

\* A closed transcript lets go of its file, however the file system behaves.
CloseReleases == tr.closed ~> [](~tr.fd)
==============================================================================
