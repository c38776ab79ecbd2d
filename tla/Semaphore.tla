------------------------------ MODULE Semaphore ------------------------------
(***************************************************************************)
(* createSemaphore of services/scripts/readSlotScheduler.ts: a FIFO async  *)
(* semaphore whose waits can be abandoned.                                 *)
(*                                                                         *)
(* A request is one call of acquireCancellable().  Its waiter is live      *)
(* while its `settle` resolver is non-null, which is outcome = "waiting".  *)
(* A cancelled waiter stays in the backing array as a shell until either a *)
(* compaction drops it or release() walks past it.                         *)
(***************************************************************************)
EXTENDS Integers, Sequences, FiniteSets

CONSTANTS
  Requests,   \* identities of the calls of acquireCancellable()
  Limit       \* createSemaphore(limit)

ASSUME SemaphoreAssumption == IsFiniteSet(Requests) /\ Limit \in Nat \ {0}

VARIABLES
  available,  \* permits nobody holds
  queue,      \* the backing array, front first
  dead,       \* the counter of shells in queue
  outcome,    \* per request: not made, waiting, granted, cancelled, released
  cancelWork  \* queue entries scanned by compactions so far

semVars == <<available, queue, dead, outcome, cancelWork>>

Outcomes == {"new", "waiting", "granted", "cancelled", "released"}

With(o) == {r \in Requests : outcome[r] = o}

SemInit ==
  /\ available = Limit
  /\ queue = <<>>
  /\ dead = 0
  /\ outcome = [r \in Requests |-> "new"]
  /\ cancelWork = 0

(***************************************************************************)
(* acquireCancellable(): a free permit satisfies the request on the spot,  *)
(* otherwise it takes the last place in the FIFO.                          *)
(***************************************************************************)
\* Mutant: the count is tested one too low.
FreeOffByOne == available >= 0

Free == available > 0

Acquire(r) ==
  /\ outcome[r] = "new"
  /\ \/ /\ Free
        /\ available' = available - 1
        /\ outcome' = [outcome EXCEPT ![r] = "granted"]
        /\ UNCHANGED queue
     \/ /\ ~Free
        /\ queue' = Append(queue, r)
        /\ outcome' = [outcome EXCEPT ![r] = "waiting"]
        /\ UNCHANGED available
  /\ UNCHANGED <<dead, cancelWork>>

\* Mutants: never compact, compact on every cancellation.
CompactNever  == FALSE
CompactAlways == TRUE

(***************************************************************************)
(* cancelWaiter(): marks the waiter dead and, when the shells have come to *)
(* outnumber the live waiters, rebuilds the array from the live ones.  On  *)
(* a settled waiter it reports FALSE and changes nothing.                  *)
(***************************************************************************)
\* Mutant: a waiter whose grant is in flight is cancelled as well.
PendingOrGranted(r) == outcome[r] \in {"waiting", "granted"}

Pending(r) == outcome[r] = "waiting"

CompactNow == dead + 1 > Len(queue) - (dead + 1)

\* f lists the positions in P from first to last.
Lists(f, P) ==
  /\ \A i \in P : \E k \in DOMAIN f : f[k] = i
  /\ \A j, k \in DOMAIN f : j < k => f[j] < f[k]

\* Mutant: a shell at the front hides the waiters behind it.
LiveAtFront == {i \in DOMAIN queue : i = 1 /\ queue[i] \in With("waiting")}

LiveAt == {i \in DOMAIN queue : queue[i] \in With("waiting")}

Cancel(r) ==
  /\ Pending(r)
  /\ outcome' = [outcome EXCEPT ![r] = "cancelled"]
  /\ \/ /\ CompactNow
        /\ LET kept == {i \in LiveAt : queue[i] # r} IN
           \E f \in [1..Cardinality(kept) -> kept] :
             Lists(f, kept) /\ queue' = [k \in 1..Cardinality(kept) |-> queue[f[k]]]
        /\ dead' = 0
        /\ cancelWork' = cancelWork + Len(queue)
     \/ /\ ~CompactNow
        /\ dead' = dead + 1
        /\ UNCHANGED <<queue, cancelWork>>
  /\ UNCHANGED available

(***************************************************************************)
(* release() by the holder r: walk past the shells at the front and hand   *)
(* the permit to the first live waiter; with none left it becomes free.    *)
(***************************************************************************)
\* Mutant: the newest waiter is served first.
IsLast(i, S) == i \in S /\ \A j \in S : i >= j

IsFirst(i, S) == i \in S /\ \A j \in S : i <= j

Release(r) ==
  /\ outcome[r] = "granted"
  /\ \/ /\ LiveAt = {}
        /\ available' = available + 1
        /\ queue' = <<>>
        /\ dead' = dead - Len(queue)
        /\ outcome' = [outcome EXCEPT ![r] = "released"]
     \/ \E i \in LiveAt :
          /\ IsFirst(i, LiveAt)
          /\ queue' = SubSeq(queue, i + 1, Len(queue))
          /\ dead' = dead - (i - 1)
          /\ outcome' = [outcome EXCEPT ![r] = "released", ![queue[i]] = "granted"]
          /\ UNCHANGED available
  /\ UNCHANGED cancelWork

SemNext == \E r \in Requests : Acquire(r) \/ Cancel(r) \/ Release(r)

SemSpec == SemInit /\ [][SemNext]_semVars

------------------------------------------------------------------------------
Shells == {i \in DOMAIN queue : outcome[queue[i]] = "cancelled"}

SemTypeOK ==
  /\ available \in 0..Limit
  /\ queue \in Seq(Requests)
  /\ dead \in Int
  /\ outcome \in [Requests -> Outcomes]
  /\ cancelWork \in Nat

\* No permit leaks and none is minted: every permit is either free or held by
\* exactly one granted request, whatever cancels race whatever releases
\* (readSlotScheduler.ts:176-241).
PermitConservation == available + Cardinality(With("granted")) = Limit

\* A permit is never free while somebody waits for it: release() hands it over
\* rather than returning it to a pool a newcomer could win.
NoIdlePermit == available > 0 => With("waiting") = {}

\* Each live waiter is in the array exactly once and the `dead` counter is the
\* number of shells: queued() = queue.length - dead counts the live waiters.
QueueAccounting ==
  /\ dead = Cardinality(Shells)
  /\ LiveAt \cup Shells = DOMAIN queue
  /\ \A r \in With("waiting") : Cardinality({i \in DOMAIN queue : queue[i] = r}) = 1

\* Abandoning a wait is O(1) amortized: N cancellations have cost at most 2N
\* entry scans in total, the shells still to be paid for included.
AmortizedCancel == cancelWork + 2 * dead <= 2 * Cardinality(With("cancelled"))

\* The documented bound on the backing array: "the array never exceeds
\* 2 * live + 1 entries" (readSlotScheduler.ts:88, 162).
RetentionBound == Len(queue) <= 2 * Cardinality(LiveAt) + 1

Fifo == INSTANCE FifoSemaphore
          WITH waiting <- SelectSeq(queue, LAMBDA w : outcome[w] = "waiting")

\* The array with its shells and compactions implements the FIFO semaphore its
\* callers are promised.
ImplementsFifo == Fifo!Spec
==============================================================================
