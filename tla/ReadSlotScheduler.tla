-------------------------- MODULE ReadSlotScheduler --------------------------
(***************************************************************************)
(* services/scripts/readSlotScheduler.ts: the concurrency, deadline and    *)
(* detachment state machine behind nexus.fs.  One request of the semaphore *)
(* is one call of runGated(), so Requests are the calls and Limit is       *)
(* maxConcurrent.                                                          *)
(*                                                                         *)
(* The host is single-threaded.  A macrotask (a new call, a timer, I/O     *)
(* that settles) runs to its end, then the promise continuations it made   *)
(* ready run before the next macrotask.  Only timers that are due in the   *)
(* same tick may run back to back before the continuations do (`batch`):   *)
(* that is the race window the code's invariant 6 is written for.          *)
(***************************************************************************)
EXTENDS Semaphore

CONSTANT MaxOrphaned

ASSUME SchedulerAssumption == MaxOrphaned \in Nat

VARIABLES
  slot,          \* ReadSlot.state per call, "none" before runGated()
  held,          \* timed-out slots still holding a permit, oldest first
  orphaned,      \* the counter of detached operations
  permitsInUse,  \* the counter of slots holding a permit
  timers,        \* armed deadlines in the order they were armed
  work,          \* the caller's operation: "none", "running", "done", "observed"
  result,        \* what the caller of runGated() has received
  batch          \* TRUE while only timers have run in this tick

schedVars == <<slot, held, orphaned, permitsInUse, timers, work, result, batch>>
vars == <<semVars, schedVars>>

SlotStates == {"queued", "admitted", "running", "settled", "abandoned",
               "expired", "orphaned", "held", "promoted", "retired"}

LegalNext ==
  [queued    |-> {"admitted", "expired"},
   admitted  |-> {"running", "abandoned"},
   running   |-> {"settled", "orphaned", "held"},
   held      |-> {"promoted", "settled"},
   orphaned  |-> {"retired"},
   promoted  |-> {"retired"},
   settled   |-> {}, abandoned |-> {}, expired |-> {}, retired |-> {}]

PermitHolding   == {"admitted", "running", "held"}
OrphanOccupying == {"orphaned", "promoted"}

Init ==
  /\ SemInit
  /\ slot = [c \in Requests |-> "none"]
  /\ held = <<>>
  /\ orphaned = 0
  /\ permitsInUse = 0
  /\ timers = <<>>
  /\ work = [c \in Requests |-> "none"]
  /\ result = [c \in Requests |-> "none"]
  /\ batch = FALSE

------------------------------------------------------------------------------
(* The event loop. *)

\* Mutant: a grant that finds its slot expired is dropped.
ClaimableLive(c) == outcome[c] = "granted" /\ slot[c] = "queued"

\* Calls with a continuation ready to run.
Claimable(c)  == outcome[c] = "granted" /\ slot[c] \in {"queued", "expired"}
Startable(c)  == slot[c] = "admitted"
Observable(c) == work[c] = "done"

Drained == \A c \in Requests : ~(Claimable(c) \/ Startable(c) \/ Observable(c))

Macrotask == Drained /\ batch' = FALSE
Timer     == (Drained \/ batch) /\ batch' = TRUE
Microtask == batch' = FALSE

\* c, which is in s once, is taken out: held.splice(held.indexOf(slot), 1).
PlaceOf(s, c) == CHOOSE i \in DOMAIN s : s[i] = c
Without(s, c) == [i \in 1..Len(s) - 1 |-> IF i < PlaceOf(s, c) THEN s[i] ELSE s[i + 1]]

------------------------------------------------------------------------------
(* runGated(): take a place in the FIFO, then arm the call's one deadline. *)
RunGated(c) ==
  /\ Macrotask
  /\ slot[c] = "none"
  /\ Acquire(c)
  /\ slot' = [slot EXCEPT ![c] = "queued"]
  /\ timers' = Append(timers, c)
  /\ result' = [result EXCEPT ![c] = "pending"]
  /\ UNCHANGED <<held, orphaned, permitsInUse, work>>

(***************************************************************************)
(* claimPermit() resumes with a grant.  A slot that expired in the same    *)
(* tick forwards the permit; any other slot is admitted.                   *)
(***************************************************************************)
\* Mutant: the slot's state is not looked at again.
AdmitsAny(c) == TRUE

Admits(c) == slot[c] # "expired"

ForwardGrant(c) ==
  /\ Microtask
  /\ Claimable(c) /\ ~Admits(c)
  /\ Release(c)
  /\ UNCHANGED <<slot, held, orphaned, permitsInUse, timers, work, result>>

ClaimPermit(c) ==
  /\ Microtask
  /\ Claimable(c) /\ Admits(c)
  /\ slot' = [slot EXCEPT ![c] = "admitted"]
  /\ permitsInUse' = permitsInUse + 1
  /\ UNCHANGED <<semVars, held, orphaned, timers, work, result>>

(* runGated() after admission: onAdmitted() declines, or the work starts. *)
Decline(c) ==
  /\ Microtask
  /\ Startable(c)
  /\ slot' = [slot EXCEPT ![c] = "abandoned"]
  /\ permitsInUse' = permitsInUse - 1
  /\ Release(c)
  /\ timers' = Without(timers, c)
  /\ result' = [result EXCEPT ![c] = "declined"]
  /\ UNCHANGED <<held, orphaned, work>>

Start(c) ==
  /\ Microtask
  /\ Startable(c)
  /\ slot' = [slot EXCEPT ![c] = "running"]
  /\ work' = [work EXCEPT ![c] = "running"]
  /\ UNCHANGED <<semVars, held, orphaned, permitsInUse, timers, result>>

(***************************************************************************)
(* The deadline fires.  Timers of one duration fire in the order armed.    *)
(***************************************************************************)
\* Mutant: the deadline bounds the work only, not the wait for a permit.
DueWhenAdmitted(c) == timers # <<>> /\ Head(timers) = c /\ slot[c] # "queued"

Due(c) == timers # <<>> /\ Head(timers) = c

Fire(c) ==
  /\ Timer
  /\ Due(c)
  /\ timers' = Tail(timers)
  /\ result' = [result EXCEPT ![c] = "timeout"]

\* Nothing was started: the slot expires and abandons its place in the FIFO.
\* cancel() changes nothing when the grant is already in flight.
ExpireQueued(c) ==
  /\ Fire(c)
  /\ work[c] = "none"
  /\ slot' = [slot EXCEPT ![c] = "expired"]
  /\ IF Pending(c) THEN Cancel(c) ELSE UNCHANGED semVars
  /\ UNCHANGED <<held, orphaned, permitsInUse, work>>

\* Mutant: the budget for detached work is not consulted.
RoomAlways == TRUE

Room == orphaned < MaxOrphaned

\* The work is running and there is room for it among the detached ones.
Detach(c) ==
  /\ Fire(c)
  /\ work[c] # "none"
  /\ Room
  /\ slot' = [slot EXCEPT ![c] = "orphaned"]
  /\ orphaned' = orphaned + 1
  /\ permitsInUse' = permitsInUse - 1
  /\ Release(c)
  /\ UNCHANGED <<held, work>>

\* There is no room: the slot keeps its permit.
Hold(c) ==
  /\ Fire(c)
  /\ work[c] # "none"
  /\ ~Room
  /\ slot' = [slot EXCEPT ![c] = "held"]
  /\ held' = Append(held, c)
  /\ UNCHANGED <<semVars, orphaned, permitsInUse, work>>

------------------------------------------------------------------------------
(* The caller's operation settles; its continuation runs afterwards. *)
WorkSettles(c) ==
  /\ Macrotask
  /\ work[c] = "running"
  /\ work' = [work EXCEPT ![c] = "done"]
  /\ UNCHANGED <<semVars, slot, held, orphaned, permitsInUse, timers, result>>

Observe(c) ==
  /\ Microtask
  /\ Observable(c)
  /\ work' = [work EXCEPT ![c] = "observed"]

\* The work won the race against its deadline.
Settle(c) ==
  /\ Observe(c)
  /\ slot[c] = "running"
  /\ slot' = [slot EXCEPT ![c] = "settled"]
  /\ permitsInUse' = permitsInUse - 1
  /\ Release(c)
  /\ timers' = Without(timers, c)
  /\ result' = [result EXCEPT ![c] = "value"]
  /\ UNCHANGED <<held, orphaned>>

\* A held slot's own work settled before any room opened.
SettleHeld(c) ==
  /\ Observe(c)
  /\ slot[c] = "held"
  /\ slot' = [slot EXCEPT ![c] = "settled"]
  /\ held' = Without(held, c)
  /\ permitsInUse' = permitsInUse - 1
  /\ Release(c)
  /\ UNCHANGED <<orphaned, timers, result>>

(***************************************************************************)
(* Detached work settled: the slot retires and promoteHeld() gives the     *)
(* room to the longest-held slot, whose permit goes back at once.  The     *)
(* loop in promoteHeld() runs while there is room and a held slot;         *)
(* HeldOnlyWhenFull is what makes one iteration the whole loop.            *)
(***************************************************************************)
\* Mutant: nobody is promoted.
PromotesNobody == TRUE

NobodyToPromote == held = <<>> \/ orphaned - 1 >= MaxOrphaned

RetireOnly(c) ==
  /\ Observe(c)
  /\ slot[c] \in OrphanOccupying
  /\ NobodyToPromote
  /\ slot' = [slot EXCEPT ![c] = "retired"]
  /\ orphaned' = orphaned - 1
  /\ UNCHANGED <<semVars, held, permitsInUse, timers, result>>

RetireAndPromote(c) ==
  /\ Observe(c)
  /\ slot[c] \in OrphanOccupying
  /\ ~NobodyToPromote
  /\ slot' = [slot EXCEPT ![c] = "retired", ![Head(held)] = "promoted"]
  /\ held' = Tail(held)
  /\ permitsInUse' = permitsInUse - 1
  /\ Release(Head(held))
  /\ UNCHANGED <<orphaned, timers, result>>

Next ==
  \E c \in Requests :
    \/ RunGated(c)
    \/ ForwardGrant(c) \/ ClaimPermit(c) \/ Decline(c) \/ Start(c)
    \/ ExpireQueued(c) \/ Detach(c) \/ Hold(c)
    \/ WorkSettles(c) \/ Settle(c) \/ SettleHeld(c)
    \/ RetireOnly(c) \/ RetireAndPromote(c)

(***************************************************************************)
(* The event loop drains continuations and fires due timers.  Nothing says *)
(* that the caller's operation ever settles: a stalled provider is what    *)
(* the deadline is for.                                                    *)
(***************************************************************************)
Fairness ==
  \A c \in Requests :
    /\ WF_vars(ForwardGrant(c) \/ ClaimPermit(c) \/ Decline(c) \/ Start(c))
    /\ WF_vars(Settle(c) \/ SettleHeld(c) \/ RetireOnly(c) \/ RetireAndPromote(c))
    /\ WF_vars(ExpireQueued(c) \/ Detach(c) \/ Hold(c))

Spec == Init /\ [][Next]_vars /\ Fairness

------------------------------------------------------------------------------
Slots(S) == {c \in Requests : slot[c] \in S}

TypeOK ==
  /\ SemTypeOK
  /\ slot \in [Requests -> SlotStates \cup {"none"}]
  /\ held \in Seq(Requests)
  /\ orphaned \in 0..MaxOrphaned
  /\ permitsInUse \in 0..Limit
  /\ timers \in Seq(Requests)
  /\ work \in [Requests -> {"none", "running", "done", "observed"}]
  /\ result \in [Requests -> {"none", "pending", "value", "timeout", "declined"}]
  /\ batch \in BOOLEAN

\* Invariant 1 of the code: at most maxConcurrent + maxOrphaned operations are
\* alive at once, however many callers pile in and however many stall.
BoundedLiveWork ==
  Cardinality({c \in Requests : work[c] = "running"}) <= Limit + MaxOrphaned

\* Invariant 2 of the code: the permits taken from the semaphore are those of
\* the slots in a permit-holding state plus the grants whose continuation has
\* not run yet; the counters agree with the states.
PermitAccounting ==
  /\ permitsInUse = Cardinality(Slots(PermitHolding))
  /\ orphaned = Cardinality(Slots(OrphanOccupying))
  /\ With("granted") = Slots(PermitHolding) \cup {c \in Requests : Claimable(c)}

\* Invariant 3 of the code: the pool keeps a timed-out permit only while the
\* detached budget is full, so promoteHeld() never leaves room unused.
HeldOnlyWhenFull == held # <<>> => orphaned = MaxOrphaned

\* Invariants 1 to 3 of the code, and what they need of the semaphore: no free
\* permit while somebody waits, an exact count of the shells, and a queue array
\* whose length and whose compactions stay proportional to the waits.
SchedulerInvariants ==
  /\ TypeOK /\ BoundedLiveWork /\ PermitAccounting /\ HeldOnlyWhenFull
  /\ NoIdlePermit /\ QueueAccounting /\ RetentionBound /\ AmortizedCancel

\* Invariants 5 and 6 of the code: work never starts for a caller that has
\* already been rejected, and a caller receives one outcome only; the handlers
\* take legal edges, so that the throw of transition() is never reached.
NoStartAfterRejection ==
  [][\A c \in Requests :
       /\ work[c] = "none" /\ work'[c] # "none" => result[c] = "pending"
       /\ result[c] \notin {"none", "pending"} => result'[c] = result[c]
       /\ slot[c] \notin {"none", slot'[c]} => slot'[c] \in LegalNext[slot[c]]]_vars

\* Invariant 4 of the code: of two calls that waited in the FIFO, the later
\* one never gets its permit while the earlier one is still waiting, and the
\* slot held longest is promoted first.
FifoBothQueues ==
  [][/\ \A i, j \in LiveAt :
          i < j /\ outcome'[queue[j]] = "granted" => outcome'[queue[i]] # "waiting"
     /\ \A i, j \in DOMAIN held :
          i < j /\ slot'[held[j]] = "promoted" => slot'[held[i]] # "held"]_vars

\* Both queues are served in order, and only for callers that still wait.
QueueDiscipline == NoStartAfterRejection /\ FifoBothQueues

\* Invariant 6 of the code: no call blocks for ever, the wait for a permit
\* included, even when no operation ever settles.
EveryCallEnds ==
  \A c \in Requests : (result[c] = "pending") ~> (result[c] # "pending")
==============================================================================
