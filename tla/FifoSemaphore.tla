---------------------------- MODULE FifoSemaphore ----------------------------
(***************************************************************************)
(* What createSemaphore promises its callers: a fixed number of permits, a *)
(* released permit goes to whoever has waited longest, and an abandoned    *)
(* wait leaves no trace.  Shells and compaction are not visible here.      *)
(***************************************************************************)
EXTENDS Naturals, Sequences, SequencesExt

CONSTANTS Requests, Limit

VARIABLES
  available,  \* free permits
  waiting,    \* the requests still waiting, in order of arrival
  outcome     \* how each request stands

vars == <<available, waiting, outcome>>

Init ==
  /\ available = Limit
  /\ waiting = <<>>
  /\ outcome = [r \in Requests |-> "new"]

Take(r) ==
  /\ outcome[r] = "new"
  /\ available > 0
  /\ available' = available - 1
  /\ outcome' = [outcome EXCEPT ![r] = "granted"]
  /\ UNCHANGED waiting

Enqueue(r) ==
  /\ outcome[r] = "new"
  /\ available = 0
  /\ waiting' = Append(waiting, r)
  /\ outcome' = [outcome EXCEPT ![r] = "waiting"]
  /\ UNCHANGED available

Abandon(r) ==
  /\ outcome[r] = "waiting"
  /\ waiting' = RemoveFirst(waiting, r)
  /\ outcome' = [outcome EXCEPT ![r] = "cancelled"]
  /\ UNCHANGED available

Free(r) ==
  /\ outcome[r] = "granted"
  /\ waiting = <<>>
  /\ available' = available + 1
  /\ outcome' = [outcome EXCEPT ![r] = "released"]
  /\ UNCHANGED waiting

HandOver(r) ==
  /\ outcome[r] = "granted"
  /\ waiting # <<>>
  /\ waiting' = Tail(waiting)
  /\ outcome' = [outcome EXCEPT ![r] = "released", ![Head(waiting)] = "granted"]
  /\ UNCHANGED available

Next == \E r \in Requests : Take(r) \/ Enqueue(r) \/ Abandon(r) \/ Free(r) \/ HandOver(r)

Spec == Init /\ [][Next]_vars
==============================================================================
