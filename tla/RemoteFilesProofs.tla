---------------------------- MODULE RemoteFilesProofs ----------------------------
(* Theorems about the files of a server: the permits and slots behind nexus.fs, *)
(* the watcher of a session, the SFTP service, and the explorer that follows    *)
(* the terminals.                                                               *)
(*                                                                              *)
(* The inductive invariant of the scheduler has five parts, proved one on top   *)
(* of the other: the two invariants of the semaphore (SemInv, AccountInv), what *)
(* the variables of each call say of each other (CallsInv), the counters        *)
(* (CountersInv), and the order of deadlines, shells and live waiters           *)
(* (OrderInv), which is what bounds the semaphore's array.                      *)
EXTENDS ReadSlotScheduler, RemoteWatch, SftpService, CwdSync, FiniteSetTheorems, SequenceTheorems, TLAPS

------------------------------------------------------------------------------
(* The semaphore *)

\* Exactly one request changes its outcome, and `granted` grows or shrinks
\* with it: the three ways a step can move a permit.
LEMMA GrantedGrows ==
  ASSUME SemTypeOK, NEW r \in Requests, outcome[r] # "granted",
         outcome' = [outcome EXCEPT ![r] = "granted"]
  PROVE  Cardinality(With("granted")') = Cardinality(With("granted")) + 1
<1>1. With("granted")' = With("granted") \cup {r}
  BY DEF With, SemTypeOK
<1>2. r \notin With("granted")
  BY DEF With
<1>3. IsFiniteSet(With("granted"))
  BY FS_Subset, SemaphoreAssumption DEF With
<1> QED
  BY <1>1, <1>2, <1>3, FS_AddElement

LEMMA GrantedShrinks ==
  ASSUME SemTypeOK, NEW r \in Requests, outcome[r] = "granted",
         outcome' = [outcome EXCEPT ![r] = "released"]
  PROVE  Cardinality(With("granted")') = Cardinality(With("granted")) - 1
<1>1. With("granted")' = With("granted") \ {r}
  BY DEF With, SemTypeOK
<1>2. r \in With("granted")
  BY DEF With
<1>3. IsFiniteSet(With("granted"))
  BY FS_Subset, SemaphoreAssumption DEF With
<1> QED
  BY <1>1, <1>2, <1>3, FS_RemoveElement

LEMMA GrantHandedOver ==
  ASSUME SemTypeOK, NEW r \in Requests, NEW w \in Requests,
         outcome[r] = "granted", outcome[w] = "waiting",
         outcome' = [outcome EXCEPT ![r] = "released", ![w] = "granted"]
  PROVE  Cardinality(With("granted")') = Cardinality(With("granted"))
<1> DEFINE rest == With("granted") \ {r}
<1>1. With("granted")' = rest \cup {w}
  BY DEF With, SemTypeOK
<1>2. IsFiniteSet(With("granted"))
  BY FS_Subset, SemaphoreAssumption DEF With
<1>3. r \in With("granted") /\ w \notin rest
  BY DEF With
<1>4. IsFiniteSet(rest) /\ Cardinality(rest) = Cardinality(With("granted")) - 1
  BY <1>2, <1>3, FS_RemoveElement
<1>5. Cardinality(rest \cup {w}) = Cardinality(rest) + 1
  BY <1>3, <1>4, FS_AddElement
<1>6. Cardinality(With("granted")) \in Nat
  BY <1>2, FS_CardinalityType
<1>7. Cardinality(With("granted")') = Cardinality(rest \cup {w})
  BY <1>1
<1> HIDE DEF rest
<1> QED
  BY <1>4, <1>5, <1>6, <1>7

------------------------------------------------------------------------------
(***************************************************************************)
(* The inductive invariant.  PermitConservation alone is not inductive:    *)
(* release() with no live waiter in the array makes a permit free, and     *)
(* that only keeps NoIdlePermit if every waiting request has a place in    *)
(* the array (WaitersQueued), which compactions must therefore preserve.   *)
(***************************************************************************)
WaitersQueued == \A r \in With("waiting") : \E i \in DOMAIN queue : queue[i] = r

SemInv == SemTypeOK /\ PermitConservation /\ WaitersQueued /\ NoIdlePermit

LEMMA GrantedCard == IsFiniteSet(With("granted")) /\ Cardinality(With("granted")) \in Nat
BY FS_Subset, FS_CardinalityType, SemaphoreAssumption DEF With

LEMMA SemInitInv == SemInit => SemInv
<1> SUFFICES ASSUME SemInit PROVE SemInv
  OBVIOUS
<1>1. SemTypeOK
  BY SemaphoreAssumption DEF SemInit, SemTypeOK, Outcomes
<1>2. With("granted") = {} /\ With("waiting") = {}
  BY DEF SemInit, With
<1>3. PermitConservation
  BY <1>2, FS_EmptySet, SemaphoreAssumption DEF SemInit, PermitConservation
<1> QED
  BY <1>1, <1>2, <1>3 DEF SemInv, WaitersQueued, NoIdlePermit

LEMMA AcquireInv == ASSUME SemInv, NEW r \in Requests, Acquire(r) PROVE SemInv'
<1> USE SemaphoreAssumption
<1>1. CASE available > 0
  <2>1. /\ available' = available - 1 /\ queue' = queue
        /\ outcome' = [outcome EXCEPT ![r] = "granted"]
        /\ dead' = dead /\ cancelWork' = cancelWork
    BY <1>1 DEF Acquire, Free
  <2>2. SemTypeOK'
    BY <1>1, <2>1 DEF SemInv, SemTypeOK, Outcomes
  <2>3. Cardinality(With("granted")') = Cardinality(With("granted")) + 1
    BY <2>1, GrantedGrows DEF SemInv, Acquire
  <2>4. PermitConservation'
    BY <2>1, <2>3, GrantedCard DEF SemInv, PermitConservation, SemTypeOK
  <2>5. With("waiting")' = With("waiting")
    BY <2>1 DEF With, SemInv, SemTypeOK, Acquire
  <2> QED
    BY <1>1, <2>1, <2>2, <2>4, <2>5 DEF SemInv, WaitersQueued, NoIdlePermit
<1>2. CASE available = 0
  <2>1. /\ available' = available /\ queue' = Append(queue, r)
        /\ outcome' = [outcome EXCEPT ![r] = "waiting"]
        /\ dead' = dead /\ cancelWork' = cancelWork
    BY <1>2 DEF Acquire, Free
  <2>2. SemTypeOK'
    BY <2>1 DEF SemInv, SemTypeOK, Outcomes
  <2>3. With("granted")' = With("granted")
    BY <2>1 DEF With, SemInv, SemTypeOK, Acquire
  <2>4. With("waiting")' = With("waiting") \cup {r}
    BY <2>1 DEF With, SemInv, SemTypeOK, Acquire
  <2>5. WaitersQueued'
    BY <2>1, <2>4 DEF SemInv, WaitersQueued, SemTypeOK
  <2> QED
    BY <1>2, <2>1, <2>2, <2>3, <2>5 DEF SemInv, PermitConservation, NoIdlePermit
<1> QED
  BY <1>1, <1>2 DEF SemInv, SemTypeOK

LEMMA CancelInv == ASSUME SemInv, NEW r \in Requests, Cancel(r) PROVE SemInv'
<1> USE SemaphoreAssumption
<1>1. available' = available /\ outcome' = [outcome EXCEPT ![r] = "cancelled"]
  BY DEF Cancel
<1>2. outcome' \in [Requests -> Outcomes]
  BY <1>1 DEF SemInv, SemTypeOK, Outcomes
<1>3. With("granted")' = With("granted") /\ With("waiting")' = With("waiting") \ {r}
  BY <1>1 DEF With, SemInv, SemTypeOK, Cancel, Pending
<1>4. PermitConservation'
  BY <1>1, <1>3 DEF SemInv, PermitConservation
<1>5. r \in With("waiting") /\ available = 0
  <2>1. r \in With("waiting")
    BY DEF Cancel, Pending, With
  <2> QED
    BY <2>1 DEF SemInv, NoIdlePermit, SemTypeOK
<1>6. NoIdlePermit'
  BY <1>1, <1>5 DEF NoIdlePermit
<1>7. CASE CompactNow
  <2> DEFINE kept == {i \in LiveAt : queue[i] # r}
             n == Cardinality(kept)
  <2>1. PICK f \in [1..n -> kept] : Lists(f, kept) /\ queue' = [k \in 1..n |-> queue[f[k]]]
    BY <1>7 DEF Cancel
  <2>2. dead' = 0 /\ cancelWork' = cancelWork + Len(queue)
    BY <1>7 DEF Cancel
  <2>3. n \in Nat
    <3>1. DOMAIN queue = 1..Len(queue) /\ Len(queue) \in Nat
      BY DEF SemInv, SemTypeOK
    <3>2. IsFiniteSet(1..Len(queue))
      BY <3>1, FS_Interval
    <3>3. kept \subseteq 1..Len(queue)
      BY <3>1 DEF LiveAt
    <3> QED
      BY <3>2, <3>3, FS_Subset, FS_CardinalityType
  <2>4. queue' \in Seq(Requests)
    <3>1. \A k \in 1..n : queue[f[k]] \in Requests
      BY <2>1 DEF LiveAt, With
    <3> HIDE DEF n
    <3> QED
      BY <2>1, <2>3, <3>1
  <2>5. SemTypeOK'
    BY <1>1, <1>2, <2>2, <2>4 DEF SemInv, SemTypeOK
  <2>6. WaitersQueued'
    <3> SUFFICES ASSUME NEW w \in With("waiting")'
                 PROVE \E k \in DOMAIN queue' : queue'[k] = w
      BY DEF WaitersQueued
    <3>1. w \in With("waiting") /\ w # r
      BY <1>3
    <3>2. PICK i \in DOMAIN queue : queue[i] = w
      BY <3>1 DEF SemInv, WaitersQueued
    <3>3. i \in kept
      BY <3>1, <3>2 DEF LiveAt
    <3>4. PICK k \in 1..n : f[k] = i
      BY <2>1, <3>3 DEF Lists
    <3> QED
      BY <2>1, <3>2, <3>4
  <2> QED
    BY <1>4, <1>6, <2>5, <2>6 DEF SemInv
<1>8. CASE ~CompactNow
  <2>1. queue' = queue /\ dead' = dead + 1 /\ cancelWork' = cancelWork
    BY <1>8 DEF Cancel
  <2>2. SemTypeOK'
    BY <1>1, <1>2, <2>1 DEF SemInv, SemTypeOK
  <2>3. WaitersQueued'
    BY <1>3, <2>1 DEF SemInv, WaitersQueued
  <2> QED
    BY <1>4, <1>6, <2>2, <2>3 DEF SemInv
<1> QED
  BY <1>7, <1>8

LEMMA ReleaseInv == ASSUME SemInv, NEW r \in Requests, Release(r) PROVE SemInv'
<1> USE SemaphoreAssumption
<1>1. outcome[r] = "granted" /\ cancelWork' = cancelWork
  BY DEF Release
<1>2. CASE LiveAt = {}
  <2>1. /\ available' = available + 1 /\ queue' = <<>>
        /\ dead' = dead - Len(queue)
        /\ outcome' = [outcome EXCEPT ![r] = "released"]
    BY <1>2 DEF Release
  <2>2. Cardinality(With("granted")') = Cardinality(With("granted")) - 1
    BY <1>1, <2>1, GrantedShrinks DEF SemInv
  <2>3. PermitConservation' /\ available' \in 0..Limit
    <3>1. Cardinality(With("granted")') \in Nat
      <4>1. With("granted")' \subseteq Requests
        BY DEF With
      <4> QED
        BY <4>1, FS_Subset, FS_CardinalityType
    <3> QED
      BY <2>1, <2>2, <3>1, GrantedCard DEF SemInv, PermitConservation, SemTypeOK
  <2>4. With("waiting") = {}
    BY <1>2 DEF SemInv, WaitersQueued, LiveAt
  <2>5. With("waiting")' = {}
    BY <1>1, <2>1, <2>4 DEF With, SemInv, SemTypeOK
  <2>6. SemTypeOK'
    BY <1>1, <2>1, <2>3 DEF SemInv, SemTypeOK, Outcomes
  <2> QED
    BY <2>3, <2>5, <2>6 DEF SemInv, WaitersQueued, NoIdlePermit
<1>3. CASE LiveAt # {}
  <2>1. PICK i \in LiveAt :
          /\ IsFirst(i, LiveAt)
          /\ queue' = SubSeq(queue, i + 1, Len(queue))
          /\ dead' = dead - (i - 1)
          /\ outcome' = [outcome EXCEPT ![r] = "released", ![queue[i]] = "granted"]
          /\ available' = available
    BY <1>3 DEF Release
  <2>2. i \in 1..Len(queue) /\ Len(queue) \in Nat /\ queue[i] \in Requests /\ outcome[queue[i]] = "waiting"
    BY DEF SemInv, SemTypeOK, LiveAt, With
  <2>3. PermitConservation'
    BY <1>1, <2>1, <2>2, GrantHandedOver DEF SemInv, PermitConservation
  <2>4. SemTypeOK'
    BY <1>1, <2>1, <2>2 DEF SemInv, SemTypeOK, Outcomes
  <2>5. With("waiting")' = With("waiting") \ {queue[i]}
    BY <1>1, <2>1, <2>2 DEF With, SemInv, SemTypeOK
  <2>6. WaitersQueued'
    <3> SUFFICES ASSUME NEW w \in With("waiting")'
                 PROVE \E k \in DOMAIN queue' : queue'[k] = w
      BY DEF WaitersQueued
    <3>1. PICK j \in 1..Len(queue) : queue[j] = w
      BY <2>5 DEF SemInv, WaitersQueued, SemTypeOK
    <3>2. j \in LiveAt /\ j # i
      BY <2>5, <3>1, <2>2 DEF LiveAt, SemInv, SemTypeOK
    <3>3. j > i
      BY <2>1, <2>2, <3>1, <3>2 DEF IsFirst
    <3>4. j - i \in DOMAIN queue' /\ queue'[j - i] = queue[j]
      <4>1. queue \in Seq(Requests) /\ i + 1 \in 1..Len(queue)
        BY <2>2, <3>1, <3>3 DEF SemInv, SemTypeOK
      <4>2. Len(queue') = Len(queue) - i
        BY <2>1, <2>2, <4>1
      <4>3. queue' \in Seq(Requests) /\ j - i \in 1..(Len(queue) - i)
        BY <2>1, <2>2, <3>1, <3>3, <4>1
      <4>4. queue'[j - i] = queue[(i + 1) + (j - i) - 1]
        BY <2>1, <2>2, <3>1, <3>3, <4>1, <4>3
      <4> QED
        BY <2>2, <3>1, <4>2, <4>3, <4>4
    <3> QED
      BY <3>1, <3>4
  <2>7. available = 0
    BY <2>2 DEF SemInv, NoIdlePermit, SemTypeOK, With
  <2> QED
    BY <2>1, <2>3, <2>4, <2>6, <2>7 DEF SemInv, NoIdlePermit
<1> QED
  BY <1>2, <1>3

LEMMA SemStep == SemInv /\ [SemNext]_semVars => SemInv'
<1> SUFFICES ASSUME SemInv, [SemNext]_semVars PROVE SemInv'
  OBVIOUS
<1>1. CASE UNCHANGED semVars
  BY <1>1 DEF semVars, SemInv, SemTypeOK, PermitConservation, WaitersQueued, NoIdlePermit, With
<1>2. CASE SemNext
  BY <1>2, AcquireInv, CancelInv, ReleaseInv DEF SemNext
<1> QED
  BY <1>1, <1>2

\* For every set of requests and every limit: the state is well typed, every
\* permit is free or held by exactly one granted request, and no permit is
\* free while a request waits, whatever order acquires, cancels (compactions
\* included) and releases come in.
THEOREM PermitsConserved == SemSpec => [](SemTypeOK /\ PermitConservation /\ NoIdlePermit)
<1>1. SemInv => SemTypeOK /\ PermitConservation /\ NoIdlePermit
  BY DEF SemInv
<1> QED
  BY SemInitInv, SemStep, <1>1, PTL DEF SemSpec
------------------------------------------------------------------------------
(***************************************************************************)
(* The array behind the queue.  A request takes one place at most, a place *)
(* holds a live waiter or a shell, and the shells are the places the live  *)
(* waiters leave over; AmortizedCancel is inductive beside these.          *)
(***************************************************************************)
QueueOnce == \A i, j \in DOMAIN queue : queue[i] = queue[j] => i = j

Entries == \A i \in DOMAIN queue : outcome[queue[i]] \in {"waiting", "cancelled"}

DeadCount == dead = Len(queue) - Cardinality(With("waiting"))

AccountInv == QueueOnce /\ Entries /\ DeadCount /\ AmortizedCancel

LEMMA OutcomeCards ==
  ASSUME NEW o
  PROVE  /\ IsFiniteSet(With(o)) /\ Cardinality(With(o)) \in Nat
         /\ IsFiniteSet(With(o)') /\ Cardinality(With(o)') \in Nat
<1>1. With(o) \subseteq Requests /\ With(o)' \subseteq Requests
  BY DEF With
<1> QED
  BY <1>1, FS_Subset, FS_CardinalityType, SemaphoreAssumption

\* The places of the live waiters are as many as the live waiters.
LEMMA LiveCount ==
  ASSUME SemInv, QueueOnce
  PROVE  IsFiniteSet(LiveAt) /\ Cardinality(LiveAt) = Cardinality(With("waiting"))
<1>1. \A i \in LiveAt : queue[i] \in With("waiting")
  BY DEF LiveAt
<1>2. \A i, j \in LiveAt : queue[i] = queue[j] => i = j
  BY DEF LiveAt, QueueOnce
<1>3. \A r \in With("waiting") : \E i \in LiveAt : queue[i] = r
  BY DEF SemInv, WaitersQueued, LiveAt
<1>4. PICK g : g = [i \in LiveAt |-> queue[i]]
  OBVIOUS
<1>5. ExistsBijection(LiveAt, With("waiting"))
  <2>1. g \in [LiveAt -> With("waiting")]
    BY <1>1, <1>4
  <2>2. DOMAIN g = LiveAt /\ \A i \in LiveAt : g[i] = queue[i]
    BY <1>4
  <2>3. g \in Injection(LiveAt, With("waiting"))
    BY <1>2, <2>1, <2>2 DEF Injection, IsInjective
  <2>4. g \in Surjection(LiveAt, With("waiting"))
    BY <1>3, <2>1, <2>2 DEF Surjection
  <2> QED
    BY <2>3, <2>4 DEF ExistsBijection, Bijection
<1>6. IsFiniteSet(LiveAt)
  <2>1. LiveAt \subseteq 1..Len(queue) /\ Len(queue) \in Nat
    BY DEF LiveAt, SemInv, SemTypeOK
  <2>2. IsFiniteSet(1..Len(queue))
    BY <2>1, FS_Interval
  <2> QED
    BY <2>1, <2>2, FS_Subset
<1> QED
  BY <1>5, <1>6, FS_Bijection

LEMMA ShellCount ==
  ASSUME SemInv, QueueOnce, Entries
  PROVE  Cardinality(Shells) = Len(queue) - Cardinality(With("waiting")) /\ LiveAt \cup Shells = DOMAIN queue
<1>1. DOMAIN queue = 1..Len(queue) /\ Len(queue) \in Nat
  BY DEF SemInv, SemTypeOK
<1>2. Shells = (1..Len(queue)) \ LiveAt /\ LiveAt \subseteq 1..Len(queue)
  <2>1. \A i \in 1..Len(queue) : queue[i] \in Requests
    BY <1>1 DEF SemInv, SemTypeOK
  <2>2. \A i \in 1..Len(queue) : i \in LiveAt <=> outcome[queue[i]] = "waiting"
    BY <1>1, <2>1 DEF LiveAt, With
  <2>3. \A i \in 1..Len(queue) : i \in Shells <=> outcome[queue[i]] = "cancelled"
    BY <1>1 DEF Shells
  <2>4. \A i \in 1..Len(queue) : i \in Shells <=> i \notin LiveAt
    BY <1>1, <2>2, <2>3 DEF Entries
  <2>5. LiveAt \subseteq 1..Len(queue) /\ Shells \subseteq 1..Len(queue)
    BY <1>1 DEF LiveAt, Shells
  <2> QED
    BY <2>4, <2>5
<1>3. IsFiniteSet(1..Len(queue)) /\ Cardinality(1..Len(queue)) = Len(queue)
  <2>1. PICK n \in Nat : n = Len(queue)
    BY <1>1
  <2>2. IsFiniteSet(1..n) /\ Cardinality(1..n) = IF 1 > n THEN 0 ELSE n - 1 + 1
    BY FS_Interval
  <2>3. Cardinality(1..n) = n
    BY <2>2
  <2> QED
    BY <2>1, <2>2, <2>3
<1>4. (1..Len(queue)) \cap LiveAt = LiveAt
  BY <1>2
<1>5. Cardinality((1..Len(queue)) \ LiveAt) = Cardinality(1..Len(queue)) - Cardinality((1..Len(queue)) \cap LiveAt)
  BY <1>3, FS_Difference
<1> QED
  BY <1>1, <1>2, <1>3, <1>4, <1>5, LiveCount

LEMMA AccountsQueue == SemInv /\ AccountInv => QueueAccounting
<1> SUFFICES ASSUME SemInv, AccountInv PROVE QueueAccounting
  OBVIOUS
<1>1. dead = Cardinality(Shells) /\ LiveAt \cup Shells = DOMAIN queue
  BY ShellCount DEF AccountInv, DeadCount
<1>2. ASSUME NEW r \in With("waiting") PROVE Cardinality({i \in DOMAIN queue : queue[i] = r}) = 1
  <2>1. PICK p \in DOMAIN queue : queue[p] = r
    BY DEF SemInv, WaitersQueued
  <2>2. {i \in DOMAIN queue : queue[i] = r} = {p}
    BY <2>1 DEF AccountInv, QueueOnce
  <2> QED
    BY <2>2, FS_Singleton
<1> QED
  BY <1>1, <1>2 DEF QueueAccounting

LEMMA AccountAcquire == ASSUME SemInv, AccountInv, NEW r \in Requests, Acquire(r) PROVE AccountInv'
<1>1. outcome[r] = "new" /\ UNCHANGED <<dead, cancelWork>>
  BY DEF Acquire
<1>2. CASE Free
  <2>1. queue' = queue /\ outcome' = [outcome EXCEPT ![r] = "granted"]
    BY <1>2 DEF Acquire
  <2>2. With("waiting")' = With("waiting") /\ With("cancelled")' = With("cancelled")
    BY <1>1, <2>1 DEF With, SemInv, SemTypeOK
  <2>3. Entries'
    BY <1>1, <2>1 DEF AccountInv, Entries, SemInv, SemTypeOK
  <2> QED
    BY <1>1, <2>1, <2>2, <2>3 DEF AccountInv, QueueOnce, DeadCount, AmortizedCancel
<1>3. CASE ~Free
  <2>1. queue' = Append(queue, r) /\ outcome' = [outcome EXCEPT ![r] = "waiting"]
    BY <1>3 DEF Acquire
  <2>2. queue \in Seq(Requests)
    BY DEF SemInv, SemTypeOK
  <2>3. /\ Len(queue') = Len(queue) + 1 /\ Len(queue) \in Nat /\ DOMAIN queue' = 1..(Len(queue) + 1)
        /\ DOMAIN queue = 1..Len(queue)
        /\ \A i \in 1..Len(queue) : queue'[i] = queue[i]
        /\ queue'[Len(queue) + 1] = r
    BY <2>1, <2>2
  <2>4. \A i \in DOMAIN queue : queue[i] # r /\ queue[i] \in Requests
    BY <1>1, <2>2 DEF AccountInv, Entries
  <2>5. \A i \in DOMAIN queue' : i \in DOMAIN queue \/ i = Len(queue) + 1
    BY <2>3
  <2>6. QueueOnce'
    BY <2>3, <2>4, <2>5 DEF AccountInv, QueueOnce
  <2>7. Entries'
    BY <2>1, <2>3, <2>4, <2>5 DEF AccountInv, Entries, SemInv, SemTypeOK
  <2>8. With("waiting")' = With("waiting") \cup {r} /\ r \notin With("waiting") /\ With("cancelled")' = With("cancelled")
    BY <1>1, <2>1 DEF With, SemInv, SemTypeOK
  <2>9. Cardinality(With("waiting")') = Cardinality(With("waiting")) + 1
    BY <2>8, OutcomeCards, FS_AddElement
  <2>10. DeadCount'
    BY <1>1, <2>3, <2>9, OutcomeCards DEF AccountInv, DeadCount
  <2> QED
    BY <1>1, <2>6, <2>7, <2>8, <2>10 DEF AccountInv, AmortizedCancel
<1> QED
  BY <1>2, <1>3

LEMMA AccountCancel == ASSUME SemInv, AccountInv, NEW r \in Requests, Cancel(r) PROVE AccountInv'
<1>1. outcome[r] = "waiting" /\ outcome' = [outcome EXCEPT ![r] = "cancelled"]
  BY DEF Cancel, Pending
<1>2. With("waiting")' = With("waiting") \ {r} /\ r \in With("waiting")
  BY <1>1 DEF With, SemInv, SemTypeOK
<1>3. With("cancelled")' = With("cancelled") \cup {r} /\ r \notin With("cancelled")
  BY <1>1 DEF With, SemInv, SemTypeOK
<1>4. /\ Cardinality(With("waiting")') = Cardinality(With("waiting")) - 1
      /\ Cardinality(With("cancelled")') = Cardinality(With("cancelled")) + 1
  BY <1>2, <1>3, OutcomeCards, FS_AddElement, FS_RemoveElement
<1>5. /\ queue \in Seq(Requests) /\ Len(queue) \in Nat /\ DOMAIN queue = 1..Len(queue)
      /\ dead \in Int /\ cancelWork \in Nat
  BY DEF SemInv, SemTypeOK
<1>6. PICK p \in DOMAIN queue : queue[p] = r
  BY <1>2 DEF SemInv, WaitersQueued
<1>7. CASE CompactNow
  <2> DEFINE kept == {i \in LiveAt : queue[i] # r}
             n == Cardinality(kept)
  <2>1. PICK f \in [1..n -> kept] : Lists(f, kept) /\ queue' = [k \in 1..n |-> queue[f[k]]]
    BY <1>7 DEF Cancel
  <2>2. dead' = 0 /\ cancelWork' = cancelWork + Len(queue)
    BY <1>7 DEF Cancel
  <2>3. kept = LiveAt \ {p} /\ p \in LiveAt
    BY <1>2, <1>6 DEF LiveAt, AccountInv, QueueOnce
  <2>4. n = Cardinality(With("waiting")) - 1 /\ n \in Nat
    BY <1>4, <2>3, LiveCount, OutcomeCards, FS_RemoveElement DEF AccountInv
  <2>5. \A k \in 1..n : f[k] \in DOMAIN queue /\ f[k] \in LiveAt /\ queue[f[k]] # r
    BY <2>1 DEF LiveAt
  <2>6. \A j, k \in 1..n : f[j] = f[k] => j = k
    <3>1. \A j, k \in 1..n : j < k => f[j] < f[k]
      BY <2>1 DEF Lists
    <3>2. \A k \in 1..n : f[k] \in Nat
      BY <1>5, <2>5
    <3> HIDE DEF n
    <3> QED
      BY <3>1, <3>2, <2>4
  <2> HIDE DEF n, kept
  <2>7. DOMAIN queue' = 1..n /\ Len(queue') = n /\ \A k \in 1..n : queue'[k] = queue[f[k]]
    <3>1. \A k \in 1..n : queue[f[k]] \in Requests
      BY <1>5, <2>5
    <3>2. queue' \in Seq(Requests)
      BY <2>1, <2>4, <3>1
    <3>3. DOMAIN queue' = 1..n
      BY <2>1
    <3>4. Len(queue') = n
      BY <2>4, <3>2, <3>3
    <3> QED
      BY <2>1, <3>3, <3>4
  <2>8. QueueOnce'
    BY <2>5, <2>6, <2>7 DEF AccountInv, QueueOnce
  <2>9. Entries'
    BY <1>1, <1>5, <2>5, <2>7 DEF Entries, LiveAt, With, SemInv, SemTypeOK
  <2>10. DeadCount'
    BY <1>4, <2>2, <2>4, <2>7 DEF DeadCount
  <2>11. AmortizedCancel'
    <3>1. Len(queue) <= 2 * dead + 1
      BY <1>5, <1>7 DEF CompactNow
    <3> QED
      BY <1>4, <1>5, <2>2, <3>1, OutcomeCards DEF AccountInv, AmortizedCancel
  <2> QED
    BY <2>8, <2>9, <2>10, <2>11 DEF AccountInv
<1>8. CASE ~CompactNow
  <2>1. dead' = dead + 1 /\ UNCHANGED <<queue, cancelWork>>
    BY <1>8 DEF Cancel
  <2>2. Entries'
    BY <1>1, <1>5, <2>1 DEF AccountInv, Entries, SemInv, SemTypeOK
  <2>3. DeadCount'
    BY <1>4, <1>5, <2>1, OutcomeCards DEF AccountInv, DeadCount
  <2>4. AmortizedCancel'
    BY <1>4, <1>5, <2>1, OutcomeCards DEF AccountInv, AmortizedCancel
  <2> QED
    BY <2>1, <2>2, <2>3, <2>4 DEF AccountInv, QueueOnce
<1> QED
  BY <1>7, <1>8

\* What release() leaves of the array: the places after the first live one.
LEMMA Remaining ==
  ASSUME SemInv, NEW i \in LiveAt, queue' = SubSeq(queue, i + 1, Len(queue))
  PROVE  /\ i \in 1..Len(queue) /\ Len(queue) \in Nat /\ DOMAIN queue = 1..Len(queue)
         /\ Len(queue') = Len(queue) - i /\ DOMAIN queue' = 1..(Len(queue) - i)
         /\ \A k \in 1..(Len(queue) - i) : k + i \in DOMAIN queue /\ queue'[k] = queue[k + i]
<1>0. queue \in Seq(Requests)
  BY DEF SemInv, SemTypeOK
<1>1. Len(queue) \in Nat /\ i \in 1..Len(queue) /\ DOMAIN queue = 1..Len(queue)
  BY <1>0 DEF LiveAt
<1>2. Len(queue') = Len(queue) - i
  <2>1. PICK n \in Nat : n = Len(queue)
    BY <1>1
  <2>2. \A k \in (i + 1)..n : queue[k] \in Requests
    BY <1>0, <1>1, <2>1
  <2>3. i + 1 \in Int /\ n \in Int
    BY <1>1, <2>1
  <2>4. Len(SubSeq(queue, i + 1, n)) = IF i + 1 <= n THEN n - (i + 1) + 1 ELSE 0
    BY <2>2, <2>3, SubSeqProperties
  <2>5. Len(SubSeq(queue, i + 1, n)) = n - i
    <3>1. PICK m : m = Len(SubSeq(queue, i + 1, n))
      OBVIOUS
    <3>2. i \in Int /\ i <= n
      BY <1>1, <2>1
    <3>3. m = IF i + 1 <= n THEN n - (i + 1) + 1 ELSE 0
      BY <2>4, <3>1
    <3>4. m = n - i
      BY <3>2, <3>3
    <3> QED
      BY <3>1, <3>4
  <2> QED
    BY <2>1, <2>5
<1>3. queue' \in Seq(Requests)
  BY <1>0, <1>1
<1>4. DOMAIN queue' = 1..(Len(queue) - i)
  BY <1>2, <1>3
<1>5. ASSUME NEW k \in 1..(Len(queue) - i) PROVE k + i \in DOMAIN queue /\ queue'[k] = queue[k + i]
  <2>1. k + i \in 1..Len(queue)
    BY <1>1
  <2>2. queue'[k] = queue[(i + 1) + k - 1]
    BY <1>0, <1>1, <1>5, <2>1
  <2>3. (i + 1) + k - 1 = k + i
    BY <1>1
  <2> QED
    BY <1>1, <2>1, <2>2, <2>3
<1> QED
  BY <1>1, <1>2, <1>4, <1>5

LEMMA AccountRelease == ASSUME SemInv, AccountInv, NEW r \in Requests, Release(r) PROVE AccountInv'
<1>1. outcome[r] = "granted" /\ cancelWork' = cancelWork
  BY DEF Release
<1>2. queue \in Seq(Requests) /\ Len(queue) \in Nat /\ dead \in Int /\ cancelWork \in Nat
  BY DEF SemInv, SemTypeOK
<1>3. CASE LiveAt = {}
  <2>1. queue' = <<>> /\ dead' = dead - Len(queue) /\ outcome' = [outcome EXCEPT ![r] = "released"]
    BY <1>3 DEF Release
  <2>2. With("waiting") = {} /\ With("waiting")' = {} /\ With("cancelled")' = With("cancelled")
    BY <1>1, <1>3, <2>1 DEF SemInv, SemTypeOK, WaitersQueued, LiveAt, With
  <2>3. Cardinality(With("waiting")) = 0 /\ Cardinality(With("waiting")') = 0
    BY <2>2, FS_EmptySet
  <2>4. Len(queue') = 0 /\ DOMAIN queue' = {}
    BY <2>1
  <2>5. DeadCount'
    BY <1>2, <2>1, <2>3, <2>4 DEF AccountInv, DeadCount
  <2>6. AmortizedCancel'
    BY <1>1, <1>2, <2>1, <2>2, OutcomeCards DEF AccountInv, AmortizedCancel
  <2> QED
    BY <2>4, <2>5, <2>6 DEF AccountInv, QueueOnce, Entries
<1>4. CASE LiveAt # {}
  <2>1. PICK i \in LiveAt :
          /\ IsFirst(i, LiveAt)
          /\ queue' = SubSeq(queue, i + 1, Len(queue))
          /\ dead' = dead - (i - 1)
          /\ outcome' = [outcome EXCEPT ![r] = "released", ![queue[i]] = "granted"]
    BY <1>4 DEF Release
  <2>2. /\ i \in 1..Len(queue) /\ DOMAIN queue = 1..Len(queue)
        /\ Len(queue') = Len(queue) - i /\ DOMAIN queue' = 1..(Len(queue) - i)
        /\ \A k \in 1..(Len(queue) - i) : k + i \in DOMAIN queue /\ queue'[k] = queue[k + i]
    BY <2>1, Remaining
  <2>3. queue[i] \in Requests /\ outcome[queue[i]] = "waiting"
    BY <1>2, <2>2 DEF LiveAt, With
  <2>4. With("waiting")' = With("waiting") \ {queue[i]} /\ queue[i] \in With("waiting") /\ With("cancelled")' = With("cancelled")
    BY <1>1, <2>1, <2>3 DEF With, SemInv, SemTypeOK
  <2>5. Cardinality(With("waiting")') = Cardinality(With("waiting")) - 1
    BY <2>4, OutcomeCards, FS_RemoveElement
  <2>6. \A k \in DOMAIN queue' : k + i \in DOMAIN queue /\ queue'[k] = queue[k + i] /\ k + i # i /\ k \in Int
    BY <2>2
  <2>7. QueueOnce'
    <3> SUFFICES ASSUME NEW j \in DOMAIN queue', NEW k \in DOMAIN queue', queue'[j] = queue'[k] PROVE j = k
      BY DEF QueueOnce
    <3>1. j + i = k + i /\ j \in Int /\ k \in Int /\ i \in Int
      BY <2>2, <2>6 DEF AccountInv, QueueOnce
    <3> QED
      BY <3>1
  <2>8. Entries'
    <3> SUFFICES ASSUME NEW k \in DOMAIN queue' PROVE outcome'[queue'[k]] \in {"waiting", "cancelled"}
      BY DEF Entries
    <3>1. PICK w : w = queue'[k]
      OBVIOUS
    <3>2. w = queue[k + i] /\ k + i \in DOMAIN queue /\ k + i # i /\ i \in DOMAIN queue
      BY <2>2, <2>6, <3>1
    <3>3. w # queue[i] /\ outcome[w] \in {"waiting", "cancelled"}
      BY <3>2 DEF AccountInv, QueueOnce, Entries
    <3>4. w \in Requests /\ w # r
      BY <1>1, <1>2, <3>2, <3>3
    <3>5. outcome'[w] = outcome[w]
      BY <2>1, <3>3, <3>4 DEF SemInv, SemTypeOK
    <3> QED
      BY <3>1, <3>3, <3>5
  <2>9. DeadCount'
    <3>1. PICK n \in Nat : n = Cardinality(With("waiting"))
      BY OutcomeCards
    <3>2. dead = Len(queue) - n /\ Cardinality(With("waiting")') = n - 1
      BY <2>5, <3>1 DEF AccountInv, DeadCount
    <3>3. dead' = dead - (i - 1)
      BY <2>1
    <3>5. i \in Int /\ Len(queue') = Len(queue) - i
      BY <1>2, <2>2
    <3>4. dead' = Len(queue') - (n - 1)
      BY <1>2, <3>2, <3>3, <3>5
    <3> QED
      BY <3>2, <3>4 DEF DeadCount
  <2>10. AmortizedCancel'
    <3>1. Cardinality(With("cancelled")) \in Nat /\ i \in Int /\ i >= 1
      BY <2>2, OutcomeCards
    <3>2. Cardinality(With("cancelled")') = Cardinality(With("cancelled"))
      BY <2>4
    <3>3. dead' <= dead /\ dead' \in Int
      BY <1>2, <2>1, <3>1
    <3> QED
      BY <1>1, <1>2, <3>1, <3>2, <3>3 DEF AccountInv, AmortizedCancel
  <2> QED
    BY <2>7, <2>8, <2>9, <2>10 DEF AccountInv
<1> QED
  BY <1>3, <1>4

LEMMA SemInitAccount == SemInit => AccountInv
<1> SUFFICES ASSUME SemInit PROVE AccountInv
  OBVIOUS
<1>1. With("waiting") = {} /\ With("cancelled") = {} /\ queue = <<>> /\ dead = 0 /\ cancelWork = 0
  BY DEF SemInit, With
<1>2. DOMAIN queue = {} /\ Len(queue) = 0
  BY <1>1
<1>3. QueueOnce /\ Entries
  BY <1>2 DEF QueueOnce, Entries
<1>4. Cardinality(With("waiting")) = 0 /\ Cardinality(With("cancelled")) = 0
  BY <1>1, FS_EmptySet
<1>5. DeadCount
  BY <1>1, <1>2, <1>4 DEF DeadCount
<1>6. AmortizedCancel
  BY <1>1, <1>4 DEF AmortizedCancel
<1> QED
  BY <1>3, <1>5, <1>6 DEF AccountInv

LEMMA AccountStep == SemInv /\ AccountInv /\ [SemNext]_semVars => AccountInv'
<1> SUFFICES ASSUME SemInv, AccountInv, [SemNext]_semVars PROVE AccountInv'
  OBVIOUS
<1>1. CASE UNCHANGED semVars
  BY <1>1 DEF semVars, AccountInv, QueueOnce, Entries, DeadCount, AmortizedCancel, With
<1>2. CASE SemNext
  BY <1>2, AccountAcquire, AccountCancel, AccountRelease DEF SemNext
<1> QED
  BY <1>1, <1>2

\* The array never loses a waiter nor keeps one twice, `dead` is the number of
\* its shells, and N cancellations scan at most 2N entries (cancelWaiter()'s
\* amortized compaction), in any order of acquires, cancels and releases.
THEOREM ArrayAccounted == SemSpec => [](QueueAccounting /\ AmortizedCancel)
<1>1. SemInv /\ AccountInv => QueueAccounting /\ AmortizedCancel
  BY AccountsQueue DEF AccountInv
<1> QED
  BY SemInitInv, SemInitAccount, SemStep, AccountStep, <1>1, PTL DEF SemSpec

------------------------------------------------------------------------------
(* The scheduler *)

(***************************************************************************)
(* What the variables of one call say of each other, state by state of its *)
(* slot: where its request stands in the semaphore, whether its operation  *)
(* was started, and what its caller has been told.                         *)
(***************************************************************************)
Linked(c) ==
  \/ slot[c] = "none" /\ outcome[c] = "new" /\ work[c] = "none" /\ result[c] = "none"
  \/ slot[c] = "queued" /\ outcome[c] \in {"waiting", "granted"} /\ work[c] = "none" /\ result[c] = "pending"
  \/ slot[c] = "expired" /\ outcome[c] \in {"cancelled", "granted", "released"} /\ work[c] = "none" /\ result[c] = "timeout"
  \/ slot[c] = "admitted" /\ outcome[c] = "granted" /\ work[c] = "none" /\ result[c] = "pending"
  \/ slot[c] = "running" /\ outcome[c] = "granted" /\ work[c] \in {"running", "done"} /\ result[c] = "pending"
  \/ slot[c] = "held" /\ outcome[c] = "granted" /\ work[c] \in {"running", "done"} /\ result[c] = "timeout"
  \/ slot[c] = "orphaned" /\ outcome[c] = "released" /\ work[c] \in {"running", "done"} /\ result[c] = "timeout"
  \/ slot[c] = "promoted" /\ outcome[c] = "released" /\ work[c] \in {"running", "done"} /\ result[c] = "timeout"
  \/ slot[c] = "settled" /\ outcome[c] = "released" /\ work[c] = "observed" /\ result[c] \in {"value", "timeout"}
  \/ slot[c] = "abandoned" /\ outcome[c] = "released" /\ work[c] = "none" /\ result[c] = "declined"
  \/ slot[c] = "retired" /\ outcome[c] = "released" /\ work[c] = "observed" /\ result[c] = "timeout"

Links == \A c \in Requests : Linked(c)

\* While only timers have run no continuation but a claim is ready.
BatchSound == batch => \A c \in Requests : slot[c] # "admitted" /\ work[c] # "done"

Listed(s, c) == \E i \in DOMAIN s : s[i] = c
Once(s) == \A i, j \in DOMAIN s : s[i] = s[j] => i = j
Before(s, c, d) == \E i, j \in DOMAIN s : i < j /\ s[i] = c /\ s[j] = d

\* A deadline is armed for the calls that wait, were admitted or run, and the
\* held list names the held slots.
Armed == {"queued", "admitted", "running"}

TimersSound == Once(timers) /\ \A c \in Requests : Listed(timers, c) <=> slot[c] \in Armed

HeldSound == Once(held) /\ \A c \in Requests : Listed(held, c) <=> slot[c] = "held"

Counted ==
  /\ permitsInUse = Cardinality(Slots(PermitHolding))
  /\ orphaned = Cardinality(Slots(OrphanOccupying))

\* Deadlines were armed in the order the waiters joined the FIFO, so the
\* shells, whose deadlines have fired, stand before every live waiter.
DeadlineOrder ==
  \A c, d \in With("waiting") : Before(timers, c, d) => Before(queue, c, d)

ShellsFirst ==
  \A d \in With("waiting"), c \in With("cancelled") : ~Before(queue, d, c)

------------------------------------------------------------------------------
(***************************************************************************)
(* The three ways the code edits a list of calls.                          *)
(***************************************************************************)
LEMMA ListAppend ==
  ASSUME NEW s \in Seq(Requests), NEW c \in Requests, ~Listed(s, c), Once(s)
  PROVE  /\ Append(s, c) \in Seq(Requests)
         /\ Once(Append(s, c))
         /\ \A d : Listed(Append(s, c), d) <=> Listed(s, d) \/ d = c
         /\ \A d, e : Before(Append(s, c), d, e) =>
                        Before(s, d, e) \/ (e = c /\ d # c /\ Listed(s, d))
         /\ \A d, e : Before(s, d, e) => Before(Append(s, c), d, e)
         /\ \A d : Listed(s, d) => Before(Append(s, c), d, c)
<1> DEFINE t == Append(s, c)
<1>1. PICK n \in Nat : n = Len(s) /\ DOMAIN s = 1..n
  OBVIOUS
<1>2. /\ t \in Seq(Requests) /\ DOMAIN t = 1..(n + 1)
      /\ \A i \in 1..n : t[i] = s[i]
      /\ t[n + 1] = c
  BY <1>1, AppendProperties
<1> HIDE DEF t
<1>3. \A i \in 1..(n + 1) : i \in 1..n \/ i = n + 1
  BY <1>1
<1>4. \A i \in 1..n : i \in 1..(n + 1) /\ i < n + 1 /\ i # n + 1
  BY <1>1
<1>5. n + 1 \in 1..(n + 1)
  BY <1>1
<1>6. \A i \in 1..n : s[i] # c
  BY <1>1 DEF Listed
<1>7. Once(t)
  BY <1>1, <1>2, <1>3, <1>4, <1>6 DEF Once
<1>8. \A d : Listed(t, d) <=> Listed(s, d) \/ d = c
  BY <1>1, <1>2, <1>3, <1>4, <1>5 DEF Listed
<1>9. \A d, e : Before(s, d, e) => Before(t, d, e)
  BY <1>1, <1>2, <1>4 DEF Before
<1>10. \A d : Listed(s, d) => Before(t, d, c)
  BY <1>1, <1>2, <1>4, <1>5 DEF Before, Listed
<1>11. ASSUME NEW d, NEW e, Before(t, d, e)
       PROVE Before(s, d, e) \/ (e = c /\ d # c /\ Listed(s, d))
  <2>1. PICK i, j \in 1..(n + 1) : i < j /\ t[i] = d /\ t[j] = e
    BY <1>2, <1>11 DEF Before
  <2>2. i \in 1..n
    BY <1>1, <2>1
  <2>3. d = s[i] /\ d # c /\ Listed(s, d)
    BY <1>1, <1>2, <1>6, <2>1, <2>2 DEF Listed
  <2>4. CASE j = n + 1
    BY <1>2, <2>1, <2>3, <2>4
  <2>5. CASE j \in 1..n
    BY <1>1, <1>2, <2>1, <2>2, <2>3, <2>5 DEF Before
  <2> QED
    BY <1>3, <2>4, <2>5
<1> QED
  BY <1>2, <1>7, <1>8, <1>9, <1>10, <1>11 DEF t

LEMMA ListTail ==
  ASSUME NEW s \in Seq(Requests), s # <<>>, Once(s)
  PROVE  /\ Tail(s) \in Seq(Requests) /\ Head(s) \in Requests
         /\ Once(Tail(s))
         /\ \A d : Listed(Tail(s), d) <=> Listed(s, d) /\ d # Head(s)
         /\ \A d, e : Before(Tail(s), d, e) => Before(s, d, e)
         /\ Listed(s, Head(s))
         /\ \A d : Listed(s, d) /\ d # Head(s) => Before(s, Head(s), d)
<1> DEFINE t == Tail(s)
<1>1. PICK n \in Nat : n = Len(s) /\ DOMAIN s = 1..n /\ n >= 1
  OBVIOUS
<1>2. /\ t \in Seq(Requests) /\ DOMAIN t = 1..(n - 1)
      /\ \A i \in 1..(n - 1) : t[i] = s[i + 1]
  BY <1>1, HeadTailProperties
<1>3. Head(s) = s[1] /\ Head(s) \in Requests /\ 1 \in 1..n
  BY <1>1
<1> HIDE DEF t
<1>4. \A i \in 1..(n - 1) : i + 1 \in 1..n /\ i + 1 # 1 /\ i \in Int
  BY <1>1
<1>5. \A i \in 1..n : i = 1 \/ (i - 1 \in 1..(n - 1) /\ i = (i - 1) + 1 /\ 1 < i)
  BY <1>1
<1>6. Once(t)
  <2> SUFFICES ASSUME NEW i \in 1..(n - 1), NEW j \in 1..(n - 1), t[i] = t[j] PROVE i = j
    BY <1>2 DEF Once
  <2>1. i + 1 = j + 1
    BY <1>1, <1>2, <1>4 DEF Once
  <2> QED
    BY <1>4, <2>1
<1>7. ASSUME NEW d PROVE Listed(t, d) <=> Listed(s, d) /\ d # s[1]
  <2>1. ASSUME Listed(t, d) PROVE Listed(s, d) /\ d # s[1]
    <3>1. PICK k \in 1..(n - 1) : t[k] = d
      BY <1>2, <2>1 DEF Listed
    <3>2. s[k + 1] = d /\ k + 1 \in 1..n /\ k + 1 # 1
      BY <1>2, <1>4, <3>1
    <3>3. d # s[1]
      BY <1>1, <1>3, <3>2 DEF Once
    <3> QED
      BY <1>1, <3>2, <3>3 DEF Listed
  <2>2. ASSUME Listed(s, d), d # s[1] PROVE Listed(t, d)
    <3>1. PICK q \in 1..n : s[q] = d
      BY <1>1, <2>2 DEF Listed
    <3>2. PICK k \in 1..(n - 1) : q = k + 1
      BY <1>5, <2>2, <3>1
    <3> QED
      BY <1>2, <3>1, <3>2 DEF Listed
  <2> QED
    BY <2>1, <2>2
<1>8. ASSUME NEW d, NEW e, Before(t, d, e) PROVE Before(s, d, e)
  <2>1. PICK i, j \in 1..(n - 1) : i < j /\ t[i] = d /\ t[j] = e
    BY <1>2, <1>8 DEF Before
  <2>2. i + 1 < j + 1
    BY <1>4, <2>1
  <2> QED
    BY <1>1, <1>2, <1>4, <2>1, <2>2 DEF Before
<1>9. \A d : Listed(s, d) /\ d # s[1] => Before(s, s[1], d)
  BY <1>1, <1>3, <1>5 DEF Listed, Before
<1> QED
  BY <1>1, <1>2, <1>3, <1>6, <1>7, <1>8, <1>9 DEF t, Listed

LEMMA ListWithout ==
  ASSUME NEW s \in Seq(Requests), NEW c \in Requests, Listed(s, c), Once(s)
  PROVE  /\ Without(s, c) \in Seq(Requests)
         /\ Once(Without(s, c))
         /\ \A d : Listed(Without(s, c), d) <=> Listed(s, d) /\ d # c
         /\ \A d, e : Before(Without(s, c), d, e) => Before(s, d, e)
<1> DEFINE t == Without(s, c)
<1>1. PICK n \in Nat : n = Len(s) /\ DOMAIN s = 1..n
  OBVIOUS
<1>2. PICK p \in 1..n : p = PlaceOf(s, c) /\ s[p] = c
  BY <1>1 DEF Listed, PlaceOf
<1>3. t = [i \in 1..(n - 1) |-> IF i < p THEN s[i] ELSE s[i + 1]]
  BY <1>1, <1>2 DEF Without
<1>4. /\ DOMAIN t = 1..(n - 1)
      /\ \A i \in 1..(n - 1) : /\ i < p => t[i] = s[i] /\ i \in 1..n
                               /\ ~(i < p) => t[i] = s[i + 1] /\ i + 1 \in 1..n
  BY <1>1, <1>2, <1>3
<1>5. \A i \in 1..(n - 1) : t[i] \in Requests
  BY <1>1, <1>4
<1>6. t \in Seq(Requests)
  <2>1. n - 1 \in Nat
    BY <1>1, <1>2
  <2>2. t \in [1..(n - 1) -> Requests]
    BY <1>3, <1>4, <1>5
  <2> HIDE DEF t
  <2> QED
    BY <2>1, <2>2, IsASeq
<1> HIDE DEF t
<1> DEFINE At(i) == IF i < p THEN i ELSE i + 1
<1>7. \A i \in 1..(n - 1) : At(i) \in 1..n /\ At(i) # p /\ t[i] = s[At(i)]
  BY <1>1, <1>2, <1>4
<1>8. \A i, j \in 1..(n - 1) : i < j => At(i) < At(j)
  BY <1>1, <1>2
<1>9. \A i \in 1..n : i # p => \E k \in 1..(n - 1) : At(k) = i
  <2> SUFFICES ASSUME NEW i \in 1..n, i # p PROVE \E k \in 1..(n - 1) : At(k) = i
    OBVIOUS
  <2>1. CASE i < p
    <3>1. i \in 1..(n - 1) /\ At(i) = i
      BY <1>1, <1>2, <2>1
    <3> QED
      BY <3>1
  <2>2. CASE i > p
    <3>1. i - 1 \in 1..(n - 1) /\ At(i - 1) = i
      BY <1>1, <1>2, <2>2
    <3> QED
      BY <3>1
  <2> QED
    BY <1>1, <1>2, <2>1, <2>2
<1> HIDE DEF At
<1>10. Once(t)
  <2> SUFFICES ASSUME NEW i \in 1..(n - 1), NEW j \in 1..(n - 1), t[i] = t[j] PROVE i = j
    BY <1>4 DEF Once
  <2>1. At(i) = At(j)
    BY <1>1, <1>7 DEF Once
  <2>2. ~(i < j) /\ ~(j < i)
    BY <1>1, <1>7, <1>8, <2>1
  <2> QED
    BY <1>1, <2>2
<1>11. ASSUME NEW d PROVE Listed(t, d) <=> Listed(s, d) /\ d # c
  <2>1. ASSUME Listed(t, d) PROVE Listed(s, d) /\ d # c
    <3>1. PICK k \in 1..(n - 1) : t[k] = d
      BY <1>4, <2>1 DEF Listed
    <3>2. PICK q \in 1..n : q = At(k) /\ s[q] = d /\ q # p
      BY <1>7, <3>1
    <3>3. d # c
      BY <1>1, <1>2, <3>2 DEF Once
    <3> QED
      BY <1>1, <3>2, <3>3 DEF Listed
  <2>2. ASSUME Listed(s, d), d # c PROVE Listed(t, d)
    <3>1. PICK q \in 1..n : s[q] = d /\ q # p
      BY <1>1, <1>2, <2>2 DEF Listed
    <3>2. PICK k \in 1..(n - 1) : At(k) = q
      BY <1>9, <3>1
    <3> QED
      BY <1>4, <1>7, <3>1, <3>2 DEF Listed
  <2> QED
    BY <2>1, <2>2
<1>12. \A d, e : Before(t, d, e) => Before(s, d, e)
  BY <1>1, <1>4, <1>7, <1>8 DEF Before
<1> QED
  BY <1>6, <1>10, <1>11, <1>12 DEF t

------------------------------------------------------------------------------
(***************************************************************************)
(* What an operation of the semaphore does to a request other than its     *)
(* own, and to the order of the places.                                    *)
(***************************************************************************)
\* A request somebody else's operation touches is granted, if anything.
Bystander(d) == outcome'[d] = outcome[d] \/ (outcome[d] = "waiting" /\ outcome'[d] = "granted")

LEMMA AcquireOutcomes ==
  ASSUME SemInv, NEW r \in Requests, Acquire(r)
  PROVE  /\ outcome[r] = "new" /\ outcome'[r] \in {"waiting", "granted"}
         /\ \A d \in Requests : d # r => outcome'[d] = outcome[d]
<1>1. PICK o \in {"waiting", "granted"} : outcome' = [outcome EXCEPT ![r] = o]
  BY DEF Acquire
<1>2. outcome \in [Requests -> Outcomes]
  BY DEF SemInv, SemTypeOK
<1> QED
  BY <1>1, <1>2 DEF Acquire

LEMMA CancelOutcomes ==
  ASSUME SemInv, NEW r \in Requests, Cancel(r)
  PROVE  /\ outcome[r] = "waiting" /\ outcome'[r] = "cancelled"
         /\ \A d \in Requests : d # r => outcome'[d] = outcome[d]
BY DEF Cancel, Pending, SemInv, SemTypeOK

LEMMA ReleaseOutcomes ==
  ASSUME SemInv, NEW r \in Requests, Release(r)
  PROVE  /\ outcome[r] = "granted" /\ outcome'[r] = "released"
         /\ \A d \in Requests : d # r => Bystander(d)
<1>1. outcome[r] = "granted" /\ outcome \in [Requests -> Outcomes]
  BY DEF Release, SemInv, SemTypeOK
<1>2. CASE LiveAt = {}
  <2>1. outcome' = [outcome EXCEPT ![r] = "released"]
    BY <1>2 DEF Release
  <2> QED
    BY <1>1, <2>1 DEF Bystander
<1>3. CASE LiveAt # {}
  <2>1. PICK i \in LiveAt : outcome' = [outcome EXCEPT ![r] = "released", ![queue[i]] = "granted"]
    BY <1>3 DEF Release
  <2>2. PICK w \in Requests : w = queue[i] /\ outcome[w] = "waiting" /\ w # r
    BY <1>1 DEF LiveAt, With
  <2> QED
    BY <1>1, <2>1, <2>2 DEF Bystander
<1> QED
  BY <1>2, <1>3

\* Two places keep their order while both their waiters live; the array never
\* puts two requests it already had in a new order.
LEMMA AcquireOrder ==
  ASSUME SemInv, AccountInv, NEW r \in Requests, Acquire(r)
  PROVE  /\ \A c, d : Before(queue, c, d) => Before(queue', c, d)
         /\ \A c, d : Before(queue', c, d) => Before(queue, c, d) \/ d = r
         /\ r \in With("waiting")' => \A c \in With("waiting") : Before(queue', c, r)
<1>1. queue \in Seq(Requests) /\ outcome \in [Requests -> Outcomes]
  BY DEF SemInv, SemTypeOK
<1>2. CASE Free
  <2>1. queue' = queue /\ outcome' = [outcome EXCEPT ![r] = "granted"]
    BY <1>2 DEF Acquire
  <2>2. r \notin With("waiting")'
    BY <1>1, <2>1 DEF With
  <2> QED
    BY <2>1, <2>2
<1>3. CASE ~Free
  <2>1. queue' = Append(queue, r) /\ outcome[r] = "new"
    BY <1>3 DEF Acquire
  <2>2. ~Listed(queue, r)
    BY <2>1 DEF Listed, AccountInv, Entries
  <2>3. Once(queue)
    BY DEF Once, AccountInv, QueueOnce
  <2>4. \A c \in With("waiting") : Listed(queue, c)
    BY DEF Listed, SemInv, WaitersQueued
  <2> QED
    BY <1>1, <2>1, <2>2, <2>3, <2>4, ListAppend
<1> QED
  BY <1>2, <1>3

LEMMA CancelOrder ==
  ASSUME SemInv, AccountInv, NEW r \in Requests, Cancel(r)
  PROVE  /\ \A c, d \in With("waiting")' : Before(queue, c, d) => Before(queue', c, d)
         /\ \A c, d : Before(queue', c, d) => Before(queue, c, d)
<1>1. queue \in Seq(Requests) /\ Len(queue) \in Nat /\ DOMAIN queue = 1..Len(queue)
  BY DEF SemInv, SemTypeOK
<1>2. CASE CompactNow
  <2> DEFINE kept == {i \in LiveAt : queue[i] # r}
             n == Cardinality(kept)
  <2>1. PICK f \in [1..n -> kept] : Lists(f, kept) /\ queue' = [k \in 1..n |-> queue[f[k]]]
    BY <1>2 DEF Cancel
  <2>2. \A k \in 1..n : f[k] \in DOMAIN queue /\ f[k] \in Int
    BY <1>1, <2>1 DEF LiveAt
  <2>3. \A j, k \in 1..n : j < k => f[j] < f[k]
    BY <2>1 DEF Lists
  <2>4. \A i \in kept : \E k \in 1..n : f[k] = i
    BY <2>1 DEF Lists
  <2>5. DOMAIN queue' = 1..n /\ \A k \in 1..n : queue'[k] = queue[f[k]]
    BY <2>1
  <2>6. \A d \in With("waiting")' : d # r /\ d \in With("waiting")
    BY CancelOutcomes DEF With
  <2>7. ASSUME NEW c \in With("waiting")', NEW d \in With("waiting")', Before(queue, c, d)
        PROVE  Before(queue', c, d)
    <3>1. PICK i, j \in DOMAIN queue : i < j /\ queue[i] = c /\ queue[j] = d
      BY <2>7 DEF Before
    <3>2. i \in kept /\ j \in kept
      BY <2>6, <2>7, <3>1 DEF LiveAt
    <3>3. PICK a, b \in 1..n : f[a] = i /\ f[b] = j
      BY <2>4, <3>2
    <3>4. a \in Int /\ b \in Int
      BY <3>3
    <3>5. ~(b < a) /\ a # b
      BY <1>1, <2>3, <3>1, <3>3
    <3>6. a < b
      BY <3>4, <3>5
    <3> HIDE DEF n, kept
    <3> QED
      BY <2>5, <3>1, <3>3, <3>6 DEF Before
  <2> HIDE DEF n, kept
  <2>8. \A c, d : Before(queue', c, d) => Before(queue, c, d)
    BY <2>2, <2>3, <2>5 DEF Before
  <2> QED
    BY <2>7, <2>8
<1>3. CASE ~CompactNow
  BY <1>3 DEF Cancel
<1> QED
  BY <1>2, <1>3

LEMMA ReleaseOrder ==
  ASSUME SemInv, AccountInv, NEW r \in Requests, Release(r)
  PROVE  /\ \A c, d \in With("waiting")' : Before(queue, c, d) => Before(queue', c, d)
         /\ \A c, d : Before(queue', c, d) => Before(queue, c, d)
         /\ \A d : Listed(queue', d) => \E w \in With("waiting") : Before(queue, w, d)
<1>1. CASE LiveAt = {}
  <2>1. queue' = <<>> /\ outcome' = [outcome EXCEPT ![r] = "released"] /\ outcome[r] = "granted"
    BY <1>1 DEF Release
  <2>2. With("waiting") = {}
    BY <1>1 DEF SemInv, WaitersQueued, LiveAt
  <2>3. With("waiting")' = {}
    BY <2>1, <2>2 DEF With, SemInv, SemTypeOK
  <2>4. DOMAIN queue' = {}
    BY <2>1
  <2> QED
    BY <2>3, <2>4 DEF Before, Listed
<1>2. CASE LiveAt # {}
  <2>1. PICK i \in LiveAt :
          /\ IsFirst(i, LiveAt)
          /\ queue' = SubSeq(queue, i + 1, Len(queue))
          /\ outcome' = [outcome EXCEPT ![r] = "released", ![queue[i]] = "granted"]
    BY <1>2 DEF Release
  <2>2. PICK n \in Nat : n = Len(queue)
    BY DEF SemInv, SemTypeOK
  <2>3. /\ i \in 1..n /\ DOMAIN queue = 1..n
        /\ DOMAIN queue' = 1..(n - i)
        /\ \A k \in 1..(n - i) : k + i \in DOMAIN queue /\ queue'[k] = queue[k + i]
    BY <2>1, <2>2, Remaining
  <2>4. PICK w \in With("waiting") : w = queue[i]
    BY DEF LiveAt
  <2>5. \A d \in With("waiting")' : d \in With("waiting") /\ d # w
    BY <2>1, <2>4 DEF With, SemInv, SemTypeOK, Release
  <2>6. \A k \in 1..n : queue[k] \in With("waiting") /\ queue[k] # w => k > i
    BY <2>1, <2>3, <2>4 DEF IsFirst, LiveAt
  <2>7. ASSUME NEW c \in With("waiting")', NEW d \in With("waiting")', Before(queue, c, d)
        PROVE  Before(queue', c, d)
    <3>1. PICK a, b \in 1..n : a < b /\ queue[a] = c /\ queue[b] = d
      BY <2>3, <2>7 DEF Before
    <3>2. a > i /\ b > i
      BY <2>5, <2>6, <2>7, <3>1
    <3>3. a - i \in 1..(n - i) /\ b - i \in 1..(n - i) /\ a - i < b - i /\ (a - i) + i = a /\ (b - i) + i = b
      BY <2>2, <2>3, <3>1, <3>2
    <3>4. queue'[a - i] = c /\ queue'[b - i] = d
      BY <2>3, <3>1, <3>3
    <3> QED
      BY <2>3, <3>3, <3>4 DEF Before
  <2>8. \A k \in 1..(n - i) : k \in Int /\ i < k + i
    BY <2>2, <2>3
  <2>9. \A j, k \in 1..(n - i) : j < k => j + i < k + i
    BY <2>2, <2>3
  <2>10. \A c, d : Before(queue', c, d) => Before(queue, c, d)
    BY <2>3, <2>9 DEF Before
  <2>11. \A d : Listed(queue', d) => Before(queue, w, d)
    BY <2>3, <2>4, <2>8 DEF Before, Listed
  <2> QED
    BY <2>7, <2>10, <2>11
<1> QED
  BY <1>1, <1>2

------------------------------------------------------------------------------
(***************************************************************************)
(* Calls: the inductive invariant on what the variables of each call say.  *)
(***************************************************************************)
CallTypes ==
  /\ slot \in [Requests -> SlotStates \cup {"none"}]
  /\ held \in Seq(Requests)
  /\ timers \in Seq(Requests)
  /\ work \in [Requests -> {"none", "running", "done", "observed"}]
  /\ result \in [Requests -> {"none", "pending", "value", "timeout", "declined"}]
  /\ batch \in BOOLEAN

CallsInv == CallTypes /\ Links /\ BatchSound /\ TimersSound /\ HeldSound

\* A step about the call c: the slot, work and result of every other call stay,
\* and the semaphore at most grants it.
Others(c) ==
  \A d \in Requests : d # c =>
    slot'[d] = slot[d] /\ work'[d] = work[d] /\ result'[d] = result[d] /\ Bystander(d)

LEMMA LinkKept ==
  ASSUME NEW d \in Requests, Linked(d), slot'[d] = slot[d], work'[d] = work[d],
         result'[d] = result[d], Bystander(d)
  PROVE  Linked(d)'
<1>1. CASE outcome'[d] = outcome[d]
  BY <1>1 DEF Linked
<1>2. CASE outcome[d] = "waiting" /\ outcome'[d] = "granted"
  BY <1>2 DEF Linked
<1> QED
  BY <1>1, <1>2 DEF Bystander

LEMMA LinksKept ==
  ASSUME Links, NEW c \in Requests, Others(c), Linked(c)'
  PROVE  Links'
BY LinkKept DEF Links, Others

\* A step of the semaphore that the scheduler takes leaves its invariants.
LEMMA PermitsKept ==
  ASSUME SemInv, AccountInv, CallTypes, Next
  PROVE  SemInv' /\ AccountInv' /\ [SemNext]_semVars
<1>1. [SemNext]_semVars
  <2> SUFFICES ASSUME NEW c \in Requests,
                 \/ RunGated(c) \/ ForwardGrant(c) \/ ClaimPermit(c) \/ Decline(c) \/ Start(c)
                 \/ ExpireQueued(c) \/ Detach(c) \/ Hold(c)
                 \/ WorkSettles(c) \/ Settle(c) \/ SettleHeld(c)
                 \/ RetireOnly(c) \/ RetireAndPromote(c)
               PROVE SemNext \/ UNCHANGED semVars
    BY DEF Next
  <2>1. CASE RunGated(c) \/ ForwardGrant(c) \/ Decline(c) \/ Detach(c) \/ Settle(c) \/ SettleHeld(c)
    BY <2>1 DEF RunGated, ForwardGrant, Decline, Detach, Settle, SettleHeld, SemNext
  <2>2. CASE ClaimPermit(c) \/ Start(c) \/ Hold(c) \/ WorkSettles(c) \/ RetireOnly(c)
    BY <2>2 DEF ClaimPermit, Start, Hold, WorkSettles, RetireOnly
  <2>3. CASE ExpireQueued(c)
    BY <2>3 DEF ExpireQueued, SemNext
  <2>4. CASE RetireAndPromote(c)
    <3>1. Release(Head(held)) /\ held # <<>>
      BY <2>4 DEF RetireAndPromote, NobodyToPromote
    <3>2. Head(held) \in Requests
      BY <3>1 DEF CallTypes
    <3> QED
      BY <3>1, <3>2 DEF SemNext
  <2> QED
    BY <2>1, <2>2, <2>3, <2>4
<1> QED
  BY <1>1, SemStep, AccountStep

\* What an observed continuation, a timer and a macrotask do to `batch`.
LEMMA BatchAfter ==
  ASSUME CallsInv, Macrotask \/ Microtask
  PROVE  BatchSound' /\ batch' \in BOOLEAN
BY DEF Macrotask, Microtask, BatchSound

LEMMA TimerTick ==
  ASSUME CallsInv, Timer
  PROVE  /\ batch' = TRUE
         /\ \A c \in Requests : slot[c] # "admitted" /\ work[c] # "done"
BY DEF Timer, Drained, Startable, Observable, CallsInv, BatchSound

\* The pieces of CallsInv that a step about the call c moves, or leaves alone.
SlotStays(c) == \A d \in Requests : d # c => slot'[d] = slot[d]

LEMMA SlotMoved ==
  ASSUME CallTypes, NEW c \in Requests, NEW x \in SlotStates, slot' = [slot EXCEPT ![c] = x]
  PROVE  slot' \in [Requests -> SlotStates \cup {"none"}] /\ slot'[c] = x /\ SlotStays(c)
BY DEF CallTypes, SlotStays

LEMMA TimersStay ==
  ASSUME TimersSound, NEW c \in Requests, SlotStays(c), timers' = timers,
         slot[c] \in Armed <=> slot'[c] \in Armed
  PROVE  TimersSound'
<1>1. Once(timers') /\ \A d \in Requests : Listed(timers', d) <=> slot'[d] \in Armed
  BY DEF TimersSound, SlotStays
<1> QED
  BY <1>1 DEF TimersSound

LEMMA TimersDrop ==
  ASSUME CallTypes, TimersSound, NEW c \in Requests, SlotStays(c),
         slot[c] \in Armed, slot'[c] \notin Armed,
         timers' = Without(timers, c) \/ (Due(c) /\ timers' = Tail(timers))
  PROVE  TimersSound' /\ timers' \in Seq(Requests)
<1>1. timers \in Seq(Requests) /\ Once(timers) /\ Listed(timers, c)
  BY DEF CallTypes, TimersSound
<1>2. timers' \in Seq(Requests) /\ Once(timers') /\ \A d : Listed(timers', d) <=> Listed(timers, d) /\ d # c
  <2>1. CASE timers' = Without(timers, c)
    BY <1>1, <2>1, ListWithout
  <2>2. CASE Due(c) /\ timers' = Tail(timers)
    BY <1>1, <2>2, ListTail DEF Due
  <2> QED
    BY <2>1, <2>2
<1>3. \A d \in Requests : Listed(timers', d) <=> slot'[d] \in Armed
  BY <1>2 DEF TimersSound, SlotStays
<1> QED
  BY <1>2, <1>3 DEF TimersSound

LEMMA HeldStays ==
  ASSUME HeldSound, NEW c \in Requests, SlotStays(c), held' = held,
         slot[c] # "held", slot'[c] # "held"
  PROVE  HeldSound'
<1>1. Once(held') /\ \A d \in Requests : Listed(held', d) <=> slot'[d] = "held"
  BY DEF HeldSound, SlotStays
<1> QED
  BY <1>1 DEF HeldSound

\* The call whose deadline fires is armed.
LEMMA DueIsArmed ==
  ASSUME CallsInv, NEW c \in Requests, Due(c)
  PROVE  slot[c] \in Armed /\ timers # <<>>
<1>1. timers \in Seq(Requests) /\ timers # <<>> /\ Head(timers) = c
  BY DEF CallsInv, CallTypes, Due
<1>2. Listed(timers, c)
  BY <1>1, ListTail DEF CallsInv, TimersSound
<1> QED
  BY <1>1, <1>2 DEF CallsInv, TimersSound

------------------------------------------------------------------------------
LEMMA CallsRunGated ==
  ASSUME SemInv, AccountInv, CallsInv, NEW c \in Requests, RunGated(c)
  PROVE  CallsInv'
<1> USE DEF CallsInv
<1>1. /\ slot[c] = "none" /\ slot' = [slot EXCEPT ![c] = "queued"]
      /\ timers' = Append(timers, c) /\ result' = [result EXCEPT ![c] = "pending"]
      /\ held' = held /\ work' = work /\ Acquire(c)
  BY DEF RunGated
<1>2. slot' \in [Requests -> SlotStates \cup {"none"}] /\ slot'[c] = "queued" /\ SlotStays(c)
  BY <1>1, SlotMoved DEF SlotStates
<1>3. Linked(c)'
  BY <1>1, <1>2, AcquireOutcomes DEF Linked, Links, CallTypes
<1>4. Others(c)
  BY <1>1, <1>2, AcquireOutcomes DEF Others, Bystander, SlotStays, CallTypes
<1>5. timers \in Seq(Requests) /\ Once(timers) /\ ~Listed(timers, c)
  BY <1>1 DEF CallTypes, TimersSound, Armed
<1>6. timers' \in Seq(Requests) /\ Once(timers') /\ \A d : Listed(timers', d) <=> Listed(timers, d) \/ d = c
  BY <1>1, <1>5, ListAppend
<1>7. TimersSound'
  <2>1. \A d \in Requests : Listed(timers', d) <=> slot'[d] \in Armed
    BY <1>2, <1>6 DEF TimersSound, SlotStays, Armed
  <2> QED
    BY <1>6, <2>1 DEF TimersSound
<1>8. HeldSound'
  BY <1>1, <1>2, HeldStays
<1>9. BatchSound' /\ batch' \in BOOLEAN
  BY BatchAfter DEF RunGated
<1>10. result' \in [Requests -> {"none", "pending", "value", "timeout", "declined"}]
  BY <1>1 DEF CallTypes
<1>11. CallTypes'
  BY <1>1, <1>2, <1>6, <1>9, <1>10 DEF CallTypes
<1> QED
  BY <1>3, <1>4, <1>7, <1>8, <1>9, <1>11, LinksKept

LEMMA CallsForward ==
  ASSUME SemInv, AccountInv, CallsInv, NEW c \in Requests, ForwardGrant(c)
  PROVE  CallsInv'
<1> USE DEF CallsInv
<1>1. /\ slot[c] = "expired" /\ outcome[c] = "granted" /\ Release(c)
      /\ slot' = slot /\ held' = held /\ timers' = timers /\ work' = work /\ result' = result
  BY DEF ForwardGrant, Claimable, Admits
<1>2. Linked(c)'
  BY <1>1, ReleaseOutcomes DEF Linked, Links
<1>3. Others(c)
  BY <1>1, ReleaseOutcomes DEF Others
<1>4. BatchSound' /\ batch' \in BOOLEAN
  BY BatchAfter DEF ForwardGrant
<1>5. TimersSound' /\ HeldSound'
  BY <1>1 DEF TimersSound, HeldSound
<1>6. CallTypes'
  BY <1>1, <1>4 DEF CallTypes
<1> QED
  BY <1>2, <1>3, <1>4, <1>5, <1>6, LinksKept

LEMMA CallsClaim ==
  ASSUME SemInv, AccountInv, CallsInv, NEW c \in Requests, ClaimPermit(c)
  PROVE  CallsInv'
<1> USE DEF CallsInv
<1>1. /\ slot[c] = "queued" /\ outcome[c] = "granted" /\ slot' = [slot EXCEPT ![c] = "admitted"]
      /\ outcome' = outcome /\ held' = held /\ timers' = timers /\ work' = work /\ result' = result
  BY DEF ClaimPermit, Claimable, Admits, semVars
<1>2. slot' \in [Requests -> SlotStates \cup {"none"}] /\ slot'[c] = "admitted" /\ SlotStays(c)
  BY <1>1, SlotMoved DEF SlotStates
<1>3. Linked(c)'
  BY <1>1, <1>2 DEF Linked, Links
<1>4. Others(c)
  BY <1>1, <1>2 DEF Others, Bystander, SlotStays
<1>5. TimersSound'
  BY <1>1, <1>2, TimersStay DEF Armed
<1>6. HeldSound'
  BY <1>1, <1>2, HeldStays
<1>7. BatchSound' /\ batch' \in BOOLEAN
  BY BatchAfter DEF ClaimPermit
<1>8. CallTypes'
  BY <1>1, <1>2, <1>7 DEF CallTypes
<1> QED
  BY <1>3, <1>4, <1>5, <1>6, <1>7, <1>8, LinksKept

LEMMA CallsDecline ==
  ASSUME SemInv, AccountInv, CallsInv, NEW c \in Requests, Decline(c)
  PROVE  CallsInv'
<1> USE DEF CallsInv
<1>1. /\ slot[c] = "admitted" /\ Release(c) /\ slot' = [slot EXCEPT ![c] = "abandoned"]
      /\ held' = held /\ timers' = Without(timers, c) /\ work' = work
      /\ result' = [result EXCEPT ![c] = "declined"]
  BY DEF Decline, Startable
<1>2. slot' \in [Requests -> SlotStates \cup {"none"}] /\ slot'[c] = "abandoned" /\ SlotStays(c)
  BY <1>1, SlotMoved DEF SlotStates
<1>3. Linked(c)'
  BY <1>1, <1>2, ReleaseOutcomes DEF Linked, Links, CallTypes
<1>4. Others(c)
  BY <1>1, <1>2, ReleaseOutcomes DEF Others, SlotStays, CallTypes
<1>5. TimersSound' /\ timers' \in Seq(Requests)
  BY <1>1, <1>2, TimersDrop DEF Armed
<1>6. HeldSound'
  BY <1>1, <1>2, HeldStays
<1>7. BatchSound' /\ batch' \in BOOLEAN
  BY BatchAfter DEF Decline
<1>8. result' \in [Requests -> {"none", "pending", "value", "timeout", "declined"}]
  BY <1>1 DEF CallTypes
<1>9. CallTypes'
  BY <1>1, <1>2, <1>5, <1>7, <1>8 DEF CallTypes
<1> QED
  BY <1>3, <1>4, <1>5, <1>6, <1>7, <1>9, LinksKept

LEMMA CallsStart ==
  ASSUME SemInv, AccountInv, CallsInv, NEW c \in Requests, Start(c)
  PROVE  CallsInv'
<1> USE DEF CallsInv
<1>1. /\ slot[c] = "admitted" /\ slot' = [slot EXCEPT ![c] = "running"]
      /\ work' = [work EXCEPT ![c] = "running"]
      /\ outcome' = outcome /\ held' = held /\ timers' = timers /\ result' = result
  BY DEF Start, Startable, semVars
<1>2. slot' \in [Requests -> SlotStates \cup {"none"}] /\ slot'[c] = "running" /\ SlotStays(c)
  BY <1>1, SlotMoved DEF SlotStates
<1>3. Linked(c)'
  BY <1>1, <1>2 DEF Linked, Links, CallTypes
<1>4. Others(c)
  BY <1>1, <1>2 DEF Others, Bystander, SlotStays, CallTypes
<1>5. TimersSound'
  BY <1>1, <1>2, TimersStay DEF Armed
<1>6. HeldSound'
  BY <1>1, <1>2, HeldStays
<1>7. BatchSound' /\ batch' \in BOOLEAN
  BY BatchAfter DEF Start
<1>8. work' \in [Requests -> {"none", "running", "done", "observed"}]
  BY <1>1 DEF CallTypes
<1>9. CallTypes'
  BY <1>1, <1>2, <1>7, <1>8 DEF CallTypes
<1> QED
  BY <1>3, <1>4, <1>5, <1>6, <1>7, <1>9, LinksKept

LEMMA CallsExpire ==
  ASSUME SemInv, AccountInv, CallsInv, NEW c \in Requests, ExpireQueued(c)
  PROVE  CallsInv'
<1> USE DEF CallsInv
<1>1. /\ slot' = [slot EXCEPT ![c] = "expired"] /\ work[c] = "none" /\ Due(c)
      /\ result' = [result EXCEPT ![c] = "timeout"]
      /\ held' = held /\ timers' = Tail(timers) /\ work' = work
  BY DEF ExpireQueued, Fire
<1>2. slot' \in [Requests -> SlotStates \cup {"none"}] /\ slot'[c] = "expired" /\ SlotStays(c)
  BY <1>1, SlotMoved DEF SlotStates
<1>3. batch' = TRUE /\ \A d \in Requests : slot[d] # "admitted" /\ work[d] # "done"
  BY TimerTick DEF ExpireQueued, Fire
<1>4. slot[c] = "queued"
  <2>1. slot[c] \in Armed /\ slot[c] # "admitted"
    BY <1>1, <1>3, DueIsArmed
  <2> QED
    BY <1>1, <2>1 DEF Armed, Links, Linked
<1>5. /\ outcome'[c] \in {"cancelled", "granted"}
      /\ \A d \in Requests : d # c => outcome'[d] = outcome[d]
  <2>1. CASE Pending(c)
    BY <2>1, CancelOutcomes DEF ExpireQueued
  <2>2. CASE ~Pending(c)
    <3>1. outcome' = outcome
      BY <2>2 DEF ExpireQueued, semVars
    <3> QED
      BY <1>4, <2>2, <3>1 DEF Links, Linked, Pending
  <2> QED
    BY <2>1, <2>2
<1>6. Linked(c)'
  BY <1>1, <1>2, <1>4, <1>5 DEF Linked, Links, CallTypes
<1>7. Others(c)
  BY <1>1, <1>2, <1>5 DEF Others, Bystander, SlotStays, CallTypes
<1>8. TimersSound' /\ timers' \in Seq(Requests)
  BY <1>1, <1>2, <1>4, TimersDrop DEF Armed
<1>9. HeldSound'
  BY <1>1, <1>2, <1>4, HeldStays
<1>10. BatchSound'
  BY <1>1, <1>2, <1>3 DEF BatchSound, SlotStays
<1>11. result' \in [Requests -> {"none", "pending", "value", "timeout", "declined"}]
  BY <1>1 DEF CallTypes
<1>12. CallTypes'
  BY <1>1, <1>2, <1>3, <1>8, <1>11 DEF CallTypes
<1> QED
  BY <1>6, <1>7, <1>8, <1>9, <1>10, <1>12, LinksKept

LEMMA CallsDetach ==
  ASSUME SemInv, AccountInv, CallsInv, NEW c \in Requests, Detach(c)
  PROVE  CallsInv' /\ slot[c] = "running"
<1> USE DEF CallsInv
<1>1. /\ slot' = [slot EXCEPT ![c] = "orphaned"] /\ work[c] # "none" /\ Due(c)
      /\ result' = [result EXCEPT ![c] = "timeout"] /\ Release(c)
      /\ held' = held /\ timers' = Tail(timers) /\ work' = work
  BY DEF Detach, Fire
<1>2. slot' \in [Requests -> SlotStates \cup {"none"}] /\ slot'[c] = "orphaned" /\ SlotStays(c)
  BY <1>1, SlotMoved DEF SlotStates
<1>3. batch' = TRUE /\ \A d \in Requests : slot[d] # "admitted" /\ work[d] # "done"
  BY TimerTick DEF Detach, Fire
<1>4. slot[c] = "running"
  <2>1. slot[c] \in Armed
    BY <1>1, DueIsArmed
  <2> QED
    BY <1>1, <2>1 DEF Armed, Links, Linked
<1>6. Linked(c)'
  BY <1>1, <1>2, <1>4, ReleaseOutcomes DEF Linked, Links, CallTypes
<1>7. Others(c)
  BY <1>1, <1>2, ReleaseOutcomes DEF Others, SlotStays, CallTypes
<1>8. TimersSound' /\ timers' \in Seq(Requests)
  BY <1>1, <1>2, <1>4, TimersDrop DEF Armed
<1>9. HeldSound'
  BY <1>1, <1>2, <1>4, HeldStays
<1>10. BatchSound'
  BY <1>1, <1>2, <1>3 DEF BatchSound, SlotStays
<1>11. result' \in [Requests -> {"none", "pending", "value", "timeout", "declined"}]
  BY <1>1 DEF CallTypes
<1>12. CallTypes'
  BY <1>1, <1>2, <1>3, <1>8, <1>11 DEF CallTypes
<1> QED
  BY <1>4, <1>6, <1>7, <1>8, <1>9, <1>10, <1>12, LinksKept

LEMMA CallsHold ==
  ASSUME SemInv, AccountInv, CallsInv, NEW c \in Requests, Hold(c)
  PROVE  CallsInv' /\ slot[c] = "running"
<1> USE DEF CallsInv
<1>1. /\ slot' = [slot EXCEPT ![c] = "held"] /\ work[c] # "none" /\ Due(c)
      /\ result' = [result EXCEPT ![c] = "timeout"] /\ outcome' = outcome
      /\ held' = Append(held, c) /\ timers' = Tail(timers) /\ work' = work
  BY DEF Hold, Fire, semVars
<1>2. slot' \in [Requests -> SlotStates \cup {"none"}] /\ slot'[c] = "held" /\ SlotStays(c)
  BY <1>1, SlotMoved DEF SlotStates
<1>3. batch' = TRUE /\ \A d \in Requests : slot[d] # "admitted" /\ work[d] # "done"
  BY TimerTick DEF Hold, Fire
<1>4. slot[c] = "running"
  <2>1. slot[c] \in Armed
    BY <1>1, DueIsArmed
  <2> QED
    BY <1>1, <2>1 DEF Armed, Links, Linked
<1>6. Linked(c)'
  BY <1>1, <1>2, <1>4 DEF Linked, Links, CallTypes
<1>7. Others(c)
  BY <1>1, <1>2 DEF Others, Bystander, SlotStays, CallTypes
<1>8. TimersSound' /\ timers' \in Seq(Requests)
  BY <1>1, <1>2, <1>4, TimersDrop DEF Armed
<1>9. HeldSound' /\ held' \in Seq(Requests)
  <2>1. held \in Seq(Requests) /\ Once(held) /\ ~Listed(held, c)
    BY <1>4 DEF CallTypes, HeldSound
  <2>2. held' \in Seq(Requests) /\ Once(held') /\ \A d : Listed(held', d) <=> Listed(held, d) \/ d = c
    BY <1>1, <2>1, ListAppend
  <2>3. \A d \in Requests : Listed(held', d) <=> slot'[d] = "held"
    BY <1>2, <2>2 DEF HeldSound, SlotStays
  <2> QED
    BY <2>2, <2>3 DEF HeldSound
<1>10. BatchSound'
  BY <1>1, <1>2, <1>3 DEF BatchSound, SlotStays
<1>11. result' \in [Requests -> {"none", "pending", "value", "timeout", "declined"}]
  BY <1>1 DEF CallTypes
<1>12. CallTypes'
  BY <1>1, <1>2, <1>3, <1>8, <1>9, <1>11 DEF CallTypes
<1> QED
  BY <1>4, <1>6, <1>7, <1>8, <1>9, <1>10, <1>12, LinksKept

LEMMA CallsWorkSettles ==
  ASSUME SemInv, AccountInv, CallsInv, NEW c \in Requests, WorkSettles(c)
  PROVE  CallsInv'
<1> USE DEF CallsInv
<1>1. /\ work[c] = "running" /\ work' = [work EXCEPT ![c] = "done"]
      /\ slot' = slot /\ held' = held /\ timers' = timers /\ result' = result /\ outcome' = outcome
  BY DEF WorkSettles, semVars
<1>2. Linked(c)'
  BY <1>1 DEF Linked, Links, CallTypes
<1>3. Others(c)
  BY <1>1 DEF Others, Bystander, CallTypes
<1>4. BatchSound' /\ batch' \in BOOLEAN
  BY BatchAfter DEF WorkSettles
<1>5. TimersSound' /\ HeldSound'
  BY <1>1 DEF TimersSound, HeldSound
<1>6. work' \in [Requests -> {"none", "running", "done", "observed"}]
  BY <1>1 DEF CallTypes
<1>7. CallTypes'
  BY <1>1, <1>4, <1>6 DEF CallTypes
<1> QED
  BY <1>2, <1>3, <1>4, <1>5, <1>7, LinksKept

LEMMA CallsSettle ==
  ASSUME SemInv, AccountInv, CallsInv, NEW c \in Requests, Settle(c)
  PROVE  CallsInv'
<1> USE DEF CallsInv
<1>1. /\ slot[c] = "running" /\ work[c] = "done" /\ Release(c) /\ slot' = [slot EXCEPT ![c] = "settled"]
      /\ held' = held /\ timers' = Without(timers, c) /\ work' = [work EXCEPT ![c] = "observed"]
      /\ result' = [result EXCEPT ![c] = "value"]
  BY DEF Settle, Observe, Observable
<1>2. slot' \in [Requests -> SlotStates \cup {"none"}] /\ slot'[c] = "settled" /\ SlotStays(c)
  BY <1>1, SlotMoved DEF SlotStates
<1>3. Linked(c)'
  BY <1>1, <1>2, ReleaseOutcomes DEF Linked, Links, CallTypes
<1>4. Others(c)
  BY <1>1, <1>2, ReleaseOutcomes DEF Others, SlotStays, CallTypes
<1>5. TimersSound' /\ timers' \in Seq(Requests)
  BY <1>1, <1>2, TimersDrop DEF Armed
<1>6. HeldSound'
  BY <1>1, <1>2, HeldStays
<1>7. BatchSound' /\ batch' \in BOOLEAN
  BY BatchAfter DEF Settle, Observe
<1>8. /\ result' \in [Requests -> {"none", "pending", "value", "timeout", "declined"}]
      /\ work' \in [Requests -> {"none", "running", "done", "observed"}]
  BY <1>1 DEF CallTypes
<1>9. CallTypes'
  BY <1>1, <1>2, <1>5, <1>7, <1>8 DEF CallTypes
<1> QED
  BY <1>3, <1>4, <1>5, <1>6, <1>7, <1>9, LinksKept

LEMMA CallsSettleHeld ==
  ASSUME SemInv, AccountInv, CallsInv, NEW c \in Requests, SettleHeld(c)
  PROVE  CallsInv'
<1> USE DEF CallsInv
<1>1. /\ slot[c] = "held" /\ work[c] = "done" /\ Release(c) /\ slot' = [slot EXCEPT ![c] = "settled"]
      /\ held' = Without(held, c) /\ timers' = timers /\ work' = [work EXCEPT ![c] = "observed"]
      /\ result' = result
  BY DEF SettleHeld, Observe, Observable
<1>2. slot' \in [Requests -> SlotStates \cup {"none"}] /\ slot'[c] = "settled" /\ SlotStays(c)
  BY <1>1, SlotMoved DEF SlotStates
<1>3. Linked(c)'
  BY <1>1, <1>2, ReleaseOutcomes DEF Linked, Links, CallTypes
<1>4. Others(c)
  BY <1>1, <1>2, ReleaseOutcomes DEF Others, SlotStays, CallTypes
<1>5. TimersSound'
  BY <1>1, <1>2, TimersStay DEF Armed
<1>6. HeldSound' /\ held' \in Seq(Requests)
  <2>1. held \in Seq(Requests) /\ Once(held) /\ Listed(held, c)
    BY <1>1 DEF CallTypes, HeldSound
  <2>2. held' \in Seq(Requests) /\ Once(held') /\ \A d : Listed(held', d) <=> Listed(held, d) /\ d # c
    BY <1>1, <2>1, ListWithout
  <2>3. \A d \in Requests : Listed(held', d) <=> slot'[d] = "held"
    BY <1>2, <2>2 DEF HeldSound, SlotStays
  <2> QED
    BY <2>2, <2>3 DEF HeldSound
<1>7. BatchSound' /\ batch' \in BOOLEAN
  BY BatchAfter DEF SettleHeld, Observe
<1>8. work' \in [Requests -> {"none", "running", "done", "observed"}]
  BY <1>1 DEF CallTypes
<1>9. CallTypes'
  BY <1>1, <1>2, <1>6, <1>7, <1>8 DEF CallTypes
<1> QED
  BY <1>3, <1>4, <1>5, <1>6, <1>7, <1>9, LinksKept

LEMMA CallsRetire ==
  ASSUME SemInv, AccountInv, CallsInv, NEW c \in Requests, RetireOnly(c)
  PROVE  CallsInv'
<1> USE DEF CallsInv
<1>1. /\ slot[c] \in OrphanOccupying /\ work[c] = "done" /\ slot' = [slot EXCEPT ![c] = "retired"]
      /\ held' = held /\ timers' = timers /\ work' = [work EXCEPT ![c] = "observed"]
      /\ result' = result /\ outcome' = outcome
  BY DEF RetireOnly, Observe, Observable, semVars
<1>2. slot' \in [Requests -> SlotStates \cup {"none"}] /\ slot'[c] = "retired" /\ SlotStays(c)
  BY <1>1, SlotMoved DEF SlotStates
<1>3. Linked(c)'
  BY <1>1, <1>2 DEF Linked, Links, CallTypes, OrphanOccupying
<1>4. Others(c)
  BY <1>1, <1>2 DEF Others, Bystander, SlotStays, CallTypes
<1>5. TimersSound'
  BY <1>1, <1>2, TimersStay DEF Armed, OrphanOccupying
<1>6. HeldSound'
  BY <1>1, <1>2, HeldStays DEF OrphanOccupying
<1>7. BatchSound' /\ batch' \in BOOLEAN
  BY BatchAfter DEF RetireOnly, Observe
<1>8. work' \in [Requests -> {"none", "running", "done", "observed"}]
  BY <1>1 DEF CallTypes
<1>9. CallTypes'
  BY <1>1, <1>2, <1>7, <1>8 DEF CallTypes
<1> QED
  BY <1>3, <1>4, <1>5, <1>6, <1>7, <1>9, LinksKept

\* The slot promoteHeld() takes is held, and is not the one that retires.
LEMMA HeadIsHeld ==
  ASSUME CallsInv, held # <<>>
  PROVE  /\ Head(held) \in Requests /\ slot[Head(held)] = "held" /\ Tail(held) \in Seq(Requests)
         /\ Once(Tail(held)) /\ \A d : Listed(Tail(held), d) <=> Listed(held, d) /\ d # Head(held)
<1>1. held \in Seq(Requests) /\ Once(held)
  BY DEF CallsInv, CallTypes, HeldSound
<1>2. /\ Head(held) \in Requests /\ Listed(held, Head(held)) /\ Tail(held) \in Seq(Requests)
      /\ Once(Tail(held)) /\ \A d : Listed(Tail(held), d) <=> Listed(held, d) /\ d # Head(held)
  BY <1>1, ListTail
<1> QED
  BY <1>2 DEF CallsInv, HeldSound

LEMMA CallsPromote ==
  ASSUME SemInv, AccountInv, CallsInv, NEW c \in Requests, RetireAndPromote(c)
  PROVE  CallsInv'
<1> USE DEF CallsInv
<1>1. /\ slot[c] \in OrphanOccupying /\ work[c] = "done" /\ held # <<>>
      /\ held' = Tail(held) /\ timers' = timers /\ work' = [work EXCEPT ![c] = "observed"]
      /\ result' = result
  BY DEF RetireAndPromote, Observe, Observable, NobodyToPromote
<1>2. PICK h \in Requests : h = Head(held) /\ slot[h] = "held" /\ h # c
  BY <1>1, HeadIsHeld DEF OrphanOccupying
<1>3. slot' = [slot EXCEPT ![c] = "retired", ![h] = "promoted"] /\ Release(h)
  BY <1>2 DEF RetireAndPromote
<1>4. /\ slot' \in [Requests -> SlotStates \cup {"none"}] /\ slot'[c] = "retired" /\ slot'[h] = "promoted"
      /\ \A d \in Requests : d # c /\ d # h => slot'[d] = slot[d]
  BY <1>2, <1>3 DEF CallTypes, SlotStates
<1>5. outcome[c] = "released" /\ outcome'[c] = "released"
  BY <1>1, <1>2, <1>3, ReleaseOutcomes DEF Links, Linked, OrphanOccupying, Bystander
<1>6. Linked(c)'
  BY <1>1, <1>4, <1>5 DEF Linked, Links, CallTypes, OrphanOccupying
<1>7. Linked(h)'
  BY <1>1, <1>2, <1>3, <1>4, ReleaseOutcomes DEF Linked, Links, CallTypes
<1>8. \A d \in Requests : d # c /\ d # h => Linked(d)'
  <2> SUFFICES ASSUME NEW d \in Requests, d # c, d # h PROVE Linked(d)'
    OBVIOUS
  <2>1. slot'[d] = slot[d] /\ work'[d] = work[d] /\ result'[d] = result[d] /\ Bystander(d)
    BY <1>1, <1>3, <1>4, ReleaseOutcomes DEF CallTypes
  <2> QED
    BY <2>1, LinkKept DEF Links
<1>9. Links'
  BY <1>6, <1>7, <1>8 DEF Links
<1>10. TimersSound'
  <2>1. \A d \in Requests : slot[d] \in Armed <=> slot'[d] \in Armed
    BY <1>1, <1>2, <1>4 DEF Armed, OrphanOccupying
  <2>2. Once(timers') /\ \A d \in Requests : Listed(timers', d) <=> slot'[d] \in Armed
    BY <1>1, <2>1 DEF TimersSound
  <2> QED
    BY <2>2 DEF TimersSound
<1>11. HeldSound' /\ held' \in Seq(Requests)
  <2>1. held' \in Seq(Requests) /\ Once(held') /\ \A d : Listed(held', d) <=> Listed(held, d) /\ d # h
    BY <1>1, <1>2, HeadIsHeld
  <2>2. \A d \in Requests : Listed(held', d) <=> slot'[d] = "held"
    BY <1>1, <1>2, <1>4, <2>1 DEF HeldSound, OrphanOccupying
  <2> QED
    BY <2>1, <2>2 DEF HeldSound
<1>12. BatchSound' /\ batch' \in BOOLEAN
  BY BatchAfter DEF RetireAndPromote, Observe
<1>13. work' \in [Requests -> {"none", "running", "done", "observed"}]
  BY <1>1 DEF CallTypes
<1>14. CallTypes'
  BY <1>1, <1>4, <1>11, <1>12, <1>13 DEF CallTypes
<1> QED
  BY <1>9, <1>10, <1>11, <1>12, <1>14

LEMMA CallsStep ==
  ASSUME SemInv, AccountInv, CallsInv, [Next]_vars
  PROVE  CallsInv'
<1>1. CASE UNCHANGED vars
  <2>1. UNCHANGED <<slot, held, timers, work, result, batch, outcome>>
    BY <1>1 DEF vars, schedVars, semVars
  <2>2. CallTypes' /\ BatchSound' /\ TimersSound' /\ HeldSound'
    BY <2>1 DEF CallsInv, CallTypes, BatchSound, TimersSound, HeldSound
  <2>3. Links'
    BY <2>1 DEF CallsInv, Links, Linked
  <2> QED
    BY <2>2, <2>3 DEF CallsInv
<1>2. CASE Next
  BY <1>2, CallsRunGated, CallsForward, CallsClaim, CallsDecline, CallsStart, CallsExpire, CallsDetach,
     CallsHold, CallsWorkSettles, CallsSettle, CallsSettleHeld, CallsRetire, CallsPromote DEF Next
<1> QED
  BY <1>1, <1>2

------------------------------------------------------------------------------
(***************************************************************************)
(* Counters: they are the numbers of slots in the states they stand for,   *)
(* and a permit is kept only while the budget for detached work is spent.  *)
(***************************************************************************)
CountersInv == Counted /\ orphaned \in 0..MaxOrphaned /\ HeldOnlyWhenFull

LEMMA SlotsCard ==
  ASSUME NEW S
  PROVE  /\ IsFiniteSet(Slots(S)) /\ Cardinality(Slots(S)) \in Nat
         /\ IsFiniteSet(Slots(S)') /\ Cardinality(Slots(S)') \in Nat
<1>1. Slots(S) \subseteq Requests /\ Slots(S)' \subseteq Requests
  BY DEF Slots
<1> QED
  BY <1>1, FS_Subset, FS_CardinalityType, SemaphoreAssumption

LEMMA SlotEnters ==
  ASSUME NEW S, NEW c \in Requests, SlotStays(c), slot[c] \notin S, slot'[c] \in S
  PROVE  Cardinality(Slots(S)') = Cardinality(Slots(S)) + 1
<1>1. Slots(S)' = Slots(S) \cup {c} /\ c \notin Slots(S)
  BY DEF Slots, SlotStays
<1> QED
  BY <1>1, SlotsCard, FS_AddElement

LEMMA SlotLeaves ==
  ASSUME NEW S, NEW c \in Requests, SlotStays(c), slot[c] \in S, slot'[c] \notin S
  PROVE  Cardinality(Slots(S)') = Cardinality(Slots(S)) - 1 /\ Cardinality(Slots(S)) >= 1
<1>1. Slots(S)' = Slots(S) \ {c} /\ c \in Slots(S)
  BY DEF Slots, SlotStays
<1>2. Cardinality(Slots(S)') = Cardinality(Slots(S)) - 1
  BY <1>1, SlotsCard, FS_RemoveElement
<1> QED
  BY <1>2, SlotsCard

LEMMA SlotRemains ==
  ASSUME NEW S, NEW c \in Requests, SlotStays(c), slot[c] \in S <=> slot'[c] \in S
  PROVE  Slots(S)' = Slots(S)
BY DEF Slots, SlotStays

LEMMA CountersStep ==
  ASSUME CallsInv, CountersInv, Next
  PROVE  CountersInv'
<1> USE DEF CountersInv, Counted
<1>0. orphaned \in Int /\ MaxOrphaned \in Nat /\ permitsInUse \in Int
  BY SchedulerAssumption, SlotsCard
<1>1. ASSUME NEW c \in Requests, RunGated(c) PROVE CountersInv'
  <2>1. slot[c] = "none" /\ slot' = [slot EXCEPT ![c] = "queued"] /\ UNCHANGED <<held, orphaned, permitsInUse>>
    BY <1>1 DEF RunGated
  <2>2. slot'[c] = "queued" /\ SlotStays(c)
    BY <2>1, SlotMoved DEF CallsInv, SlotStates
  <2>3. Slots(PermitHolding)' = Slots(PermitHolding) /\ Slots(OrphanOccupying)' = Slots(OrphanOccupying)
    BY <2>1, <2>2, SlotRemains DEF PermitHolding, OrphanOccupying
  <2> QED
    BY <2>1, <2>3 DEF HeldOnlyWhenFull
<1>2. ASSUME NEW c \in Requests, ForwardGrant(c) \/ WorkSettles(c) PROVE CountersInv'
  <2>1. UNCHANGED <<slot, held, orphaned, permitsInUse>>
    BY <1>2 DEF ForwardGrant, WorkSettles
  <2> QED
    BY <2>1 DEF Slots, HeldOnlyWhenFull
<1>3. ASSUME NEW c \in Requests, ClaimPermit(c) PROVE CountersInv'
  <2>1. /\ slot[c] = "queued" /\ slot' = [slot EXCEPT ![c] = "admitted"]
        /\ permitsInUse' = permitsInUse + 1 /\ UNCHANGED <<held, orphaned>>
    BY <1>3 DEF ClaimPermit, Claimable, Admits
  <2>2. slot'[c] = "admitted" /\ SlotStays(c)
    BY <2>1, SlotMoved DEF CallsInv, SlotStates
  <2>3. Slots(OrphanOccupying)' = Slots(OrphanOccupying)
    BY <2>1, <2>2, SlotRemains DEF OrphanOccupying
  <2>4. Cardinality(Slots(PermitHolding)') = Cardinality(Slots(PermitHolding)) + 1
    BY <2>1, <2>2, SlotEnters DEF PermitHolding
  <2> QED
    BY <2>1, <2>3, <2>4 DEF HeldOnlyWhenFull
<1>4. ASSUME NEW c \in Requests, Decline(c) PROVE CountersInv'
  <2>1. /\ slot[c] = "admitted" /\ slot' = [slot EXCEPT ![c] = "abandoned"]
        /\ permitsInUse' = permitsInUse - 1 /\ UNCHANGED <<held, orphaned>>
    BY <1>4 DEF Decline, Startable
  <2>2. slot'[c] = "abandoned" /\ SlotStays(c)
    BY <2>1, SlotMoved DEF CallsInv, SlotStates
  <2>3. Slots(OrphanOccupying)' = Slots(OrphanOccupying)
    BY <2>1, <2>2, SlotRemains DEF OrphanOccupying
  <2>4. Cardinality(Slots(PermitHolding)') = Cardinality(Slots(PermitHolding)) - 1
    BY <2>1, <2>2, SlotLeaves DEF PermitHolding
  <2> QED
    BY <2>1, <2>3, <2>4 DEF HeldOnlyWhenFull
<1>5. ASSUME NEW c \in Requests, Start(c) PROVE CountersInv'
  <2>1. /\ slot[c] = "admitted" /\ slot' = [slot EXCEPT ![c] = "running"]
        /\ UNCHANGED <<held, orphaned, permitsInUse>>
    BY <1>5 DEF Start, Startable
  <2>2. slot'[c] = "running" /\ SlotStays(c)
    BY <2>1, SlotMoved DEF CallsInv, SlotStates
  <2>3. Slots(PermitHolding)' = Slots(PermitHolding) /\ Slots(OrphanOccupying)' = Slots(OrphanOccupying)
    BY <2>1, <2>2, SlotRemains DEF PermitHolding, OrphanOccupying
  <2> QED
    BY <2>1, <2>3 DEF HeldOnlyWhenFull
<1>6. ASSUME NEW c \in Requests, ExpireQueued(c) PROVE CountersInv'
  <2>1. /\ slot' = [slot EXCEPT ![c] = "expired"] /\ Due(c) /\ work[c] = "none" /\ Timer
        /\ UNCHANGED <<held, orphaned, permitsInUse>>
    BY <1>6 DEF ExpireQueued, Fire
  <2>2. slot'[c] = "expired" /\ SlotStays(c)
    BY <2>1, SlotMoved DEF CallsInv, SlotStates
  <2>3. slot[c] = "queued"
    <3>1. slot[c] \in Armed /\ slot[c] # "admitted"
      BY <2>1, DueIsArmed, TimerTick
    <3> QED
      BY <2>1, <3>1 DEF Armed, CallsInv, Links, Linked
  <2>4. Slots(PermitHolding)' = Slots(PermitHolding) /\ Slots(OrphanOccupying)' = Slots(OrphanOccupying)
    BY <2>2, <2>3, SlotRemains DEF PermitHolding, OrphanOccupying
  <2> QED
    BY <2>1, <2>4 DEF HeldOnlyWhenFull
<1>7. ASSUME NEW c \in Requests, Detach(c) PROVE CountersInv'
  <2>1. /\ slot' = [slot EXCEPT ![c] = "orphaned"] /\ Due(c) /\ work[c] # "none" /\ orphaned < MaxOrphaned
        /\ orphaned' = orphaned + 1 /\ permitsInUse' = permitsInUse - 1 /\ held' = held
    BY <1>7 DEF Detach, Fire, Room
  <2>2. slot'[c] = "orphaned" /\ SlotStays(c)
    BY <2>1, SlotMoved DEF CallsInv, SlotStates
  <2>3. slot[c] = "running"
    <3>1. slot[c] \in Armed
      BY <2>1, DueIsArmed
    <3> QED
      BY <2>1, <3>1 DEF Armed, CallsInv, Links, Linked
  <2>4. Cardinality(Slots(PermitHolding)') = Cardinality(Slots(PermitHolding)) - 1
    BY <2>2, <2>3, SlotLeaves DEF PermitHolding
  <2>5. Cardinality(Slots(OrphanOccupying)') = Cardinality(Slots(OrphanOccupying)) + 1
    BY <2>2, <2>3, SlotEnters DEF OrphanOccupying
  <2>6. held' = <<>>
    BY <1>0, <2>1 DEF HeldOnlyWhenFull
  <2>7. orphaned' \in 0..MaxOrphaned
    BY <1>0, <2>1
  <2> QED
    BY <2>1, <2>4, <2>5, <2>6, <2>7 DEF HeldOnlyWhenFull
<1>8. ASSUME NEW c \in Requests, Hold(c) PROVE CountersInv'
  <2>1. /\ slot' = [slot EXCEPT ![c] = "held"] /\ Due(c) /\ work[c] # "none" /\ ~(orphaned < MaxOrphaned)
        /\ UNCHANGED <<orphaned, permitsInUse>>
    BY <1>8 DEF Hold, Fire, Room
  <2>2. slot'[c] = "held" /\ SlotStays(c)
    BY <2>1, SlotMoved DEF CallsInv, SlotStates
  <2>3. slot[c] = "running"
    <3>1. slot[c] \in Armed
      BY <2>1, DueIsArmed
    <3> QED
      BY <2>1, <3>1 DEF Armed, CallsInv, Links, Linked
  <2>4. Slots(PermitHolding)' = Slots(PermitHolding) /\ Slots(OrphanOccupying)' = Slots(OrphanOccupying)
    BY <2>2, <2>3, SlotRemains DEF PermitHolding, OrphanOccupying
  <2>5. orphaned = MaxOrphaned
    BY <1>0, <2>1
  <2> QED
    BY <2>1, <2>4, <2>5 DEF HeldOnlyWhenFull
<1>9. ASSUME NEW c \in Requests, Settle(c) PROVE CountersInv'
  <2>1. /\ slot[c] = "running" /\ slot' = [slot EXCEPT ![c] = "settled"]
        /\ permitsInUse' = permitsInUse - 1 /\ UNCHANGED <<held, orphaned>>
    BY <1>9 DEF Settle
  <2>2. slot'[c] = "settled" /\ SlotStays(c)
    BY <2>1, SlotMoved DEF CallsInv, SlotStates
  <2>3. Slots(OrphanOccupying)' = Slots(OrphanOccupying)
    BY <2>1, <2>2, SlotRemains DEF OrphanOccupying
  <2>4. Cardinality(Slots(PermitHolding)') = Cardinality(Slots(PermitHolding)) - 1
    BY <2>1, <2>2, SlotLeaves DEF PermitHolding
  <2> QED
    BY <2>1, <2>3, <2>4 DEF HeldOnlyWhenFull
<1>10. ASSUME NEW c \in Requests, SettleHeld(c) PROVE CountersInv'
  <2>1. /\ slot[c] = "held" /\ slot' = [slot EXCEPT ![c] = "settled"]
        /\ permitsInUse' = permitsInUse - 1 /\ orphaned' = orphaned
    BY <1>10 DEF SettleHeld
  <2>2. slot'[c] = "settled" /\ SlotStays(c)
    BY <2>1, SlotMoved DEF CallsInv, SlotStates
  <2>3. Slots(OrphanOccupying)' = Slots(OrphanOccupying)
    BY <2>1, <2>2, SlotRemains DEF OrphanOccupying
  <2>4. Cardinality(Slots(PermitHolding)') = Cardinality(Slots(PermitHolding)) - 1
    BY <2>1, <2>2, SlotLeaves DEF PermitHolding
  <2>5. held # <<>>
    <3>1. Listed(held, c)
      BY <2>1 DEF CallsInv, HeldSound
    <3> QED
      BY <3>1 DEF Listed
  <2>6. orphaned = MaxOrphaned
    BY <2>5 DEF HeldOnlyWhenFull
  <2> QED
    BY <2>1, <2>3, <2>4, <2>6 DEF HeldOnlyWhenFull
<1>11. ASSUME NEW c \in Requests, RetireOnly(c) PROVE CountersInv'
  <2>1. /\ slot[c] \in OrphanOccupying /\ slot' = [slot EXCEPT ![c] = "retired"]
        /\ orphaned' = orphaned - 1 /\ UNCHANGED <<held, permitsInUse>>
        /\ held = <<>> \/ orphaned - 1 >= MaxOrphaned
    BY <1>11 DEF RetireOnly, NobodyToPromote
  <2>2. slot'[c] = "retired" /\ SlotStays(c)
    BY <2>1, SlotMoved DEF CallsInv, SlotStates
  <2>3. Slots(PermitHolding)' = Slots(PermitHolding)
    BY <2>1, <2>2, SlotRemains DEF PermitHolding, OrphanOccupying
  <2>4. /\ Cardinality(Slots(OrphanOccupying)') = Cardinality(Slots(OrphanOccupying)) - 1
        /\ Cardinality(Slots(OrphanOccupying)) >= 1
    BY <2>1, <2>2, SlotLeaves DEF OrphanOccupying
  <2>5. orphaned' \in 0..MaxOrphaned /\ held' = <<>>
    BY <1>0, <2>1, <2>4
  <2> QED
    BY <2>1, <2>3, <2>4, <2>5 DEF HeldOnlyWhenFull
<1>12. ASSUME NEW c \in Requests, RetireAndPromote(c) PROVE CountersInv'
  <2>1. /\ slot[c] \in OrphanOccupying /\ held # <<>>
        /\ permitsInUse' = permitsInUse - 1 /\ orphaned' = orphaned
    BY <1>12 DEF RetireAndPromote, NobodyToPromote
  <2>2. PICK h \in Requests : h = Head(held) /\ slot[h] = "held" /\ h # c
    BY <2>1, HeadIsHeld DEF OrphanOccupying
  <2>3. /\ slot'[c] = "retired" /\ slot'[h] = "promoted"
        /\ \A d \in Requests : d # c /\ d # h => slot'[d] = slot[d]
    BY <1>12, <2>2 DEF RetireAndPromote, CallsInv, CallTypes
  <2>4. Slots(PermitHolding)' = Slots(PermitHolding) \ {h} /\ h \in Slots(PermitHolding)
    BY <2>1, <2>2, <2>3 DEF Slots, PermitHolding, OrphanOccupying
  <2>5. Cardinality(Slots(PermitHolding)') = Cardinality(Slots(PermitHolding)) - 1
    BY <2>4, SlotsCard, FS_RemoveElement
  <2> DEFINE rest == Slots(OrphanOccupying) \ {c}
  <2>6. Slots(OrphanOccupying)' = rest \cup {h} /\ h \notin rest /\ c \in Slots(OrphanOccupying)
    BY <2>1, <2>2, <2>3 DEF Slots, OrphanOccupying
  <2>7. IsFiniteSet(rest) /\ Cardinality(rest) = Cardinality(Slots(OrphanOccupying)) - 1
    BY <2>6, SlotsCard, FS_RemoveElement
  <2> HIDE DEF rest
  <2>8. Cardinality(Slots(OrphanOccupying)') = Cardinality(rest) + 1
    BY <2>6, <2>7, FS_AddElement
  <2>9. Cardinality(Slots(OrphanOccupying)') = Cardinality(Slots(OrphanOccupying))
    BY <2>7, <2>8, SlotsCard
  <2>10. orphaned = MaxOrphaned
    BY <2>1 DEF HeldOnlyWhenFull
  <2> QED
    BY <2>1, <2>5, <2>9, <2>10 DEF HeldOnlyWhenFull
<1> QED
  BY <1>1, <1>2, <1>3, <1>4, <1>5, <1>6, <1>7, <1>8, <1>9, <1>10, <1>11, <1>12 DEF Next

------------------------------------------------------------------------------
(***************************************************************************)
(* Order: why the array stays short.  createSemaphore alone lets its array *)
(* outgrow the documented bound, with shells left over behind the waiters  *)
(* release() serves.  runGated() does not: deadlines fire in the order the *)
(* waiters joined, so the shells are at the front, where release() walks   *)
(* past every one of them.                                                 *)
(***************************************************************************)
ShortQueue == Len(queue) <= 2 * Cardinality(With("waiting")) + 1

OrderInv == DeadlineOrder /\ ShellsFirst /\ ShortQueue

LEMMA NoShells ==
  SemInv /\ AccountInv /\ (\A i \in DOMAIN queue : outcome[queue[i]] # "cancelled") => ShortQueue
<1> SUFFICES ASSUME SemInv, AccountInv, \A i \in DOMAIN queue : outcome[queue[i]] # "cancelled"
             PROVE  ShortQueue
  OBVIOUS
<1>1. Shells = {}
  BY DEF Shells
<1>2. Cardinality(Shells) = Len(queue) - Cardinality(With("waiting"))
  BY ShellCount DEF AccountInv
<1>3. Cardinality(Shells) = 0
  BY <1>1, FS_EmptySet
<1>4. Len(queue) \in Nat /\ Cardinality(With("waiting")) \in Nat
  BY OutcomeCards DEF SemInv, SemTypeOK
<1> QED
  BY <1>2, <1>3, <1>4 DEF ShortQueue

LEMMA OneOrder ==
  ASSUME SemInv, AccountInv, NEW c, NEW d, Before(queue, c, d)
  PROVE  ~Before(queue, d, c)
<1>1. DOMAIN queue = 1..Len(queue) /\ Len(queue) \in Nat
  BY DEF SemInv, SemTypeOK
<1>2. PICK i, j \in DOMAIN queue : i < j /\ queue[i] = c /\ queue[j] = d
  BY DEF Before
<1>3. SUFFICES ASSUME Before(queue, d, c) PROVE FALSE
  OBVIOUS
<1>4. PICK k, l \in DOMAIN queue : k < l /\ queue[k] = d /\ queue[l] = c
  BY <1>3 DEF Before
<1>5. k = j /\ l = i
  BY <1>2, <1>4 DEF AccountInv, QueueOnce
<1> QED
  BY <1>1, <1>2, <1>4, <1>5

\* What the steps do to the deadlines: none is put before another.
DeadlinesKeep == \A c, d : Before(timers', c, d) => Before(timers, c, d)

LEMMA OrderAcquire ==
  ASSUME SemInv, AccountInv, CallsInv, OrderInv, SemInv', AccountInv', NEW c \in Requests, RunGated(c)
  PROVE  OrderInv'
<1>1. Acquire(c) /\ slot[c] = "none" /\ timers' = Append(timers, c)
  BY DEF RunGated
<1>2. timers \in Seq(Requests) /\ Once(timers) /\ ~Listed(timers, c)
  BY <1>1 DEF CallsInv, CallTypes, TimersSound, Armed
<1>3. \A d, e : Before(timers', d, e) => Before(timers, d, e) \/ (e = c /\ d # c)
  BY <1>1, <1>2, ListAppend
<1>4. \A d \in With("waiting")' : d # c => d \in With("waiting")
  BY <1>1, AcquireOutcomes DEF With
<1>5. With("cancelled")' = With("cancelled") /\ c \notin With("cancelled")
  BY <1>1, AcquireOutcomes DEF With
<1>6. ASSUME NEW d \in With("waiting")', NEW e \in With("waiting")', Before(timers', d, e)
      PROVE  Before(queue', d, e)
  <2>1. CASE Before(timers, d, e)
    <3>1. d # c /\ e # c
      BY <1>2, <2>1 DEF Before, Listed
    <3> QED
      BY <1>1, <1>4, <2>1, <3>1, AcquireOrder DEF OrderInv, DeadlineOrder
  <2>2. CASE e = c /\ d # c
    BY <1>1, <1>4, <1>6, <2>2, AcquireOrder
  <2> QED
    BY <1>3, <1>6, <2>1, <2>2
<1>7. ASSUME NEW d \in With("waiting")', NEW x \in With("cancelled")', Before(queue', d, x)
      PROVE  FALSE
  <2>1. Before(queue, d, x)
    BY <1>1, <1>5, <1>7, AcquireOrder
  <2>2. d # c
    <3>1. outcome[c] = "new"
      BY <1>1, AcquireOutcomes
    <3> QED
      BY <2>1, <3>1 DEF Before, AccountInv, Entries
  <2> QED
    BY <1>4, <1>5, <2>1, <2>2 DEF OrderInv, ShellsFirst
<1>8. ShortQueue'
  <2>1. /\ Len(queue) \in Nat /\ Len(queue') \in Nat
        /\ Cardinality(With("waiting")) \in Nat /\ Cardinality(With("waiting")') \in Nat
    BY OutcomeCards DEF SemInv, SemTypeOK
  <2>2. Len(queue') - Len(queue) = Cardinality(With("waiting")') - Cardinality(With("waiting"))
    <3>1. dead' = dead /\ dead \in Int
      BY <1>1 DEF Acquire, SemInv, SemTypeOK
    <3>2. dead = Len(queue) - Cardinality(With("waiting"))
      BY DEF AccountInv, DeadCount
    <3>3. dead' = Len(queue') - Cardinality(With("waiting")')
      BY DEF AccountInv, DeadCount
    <3> QED
      BY <2>1, <3>1, <3>2, <3>3
  <2>3. Len(queue') >= Len(queue)
    <3>1. queue' = queue \/ queue' = Append(queue, c)
      BY <1>1 DEF Acquire
    <3>2. queue \in Seq(Requests)
      BY DEF SemInv, SemTypeOK
    <3> QED
      BY <3>1, <3>2, <2>1
  <2> QED
    BY <2>1, <2>2, <2>3 DEF OrderInv, ShortQueue
<1> QED
  BY <1>6, <1>7, <1>8 DEF OrderInv, DeadlineOrder, ShellsFirst

LEMMA OrderCancel ==
  ASSUME SemInv, AccountInv, CallsInv, OrderInv, SemInv', AccountInv', NEW c \in Requests,
         Cancel(c), Due(c), timers' = Tail(timers)
  PROVE  OrderInv'
<1>1. outcome[c] = "waiting" /\ outcome'[c] = "cancelled" /\ \A d \in Requests : d # c => outcome'[d] = outcome[d]
  BY CancelOutcomes
<1>2. timers \in Seq(Requests) /\ timers # <<>> /\ Once(timers) /\ c = Head(timers)
  BY DEF CallsInv, CallTypes, TimersSound, Due
<1>3. DeadlinesKeep /\ \A d : Listed(timers, d) /\ d # c => Before(timers, c, d)
  BY <1>2, ListTail DEF DeadlinesKeep
<1>4. \A d \in With("waiting")' : d \in With("waiting") /\ d # c
  BY <1>1 DEF With
<1>5. \A x \in With("cancelled")' : x \in With("cancelled") \/ x = c
  BY <1>1 DEF With
<1>6. DeadlineOrder'
  <2>1. \A d, e \in With("waiting")' : Before(timers', d, e) => Before(queue', d, e)
    BY <1>3, <1>4, CancelOrder DEF DeadlinesKeep, OrderInv, DeadlineOrder
  <2> QED
    BY <2>1 DEF DeadlineOrder
<1>7. ASSUME NEW d \in With("waiting")', NEW x \in With("cancelled")', Before(queue', d, x)
      PROVE  FALSE
  <2>1. Before(queue, d, x) /\ d \in With("waiting") /\ d # c
    BY <1>4, <1>7, CancelOrder
  <2>2. CASE x \in With("cancelled")
    BY <2>1, <2>2 DEF OrderInv, ShellsFirst
  <2>3. CASE x = c
    <3>1. d \in Requests /\ slot[d] = "queued"
      BY <2>1 DEF With, CallsInv, Links, Linked
    <3>2. Listed(timers, d)
      BY <3>1 DEF CallsInv, TimersSound, Armed
    <3>3. Before(timers, c, d)
      BY <1>3, <2>1, <3>2
    <3>4. c \in With("waiting")
      BY <1>1 DEF With
    <3>5. Before(queue, c, d)
      BY <2>1, <3>3, <3>4 DEF OrderInv, DeadlineOrder
    <3> QED
      BY <2>1, <2>3, <3>5, OneOrder
  <2> QED
    BY <1>5, <2>2, <2>3
<1>8. ShortQueue'
  <2>1. Len(queue) \in Nat /\ Len(queue') \in Nat /\ Cardinality(With("waiting")') \in Nat /\ dead \in Int
    BY OutcomeCards DEF SemInv, SemTypeOK
  <2>2. dead' = Len(queue') - Cardinality(With("waiting")')
    BY DEF AccountInv, DeadCount
  <2>3. CASE CompactNow
    <3>1. dead' = 0
      BY <2>3 DEF Cancel
    <3> QED
      BY <2>1, <2>2, <3>1 DEF ShortQueue
  <2>4. CASE ~CompactNow
    <3>1. dead' = dead + 1 /\ Len(queue') = Len(queue)
      BY <2>4 DEF Cancel
    <3>2. ~(dead + 1 > Len(queue) - (dead + 1))
      BY <2>4 DEF CompactNow
    <3> QED
      BY <2>1, <2>2, <3>1, <3>2 DEF ShortQueue
  <2> QED
    BY <2>3, <2>4
<1> QED
  BY <1>6, <1>7, <1>8 DEF OrderInv, ShellsFirst

LEMMA OrderRelease ==
  ASSUME SemInv, AccountInv, OrderInv, SemInv', AccountInv', NEW c \in Requests,
         Release(c), DeadlinesKeep
  PROVE  OrderInv'
<1>1. \A d \in With("waiting")' : d \in With("waiting")
  BY ReleaseOutcomes DEF With, Bystander
<1>2. \A d \in Requests : outcome'[d] = "cancelled" => outcome[d] = "cancelled"
  BY ReleaseOutcomes DEF Bystander
<1>3. \A x \in With("cancelled")' : x \in With("cancelled")
  BY <1>2 DEF With
<1>4. \A d, e \in With("waiting")' : Before(timers', d, e) => Before(queue', d, e)
  BY <1>1, ReleaseOrder DEF DeadlinesKeep, OrderInv, DeadlineOrder
<1>5. \A d \in With("waiting")', x \in With("cancelled")' : ~Before(queue', d, x)
  BY <1>1, <1>3, ReleaseOrder DEF OrderInv, ShellsFirst
<1>6. \A i \in DOMAIN queue' : outcome'[queue'[i]] # "cancelled"
  <2> SUFFICES ASSUME NEW i \in DOMAIN queue', outcome'[queue'[i]] = "cancelled" PROVE FALSE
    OBVIOUS
  <2>1. PICK x \in Requests : x = queue'[i]
    BY DEF SemInv, SemTypeOK
  <2>2. Listed(queue', x)
    BY <2>1 DEF Listed
  <2>3. PICK w \in With("waiting") : Before(queue, w, x)
    BY <2>2, ReleaseOrder
  <2>4. x \in With("cancelled")
    BY <1>2, <2>1 DEF With
  <2> QED
    BY <2>3, <2>4 DEF OrderInv, ShellsFirst
<1>7. (SemInv /\ AccountInv /\ (\A i \in DOMAIN queue : outcome[queue[i]] # "cancelled") => ShortQueue)'
  BY NoShells, PTL
<1>8. ShortQueue'
  BY <1>6, <1>7
<1> QED
  BY <1>4, <1>5, <1>8 DEF OrderInv, DeadlineOrder, ShellsFirst

LEMMA OrderKept ==
  ASSUME OrderInv, queue' = queue, outcome' = outcome, DeadlinesKeep
  PROVE  OrderInv'
<1>1. With("waiting")' = With("waiting") /\ With("cancelled")' = With("cancelled")
  BY DEF With
<1>2. \A d, e \in With("waiting")' : Before(timers', d, e) => Before(queue', d, e)
  BY <1>1 DEF DeadlinesKeep, OrderInv, DeadlineOrder
<1>3. ShellsFirst' /\ ShortQueue'
  BY <1>1 DEF OrderInv, ShellsFirst, ShortQueue
<1> QED
  BY <1>2, <1>3 DEF OrderInv, DeadlineOrder

LEMMA OrderStep ==
  ASSUME SemInv, AccountInv, CallsInv, OrderInv, SemInv', AccountInv', Next
  PROVE  OrderInv'
<1>1. timers \in Seq(Requests) /\ Once(timers)
  BY DEF CallsInv, CallTypes, TimersSound
<1>2. ASSUME NEW c \in Requests, slot[c] \in Armed, timers' = Without(timers, c) PROVE DeadlinesKeep
  <2>1. Listed(timers, c)
    BY <1>2 DEF CallsInv, TimersSound
  <2> QED
    BY <1>1, <1>2, <2>1, ListWithout DEF DeadlinesKeep
<1>3. ASSUME NEW c \in Requests, Fire(c) PROVE DeadlinesKeep
  BY <1>1, <1>3, ListTail DEF DeadlinesKeep, Fire, Due
<1>4. ASSUME timers' = timers PROVE DeadlinesKeep
  BY <1>4 DEF DeadlinesKeep
<1>5. ASSUME NEW c \in Requests, RunGated(c) PROVE OrderInv'
  BY <1>5, OrderAcquire
<1>6. ASSUME NEW c \in Requests, ForwardGrant(c) \/ SettleHeld(c) PROVE OrderInv'
  BY <1>4, <1>6, OrderRelease DEF ForwardGrant, SettleHeld
<1>7. ASSUME NEW c \in Requests, Decline(c) \/ Settle(c) PROVE OrderInv'
  <2>1. slot[c] \in Armed /\ timers' = Without(timers, c) /\ Release(c)
    BY <1>7 DEF Decline, Settle, Startable, Armed
  <2> QED
    BY <1>2, <2>1, OrderRelease
<1>8. ASSUME NEW c \in Requests, Detach(c) PROVE OrderInv'
  BY <1>3, <1>8, OrderRelease DEF Detach
<1>9. ASSUME NEW c \in Requests, RetireAndPromote(c) PROVE OrderInv'
  <2>1. held # <<>> /\ Release(Head(held)) /\ timers' = timers
    BY <1>9 DEF RetireAndPromote, NobodyToPromote
  <2>2. Head(held) \in Requests
    BY <2>1, HeadIsHeld
  <2> QED
    BY <1>4, <2>1, <2>2, OrderRelease
<1>10. ASSUME NEW c \in Requests, ClaimPermit(c) \/ Start(c) \/ WorkSettles(c) \/ RetireOnly(c) PROVE OrderInv'
  <2>1. queue' = queue /\ outcome' = outcome /\ timers' = timers
    BY <1>10 DEF ClaimPermit, Start, WorkSettles, RetireOnly, semVars
  <2> QED
    BY <1>4, <2>1, OrderKept
<1>11. ASSUME NEW c \in Requests, Hold(c) PROVE OrderInv'
  <2>1. queue' = queue /\ outcome' = outcome /\ Fire(c)
    BY <1>11 DEF Hold, semVars
  <2> QED
    BY <1>3, <2>1, OrderKept
<1>12. ASSUME NEW c \in Requests, ExpireQueued(c) PROVE OrderInv'
  <2>1. Fire(c)
    BY <1>12 DEF ExpireQueued
  <2>2. CASE Pending(c)
    <3>1. Cancel(c) /\ Due(c) /\ timers' = Tail(timers)
      BY <1>12, <2>2 DEF ExpireQueued, Fire
    <3> QED
      BY <3>1, OrderCancel
  <2>3. CASE ~Pending(c)
    <3>1. queue' = queue /\ outcome' = outcome
      BY <1>12, <2>3 DEF ExpireQueued, semVars
    <3> QED
      BY <1>3, <2>1, <3>1, OrderKept
  <2> QED
    BY <2>2, <2>3
<1> QED
  BY <1>5, <1>6, <1>7, <1>8, <1>9, <1>10, <1>11, <1>12 DEF Next

------------------------------------------------------------------------------
SchedInv == SemInv /\ AccountInv /\ CallsInv /\ CountersInv /\ OrderInv

LEMMA SchedInit == Init => SchedInv
<1> SUFFICES ASSUME Init PROVE SchedInv
  OBVIOUS
<1>1. SemInv /\ AccountInv
  BY SemInitInv, SemInitAccount DEF Init
<1>2. /\ slot = [c \in Requests |-> "none"] /\ work = [c \in Requests |-> "none"]
      /\ result = [c \in Requests |-> "none"] /\ outcome = [c \in Requests |-> "new"]
      /\ held = <<>> /\ timers = <<>> /\ queue = <<>> /\ batch = FALSE
      /\ orphaned = 0 /\ permitsInUse = 0
  BY DEF Init, SemInit
<1>3. DOMAIN held = {} /\ DOMAIN timers = {} /\ DOMAIN queue = {} /\ Len(queue) = 0
  BY <1>2
<1>4. CallTypes
  <2>1. slot \in [Requests -> SlotStates \cup {"none"}]
    BY <1>2
  <2>2. /\ work \in [Requests -> {"none", "running", "done", "observed"}]
        /\ result \in [Requests -> {"none", "pending", "value", "timeout", "declined"}]
    BY <1>2
  <2>3. held = <<>> /\ timers = <<>> /\ batch = FALSE
    BY <1>2
  <2>4. <<>> \in Seq(Requests)
    OBVIOUS
  <2> QED
    BY <2>1, <2>2, <2>3, <2>4 DEF CallTypes
<1>5. Links /\ BatchSound
  BY <1>2 DEF Links, Linked, BatchSound
<1>6. TimersSound /\ HeldSound
  BY <1>2, <1>3 DEF TimersSound, HeldSound, Once, Listed, Armed
<1>7. Slots(PermitHolding) = {} /\ Slots(OrphanOccupying) = {}
  BY <1>2 DEF Slots, PermitHolding, OrphanOccupying
<1>8. CountersInv
  BY <1>2, <1>7, FS_EmptySet, SchedulerAssumption DEF CountersInv, Counted, HeldOnlyWhenFull
<1>9. DeadlineOrder /\ ShellsFirst
  BY <1>3 DEF DeadlineOrder, ShellsFirst, Before
<1>10. ShortQueue
  BY <1>3, OutcomeCards DEF ShortQueue
<1> QED
  BY <1>1, <1>4, <1>5, <1>6, <1>8, <1>9, <1>10 DEF SchedInv, CallsInv, OrderInv

LEMMA SchedStep == SchedInv /\ [Next]_vars => SchedInv'
<1> SUFFICES ASSUME SchedInv, [Next]_vars PROVE SchedInv'
  OBVIOUS
<1>1. CallsInv'
  BY CallsStep DEF SchedInv
<1>2. CASE UNCHANGED vars
  <2>1. UNCHANGED semVars /\ UNCHANGED <<slot, held, orphaned, permitsInUse, timers>>
    BY <1>2 DEF vars, schedVars
  <2>2. SemInv' /\ AccountInv'
    BY <2>1, SemStep, AccountStep DEF SchedInv
  <2>3. CountersInv'
    BY <2>1 DEF SchedInv, CountersInv, Counted, HeldOnlyWhenFull, Slots
  <2>4. OrderInv'
    BY <2>1, OrderKept DEF SchedInv, DeadlinesKeep, semVars
  <2> QED
    BY <1>1, <2>2, <2>3, <2>4 DEF SchedInv
<1>3. CASE Next
  <2>1. SemInv' /\ AccountInv'
    BY <1>3, PermitsKept DEF SchedInv, CallsInv
  <2>2. CountersInv'
    BY <1>3, CountersStep DEF SchedInv
  <2>3. OrderInv'
    BY <1>3, <2>1, OrderStep DEF SchedInv
  <2> QED
    BY <1>1, <2>1, <2>2, <2>3 DEF SchedInv
<1> QED
  BY <1>2, <1>3

LEMMA GrantedSlots ==
  ASSUME SchedInv
  PROVE  /\ PermitAccounting
         /\ Cardinality(Slots(PermitHolding)) <= Limit
<1>1. With("granted") = Slots(PermitHolding) \cup {c \in Requests : Claimable(c)}
  <2>1. \A c \in Requests : outcome[c] = "granted" <=> slot[c] \in PermitHolding \/ Claimable(c)
    <3> SUFFICES ASSUME NEW c \in Requests
                 PROVE  outcome[c] = "granted" <=> slot[c] \in PermitHolding \/ Claimable(c)
      OBVIOUS
    <3>1. Linked(c)
      BY DEF SchedInv, CallsInv, Links
    <3> QED
      BY <3>1 DEF Linked, PermitHolding, Claimable
  <2> QED
    BY <2>1 DEF With, Slots
<1>2. Cardinality(Slots(PermitHolding)) <= Cardinality(With("granted"))
  BY <1>1, OutcomeCards, FS_Subset
<1>3. Cardinality(With("granted")) <= Limit
  BY OutcomeCards, SemaphoreAssumption DEF SchedInv, SemInv, PermitConservation, SemTypeOK
<1>4. Cardinality(Slots(PermitHolding)) <= Limit
  BY <1>2, <1>3, OutcomeCards, SlotsCard, SemaphoreAssumption
<1> QED
  BY <1>1, <1>4 DEF PermitAccounting, SchedInv, CountersInv, Counted

LEMMA LiveWork ==
  ASSUME SchedInv
  PROVE  BoundedLiveWork
<1> DEFINE live == {c \in Requests : work[c] = "running"}
<1>1. live \subseteq Slots(PermitHolding) \cup Slots(OrphanOccupying)
  <2> SUFFICES ASSUME NEW c \in Requests, work[c] = "running"
               PROVE  slot[c] \in PermitHolding \/ slot[c] \in OrphanOccupying
    BY DEF Slots
  <2>1. Linked(c)
    BY DEF SchedInv, CallsInv, Links
  <2> QED
    BY <2>1 DEF Linked, PermitHolding, OrphanOccupying
<1>2. /\ IsFiniteSet(Slots(PermitHolding) \cup Slots(OrphanOccupying))
      /\ Cardinality(Slots(PermitHolding) \cup Slots(OrphanOccupying))
           = Cardinality(Slots(PermitHolding)) + Cardinality(Slots(OrphanOccupying))
             - Cardinality(Slots(PermitHolding) \cap Slots(OrphanOccupying))
  BY SlotsCard, FS_Union
<1>3. Slots(PermitHolding) \cap Slots(OrphanOccupying) = {}
  BY DEF Slots, PermitHolding, OrphanOccupying
<1>4. Cardinality(Slots(PermitHolding) \cap Slots(OrphanOccupying)) = 0
  BY <1>3, FS_EmptySet
<1>5. Cardinality(live) <= Cardinality(Slots(PermitHolding) \cup Slots(OrphanOccupying)) /\ Cardinality(live) \in Nat
  BY <1>1, <1>2, FS_Subset, FS_CardinalityType
<1>6. Cardinality(Slots(PermitHolding)) <= Limit /\ Cardinality(Slots(OrphanOccupying)) <= MaxOrphaned
  BY GrantedSlots, SlotsCard, SchedulerAssumption DEF SchedInv, CountersInv, Counted
<1> HIDE DEF live
<1>7. Cardinality(live) <= Limit + MaxOrphaned
  BY <1>2, <1>4, <1>5, <1>6, SlotsCard, SemaphoreAssumption, SchedulerAssumption
<1> QED
  BY <1>7 DEF BoundedLiveWork, live

LEMMA SchedSound == SchedInv => PermitConservation /\ SchedulerInvariants
<1> SUFFICES ASSUME SchedInv PROVE PermitConservation /\ SchedulerInvariants
  OBVIOUS
<1>1. permitsInUse \in 0..Limit
  BY GrantedSlots, SlotsCard, SemaphoreAssumption DEF PermitAccounting
<1>2. TypeOK
  BY <1>1 DEF TypeOK, SchedInv, SemInv, CallsInv, CallTypes, CountersInv
<1>3. QueueAccounting /\ AmortizedCancel
  BY AccountsQueue DEF SchedInv, AccountInv
<1>4. RetentionBound
  <2>1. Cardinality(LiveAt) = Cardinality(With("waiting"))
    BY LiveCount DEF SchedInv, AccountInv
  <2> QED
    BY <2>1 DEF RetentionBound, SchedInv, OrderInv, ShortQueue
<1>5. PermitConservation /\ NoIdlePermit /\ HeldOnlyWhenFull
  BY DEF SchedInv, SemInv, CountersInv
<1> QED
  BY <1>2, <1>3, <1>4, <1>5, GrantedSlots, LiveWork DEF SchedulerInvariants

\* For any number of calls, any number of permits and any budget of detached
\* work: at most maxConcurrent + maxOrphaned operations are alive, the counters
\* are the numbers they stand for, a permit is kept by a timed-out call only
\* while that budget is spent, and the array of the semaphore never exceeds
\* twice its live waiters plus one (ReadSlotScheduler, invariants 1 to 3).
THEOREM SchedulerIsSound == Spec => [](PermitConservation /\ SchedulerInvariants)
<1> QED
  BY SchedInit, SchedStep, SchedSound, PTL DEF Spec

\* Seen through its permits the scheduler is the semaphore: claims, deadlines
\* and promotions take, abandon and give back permits only the way the
\* semaphore's callers may, one operation of it a step.
THEOREM SchedulerUsesSemaphore == Spec => SemSpec
<1>1. SchedInv /\ [Next]_vars => [SemNext]_semVars
  <2> SUFFICES ASSUME SchedInv, [Next]_vars PROVE [SemNext]_semVars
    OBVIOUS
  <2>1. CASE UNCHANGED vars
    BY <2>1 DEF vars
  <2>2. CASE Next
    BY <2>2, PermitsKept DEF SchedInv, CallsInv
  <2> QED
    BY <2>1, <2>2
<1>2. Init => SemInit
  BY DEF Init
<1> QED
  BY SchedInit, SchedStep, <1>1, <1>2, PTL DEF Spec, SemSpec

------------------------------------------------------------------------------
(* What a step may never do. *)
NoLateStart(c) ==
  /\ work[c] = "none" /\ work'[c] # "none" => result[c] = "pending"
  /\ result[c] \notin {"none", "pending"} => result'[c] = result[c]
  /\ slot[c] \notin {"none", slot'[c]} => slot'[c] \in LegalNext[slot[c]]

LEMMA BystanderIdles ==
  ASSUME NEW c \in Requests, Others(c), NoLateStart(c)
  PROVE  \A d \in Requests : NoLateStart(d)
BY DEF Others, NoLateStart

LEMMA CallerStep ==
  ASSUME SchedInv, Next
  PROVE  \A d \in Requests : NoLateStart(d)
<1> USE DEF SchedInv, CallsInv
<1>1. ASSUME NEW c \in Requests, RunGated(c) PROVE \A d \in Requests : NoLateStart(d)
  <2>1. /\ slot[c] = "none" /\ slot' = [slot EXCEPT ![c] = "queued"] /\ Acquire(c)
        /\ result' = [result EXCEPT ![c] = "pending"] /\ work' = work
    BY <1>1 DEF RunGated
  <2>2. result[c] = "none"
    BY <2>1 DEF Links, Linked
  <2> QED
    BY <2>1, <2>2 DEF NoLateStart, CallTypes
<1>2. ASSUME NEW c \in Requests, ForwardGrant(c) PROVE \A d \in Requests : NoLateStart(d)
  BY <1>2 DEF ForwardGrant, NoLateStart
<1>3. ASSUME NEW c \in Requests, ClaimPermit(c) PROVE \A d \in Requests : NoLateStart(d)
  BY <1>3 DEF ClaimPermit, Claimable, Admits, NoLateStart, CallTypes, LegalNext
<1>4. ASSUME NEW c \in Requests, Decline(c) PROVE \A d \in Requests : NoLateStart(d)
  <2>1. /\ slot[c] = "admitted" /\ slot' = [slot EXCEPT ![c] = "abandoned"]
        /\ result' = [result EXCEPT ![c] = "declined"] /\ work' = work
    BY <1>4 DEF Decline, Startable
  <2>2. result[c] = "pending"
    BY <2>1 DEF Links, Linked
  <2> QED
    BY <2>1, <2>2 DEF NoLateStart, CallTypes, LegalNext
<1>5. ASSUME NEW c \in Requests, Start(c) PROVE \A d \in Requests : NoLateStart(d)
  <2>1. /\ slot[c] = "admitted" /\ slot' = [slot EXCEPT ![c] = "running"]
        /\ work' = [work EXCEPT ![c] = "running"] /\ result' = result
    BY <1>5 DEF Start, Startable
  <2>2. result[c] = "pending"
    BY <2>1 DEF Links, Linked
  <2> QED
    BY <2>1, <2>2 DEF NoLateStart, CallTypes, LegalNext
<1>6. ASSUME NEW c \in Requests, ExpireQueued(c) PROVE \A d \in Requests : NoLateStart(d)
  <2>1. /\ slot' = [slot EXCEPT ![c] = "expired"] /\ Due(c) /\ work[c] = "none" /\ Timer
        /\ result' = [result EXCEPT ![c] = "timeout"] /\ work' = work
    BY <1>6 DEF ExpireQueued, Fire
  <2>2. slot[c] = "queued" /\ result[c] = "pending"
    <3>1. slot[c] \in Armed /\ slot[c] # "admitted"
      BY <2>1, DueIsArmed, TimerTick
    <3> QED
      BY <2>1, <3>1 DEF Armed, Links, Linked
  <2> QED
    BY <2>1, <2>2 DEF NoLateStart, CallTypes, LegalNext
<1>7. ASSUME NEW c \in Requests, Detach(c) PROVE \A d \in Requests : NoLateStart(d)
  <2>1. /\ slot' = [slot EXCEPT ![c] = "orphaned"] /\ Due(c) /\ work[c] # "none"
        /\ result' = [result EXCEPT ![c] = "timeout"] /\ work' = work
    BY <1>7 DEF Detach, Fire
  <2>2. slot[c] = "running" /\ result[c] = "pending"
    BY <2>1, DueIsArmed DEF Armed, Links, Linked
  <2> QED
    BY <2>1, <2>2 DEF NoLateStart, CallTypes, LegalNext
<1>8. ASSUME NEW c \in Requests, Hold(c) PROVE \A d \in Requests : NoLateStart(d)
  <2>1. /\ slot' = [slot EXCEPT ![c] = "held"] /\ Due(c) /\ work[c] # "none"
        /\ result' = [result EXCEPT ![c] = "timeout"] /\ work' = work
    BY <1>8 DEF Hold, Fire
  <2>2. slot[c] = "running" /\ result[c] = "pending"
    BY <2>1, DueIsArmed DEF Armed, Links, Linked
  <2> QED
    BY <2>1, <2>2 DEF NoLateStart, CallTypes, LegalNext
<1>9. ASSUME NEW c \in Requests, WorkSettles(c) PROVE \A d \in Requests : NoLateStart(d)
  <2>1. work[c] = "running" /\ work' = [work EXCEPT ![c] = "done"] /\ slot' = slot /\ result' = result
    BY <1>9 DEF WorkSettles
  <2> QED
    BY <2>1 DEF NoLateStart, CallTypes
<1>10. ASSUME NEW c \in Requests, Settle(c) PROVE \A d \in Requests : NoLateStart(d)
  <2>1. /\ slot[c] = "running" /\ slot' = [slot EXCEPT ![c] = "settled"]
        /\ work[c] = "done" /\ work' = [work EXCEPT ![c] = "observed"]
        /\ result' = [result EXCEPT ![c] = "value"]
    BY <1>10 DEF Settle, Observe, Observable
  <2>2. result[c] = "pending"
    BY <2>1 DEF Links, Linked
  <2> QED
    BY <2>1, <2>2 DEF NoLateStart, CallTypes, LegalNext
<1>11. ASSUME NEW c \in Requests, SettleHeld(c) PROVE \A d \in Requests : NoLateStart(d)
  <2>1. /\ slot[c] = "held" /\ slot' = [slot EXCEPT ![c] = "settled"]
        /\ work[c] = "done" /\ work' = [work EXCEPT ![c] = "observed"] /\ result' = result
    BY <1>11 DEF SettleHeld, Observe, Observable
  <2> QED
    BY <2>1 DEF NoLateStart, CallTypes, LegalNext
<1>12. ASSUME NEW c \in Requests, RetireOnly(c) PROVE \A d \in Requests : NoLateStart(d)
  <2>1. /\ slot[c] \in OrphanOccupying /\ slot' = [slot EXCEPT ![c] = "retired"]
        /\ work[c] = "done" /\ work' = [work EXCEPT ![c] = "observed"] /\ result' = result
    BY <1>12 DEF RetireOnly, Observe, Observable
  <2> QED
    BY <2>1 DEF NoLateStart, CallTypes, LegalNext, OrphanOccupying
<1>13. ASSUME NEW c \in Requests, RetireAndPromote(c) PROVE \A d \in Requests : NoLateStart(d)
  <2>1. /\ slot[c] \in OrphanOccupying /\ held # <<>>
        /\ work[c] = "done" /\ work' = [work EXCEPT ![c] = "observed"] /\ result' = result
    BY <1>13 DEF RetireAndPromote, Observe, Observable, NobodyToPromote
  <2>2. PICK h \in Requests : h = Head(held) /\ slot[h] = "held" /\ h # c
    BY <2>1, HeadIsHeld DEF OrphanOccupying
  <2>3. slot' = [slot EXCEPT ![c] = "retired", ![h] = "promoted"]
    BY <1>13, <2>2 DEF RetireAndPromote
  <2> QED
    BY <2>1, <2>2, <2>3 DEF NoLateStart, CallTypes, LegalNext, OrphanOccupying
<1> QED
  BY <1>1, <1>2, <1>3, <1>4, <1>5, <1>6, <1>7, <1>8, <1>9, <1>10, <1>11, <1>12, <1>13 DEF Next

LEMMA GrantsInOrder ==
  ASSUME SemInv, AccountInv, [SemNext]_semVars, NEW i \in LiveAt, NEW j \in LiveAt,
         i < j, outcome'[queue[j]] = "granted"
  PROVE  outcome'[queue[i]] # "waiting"
<1>1. /\ DOMAIN queue = 1..Len(queue) /\ i \in DOMAIN queue /\ j \in DOMAIN queue
      /\ queue[i] \in Requests /\ queue[j] \in Requests /\ outcome[queue[j]] = "waiting" /\ outcome[queue[i]] = "waiting"
  BY DEF LiveAt, With, SemInv, SemTypeOK
<1>2. i # j /\ queue[i] # queue[j]
  BY <1>1 DEF AccountInv, QueueOnce
<1>3. CASE UNCHANGED semVars
  BY <1>1, <1>3 DEF semVars
<1>4. ASSUME NEW r \in Requests, Acquire(r) PROVE outcome'[queue[i]] # "waiting"
  BY <1>1, <1>4, AcquireOutcomes
<1>5. ASSUME NEW r \in Requests, Cancel(r) PROVE outcome'[queue[i]] # "waiting"
  BY <1>1, <1>5, CancelOutcomes
<1>6. ASSUME NEW r \in Requests, Release(r) PROVE outcome'[queue[i]] # "waiting"
  <2>1. outcome[r] = "granted" /\ outcome \in [Requests -> Outcomes]
    BY <1>6 DEF Release, SemInv, SemTypeOK
  <2>2. PICK k \in LiveAt :
          /\ IsFirst(k, LiveAt)
          /\ outcome' = [outcome EXCEPT ![r] = "released", ![queue[k]] = "granted"]
    BY <1>6 DEF Release
  <2>3. k <= i /\ k \in DOMAIN queue
    BY <2>2 DEF IsFirst, LiveAt
  <2>4. k # j
    BY <1>1, <2>3
  <2>5. queue[j] # queue[k] /\ queue[j] # r
    BY <1>1, <2>1, <2>3, <2>4 DEF AccountInv, QueueOnce
  <2>6. outcome'[queue[j]] = "waiting"
    BY <1>1, <2>1, <2>2, <2>5
  <2> QED
    BY <2>6
<1> QED
  BY <1>3, <1>4, <1>5, <1>6 DEF SemNext

LEMMA PromotesInOrder ==
  ASSUME SchedInv, Next, NEW i \in DOMAIN held, NEW j \in DOMAIN held,
         i < j, slot'[held[j]] = "promoted"
  PROVE  FALSE
<1>1. /\ held \in Seq(Requests) /\ DOMAIN held = 1..Len(held) /\ Len(held) \in Nat
      /\ held[j] \in Requests /\ slot[held[j]] = "held" /\ slot \in [Requests -> SlotStates \cup {"none"}]
  <2>1. held \in Seq(Requests) /\ slot \in [Requests -> SlotStates \cup {"none"}]
    BY DEF SchedInv, CallsInv, CallTypes
  <2>2. held[j] \in Requests /\ Listed(held, held[j])
    BY <2>1 DEF Listed
  <2> QED
    BY <2>1, <2>2 DEF SchedInv, CallsInv, HeldSound
<1>2. PICK h \in Requests : h = held[j] /\ slot[h] = "held" /\ slot'[h] = "promoted"
  BY <1>1
<1>3. PICK c \in Requests : RetireAndPromote(c)
  BY <1>1, <1>2 DEF Next, RunGated, ForwardGrant, ClaimPermit, Decline, Start, ExpireQueued, Detach, Hold,
                    WorkSettles, Settle, SettleHeld, RetireOnly
<1>4. /\ slot' = [slot EXCEPT ![c] = "retired", ![Head(held)] = "promoted"] /\ held # <<>>
      /\ slot[c] \in OrphanOccupying
  BY <1>3 DEF RetireAndPromote, NobodyToPromote
<1>5. h = Head(held)
  BY <1>1, <1>2, <1>4
<1>6. Head(held) = held[1] /\ 1 \in DOMAIN held
  BY <1>1, <1>4
<1>7. j = 1
  BY <1>2, <1>5, <1>6 DEF SchedInv, CallsInv, HeldSound, Once
<1> QED
  BY <1>1, <1>7

\* For any number of calls: work never starts for a caller that was already
\* answered, a caller gets one answer, every slot moves along a legal edge,
\* and both queues are served first come, first served (invariants 4 to 6).
THEOREM QueuesAreFair == Spec => QueueDiscipline
<1>1. SchedInv /\ [Next]_vars =>
        [\A c \in Requests :
           /\ work[c] = "none" /\ work'[c] # "none" => result[c] = "pending"
           /\ result[c] \notin {"none", "pending"} => result'[c] = result[c]
           /\ slot[c] \notin {"none", slot'[c]} => slot'[c] \in LegalNext[slot[c]]]_vars
  <2> SUFFICES ASSUME SchedInv, Next
               PROVE  \A c \in Requests : NoLateStart(c)
    BY DEF NoLateStart
  <2> QED
    BY CallerStep
<1>2. SchedInv /\ [Next]_vars =>
        [/\ \A i, j \in LiveAt :
              i < j /\ outcome'[queue[j]] = "granted" => outcome'[queue[i]] # "waiting"
         /\ \A i, j \in DOMAIN held :
              i < j /\ slot'[held[j]] = "promoted" => slot'[held[i]] # "held"]_vars
  <2> SUFFICES ASSUME SchedInv, Next
               PROVE  /\ \A i, j \in LiveAt :
                           i < j /\ outcome'[queue[j]] = "granted" => outcome'[queue[i]] # "waiting"
                      /\ \A i, j \in DOMAIN held :
                           i < j /\ slot'[held[j]] = "promoted" => slot'[held[i]] # "held"
    OBVIOUS
  <2>1. SemInv /\ AccountInv /\ CallTypes /\ [SemNext]_semVars
    BY PermitsKept DEF SchedInv, CallsInv
  <2> QED
    BY <2>1, GrantsInOrder, PromotesInOrder
<1>3. Spec => NoStartAfterRejection
  BY SchedInit, SchedStep, <1>1, PTL DEF Spec, NoStartAfterRejection
<1>4. Spec => FifoBothQueues
  BY SchedInit, SchedStep, <1>2, PTL DEF Spec, FifoBothQueues
<1> QED
  BY <1>3, <1>4 DEF QueueDiscipline

------------------------------------------------------------------------------
(* The watcher of a session                                                   *)

\* probe() runs once, for the first watch(); until it answers the mode is unknown.
ProbeOnce ==
  /\ watcher.gen = 0 <=> ~watcher.probed
  /\ probing # 0 => /\ probing = 1 /\ watcher.gen # 0 /\ watcher.mode = "none"
                    /\ probing # watcher.gen => watcher.overtaken
  /\ watcher.mode # "none" => watcher.gen # 0

\* The latest watch() asks for one inotifywait at a time, and only when it has
\* no stream and no restart.
AskedOnce ==
  \A x \in Execs : execs[x].state = "asked" =>
    /\ execs[x].gen \in 1..watcher.gen
    /\ execs[x].gen = watcher.gen =>
         /\ watcher.stream = 0 /\ watcher.restart = 0 /\ watcher.gen # probing
         /\ \A y \in Execs : execs[y].state = "asked" /\ execs[y].gen = watcher.gen => x = y

\* The stream of the watcher lives, and belongs to a watch() that is past its probe.
StreamLives ==
  /\ watcher.stream # 0 => execs[watcher.stream].state = "live"
  /\ watcher.stream # 0 \/ watcher.restart # 0 => watcher.gen # probing

WatchInv == WatchSound /\ ProbeOnce /\ AskedOnce /\ StreamLives

LEMMA WatchRanges ==
  /\ 0 \in 0..MaxWatches /\ 0 \in 0..MaxExecs /\ Execs \subseteq 0..MaxExecs /\ Gens \subseteq 0..MaxWatches
  /\ 0 \notin Execs /\ Execs \subseteq Nat /\ \A g \in 0..MaxWatches : g # 0 => g \in Gens
BY WatchAssumption DEF Execs, Gens

\* A command that has not been used yet, for the next exec().
LEMMA UnusedExec ==
  ASSUME NEW g, NEW es, StartInotifywait(g, es)
  PROVE  \E x \in Execs : es[x] = Idle /\ execs' = [es EXCEPT ![x] = [gen |-> g, state |-> "asked"]]
BY DEF StartInotifywait, Unused

LEMMA AskedType ==
  ASSUME NEW g \in Gens, NEW es \in [Execs -> ExecStates], StartInotifywait(g, es)
  PROVE  execs' \in [Execs -> ExecStates]
<1>1. PICK x \in Execs : execs' = [es EXCEPT ![x] = [gen |-> g, state |-> "asked"]]
  BY UnusedExec
<1>2. [gen |-> g, state |-> "asked"] \in ExecStates
  BY WatchRanges DEF ExecStates
<1> QED
  BY <1>1, <1>2

LEMMA DestroyedType ==
  ASSUME NEW x, NEW es \in [Execs -> ExecStates]
  PROVE  Destroyed(x, es) \in [Execs -> ExecStates]
BY DEF Destroyed, ExecStates

\* The rest of watch() leaves the state well typed.
LEMMA BeginsType ==
  ASSUME NEW w \in Watchers, NEW g \in Gens, NEW es \in [Execs -> ExecStates], checks \subseteq Gens, Begins(w, g, es)
  PROVE  watcher' \in Watchers /\ execs' \in [Execs -> ExecStates] /\ checks' \subseteq Gens
<1>1. [w EXCEPT !.polling = g] \in Watchers
  BY WatchRanges DEF Watchers
<1> QED
  BY <1>1, AskedType DEF Begins

\* The state stays well typed.
LEMMA WatchTypeStep == WatchTypeOK /\ [WatchNext]_watchVars => WatchTypeOK'
<1> SUFFICES ASSUME WatchTypeOK, [WatchNext]_watchVars PROVE WatchTypeOK'
  OBVIOUS
<1>0. /\ watcher \in Watchers /\ execs \in [Execs -> ExecStates] /\ checks \subseteq Gens
      /\ probing \in 0..MaxWatches
  BY DEF WatchTypeOK
<1>00. StopInternal(watcher) \in Watchers
  BY <1>0, WatchRanges DEF StopInternal, Watchers
<1>1. CASE Watch
  <2> DEFINE w == [StopInternal(watcher) EXCEPT !.gen = @ + 1, !.probed = TRUE, !.overtaken = @ \/ probing # 0]
             es == Destroyed(watcher.stream, execs)
  <2>1. watcher.gen + 1 \in 0..MaxWatches /\ watcher.gen + 1 \in Gens
    BY <1>0, <1>1, WatchAssumption DEF Watch, Watchers, Gens
  <2>2. StopInternal(watcher).gen = watcher.gen
    BY <1>0 DEF StopInternal, Watchers
  <2>3. w \in Watchers /\ w.gen = watcher.gen + 1
    BY <1>00, <2>1, <2>2, Zenon DEF Watchers
  <2>4. es \in [Execs -> ExecStates]
    BY <1>0, DestroyedType
  <2> HIDE DEF w, es
  <2>5. CASE Begins(w, w.gen, es) /\ UNCHANGED probing
    BY <1>0, <2>1, <2>3, <2>4, <2>5, BeginsType DEF WatchTypeOK
  <2>6. CASE probing' = w.gen /\ watcher' = w /\ execs' = es /\ UNCHANGED checks
    BY <1>0, <2>1, <2>3, <2>4, <2>6 DEF WatchTypeOK
  <2> QED
    BY <1>1, <2>5, <2>6 DEF Watch, w, es
<1>2. CASE ProbeAnswers
  <2>1. PICK mode \in {"none", "inotifywait", "stat"} :
          LET w == [watcher EXCEPT !.mode = mode]
          IN Begins(w, probing, execs) \/ (watcher' = w /\ UNCHANGED <<execs, checks>>)
    BY <1>2 DEF ProbeAnswers
  <2>2. [watcher EXCEPT !.mode = mode] \in Watchers
    BY <1>0 DEF Watchers
  <2>3. probing \in Gens /\ probing' = 0
    BY <1>0, <1>2, WatchRanges DEF ProbeAnswers
  <2> QED
    BY <1>0, <2>1, <2>2, <2>3, BeginsType, WatchRanges DEF WatchTypeOK
<1>3. CASE DisposeWatcher
  <2>1. watcher' \in Watchers
    BY <1>3, <1>00 DEF DisposeWatcher, Watchers
  <2> QED
    BY <1>0, <1>3, <2>1, DestroyedType DEF DisposeWatcher, WatchTypeOK
<1>4. ASSUME NEW w \in Watchers, NEW g \in 0..MaxWatches PROVE ScheduleRestart(w, g) \in Watchers
  BY DEF ScheduleRestart, Watchers
<1>5. ASSUME NEW x \in Execs, NEW st \in {"live", "dead"}
      PROVE  [execs EXCEPT ![x].state = st] \in [Execs -> ExecStates] /\ execs[x].gen \in 0..MaxWatches
  BY <1>0 DEF ExecStates
<1>6. ASSUME NEW x \in Execs, ExecAnswers(x) PROVE WatchTypeOK'
  <2>1. [watcher EXCEPT !.stream = x] \in Watchers
    BY <1>0, WatchRanges DEF Watchers
  <2>2. execs[x].gen \in 0..MaxWatches
    BY <1>5
  <2>3. watcher' \in Watchers
    BY <1>0, <1>4, <1>6, <2>1, <2>2 DEF ExecAnswers
  <2>4. execs' \in [Execs -> ExecStates]
    BY <1>5, <1>6 DEF ExecAnswers
  <2> QED
    BY <1>0, <1>6, <2>3, <2>4 DEF ExecAnswers, WatchTypeOK
<1>7. ASSUME NEW x \in Execs, StreamEnds(x) PROVE WatchTypeOK'
  <2>1. [watcher EXCEPT !.stream = IF @ = x THEN 0 ELSE @] \in Watchers
    BY <1>0, WatchRanges DEF Watchers
  <2> QED
    BY <1>0, <1>4, <1>5, <1>7, <2>1 DEF StreamEnds, WatchTypeOK
<1>8. CASE Restart
  <2>1. [watcher EXCEPT !.restart = 0] \in Watchers /\ watcher.restart \in Gens
    BY <1>0, <1>8, WatchRanges DEF Restart, Watchers
  <2> QED
    BY <1>0, <1>8, <2>1, AskedType DEF Restart, WatchTypeOK
<1>9. ASSUME NEW x \in Execs, StreamData(x) PROVE WatchTypeOK'
  BY <1>0, <1>9 DEF StreamData, WatchTypeOK, Watchers
<1>10. CASE DebounceFires
  BY <1>0, <1>10 DEF DebounceFires, WatchTypeOK, Watchers
<1>11. CASE PollTimer
  <2>1. watcher.polling \in Gens
    BY <1>0, <1>11, WatchRanges DEF PollTimer, Watchers
  <2> QED
    BY <1>0, <1>11, <2>1 DEF PollTimer, WatchTypeOK
<1>12. ASSUME NEW g \in checks, CheckAnswers(g) PROVE WatchTypeOK'
  BY <1>0, <1>12 DEF CheckAnswers, WatchTypeOK
<1>13. CASE UNCHANGED watchVars
  BY <1>13 DEF watchVars, WatchTypeOK
<1> QED
  BY <1>1, <1>2, <1>3, <1>6, <1>7, <1>8, <1>9, <1>10, <1>11, <1>12, <1>13 DEF WatchNext

LEMMA WatchInitial == WatchInit => WatchInv
BY WatchAssumption DEF WatchInit, WatchInv, WatchSound, WatchTypeOK, Watchers, ExecStates, Execs, Gens, Idle, ProbeOnce,
   AskedOnce, StreamLives, NoStray, KeepsWatching, Watching, Active

\* Every action keeps the invariant.
LEMMA WatchStep == WatchInv /\ [WatchNext]_watchVars => WatchInv'
<1> SUFFICES ASSUME WatchInv, [WatchNext]_watchVars PROVE WatchInv'
  OBVIOUS
<1>1. WatchTypeOK'
  BY WatchTypeStep DEF WatchInv, WatchSound
<1>0. /\ watcher \in Watchers /\ execs \in [Execs -> ExecStates] /\ probing \in 0..MaxWatches
      /\ ProbeOnce /\ AskedOnce /\ StreamLives /\ NoStray /\ KeepsWatching
      /\ 0 \notin Execs /\ watcher.gen \in Nat /\ watcher.stream \in Execs \cup {0}
  BY WatchAssumption DEF WatchInv, WatchSound, WatchTypeOK, Watchers, Execs
<1> USE DEF ProbeOnce, AskedOnce, StreamLives, NoStray, KeepsWatching, Watching, Active, Watchers, ExecStates
<1>2. CASE Watch
  <2> DEFINE w == [StopInternal(watcher) EXCEPT !.gen = @ + 1, !.probed = TRUE, !.overtaken = @ \/ probing # 0]
             es == Destroyed(watcher.stream, execs)
  <2>1. /\ w.gen = watcher.gen + 1 /\ w.probed = TRUE /\ w.mode = watcher.mode /\ w.disposed = watcher.disposed
        /\ w.stream = 0 /\ w.restart = 0 /\ w.polling = 0 /\ (w.overtaken <=> watcher.overtaken \/ probing # 0)
    BY <1>0 DEF StopInternal
  <2>2. /\ es \in [Execs -> ExecStates]
        /\ \A x \in Execs : es[x].state # "live" /\ (es[x].state = "asked" => es[x] = execs[x])
    BY <1>0 DEF Destroyed
  <2> HIDE DEF w, es
  <2>3. CASE /\ ~watcher.probed /\ probing' = w.gen /\ watcher' = w /\ execs' = es
    <3>1. ProbeOnce'
      BY <1>0, <2>1, <2>2, <2>3 DEF Idle, Watch
    <3>2. AskedOnce'
      BY <1>0, <2>1, <2>2, <2>3 DEF Idle, Watch
    <3>3. StreamLives'
      BY <1>0, <2>1, <2>2, <2>3 DEF Idle, Watch
    <3>4. NoStray'
      BY <1>0, <2>1, <2>2, <2>3 DEF Idle, Watch
    <3>5. KeepsWatching'
      BY <1>0, <2>1, <2>2, <2>3 DEF Idle, Watch
    <3> HIDE DEF ProbeOnce, AskedOnce, StreamLives, NoStray, KeepsWatching
    <3> QED
      BY <1>1, <3>1, <3>2, <3>3, <3>4, <3>5 DEF WatchInv, WatchSound
  <2>4. CASE watcher.probed /\ w.mode = "inotifywait" /\ StartInotifywait(w.gen, es) /\ watcher' = w /\ UNCHANGED probing
    <3>0. PICK x \in Execs : es[x] = Idle /\ execs' = [es EXCEPT ![x] = [gen |-> w.gen, state |-> "asked"]]
      BY <2>4, UnusedExec
    <3>1. ProbeOnce'
      BY <1>0, <2>1, <2>2, <2>4, <3>0 DEF Idle, Watch
    <3>2. AskedOnce'
      BY <1>0, <2>1, <2>2, <2>4, <3>0 DEF Idle, Watch
    <3>3. StreamLives'
      BY <1>0, <2>1, <2>2, <2>4, <3>0 DEF Idle, Watch
    <3>4. NoStray'
      BY <1>0, <2>1, <2>2, <2>4, <3>0 DEF Idle, Watch
    <3>5. KeepsWatching'
      BY <1>0, <2>1, <2>2, <2>4, <3>0 DEF Idle, Watch
    <3> HIDE DEF ProbeOnce, AskedOnce, StreamLives, NoStray, KeepsWatching
    <3> QED
      BY <1>1, <3>1, <3>2, <3>3, <3>4, <3>5 DEF WatchInv, WatchSound
  <2>5. CASE watcher.probed /\ w.mode = "stat" /\ watcher' = [w EXCEPT !.polling = w.gen] /\ execs' = es /\ UNCHANGED probing
    <3>1. ProbeOnce'
      BY <1>0, <2>1, <2>2, <2>5 DEF Idle, Watch
    <3>2. AskedOnce'
      BY <1>0, <2>1, <2>2, <2>5 DEF Idle, Watch
    <3>3. StreamLives'
      BY <1>0, <2>1, <2>2, <2>5 DEF Idle, Watch
    <3>4. NoStray'
      BY <1>0, <2>1, <2>2, <2>5 DEF Idle, Watch
    <3>5. KeepsWatching'
      BY <1>0, <2>1, <2>2, <2>5 DEF Idle, Watch
    <3> HIDE DEF ProbeOnce, AskedOnce, StreamLives, NoStray, KeepsWatching
    <3> QED
      BY <1>1, <3>1, <3>2, <3>3, <3>4, <3>5 DEF WatchInv, WatchSound
  <2>6. CASE watcher.probed /\ w.mode = "none" /\ watcher' = w /\ execs' = es /\ UNCHANGED probing
    <3>1. ProbeOnce'
      BY <1>0, <2>1, <2>2, <2>6 DEF Idle, Watch
    <3>2. AskedOnce'
      BY <1>0, <2>1, <2>2, <2>6 DEF Idle, Watch
    <3>3. StreamLives'
      BY <1>0, <2>1, <2>2, <2>6 DEF Idle, Watch
    <3>4. NoStray'
      BY <1>0, <2>1, <2>2, <2>6 DEF Idle, Watch
    <3>5. KeepsWatching'
      BY <1>0, <2>1, <2>2, <2>6 DEF Idle, Watch
    <3> HIDE DEF ProbeOnce, AskedOnce, StreamLives, NoStray, KeepsWatching
    <3> QED
      BY <1>1, <3>1, <3>2, <3>3, <3>4, <3>5 DEF WatchInv, WatchSound
  <2> QED
    BY <1>2, <2>3, <2>4, <2>5, <2>6 DEF Watch, Begins, w, es
<1>3. CASE ProbeAnswers
  <2>1. PICK mode \in {"none", "inotifywait", "stat"} :
          LET w == [watcher EXCEPT !.mode = mode]
          IN \/ Active(w, probing) /\ Begins(w, probing, execs)
             \/ ~Active(w, probing) /\ watcher' = w /\ UNCHANGED <<execs, checks>>
    BY <1>3 DEF ProbeAnswers
  <2> DEFINE w == [watcher EXCEPT !.mode = mode]
  <2>2. /\ w.gen = watcher.gen /\ w.probed = watcher.probed /\ w.mode = mode /\ w.disposed = watcher.disposed
        /\ w.stream = watcher.stream /\ w.restart = watcher.restart /\ w.polling = watcher.polling
        /\ w.overtaken = watcher.overtaken
    BY <1>0
  <2>3. probing # 0 /\ probing' = 0
    BY <1>3 DEF ProbeAnswers
  <2>4. CASE /\ ~w.disposed /\ probing = w.gen /\ mode = "inotifywait" /\ StartInotifywait(probing, execs) /\ watcher' = w
    <3>0. PICK x \in Execs : execs[x] = Idle /\ execs' = [execs EXCEPT ![x] = [gen |-> probing, state |-> "asked"]]
      BY <2>4, UnusedExec
    <3>1. ProbeOnce'
      BY <1>0, <2>2, <2>3, <2>4, <3>0 DEF Idle
    <3>2. AskedOnce'
      BY <1>0, <2>2, <2>3, <2>4, <3>0 DEF Idle
    <3>3. StreamLives'
      BY <1>0, <2>2, <2>3, <2>4, <3>0 DEF Idle
    <3>4. NoStray'
      BY <1>0, <2>2, <2>3, <2>4, <3>0 DEF Idle
    <3>5. KeepsWatching'
      BY <1>0, <2>2, <2>3, <2>4, <3>0 DEF Idle
    <3> HIDE DEF ProbeOnce, AskedOnce, StreamLives, NoStray, KeepsWatching
    <3> QED
      BY <1>1, <3>1, <3>2, <3>3, <3>4, <3>5 DEF WatchInv, WatchSound
  <2>5. CASE /\ ~w.disposed /\ probing = w.gen /\ mode = "stat" /\ watcher' = [w EXCEPT !.polling = probing] /\ execs' = execs
    <3>1. ProbeOnce'
      BY <1>0, <2>2, <2>3, <2>5 DEF Idle
    <3>2. AskedOnce'
      BY <1>0, <2>2, <2>3, <2>5 DEF Idle
    <3>3. StreamLives'
      BY <1>0, <2>2, <2>3, <2>5 DEF Idle
    <3>4. NoStray'
      BY <1>0, <2>2, <2>3, <2>5 DEF Idle
    <3>5. KeepsWatching'
      BY <1>0, <2>2, <2>3, <2>5 DEF Idle
    <3> HIDE DEF ProbeOnce, AskedOnce, StreamLives, NoStray, KeepsWatching
    <3> QED
      BY <1>1, <3>1, <3>2, <3>3, <3>4, <3>5 DEF WatchInv, WatchSound
  <2>6. CASE /\ watcher' = w /\ execs' = execs /\ (mode = "none" \/ w.disposed \/ probing # w.gen)
    <3>1. ProbeOnce'
      BY <1>0, <2>2, <2>3, <2>6 DEF Idle
    <3>2. AskedOnce'
      BY <1>0, <2>2, <2>3, <2>6 DEF Idle
    <3>3. StreamLives'
      BY <1>0, <2>2, <2>3, <2>6 DEF Idle
    <3>4. NoStray'
      BY <1>0, <2>2, <2>3, <2>6 DEF Idle
    <3>5. KeepsWatching'
      BY <1>0, <2>2, <2>3, <2>6 DEF Idle
    <3> HIDE DEF ProbeOnce, AskedOnce, StreamLives, NoStray, KeepsWatching
    <3> QED
      BY <1>1, <3>1, <3>2, <3>3, <3>4, <3>5 DEF WatchInv, WatchSound
  <2> QED
    BY <2>1, <2>4, <2>5, <2>6 DEF Begins
<1>4. CASE DisposeWatcher
  <2>1. ProbeOnce'
    BY <1>0, <1>4 DEF DisposeWatcher, StopInternal, Destroyed
  <2>2. AskedOnce'
    BY <1>0, <1>4 DEF DisposeWatcher, StopInternal, Destroyed
  <2>3. StreamLives'
    BY <1>0, <1>4 DEF DisposeWatcher, StopInternal, Destroyed
  <2>4. NoStray'
    BY <1>0, <1>4 DEF DisposeWatcher, StopInternal, Destroyed
  <2>5. KeepsWatching'
    BY <1>0, <1>4 DEF DisposeWatcher, StopInternal, Destroyed
  <2> HIDE DEF ProbeOnce, AskedOnce, StreamLives, NoStray, KeepsWatching
  <2> QED
    BY <1>1, <2>1, <2>2, <2>3, <2>4, <2>5 DEF WatchInv, WatchSound
<1>5. ASSUME NEW x \in Execs, ExecAnswers(x) PROVE WatchInv'
  <2>1. CASE Active(watcher, execs[x].gen) /\ execs' = [execs EXCEPT ![x].state = "live"] /\ watcher' = [watcher EXCEPT !.stream = x]
    <3>1. ProbeOnce'
      BY <1>0, <1>5, <2>1 DEF ExecAnswers
    <3>2. AskedOnce'
      BY <1>0, <1>5, <2>1 DEF ExecAnswers
    <3>3. StreamLives'
      BY <1>0, <1>5, <2>1 DEF ExecAnswers
    <3>4. NoStray'
      BY <1>0, <1>5, <2>1 DEF ExecAnswers
    <3>5. KeepsWatching'
      BY <1>0, <1>5, <2>1 DEF ExecAnswers
    <3> HIDE DEF ProbeOnce, AskedOnce, StreamLives, NoStray, KeepsWatching
    <3> QED
      BY <1>1, <3>1, <3>2, <3>3, <3>4, <3>5 DEF WatchInv, WatchSound
  <2>2. CASE ~Active(watcher, execs[x].gen) /\ execs' = [execs EXCEPT ![x].state = "dead"] /\ UNCHANGED watcher
    <3>1. ProbeOnce'
      BY <1>0, <1>5, <2>2 DEF ExecAnswers
    <3>2. AskedOnce'
      BY <1>0, <1>5, <2>2 DEF ExecAnswers
    <3>3. StreamLives'
      BY <1>0, <1>5, <2>2 DEF ExecAnswers
    <3>4. NoStray'
      BY <1>0, <1>5, <2>2 DEF ExecAnswers
    <3>5. KeepsWatching'
      BY <1>0, <1>5, <2>2 DEF ExecAnswers
    <3> HIDE DEF ProbeOnce, AskedOnce, StreamLives, NoStray, KeepsWatching
    <3> QED
      BY <1>1, <3>1, <3>2, <3>3, <3>4, <3>5 DEF WatchInv, WatchSound
  <2>3. CASE Active(watcher, execs[x].gen) /\ execs' = [execs EXCEPT ![x].state = "dead"] /\ watcher' = [watcher EXCEPT !.restart = execs[x].gen]
    <3>1. ProbeOnce'
      BY <1>0, <1>5, <2>3 DEF ExecAnswers
    <3>2. AskedOnce'
      BY <1>0, <1>5, <2>3 DEF ExecAnswers
    <3>3. StreamLives'
      BY <1>0, <1>5, <2>3 DEF ExecAnswers
    <3>4. NoStray'
      BY <1>0, <1>5, <2>3 DEF ExecAnswers
    <3>5. KeepsWatching'
      BY <1>0, <1>5, <2>3 DEF ExecAnswers
    <3> HIDE DEF ProbeOnce, AskedOnce, StreamLives, NoStray, KeepsWatching
    <3> QED
      BY <1>1, <3>1, <3>2, <3>3, <3>4, <3>5 DEF WatchInv, WatchSound
  <2> QED
    BY <1>0, <1>5, <2>1, <2>2, <2>3 DEF ExecAnswers, ScheduleRestart
<1>6. ASSUME NEW x \in Execs, StreamEnds(x) PROVE WatchInv'
  <2>1. /\ execs[x].state = "live" /\ watcher.stream = x /\ execs[x].gen = watcher.gen /\ ~watcher.disposed
        /\ watcher.restart = 0 /\ UNCHANGED probing
    BY <1>0, <1>6 DEF StreamEnds
  <2>2. execs' = [execs EXCEPT ![x].state = "dead"] /\ watcher' = [watcher EXCEPT !.stream = 0, !.restart = watcher.gen]
    BY <1>0, <1>6, <2>1 DEF StreamEnds, ScheduleRestart
  <2>3. ProbeOnce'
    BY <1>0, <2>1, <2>2 DEF StreamEnds
  <2>4. AskedOnce'
    BY <1>0, <2>1, <2>2 DEF StreamEnds
  <2>5. StreamLives'
    BY <1>0, <2>1, <2>2 DEF StreamEnds
  <2>6. NoStray'
    BY <1>0, <2>1, <2>2 DEF StreamEnds
  <2>7. KeepsWatching'
    BY <1>0, <2>1, <2>2 DEF StreamEnds
  <2> HIDE DEF ProbeOnce, AskedOnce, StreamLives, NoStray, KeepsWatching
  <2> QED
    BY <1>1, <2>3, <2>4, <2>5, <2>6, <2>7 DEF WatchInv, WatchSound
<1>7. CASE Restart
  <2>0. PICK x \in Execs : execs[x] = Idle /\ execs' = [execs EXCEPT ![x] = [gen |-> watcher.restart, state |-> "asked"]]
    BY <1>7, UnusedExec DEF Restart
  <2>1. ProbeOnce'
    BY <1>0, <1>7, <2>0 DEF Restart, Idle
  <2>2. AskedOnce'
    BY <1>0, <1>7, <2>0 DEF Restart, Idle
  <2>3. StreamLives'
    BY <1>0, <1>7, <2>0 DEF Restart, Idle
  <2>4. NoStray'
    BY <1>0, <1>7, <2>0 DEF Restart, Idle
  <2>5. KeepsWatching'
    BY <1>0, <1>7, <2>0 DEF Restart, Idle
  <2> HIDE DEF ProbeOnce, AskedOnce, StreamLives, NoStray, KeepsWatching
  <2> QED
    BY <1>1, <2>1, <2>2, <2>3, <2>4, <2>5 DEF WatchInv, WatchSound
<1>8. ASSUME NEW x \in Execs, StreamData(x) PROVE WatchInv'
  <2>1. ProbeOnce'
    BY <1>0, <1>8 DEF StreamData
  <2>2. AskedOnce'
    BY <1>0, <1>8 DEF StreamData
  <2>3. StreamLives'
    BY <1>0, <1>8 DEF StreamData
  <2>4. NoStray'
    BY <1>0, <1>8 DEF StreamData
  <2>5. KeepsWatching'
    BY <1>0, <1>8 DEF StreamData
  <2> HIDE DEF ProbeOnce, AskedOnce, StreamLives, NoStray, KeepsWatching
  <2> QED
    BY <1>1, <2>1, <2>2, <2>3, <2>4, <2>5 DEF WatchInv, WatchSound
<1>9. CASE DebounceFires
  <2>1. ProbeOnce'
    BY <1>0, <1>9 DEF DebounceFires
  <2>2. AskedOnce'
    BY <1>0, <1>9 DEF DebounceFires
  <2>3. StreamLives'
    BY <1>0, <1>9 DEF DebounceFires
  <2>4. NoStray'
    BY <1>0, <1>9 DEF DebounceFires
  <2>5. KeepsWatching'
    BY <1>0, <1>9 DEF DebounceFires
  <2> HIDE DEF ProbeOnce, AskedOnce, StreamLives, NoStray, KeepsWatching
  <2> QED
    BY <1>1, <2>1, <2>2, <2>3, <2>4, <2>5 DEF WatchInv, WatchSound
<1>10. CASE PollTimer
  <2>1. ProbeOnce'
    BY <1>0, <1>10 DEF PollTimer
  <2>2. AskedOnce'
    BY <1>0, <1>10 DEF PollTimer
  <2>3. StreamLives'
    BY <1>0, <1>10 DEF PollTimer
  <2>4. NoStray'
    BY <1>0, <1>10 DEF PollTimer
  <2>5. KeepsWatching'
    BY <1>0, <1>10 DEF PollTimer
  <2> HIDE DEF ProbeOnce, AskedOnce, StreamLives, NoStray, KeepsWatching
  <2> QED
    BY <1>1, <2>1, <2>2, <2>3, <2>4, <2>5 DEF WatchInv, WatchSound
<1>11. ASSUME NEW g \in checks, CheckAnswers(g) PROVE WatchInv'
  <2>1. ProbeOnce'
    BY <1>0, <1>11 DEF CheckAnswers
  <2>2. AskedOnce'
    BY <1>0, <1>11 DEF CheckAnswers
  <2>3. StreamLives'
    BY <1>0, <1>11 DEF CheckAnswers
  <2>4. NoStray'
    BY <1>0, <1>11 DEF CheckAnswers
  <2>5. KeepsWatching'
    BY <1>0, <1>11 DEF CheckAnswers
  <2> HIDE DEF ProbeOnce, AskedOnce, StreamLives, NoStray, KeepsWatching
  <2> QED
    BY <1>1, <2>1, <2>2, <2>3, <2>4, <2>5 DEF WatchInv, WatchSound
<1>12. CASE UNCHANGED watchVars
  <2>1. ProbeOnce'
    BY <1>0, <1>12 DEF watchVars
  <2>2. AskedOnce'
    BY <1>0, <1>12 DEF watchVars
  <2>3. StreamLives'
    BY <1>0, <1>12 DEF watchVars
  <2>4. NoStray'
    BY <1>0, <1>12 DEF watchVars
  <2>5. KeepsWatching'
    BY <1>0, <1>12 DEF watchVars
  <2> HIDE DEF ProbeOnce, AskedOnce, StreamLives, NoStray, KeepsWatching
  <2> QED
    BY <1>1, <2>1, <2>2, <2>3, <2>4, <2>5 DEF WatchInv, WatchSound
<1> HIDE DEF ProbeOnce, AskedOnce, StreamLives, NoStray, KeepsWatching
<1> QED
  BY <1>2, <1>3, <1>4, <1>5, <1>6, <1>7, <1>8, <1>9, <1>10, <1>11, <1>12 DEF WatchNext

\* For any number of calls and restarts: however watch(), dispose(), restarts
\* and late answers cross, no inotifywait is left behind on the server, and the
\* directory of the latest watch() is watched or will be again.
THEOREM WatchIsSound == WatchSpec => []WatchSound
<1>1. WatchInv => WatchSound
  BY DEF WatchInv
<1> QED
  BY <1>1, WatchInitial, WatchStep, PTL DEF WatchSpec

------------------------------------------------------------------------------
(* The SFTP service                                                           *)

\* A connection gets its lease once, and its number is not used again; there is
\* no session while one is being made.
LeaseFresh ==
  /\ \A n \in Conns : n > svc.attempt \/ (n = svc.attempt /\ svc.pending = "ssh") => lease[n] = "none"
  /\ svc.pending # "none" => svc.session = 0 /\ svc.attempt # 0
  /\ svc.session <= svc.attempt

\* What operations in progress know of the directories: a listing that misses a
\* change already reported was fetched by a read that the change has marked.
KnownVersions ==
  /\ \A d \in Dirs : acked[d] <= version[d]
  /\ \A op \in ops, d \in Dirs :
       /\ op.tags[d] <= version[d]
       /\ op.kind # "read" /\ op.tags[d] # 0 => d \in Changes(op)
       /\ op.kind = "read" /\ op.tags # NoTags /\ op.tags[op.dir] < acked[op.dir] => op.raced

SftpInv == SftpTypeOK /\ LeaseOnce /\ LeaseFresh /\ ListingCurrent /\ KnownVersions

LEMMA SftpRanges ==
  /\ 0 \in 0..MaxConnects /\ 0 \in 0..MaxVersion /\ 0 \notin Conns
  /\ Conns \subseteq 0..MaxConnects /\ 1..MaxVersion \subseteq 0..MaxVersion
  /\ \A n \in 0..MaxConnects : n # 0 => n \in Conns
BY SftpAssumption DEF Conns

LEMMA DisposeType ==
  ASSUME NEW n, lease \in [Conns -> {"none", "held", "released", "twice"}]
  PROVE  Dispose(n) \in [Conns -> {"none", "held", "released", "twice"}]
BY DEF Dispose

LEMMA DropType ==
  ASSUME NEW c \in [Dirs -> Listings], NEW ds
  PROVE  Drop(c, ds) \in [Dirs -> Listings]
BY SftpRanges DEF Drop, Listings, Uncached

LEMMA CleanupType ==
  ASSUME svc \in Services, CleanupSession
  PROVE  svc' \in Services /\ cache' \in [Dirs -> Listings]
BY SftpRanges DEF CleanupSession, Services, Listings, Uncached

\* A teardown leaves the state well typed.
LEMMA TeardownType ==
  ASSUME SftpTypeOK, NEW n, TeardownSession(n)
  PROVE  svc' \in Services /\ cache' \in [Dirs -> Listings] /\ lease' \in [Conns -> {"none", "held", "released", "twice"}]
BY CleanupType, DisposeType DEF SftpTypeOK, TeardownSession

\* A change that succeeds marks the reads of its directories that are under way.
LEMMA WriteSucceeds ==
  ASSUME NEW op \in ops, OpSucceeds(op), op.kind # "read", NEW x \in ops'
  PROVE  \E r \in ops : x = IF r.kind = "read" /\ r.dir \in Changes(op) THEN [r EXCEPT !.raced = TRUE] ELSE r
<1>1. ops' = {IF r.kind = "read" /\ r.dir \in Changes(op) THEN [r EXCEPT !.raced = TRUE] ELSE r : r \in ops \ {op}}
  BY Zenon DEF OpSucceeds
<1> QED
  BY <1>1

\* The state stays well typed.
LEMMA SftpTypeStep == SftpTypeOK /\ [SftpNext]_sftpVars => SftpTypeOK'
<1> SUFFICES ASSUME SftpTypeOK, [SftpNext]_sftpVars PROVE SftpTypeOK'
  OBVIOUS
<1>0. /\ svc \in Services /\ lease \in [Conns -> {"none", "held", "released", "twice"}]
      /\ channel \in [Conns -> {"none", "open", "closed"}] /\ cache \in [Dirs -> Listings]
      /\ ops \subseteq Operations /\ version \in [Dirs -> 1..MaxVersion] /\ acked \in [Dirs -> 0..MaxVersion]
  BY DEF SftpTypeOK
<1>1. CASE Connect
  <2>1. svc.attempt + 1 \in 0..MaxConnects
    BY <1>0, <1>1, SftpAssumption DEF Connect, Services
  <2> QED
    BY <1>0, <1>1, <2>1 DEF Connect, SftpTypeOK, Services
<1>2. CASE SshAnswers
  BY <1>0, <1>2 DEF SshAnswers, SftpTypeOK, Services
<1>3. CASE SftpOpens
  <2>1. svc' \in Services /\ channel' \in [Conns -> {"none", "open", "closed"}]
    BY <1>0, <1>3 DEF SftpOpens, Services
  <2>2. lease' \in [Conns -> {"none", "held", "released", "twice"}]
    BY <1>0, <1>3, DisposeType DEF SftpOpens
  <2> QED
    BY <1>0, <1>3, <2>1, <2>2 DEF SftpOpens, SftpTypeOK
<1>4. CASE Disconnect
  BY <1>0, <1>4, TeardownType DEF Disconnect, SftpTypeOK
<1>5. CASE ConnectionCloses
  BY <1>0, <1>5, TeardownType DEF ConnectionCloses, SftpTypeOK
<1>6. ASSUME NEW n \in Conns, ChannelCloses(n) PROVE SftpTypeOK'
  BY <1>0, <1>6, TeardownType DEF ChannelCloses, SftpTypeOK
<1>7. CASE StartWatching
  BY <1>0, <1>7 DEF StartWatching, SftpTypeOK, Services
<1>8. CASE StopWatching
  BY <1>0, <1>8, SftpRanges DEF StopWatching, SftpTypeOK, Services
<1>9. ASSUME NEW kind \in Kinds, Begin(kind) PROVE SftpTypeOK'
  <2>1. PICK d \in Targets(kind) :
          ops' = ops \cup {[kind |-> kind, dir |-> d, conn |-> svc.session, tags |-> NoTags, raced |-> FALSE]}
    BY <1>9 DEF Begin
  <2>2. d \in Dirs /\ svc.session \in Conns /\ NoTags \in [Dirs -> 0..MaxVersion]
    BY <1>0, <1>9, SftpRanges DEF Begin, Targets, Dirs, Services, NoTags
  <2>3. [kind |-> kind, dir |-> d, conn |-> svc.session, tags |-> NoTags, raced |-> FALSE] \in Operations
    BY <2>2 DEF Operations
  <2> QED
    BY <1>0, <1>9, <2>1, <2>3 DEF Begin, SftpTypeOK
<1>10. ASSUME NEW op \in ops, ServerActs(op) PROVE SftpTypeOK'
  <2> DEFINE tags == [d \in Dirs |-> IF d = op.dir \/ d \in Changes(op) THEN version'[d] ELSE 0]
  <2>1. \A d \in Dirs : d \in Changes(op) => version[d] + 1 \in 1..MaxVersion
    BY <1>0, <1>10, SftpAssumption DEF ServerActs
  <2>2. version' \in [Dirs -> 1..MaxVersion]
    BY <1>0, <1>10, <2>1 DEF ServerActs
  <2>3. tags \in [Dirs -> 0..MaxVersion]
    BY <2>2, SftpRanges
  <2>4. op \in Operations /\ [op EXCEPT !.tags = tags] \in Operations
    BY <1>0, <2>3 DEF Operations
  <2>5. ops' = (ops \ {op}) \cup {[op EXCEPT !.tags = tags]}
    BY <1>10 DEF ServerActs
  <2> HIDE DEF tags
  <2> QED
    BY <1>0, <1>10, <2>2, <2>4, <2>5 DEF ServerActs, SftpTypeOK
<1>11. ASSUME NEW op \in ops, OpSucceeds(op) PROVE SftpTypeOK'
  <2>0. op \in Operations
    BY <1>0
  <2>1. CASE op.kind = "read"
    <3>1. [tag |-> op.tags[op.dir], raced |-> op.raced, moved |-> FALSE] \in Listings
      BY <2>0 DEF Operations, Listings
    <3> QED
      BY <1>0, <1>11, <2>1, <3>1 DEF OpSucceeds, SftpTypeOK
  <2>2. CASE op.kind # "read"
    <3>1. cache' \in [Dirs -> Listings]
      <4>1. Drop(cache, Invalidates(op)) \in [Dirs -> Listings]
        BY <1>0, DropType
      <4>2. ASSUME NEW d \in Dirs
            PROVE  LET c == Drop(cache, Invalidates(op))[d]
                   IN  [c EXCEPT !.moved = @ \/ (op.kind = "rename" /\ c # Uncached)] \in Listings
        <5> DEFINE c == Drop(cache, Invalidates(op))[d]
        <5>1. c \in Listings
          BY <4>1
        <5>2. (c.moved \/ (op.kind = "rename" /\ c # Uncached)) \in BOOLEAN
          BY Zenon
        <5> HIDE DEF c
        <5> QED
          BY <5>1, <5>2, Zenon DEF Listings, c
      <4> QED
        BY <1>11, <2>2, <4>2, Zenon DEF OpSucceeds
    <3>2. ops' \subseteq Operations
      <4>1. \A r \in ops : r \in Operations /\ [r EXCEPT !.raced = TRUE] \in Operations
        BY <1>0 DEF Operations
      <4>2. ASSUME NEW x \in ops' PROVE x \in Operations
        <5>1. PICK r \in ops : x = IF r.kind = "read" /\ r.dir \in Changes(op) THEN [r EXCEPT !.raced = TRUE] ELSE r
          BY <1>11, <2>2, <4>2, WriteSucceeds
        <5> QED
          BY <4>1, <5>1
      <4> QED
        BY <4>2
    <3>3. acked' \in [Dirs -> 0..MaxVersion]
      BY <1>0, <2>0, <1>11, <2>2 DEF OpSucceeds, Later, Operations
    <3> QED
      BY <1>0, <1>11, <3>1, <3>2, <3>3 DEF OpSucceeds, SftpTypeOK
  <2> QED
    BY <2>1, <2>2
<1>12. ASSUME NEW op \in ops, OpFails(op) PROVE SftpTypeOK'
  BY <1>0, <1>12, DropType DEF OpFails, SftpTypeOK
<1>13. ASSUME NEW op \in ops, OpStalls(op) PROVE SftpTypeOK'
  BY <1>0, <1>13, DropType, CleanupType, DisposeType DEF OpStalls, SftpTypeOK
<1>14. ASSUME NEW d \in Dirs, Expire(d) PROVE SftpTypeOK'
  BY <1>0, <1>14, DropType DEF Expire, SftpTypeOK
<1>15. ASSUME NEW d \in Dirs, RemoteChange(d) PROVE SftpTypeOK'
  BY <1>0, <1>15, DropType DEF RemoteChange, SftpTypeOK
<1>16. CASE UNCHANGED sftpVars
  BY <1>16 DEF sftpVars, SftpTypeOK
<1> QED
  BY <1>1, <1>2, <1>3, <1>4, <1>5, <1>6, <1>7, <1>8, <1>9, <1>10, <1>11, <1>12, <1>13, <1>14, <1>15, <1>16
  DEF SftpNext

LEMMA SftpInitial == SftpInit => SftpInv
<1> SUFFICES ASSUME SftpInit PROVE SftpInv
  OBVIOUS
<1>1. SftpTypeOK
  <2>1. 1 \in 1..MaxVersion
    BY SftpAssumption
  <2> QED
    BY <2>1, SftpRanges DEF SftpInit, SftpTypeOK, Services, Listings, Uncached
<1>2. LeaseOnce /\ LeaseFresh
  BY <1>1, SftpRanges DEF SftpInit, LeaseOnce, LeaseFresh, Services, Conns
<1>3. ListingCurrent
  BY DEF SftpInit, ListingCurrent, Outdated
<1>4. KnownVersions
  BY DEF SftpInit, KnownVersions
<1> QED
  BY <1>1, <1>2, <1>3, <1>4 DEF SftpInv

\* A teardown of connection n keeps the leases straight: only the session's is
\* disposed of, and it is the one that is held.
LEMMA TeardownLease ==
  ASSUME SftpInv, NEW n \in Conns, TeardownSession(n), UNCHANGED <<ops, version, acked>>,
         \A k \in Conns : channel'[k] # channel[k] => k = n
  PROVE  /\ \A k \in Conns : /\ lease'[k] # "twice"
                             /\ lease'[k] = "held" <=> k = svc'.session \/ (k = svc'.attempt /\ svc'.pending = "sftp")
         /\ svc'.watcher \in {0, svc'.session} /\ svc'.unsub = svc'.session
         /\ svc'.session # 0 => channel'[svc'.session] = "open"
         /\ LeaseFresh' /\ ListingCurrent' /\ KnownVersions'
<1>0. svc \in Services /\ lease \in [Conns -> {"none", "held", "released", "twice"}]
  BY DEF SftpInv, SftpTypeOK
<1>1. CASE svc.session = n /\ CleanupSession /\ lease' = Dispose(n)
  BY <1>0, <1>1, SftpRanges DEF SftpInv, LeaseOnce, LeaseFresh, ListingCurrent, KnownVersions, Outdated, Services,
     CleanupSession, Dispose, Dirs, Conns
<1>2. CASE svc.session # n /\ UNCHANGED <<svc, cache, lease>>
  BY <1>0, <1>2, SftpRanges DEF SftpInv, LeaseOnce, LeaseFresh, ListingCurrent, KnownVersions, Outdated, Services
<1> QED
  BY <1>1, <1>2 DEF TeardownSession

\* Every action keeps the invariant.
LEMMA SftpStep == SftpInv /\ [SftpNext]_sftpVars => SftpInv'
<1> SUFFICES ASSUME SftpInv, [SftpNext]_sftpVars PROVE SftpInv'
  OBVIOUS
<1>1. SftpTypeOK'
  BY SftpTypeStep DEF SftpInv
<1>0. /\ svc \in Services /\ lease \in [Conns -> {"none", "held", "released", "twice"}]
      /\ channel \in [Conns -> {"none", "open", "closed"}] /\ cache \in [Dirs -> Listings]
      /\ ops \subseteq Operations /\ version \in [Dirs -> 1..MaxVersion] /\ acked \in [Dirs -> 0..MaxVersion]
      /\ LeaseOnce /\ LeaseFresh /\ ListingCurrent /\ KnownVersions
  BY DEF SftpInv, SftpTypeOK
<1>00. Conns \subseteq Nat /\ svc.attempt \in Nat /\ svc.session \in Nat /\ 0 \notin Conns
  BY <1>0, SftpAssumption DEF Services, Conns
<1>2. CASE Connect \/ SshAnswers \/ SftpOpens
  <2>1. UNCHANGED <<cache, ops, version, acked>>
    BY <1>2 DEF Connect, SshAnswers, SftpOpens
  <2>2. ListingCurrent' /\ KnownVersions'
    BY <1>0, <2>1 DEF ListingCurrent, Outdated, KnownVersions
  <2>3. CASE Connect
    BY <1>0, <1>00, <1>1, <2>2, <2>3, SftpRanges DEF Connect, SftpInv, LeaseOnce, LeaseFresh, Services
  <2>4. CASE SshAnswers
    BY <1>0, <1>00, <1>1, <2>2, <2>4, SftpRanges DEF SshAnswers, SftpInv, LeaseOnce, LeaseFresh, Services
  <2>5. CASE SftpOpens
    <3>1. svc.attempt \in Conns /\ svc.session = 0 /\ lease[svc.attempt] = "held" /\ svc.pending = "sftp"
      BY <1>0, <2>5, SftpRanges DEF SftpOpens, LeaseOnce, LeaseFresh, Services
    <3>2. CASE lease' = Dispose(svc.attempt) /\ svc' = [svc EXCEPT !.pending = "none"] /\ UNCHANGED channel
      <4>1. lease' = [lease EXCEPT ![svc.attempt] = "released"]
        BY <3>1, <3>2 DEF Dispose
      <4> QED
        BY <1>0, <1>00, <1>1, <2>2, <3>1, <3>2, <4>1 DEF SftpInv, LeaseOnce, LeaseFresh, Services
    <3>3. CASE /\ svc' = [svc EXCEPT !.pending = "none", !.session = svc.attempt, !.unsub = svc.attempt]
               /\ channel' = [channel EXCEPT ![svc.attempt] = "open"] /\ UNCHANGED lease
      BY <1>0, <1>00, <1>1, <2>2, <3>1, <3>3 DEF SftpInv, LeaseOnce, LeaseFresh, Services
    <3> QED
      BY <2>5, <3>2, <3>3 DEF SftpOpens
  <2> QED
    BY <1>2, <2>3, <2>4, <2>5
<1>3. CASE Disconnect \/ ConnectionCloses
  <2>1. svc.session \in Conns /\ TeardownSession(svc.session) /\ UNCHANGED <<channel, ops, version, acked>>
    BY <1>0, <1>3, SftpRanges DEF Disconnect, ConnectionCloses, LeaseOnce, Services
  <2> QED
    BY <1>1, <2>1, TeardownLease DEF SftpInv, LeaseOnce
<1>4. ASSUME NEW n \in Conns, ChannelCloses(n) PROVE SftpInv'
  <2>1. \A k \in Conns : channel'[k] # channel[k] => k = n
    BY <1>0, <1>4 DEF ChannelCloses
  <2> QED
    BY <1>1, <1>4, <2>1, TeardownLease DEF ChannelCloses, SftpInv, LeaseOnce
<1>5. CASE StartWatching \/ StopWatching
  <2>1. LeaseOnce' /\ LeaseFresh'
    BY <1>0, <1>1, <1>5 DEF StartWatching, StopWatching, LeaseOnce, LeaseFresh, Services
  <2>2. ListingCurrent' /\ KnownVersions'
    BY <1>0, <1>5 DEF StartWatching, StopWatching, ListingCurrent, Outdated, KnownVersions
  <2> QED
    BY <1>1, <2>1, <2>2 DEF SftpInv
<1>6. ASSUME NEW kind \in Kinds, Begin(kind) PROVE SftpInv'
  <2>1. PICK d \in Targets(kind) :
          ops' = ops \cup {[kind |-> kind, dir |-> d, conn |-> svc.session, tags |-> NoTags, raced |-> FALSE]}
    BY <1>6 DEF Begin
  <2>2. LeaseOnce' /\ LeaseFresh' /\ ListingCurrent'
    BY <1>0, <1>1, <1>6 DEF Begin, LeaseOnce, LeaseFresh, ListingCurrent, Outdated
  <2>3. KnownVersions'
    BY <1>0, <1>6, <2>1 DEF Begin, KnownVersions, NoTags
  <2> QED
    BY <1>1, <2>2, <2>3 DEF SftpInv
<1>7. ASSUME NEW op \in ops, ServerActs(op) PROVE SftpInv'
  <2> DEFINE tags == [d \in Dirs |-> IF d = op.dir \/ d \in Changes(op) THEN version'[d] ELSE 0]
             acted == [op EXCEPT !.tags = tags]
  <2>0. op \in Operations
    BY <1>0
  <2>1. /\ acted.kind = op.kind /\ acted.dir = op.dir /\ acted.raced = op.raced /\ acted.tags = tags
        /\ Changes(acted) = Changes(op)
    BY <2>0 DEF Operations, Changes
  <2>2. ops' = (ops \ {op}) \cup {acted}
    BY <1>7 DEF ServerActs
  <2>3. \A d \in Dirs : version[d] <= version'[d] /\ acked[d] <= version'[d] /\ version'[d] \in 1..MaxVersion /\ version[d] \in Nat
    BY <1>0, <1>1, <1>7 DEF ServerActs, KnownVersions, SftpTypeOK
  <2>4. LeaseOnce' /\ LeaseFresh' /\ ListingCurrent'
    BY <1>0, <1>1, <1>7 DEF ServerActs, LeaseOnce, LeaseFresh, ListingCurrent, Outdated
  <2> HIDE DEF acted, tags
  <2>5. \A e \in Dirs : acted.tags[e] <= version'[e] /\ (acted.kind # "read" /\ acted.tags[e] # 0 => e \in Changes(acted))
    BY <2>0, <2>1, <2>3 DEF Operations, Changes, Kinds, tags
  <2>6. \A o \in ops, d \in Dirs : o.tags[d] <= version'[d]
    BY <1>0, <2>3 DEF KnownVersions, Operations
  <2>7. acked' = acked
    BY <1>7 DEF ServerActs
  <2>8. KnownVersions'
    <3>1. \A d \in Dirs : acked'[d] <= version'[d]
      BY <2>3, <2>7
    <3>2. \A o \in ops, d \in Dirs :
            /\ o.tags[d] <= version'[d]
            /\ o.kind # "read" /\ o.tags[d] # 0 => d \in Changes(o)
            /\ o.kind = "read" /\ o.tags # NoTags /\ o.tags[o.dir] < acked'[o.dir] => o.raced
      BY <1>0, <2>6, <2>7 DEF KnownVersions
    <3>3. acked[acted.dir] \in Nat /\ version'[acted.dir] \in Nat /\ (acted.kind = "read" => ~(acted.tags[acted.dir] < acked[acted.dir]))
      <4>1. acted.dir \in Dirs
        BY <2>0, <2>1 DEF Operations
      <4>2. acked[acted.dir] \in Nat /\ version'[acted.dir] \in Nat
        BY <1>0, <2>3, <4>1
      <4>3. acted.kind = "read" => acted.tags[acted.dir] = version'[acted.dir]
        BY <2>1, <4>1 DEF tags
      <4> QED
        BY <2>3, <4>1, <4>2, <4>3
    <3>4. ASSUME NEW o \in ops', NEW d \in Dirs
          PROVE  /\ o.tags[d] <= version'[d]
                 /\ o.kind # "read" /\ o.tags[d] # 0 => d \in Changes(o)
                 /\ o.kind = "read" /\ o.tags # NoTags /\ o.tags[o.dir] < acked'[o.dir] => o.raced
      <4>1. CASE o \in ops
        BY <3>2, <4>1
      <4>2. CASE o = acted
        <5>1. /\ acted.tags[d] <= version'[d]
              /\ acted.kind # "read" /\ acted.tags[d] # 0 => d \in Changes(acted)
          BY <2>5, Zenon
        <5>2. acted.kind = "read" => ~(acted.tags[acted.dir] < acked'[acted.dir])
          BY <2>7, <3>3
        <5> QED
          BY <4>2, <5>1, <5>2
      <4> QED
        BY <2>2, <4>1, <4>2
    <3> QED
      BY <3>1, <3>4 DEF KnownVersions
  <2> QED
    BY <1>1, <2>4, <2>8 DEF SftpInv
<1>8. ASSUME NEW op \in ops, OpSucceeds(op) PROVE SftpInv'
  <2>0. op \in Operations
    BY <1>0
  <2>1. LeaseOnce' /\ LeaseFresh'
    BY <1>0, <1>1, <1>8 DEF OpSucceeds, LeaseOnce, LeaseFresh
  <2>2. CASE op.kind = "read"
    <3>1. ListingCurrent'
      BY <1>0, <1>8, <2>0, <2>2 DEF OpSucceeds, ListingCurrent, Outdated, KnownVersions, Operations, Listings
    <3>2. KnownVersions'
      BY <1>0, <1>8, <2>2 DEF OpSucceeds, KnownVersions
    <3> QED
      BY <1>1, <2>1, <3>1, <3>2 DEF SftpInv
  <2>3. CASE op.kind # "read"
    <3>1. \A d \in Dirs : /\ acked'[d] = Later(acked[d], op.tags[d])
                          /\ acked[d] \in Nat /\ op.tags[d] \in Nat /\ version[d] \in Nat
                          /\ acked'[d] # acked[d] => d \in Changes(op)
      BY <1>0, <1>8, <2>0, <2>3 DEF OpSucceeds, Operations, Later, KnownVersions
    <3>2. ListingCurrent'
      <4> SUFFICES ASSUME NEW d \in Dirs, cache'[d] # Uncached, cache'[d].tag < acked'[d]
                   PROVE  cache'[d].raced \/ cache'[d].moved
        BY DEF ListingCurrent, Outdated
      <4> DEFINE c == Drop(cache, Invalidates(op))[d]
      <4>1. cache'[d] = [c EXCEPT !.moved = @ \/ (op.kind = "rename" /\ c # Uncached)]
        BY <1>8, <2>3 DEF OpSucceeds
      <4>2. c \in Listings /\ (c = Uncached \/ (c = cache[d] /\ d \notin Invalidates(op)))
        BY <1>0, DropType DEF Drop
      <4>3. c # Uncached
        BY <4>1, <4>2 DEF Uncached, Listings
      <4>4. /\ cache'[d].tag = cache[d].tag /\ cache'[d].raced = cache[d].raced
            /\ cache[d].moved => cache'[d].moved
            /\ op.kind = "rename" => cache'[d].moved
        BY <4>1, <4>2, <4>3 DEF Listings
      <4>5. CASE acked'[d] = acked[d]
        BY <1>0, <4>2, <4>3, <4>4, <4>5 DEF ListingCurrent, Outdated
      <4>6. CASE acked'[d] # acked[d]
        BY <2>0, <2>3, <3>1, <4>2, <4>3, <4>4, <4>6 DEF Changes, Invalidates, Operations, Kinds
      <4> QED
        BY <4>5, <4>6
    <3>3. KnownVersions'
      <4>1. \A d \in Dirs : acked'[d] <= version'[d]
        BY <1>0, <1>8, <3>1 DEF OpSucceeds, KnownVersions, Later
      <4>2. ASSUME NEW x \in ops', NEW d \in Dirs
            PROVE  /\ x.tags[d] <= version'[d]
                   /\ x.kind # "read" /\ x.tags[d] # 0 => d \in Changes(x)
                   /\ x.kind = "read" /\ x.tags # NoTags /\ x.tags[x.dir] < acked'[x.dir] => x.raced
        <5>1. PICK r \in ops : x = IF r.kind = "read" /\ r.dir \in Changes(op) THEN [r EXCEPT !.raced = TRUE] ELSE r
          BY <1>8, <2>3, <4>2, WriteSucceeds
        <5>2. r \in Operations
          BY <1>0
        <5>3. /\ x.kind = r.kind /\ x.tags = r.tags /\ x.dir = r.dir /\ Changes(x) = Changes(r)
              /\ r.raced => x.raced
              /\ r.kind = "read" /\ r.dir \in Changes(op) => x.raced
          BY <5>1, <5>2 DEF Operations, Changes
        <5>4. version' = version
          BY <1>8 DEF OpSucceeds
        <5> QED
          BY <1>0, <3>1, <5>2, <5>3, <5>4 DEF KnownVersions, Operations
      <4> QED
        BY <4>1, <4>2 DEF KnownVersions
    <3> QED
      BY <1>1, <2>1, <3>2, <3>3 DEF SftpInv
  <2> QED
    BY <2>2, <2>3
<1>9. ASSUME NEW op \in ops, OpFails(op) PROVE SftpInv'
  <2>1. LeaseOnce' /\ LeaseFresh'
    BY <1>0, <1>1, <1>9 DEF OpFails, LeaseOnce, LeaseFresh
  <2>2. ListingCurrent' /\ KnownVersions'
    BY <1>0, <1>9 DEF OpFails, Drop, ListingCurrent, Outdated, KnownVersions
  <2> QED
    BY <1>1, <2>1, <2>2 DEF SftpInv
<1>10. ASSUME NEW op \in ops, OpStalls(op) PROVE SftpInv'
  <2>1. LeaseOnce' /\ LeaseFresh'
    <3>1. CASE svc.session = op.conn /\ CleanupSession /\ lease' = Dispose(op.conn)
      <4>1. op.conn \in Conns /\ lease' = [lease EXCEPT ![op.conn] = "released"]
        BY <1>0, <3>1 DEF Operations, Dispose, LeaseOnce
      <4> QED
        BY <1>0, <1>00, <1>1, <1>10, <3>1, <4>1 DEF OpStalls, LeaseOnce, LeaseFresh, CleanupSession, Services
    <3>2. CASE UNCHANGED <<svc, lease>>
      BY <1>0, <1>1, <1>10, <3>2 DEF OpStalls, LeaseOnce, LeaseFresh
    <3> QED
      BY <1>10, <3>1, <3>2 DEF OpStalls
  <2>2. ListingCurrent'
    BY <1>0, <1>10 DEF OpStalls, CleanupSession, Drop, ListingCurrent, Outdated
  <2>3. KnownVersions'
    BY <1>0, <1>10 DEF OpStalls, KnownVersions
  <2> QED
    BY <1>1, <2>1, <2>2, <2>3 DEF SftpInv
<1>11. ASSUME NEW d \in Dirs, Expire(d) \/ RemoteChange(d) PROVE SftpInv'
  <2>1. LeaseOnce' /\ LeaseFresh'
    BY <1>0, <1>1, <1>11 DEF Expire, RemoteChange, LeaseOnce, LeaseFresh
  <2>2. ListingCurrent' /\ KnownVersions'
    BY <1>0, <1>11 DEF Expire, RemoteChange, Drop, ListingCurrent, Outdated, KnownVersions
  <2> QED
    BY <1>1, <2>1, <2>2 DEF SftpInv
<1>12. CASE UNCHANGED sftpVars
  BY <1>0, <1>1, <1>12 DEF sftpVars, SftpInv, LeaseOnce, LeaseFresh, ListingCurrent, Outdated, KnownVersions
<1> QED
  BY <1>2, <1>3, <1>4, <1>5, <1>6, <1>7, <1>8, <1>9, <1>10, <1>11, <1>12 DEF SftpNext

\* For any number of connections, operations and versions: every connection's
\* lease is released exactly once, however late its events arrive, and a cached
\* listing shows the changes that were reported, but for a read that was under
\* way or a rename.
THEOREM SftpIsSound == SftpSpec => []SftpSound
<1>1. SftpInv => SftpSound
  BY DEF SftpInv, SftpSound
<1> QED
  BY <1>1, SftpInitial, SftpStep, PTL DEF SftpSpec

------------------------------------------------------------------------------
(* The explorer that follows the terminals                                    *)

\* What waits for its turn, in a buffer, behind the debounce or in a lookup that
\* is current: c is the coordinator, e the surroundings, t the tracker and l the
\* lookups.  It is as new as what is shown, its session lives, and whatever the
\* explorer could show next is not older than what a current lookup may show.
Timely(e, t, r) == e.applied[r.session] <= r.at /\ r.at <= t[r.session].at
BuffersTimely(c, e, t) ==
  /\ c.hidden # None => Timely(e, t, c.hidden)
  /\ c.busy # None => Timely(e, t, c.busy)
  /\ c.debounced # None => Timely(e, t, c.debounced)
BuffersUsed(c, e) == (~e.busy => c.busy = None) /\ (c.visible => c.hidden = None)
LookupsTimely(c, e, t, l) ==
  \A k \in l : k.current =>
    /\ Timely(e, t, k.record)
    /\ \A j \in l : j.current => j = k
    /\ c.debounced # None /\ c.debounced.session = k.record.session => k.record.at <= c.debounced.at
PendingSound(c, e, t, l) == BuffersTimely(c, e, t) /\ BuffersUsed(c, e) /\ LookupsTimely(c, e, t, l)

ReportsSound(e, t, n) ==
  \A s \in Sessions : /\ t[s].at <= n /\ e.applied[s] <= n
                      /\ t[s].at > 0 => e.applied[s] <= t[s].at

CwdInv == CwdTypeOK /\ ReportsSound(env, tracked, reports) /\ PendingSound(sync, env, tracked, lookups)

\* A record that considerApply() is given: the newest of its session, or one
\* from a buffer that is applied at once.
Offered(e, t, r, immediate) ==
  r # None => r \in Records /\ Timely(e, t, r) /\ (immediate \/ r.at = t[r.session].at)

LEMMA CwdRanges == 0 \in 0..MaxReports /\ 1..MaxReports \subseteq 0..MaxReports /\ 0..MaxReports \subseteq Nat
BY CwdAssumption

LEMMA BumpSound ==
  ASSUME NEW l \in SUBSET Lookups
  PROVE  BumpGeneration(l) \in SUBSET Lookups /\ \A k \in BumpGeneration(l) : ~k.current
<1>1. \A k \in l : [k EXCEPT !.current = FALSE] \in Lookups /\ ~[k EXCEPT !.current = FALSE].current
  BY DEF Lookups
<1> QED
  BY <1>1 DEF BumpGeneration

\* A generation that moves on takes every lookup out of the race.
LEMMA BumpPending ==
  ASSUME NEW c, NEW e, NEW t, NEW l \in SUBSET Lookups, BuffersTimely(c, e, t), BuffersUsed(c, e)
  PROVE  PendingSound(c, e, t, BumpGeneration(l))
BY BumpSound DEF PendingSound, LookupsTimely

\* The newest record of a session can be offered.
LEMMA NewestOffered ==
  ASSUME NEW e \in Surroundings, NEW t \in [Sessions -> Tracks], NEW n, ReportsSound(e, t, n),
         NEW s \in Sessions \cup {None}, NEW immediate
  PROVE  Offered(e, t, RecordOf(t, s), immediate)
<1> SUFFICES ASSUME s # None, t[s].at # 0
             PROVE  LET r == [session |-> s, at |-> t[s].at] IN r \in Records /\ Timely(e, t, r) /\ r.at = t[r.session].at
  BY DEF Offered, RecordOf
<1>1. s \in Sessions /\ t[s].at \in 1..MaxReports /\ e.applied[s] \in Nat
  BY CwdAssumption DEF Tracks, Surroundings
<1> QED
  BY <1>1 DEF Records, ReportsSound, Timely

\* considerApply() keeps what is pending sound.
LEMMA ConsiderSound ==
  ASSUME NEW c \in Coordinators, NEW e \in Surroundings, NEW t \in [Sessions -> Tracks], NEW l \in SUBSET Lookups,
         NEW r, NEW immediate \in BOOLEAN, Offered(e, t, r, immediate), PendingSound(c, e, t, l),
         Apply(c, e, t, l, r, immediate)
  PROVE  sync' \in Coordinators /\ lookups' \in SUBSET Lookups /\ PendingSound(sync', e, t, lookups')
<1>0. sync' = ConsiderApply(c, e, t, l, r, immediate).c /\ lookups' = ConsiderApply(c, e, t, l, r, immediate).l
  BY DEF Apply
<1>00. BuffersTimely(c, e, t) /\ BuffersUsed(c, e) /\ LookupsTimely(c, e, t, l)
  BY DEF PendingSound
<1>1. CASE sync' = c /\ lookups' = l
  BY <1>1
<1>2. CASE r # None /\ e.busy /\ sync' = [c EXCEPT !.busy = r] /\ lookups' = BumpGeneration(l)
  <2>1. /\ sync' \in Coordinators /\ sync'.hidden = c.hidden /\ sync'.debounced = c.debounced
        /\ sync'.busy = r /\ sync'.visible = c.visible
    BY <1>2 DEF Coordinators, Buffers, Offered
  <2>2. BuffersTimely(sync', e, t) /\ BuffersUsed(sync', e)
    BY <1>00, <1>2, <2>1 DEF BuffersTimely, BuffersUsed, Offered
  <2> QED
    BY <1>2, <2>1, <2>2, BumpSound, BumpPending
<1>3. CASE r # None /\ ~c.visible /\ sync' = [c EXCEPT !.hidden = r] /\ lookups' = BumpGeneration(l)
  <2>1. /\ sync' \in Coordinators /\ sync'.hidden = r /\ sync'.debounced = c.debounced
        /\ sync'.busy = c.busy /\ sync'.visible = c.visible
    BY <1>3 DEF Coordinators, Buffers, Offered
  <2>2. BuffersTimely(sync', e, t) /\ BuffersUsed(sync', e)
    BY <1>00, <1>3, <2>1 DEF BuffersTimely, BuffersUsed, Offered
  <2> QED
    BY <1>3, <2>1, <2>2, BumpSound, BumpPending
<1>4. CASE /\ r # None /\ sync' = [c EXCEPT !.debounced = None]
           /\ lookups' = BumpGeneration(l) \cup {[record |-> r, stage |-> "realpath", current |-> TRUE]}
  <2>1. /\ sync' \in Coordinators /\ sync'.hidden = c.hidden /\ sync'.debounced = None
        /\ sync'.busy = c.busy /\ sync'.visible = c.visible
    BY <1>4 DEF Coordinators, Buffers
  <2>2. BuffersTimely(sync', e, t) /\ BuffersUsed(sync', e)
    BY <1>00, <2>1 DEF BuffersTimely, BuffersUsed
  <2>3. [record |-> r, stage |-> "realpath", current |-> TRUE] \in Lookups
    BY <1>4 DEF Lookups, Offered
  <2>4. LookupsTimely(sync', e, t, lookups')
    <3>1. \A k \in lookups' : k.current => k = [record |-> r, stage |-> "realpath", current |-> TRUE]
      BY <1>4, BumpSound
    <3>2. Timely(e, t, r)
      BY <1>4 DEF Offered
    <3>3. \A k \in lookups' : k.current => k.record = r
      BY <3>1
    <3> QED
      BY <2>1, <3>1, <3>2, <3>3, Zenon DEF LookupsTimely
  <2> QED
    BY <1>4, <2>1, <2>2, <2>3, <2>4, BumpSound DEF PendingSound
<1>5. CASE r # None /\ ~immediate /\ sync' = [c EXCEPT !.debounced = r] /\ lookups' = l
  <2>1. /\ sync' \in Coordinators /\ sync'.hidden = c.hidden /\ sync'.debounced = r
        /\ sync'.busy = c.busy /\ sync'.visible = c.visible
    BY <1>5 DEF Coordinators, Buffers, Offered
  <2>2. BuffersTimely(sync', e, t) /\ BuffersUsed(sync', e)
    BY <1>00, <1>5, <2>1 DEF BuffersTimely, BuffersUsed, Offered
  <2>3. LookupsTimely(sync', e, t, lookups')
    BY <1>00, <1>5, <2>1 DEF LookupsTimely, Offered, Timely
  <2> QED
    BY <1>5, <2>1, <2>2, <2>3 DEF PendingSound
<1> QED
  BY <1>0, <1>1, <1>2, <1>3, <1>4, <1>5 DEF ConsiderApply

LEMMA CwdInitial == CwdInit => CwdInv
<1> SUFFICES ASSUME CwdInit PROVE CwdInv
  OBVIOUS
<1>1. CwdTypeOK
  BY CwdRanges DEF CwdInit, CwdTypeOK, Tracks, Coordinators, Buffers, Lookups, Surroundings, NoRecord
<1>2. ReportsSound(env, tracked, reports)
  BY DEF CwdInit, ReportsSound, NoRecord
<1>3. PendingSound(sync, env, tracked, lookups)
  BY DEF CwdInit, PendingSound, BuffersTimely, BuffersUsed, LookupsTimely
<1> QED
  BY <1>1, <1>2, <1>3 DEF CwdInv

\* A report and a flush.
LEMMA ReportStep ==
  ASSUME CwdInv, NEW s \in Sessions, Report(s)
  PROVE  CwdInv'
<1>0. /\ tracked \in [Sessions -> Tracks] /\ sync \in Coordinators /\ lookups \in SUBSET Lookups
      /\ env \in Surroundings /\ reports \in 0..MaxReports /\ reports \in Nat
      /\ ReportsSound(env, tracked, reports) /\ PendingSound(sync, env, tracked, lookups)
  BY CwdRanges DEF CwdInv, CwdTypeOK
<1>1. env' = env /\ reports' = reports + 1 /\ reports' \in 0..MaxReports
  BY <1>0, CwdAssumption DEF Report
<1>2. PICK how \in {"fire", "defer", "burst"}, moved \in BOOLEAN :
       LET known == [tracked EXCEPT ![s].at = reports + 1, ![s].stale = @ \/ (moved /\ tracked[s].at > 0)]
       IN \/ /\ how = "fire"
             /\ tracked' = [known EXCEPT ![s].flush = FALSE]
             /\ Apply(sync, env, tracked', lookups, RecordOf(known, s), FALSE)
          \/ /\ how = "defer" /\ tracked[s].at > 0
             /\ tracked' = [known EXCEPT ![s].flush = TRUE]
             /\ UNCHANGED <<sync, lookups>>
          \/ /\ how = "burst" /\ tracked[s].at > 0 /\ ~moved
             /\ tracked' = [tracked EXCEPT ![s].disabled = TRUE, ![s].flush = FALSE]
             /\ UNCHANGED <<sync, lookups>>
  BY DEF Report
<1> DEFINE known == [tracked EXCEPT ![s].at = reports + 1, ![s].stale = @ \/ (moved /\ tracked[s].at > 0)]
<1>3. known \in [Sessions -> Tracks] /\ known[s].at = reports + 1 /\ \A q \in Sessions : q # s => known[q] = tracked[q]
  <2>1. (tracked[s].stale \/ (moved /\ tracked[s].at > 0)) \in BOOLEAN
    BY Zenon
  <2>2. tracked[s] \in Tracks
    BY <1>0
  <2>3. [tracked[s] EXCEPT !.at = reports + 1, !.stale = @ \/ (moved /\ tracked[s].at > 0)] \in Tracks
    BY <1>1, <2>1, <2>2, Zenon DEF Tracks
  <2>4. known = [tracked EXCEPT ![s] = [tracked[s] EXCEPT !.at = reports + 1, !.stale = @ \/ (moved /\ tracked[s].at > 0)]]
    BY <1>0, <2>2 DEF Tracks
  <2>5. [tracked[s] EXCEPT !.at = reports + 1, !.stale = @ \/ (moved /\ tracked[s].at > 0)].at = reports + 1
    BY <2>2 DEF Tracks
  <2> HIDE DEF known
  <2> QED
    BY <1>0, <2>3, <2>4, <2>5
<1>4. \A b \in BOOLEAN : LET t == [known EXCEPT ![s].flush = b]
                         IN t \in [Sessions -> Tracks] /\ t[s].at = reports + 1 /\ \A q \in Sessions : q # s => t[q] = tracked[q]
  <2> HIDE DEF known
  <2> QED
    BY <1>3 DEF Tracks
<1>5. ASSUME NEW t \in [Sessions -> Tracks], t[s].at >= tracked[s].at, t[s].at \in {tracked[s].at, reports + 1},
             t[s].at > 0, \A q \in Sessions : q # s => t[q] = tracked[q]
      PROVE  ReportsSound(env, t, reports + 1) /\ PendingSound(sync, env, t, lookups)
  <2>1. ReportsSound(env, t, reports + 1)
    BY <1>0, <1>5 DEF ReportsSound, Tracks, Surroundings
  <2>2. ASSUME NEW r \in Records, Timely(env, tracked, r) PROVE Timely(env, t, r)
    BY <1>0, <1>5, <2>2 DEF Timely, Records, Tracks
  <2>3. BuffersTimely(sync, env, t) /\ BuffersUsed(sync, env)
    BY <1>0, <2>2 DEF PendingSound, BuffersTimely, Coordinators, Buffers
  <2>4. LookupsTimely(sync, env, t, lookups)
    BY <1>0, <2>2 DEF PendingSound, LookupsTimely, Lookups
  <2> QED
    BY <2>1, <2>3, <2>4 DEF PendingSound
<1>6. tracked[s].at \in Nat /\ reports + 1 >= tracked[s].at /\ reports + 1 > 0
  BY <1>0 DEF ReportsSound, Tracks
<1>7. CASE tracked' = [known EXCEPT ![s].flush = FALSE] /\ Apply(sync, env, tracked', lookups, RecordOf(known, s), FALSE)
  <2>1. /\ tracked' \in [Sessions -> Tracks] /\ tracked'[s].at = reports + 1
        /\ \A q \in Sessions : q # s => tracked'[q] = tracked[q]
    BY <1>4, <1>7
  <2>2. ReportsSound(env, tracked', reports + 1) /\ PendingSound(sync, env, tracked', lookups)
    BY <1>5, <1>6, <2>1
  <2>3. RecordOf(known, s) = RecordOf(tracked', s)
    BY <1>3, <2>1 DEF RecordOf
  <2>4. Offered(env, tracked', RecordOf(tracked', s), FALSE)
    BY <1>0, <2>1, <2>2, NewestOffered
  <2> HIDE DEF known
  <2>5. sync' \in Coordinators /\ lookups' \in SUBSET Lookups /\ PendingSound(sync', env, tracked', lookups')
    BY <1>0, <1>7, <2>1, <2>2, <2>3, <2>4, ConsiderSound
  <2> QED
    BY <1>0, <1>1, <2>1, <2>2, <2>5 DEF CwdInv, CwdTypeOK
<1>8. CASE tracked' = [known EXCEPT ![s].flush = TRUE] /\ UNCHANGED <<sync, lookups>>
  <2>1. /\ tracked' \in [Sessions -> Tracks] /\ tracked'[s].at = reports + 1
        /\ \A q \in Sessions : q # s => tracked'[q] = tracked[q]
    BY <1>4, <1>8
  <2>2. ReportsSound(env, tracked', reports + 1) /\ PendingSound(sync, env, tracked', lookups)
    BY <1>5, <1>6, <2>1
  <2> HIDE DEF known
  <2> QED
    BY <1>0, <1>1, <1>8, <2>1, <2>2 DEF CwdInv, CwdTypeOK
<1>9. CASE /\ tracked[s].at > 0 /\ tracked' = [tracked EXCEPT ![s].disabled = TRUE, ![s].flush = FALSE]
           /\ UNCHANGED <<sync, lookups>>
  <2>1. /\ tracked' \in [Sessions -> Tracks] /\ tracked'[s].at = tracked[s].at
        /\ \A q \in Sessions : q # s => tracked'[q] = tracked[q]
    BY <1>0, <1>9 DEF Tracks
  <2> HIDE DEF known
  <2>3. tracked'[s].at >= tracked[s].at /\ tracked'[s].at > 0
    BY <1>6, <1>9, <2>1
  <2>2. ReportsSound(env, tracked', reports + 1) /\ PendingSound(sync, env, tracked', lookups)
    BY <1>5, <2>1, <2>3
  <2> QED
    BY <1>0, <1>1, <1>9, <2>1, <2>2 DEF CwdInv, CwdTypeOK
<1> QED
  BY <1>2, <1>7, <1>8, <1>9

\* Every action keeps the invariant.
LEMMA CwdStep == CwdInv /\ [CwdNext]_cwdVars => CwdInv'
<1> SUFFICES ASSUME CwdInv, [CwdNext]_cwdVars PROVE CwdInv'
  OBVIOUS
<1>0. /\ tracked \in [Sessions -> Tracks] /\ sync \in Coordinators /\ lookups \in SUBSET Lookups
      /\ env \in Surroundings /\ reports \in 0..MaxReports
      /\ ReportsSound(env, tracked, reports) /\ PendingSound(sync, env, tracked, lookups)
      /\ BuffersTimely(sync, env, tracked) /\ BuffersUsed(sync, env) /\ LookupsTimely(sync, env, tracked, lookups)
      /\ None \in Buffers
  BY DEF CwdInv, CwdTypeOK, PendingSound, Buffers
<1>00. /\ BumpGeneration(lookups) \in SUBSET Lookups
       /\ \A c, e, t : BuffersTimely(c, e, t) /\ BuffersUsed(c, e) => PendingSound(c, e, t, BumpGeneration(lookups))
  BY <1>0, BumpSound, BumpPending
<1>1. ASSUME NEW s \in Sessions, Report(s) PROVE CwdInv'
  BY <1>1, ReportStep
<1>2. ASSUME NEW s \in Sessions, FlushReport(s) PROVE CwdInv'
  <2>1. tracked' \in [Sessions -> Tracks] /\ \A q \in Sessions : tracked'[q].at = tracked[q].at
    BY <1>0, <1>2 DEF FlushReport, Tracks
  <2>2. ReportsSound(env, tracked', reports) /\ PendingSound(sync, env, tracked', lookups)
    BY <1>0, <2>1 DEF ReportsSound, PendingSound, BuffersTimely, LookupsTimely, Timely, Coordinators, Buffers, Lookups, Records
  <2>3. RecordOf(tracked, s) = RecordOf(tracked', s)
    BY <2>1 DEF RecordOf
  <2>4. Offered(env, tracked', RecordOf(tracked', s), FALSE)
    BY <1>0, <2>1, <2>2, NewestOffered
  <2>5. sync' \in Coordinators /\ lookups' \in SUBSET Lookups /\ PendingSound(sync', env, tracked', lookups')
    BY <1>0, <1>2, <2>1, <2>2, <2>3, <2>4, ConsiderSound DEF FlushReport
  <2> QED
    BY <1>0, <1>2, <2>1, <2>2, <2>5 DEF FlushReport, CwdInv, CwdTypeOK
<1>3. CASE FocusChanges
  <2>1. PICK s \in Sessions \cup {None} :
          /\ env' = [env EXCEPT !.focus = s]
          /\ Apply(sync, env', tracked, BumpGeneration(lookups), RecordOf(tracked, s), FALSE)
    BY <1>3 DEF FocusChanges
  <2>2. env' \in Surroundings /\ env'.applied = env.applied /\ env'.busy = env.busy
    BY <1>0, <2>1 DEF Surroundings
  <2>3. ReportsSound(env', tracked, reports) /\ BuffersTimely(sync, env', tracked) /\ BuffersUsed(sync, env')
    BY <1>0, <2>2 DEF ReportsSound, BuffersTimely, BuffersUsed, Timely
  <2>4. Offered(env', tracked, RecordOf(tracked, s), FALSE)
    BY <1>0, <2>2, <2>3, NewestOffered
  <2>5. sync' \in Coordinators /\ lookups' \in SUBSET Lookups /\ PendingSound(sync', env', tracked, lookups')
    BY <1>0, <1>00, <2>1, <2>2, <2>3, <2>4, ConsiderSound
  <2> QED
    BY <1>0, <1>3, <2>2, <2>3, <2>5 DEF FocusChanges, CwdInv, CwdTypeOK
<1>4. CASE FollowingOff
  <2>1. sync' \in Coordinators /\ sync'.hidden = None /\ sync'.busy = None /\ sync'.debounced = None
    BY <1>0, <1>4 DEF FollowingOff, Coordinators
  <2>2. BuffersTimely(sync', env, tracked) /\ BuffersUsed(sync', env)
    BY <2>1 DEF BuffersTimely, BuffersUsed
  <2> QED
    BY <1>0, <1>00, <1>4, <2>1, <2>2 DEF FollowingOff, CwdInv, CwdTypeOK
<1>5. CASE FollowingOn
  <2> DEFINE c == [sync EXCEPT !.following = TRUE, !.paused = FALSE, !.pinned = None]
             r == IF env.busy \/ ~sync.visible THEN None ELSE RecordOf(tracked, env.focus)
  <2>1. Apply(c, env, tracked', BumpGeneration(lookups), r, TRUE)
    BY <1>5 DEF FollowingOn
  <2>2. tracked' \in [Sessions -> Tracks] /\ \A q \in Sessions : tracked'[q].at = tracked[q].at
    BY ZenonT(30), <1>0, <1>5 DEF FollowingOn, Tracks, Surroundings
  <2>3. ReportsSound(env, tracked', reports) /\ BuffersTimely(sync, env, tracked')
    BY <1>0, <2>2 DEF ReportsSound, BuffersTimely, Timely, Coordinators, Buffers, Records
  <2>4. c \in Coordinators /\ BuffersTimely(c, env, tracked') /\ BuffersUsed(c, env)
    BY <1>0, <2>3 DEF Coordinators, BuffersTimely, BuffersUsed
  <2>5. env.focus \in Sessions \cup {None} /\ RecordOf(tracked, env.focus) = RecordOf(tracked', env.focus)
    BY <1>0, <2>2 DEF RecordOf, Surroundings
  <2>6. Offered(env, tracked', RecordOf(tracked, env.focus), TRUE)
    BY <1>0, <2>2, <2>3, <2>5, NewestOffered
  <2>7. Offered(env, tracked', r, TRUE)
    BY <2>6 DEF Offered
  <2> HIDE DEF c, r
  <2>8. sync' \in Coordinators /\ lookups' \in SUBSET Lookups /\ PendingSound(sync', env, tracked', lookups')
    BY <1>0, <1>00, <2>1, <2>2, <2>4, <2>7, ConsiderSound
  <2> QED
    BY <1>0, <1>5, <2>2, <2>3, <2>8 DEF FollowingOn, CwdInv, CwdTypeOK
<1>6. CASE SetViewVisible
  <2> DEFINE c == [sync EXCEPT !.visible = ~@]
  <2>1. /\ c \in Coordinators /\ c.hidden = sync.hidden /\ c.busy = sync.busy /\ c.debounced = sync.debounced
        /\ c.visible <=> ~sync.visible
    BY <1>0 DEF Coordinators
  <2>2. UNCHANGED <<tracked, env, reports>>
    BY <1>6 DEF SetViewVisible
  <2>3. CASE ~c.visible /\ sync' = c /\ UNCHANGED lookups
    <3>1. PendingSound(c, env, tracked, lookups)
      BY <1>0, <2>1, <2>3 DEF PendingSound, BuffersTimely, BuffersUsed, LookupsTimely
    <3> HIDE DEF c
    <3> QED
      BY <1>0, <2>1, <2>2, <2>3, <3>1 DEF CwdInv, CwdTypeOK
  <2>4. CASE c.visible /\ Apply([c EXCEPT !.hidden = None], env, tracked, lookups, c.hidden, TRUE)
    <3> DEFINE d == [c EXCEPT !.hidden = None]
    <3>1. d \in Coordinators /\ d.hidden = None /\ d.busy = sync.busy /\ d.debounced = sync.debounced
      BY <1>0, <2>1 DEF Coordinators
    <3>2. PendingSound(d, env, tracked, lookups)
      BY <1>0, <3>1 DEF PendingSound, BuffersTimely, BuffersUsed, LookupsTimely
    <3>3. Offered(env, tracked, c.hidden, TRUE)
      BY <1>0, <2>1 DEF Offered, BuffersTimely, Coordinators, Buffers
    <3> HIDE DEF c
    <3>4. Apply(d, env, tracked, lookups, c.hidden, TRUE)
      BY <2>4
    <3> HIDE DEF d
    <3>5. sync' \in Coordinators /\ lookups' \in SUBSET Lookups /\ PendingSound(sync', env, tracked, lookups')
      BY <1>0, <3>1, <3>2, <3>3, <3>4, ConsiderSound
    <3> QED
      BY <1>0, <2>2, <3>5 DEF CwdInv, CwdTypeOK
  <2> QED
    BY <1>6, <2>3, <2>4 DEF SetViewVisible
<1>7. CASE BusyChanges
  <2>1. env' \in Surroundings /\ env'.applied = env.applied /\ (env'.busy <=> ~env.busy)
    BY <1>0, <1>7 DEF BusyChanges, Surroundings
  <2>2. UNCHANGED <<tracked, reports>> /\ ReportsSound(env', tracked, reports)
    BY <1>0, <1>7, <2>1 DEF BusyChanges, ReportsSound
  <2>3. CASE ~env.busy /\ UNCHANGED <<sync, lookups>>
    <3>1. PendingSound(sync, env', tracked, lookups)
      BY <1>0, <2>1, <2>3 DEF PendingSound, BuffersTimely, BuffersUsed, LookupsTimely, Timely
    <3> QED
      BY <1>0, <2>1, <2>2, <2>3, <3>1 DEF CwdInv, CwdTypeOK
  <2>4. CASE env.busy /\ Apply([sync EXCEPT !.busy = None], env', tracked, lookups, sync.busy, TRUE)
    <3> DEFINE d == [sync EXCEPT !.busy = None]
    <3>1. /\ d \in Coordinators /\ d.hidden = sync.hidden /\ d.busy = None /\ d.debounced = sync.debounced
          /\ d.visible = sync.visible
      BY <1>0 DEF Coordinators
    <3>2. PendingSound(d, env', tracked, lookups)
      BY <1>0, <2>1, <3>1 DEF PendingSound, BuffersTimely, BuffersUsed, LookupsTimely, Timely
    <3>3. Offered(env', tracked, sync.busy, TRUE)
      BY <1>0, <2>1 DEF Offered, BuffersTimely, Coordinators, Buffers, Timely
    <3> HIDE DEF d
    <3>4. Apply(d, env', tracked, lookups, sync.busy, TRUE)
      BY <2>4 DEF d
    <3>5. sync' \in Coordinators /\ lookups' \in SUBSET Lookups /\ PendingSound(sync', env', tracked, lookups')
      BY <1>0, <2>1, <3>1, <3>2, <3>3, <3>4, ConsiderSound
    <3> QED
      BY <1>0, <2>1, <2>2, <3>5 DEF CwdInv, CwdTypeOK
  <2> QED
    BY <1>7, <2>3, <2>4 DEF BusyChanges
<1>8. CASE ManualNavigation
  <2>1. /\ sync' \in Coordinators /\ sync'.hidden = sync.hidden /\ sync'.busy = sync.busy
        /\ sync'.debounced = sync.debounced /\ sync'.visible = sync.visible
    BY <1>0, <1>8 DEF ManualNavigation, Coordinators, Surroundings
  <2>2. BuffersTimely(sync', env, tracked) /\ BuffersUsed(sync', env)
    BY <1>0, <2>1 DEF BuffersTimely, BuffersUsed
  <2> QED
    BY <1>0, <1>00, <1>8, <2>1, <2>2 DEF ManualNavigation, CwdInv, CwdTypeOK
<1>9. CASE ClearPin
  <2>1. /\ sync' \in Coordinators /\ sync'.hidden = sync.hidden /\ sync'.busy = sync.busy
        /\ sync'.debounced = sync.debounced /\ sync'.visible = sync.visible
    BY <1>0, <1>9 DEF ClearPin, Coordinators
  <2>2. PendingSound(sync', env, tracked, lookups)
    BY <1>0, <2>1 DEF PendingSound, BuffersTimely, BuffersUsed, LookupsTimely
  <2> QED
    BY <1>0, <1>9, <2>1, <2>2 DEF ClearPin, CwdInv, CwdTypeOK
<1>10. CASE Resume
  <2> DEFINE d == [sync EXCEPT !.paused = FALSE, !.pinned = None]
  <2>1. /\ d \in Coordinators /\ d.hidden = sync.hidden /\ d.busy = sync.busy
        /\ d.debounced = sync.debounced /\ d.visible = sync.visible
    BY <1>0 DEF Coordinators
  <2>2. PendingSound(d, env, tracked, lookups)
    BY <1>0, <2>1 DEF PendingSound, BuffersTimely, BuffersUsed, LookupsTimely
  <2>3. Offered(env, tracked, RecordOf(tracked, env.focus), TRUE)
    BY <1>0, NewestOffered DEF Surroundings
  <2>4. Apply(d, env, tracked, lookups, RecordOf(tracked, env.focus), TRUE)
    BY <1>10 DEF Resume
  <2> HIDE DEF d
  <2>5. sync' \in Coordinators /\ lookups' \in SUBSET Lookups /\ PendingSound(sync', env, tracked, lookups')
    BY <1>0, <2>1, <2>2, <2>3, <2>4, ConsiderSound
  <2> QED
    BY <1>0, <1>10, <2>5 DEF Resume, CwdInv, CwdTypeOK
<1>11. ASSUME NEW s \in Sessions, SessionEnds(s) PROVE CwdInv'
  <2> DEFINE Unless(r) == IF r # None /\ r.session = s THEN None ELSE r
  <2>0. /\ sync' = [sync EXCEPT !.paused = @ /\ sync.pinned # s, !.pinned = IF @ = s THEN None ELSE @,
                             !.hidden = Unless(@), !.busy = Unless(@), !.debounced = Unless(@)]
        /\ tracked' = [tracked EXCEPT ![s] = NoRecord] /\ lookups' = BumpGeneration(lookups) /\ UNCHANGED <<env, reports>>
    BY <1>11 DEF SessionEnds
  <2>1. tracked' \in [Sessions -> Tracks] /\ tracked'[s].at = 0 /\ \A q \in Sessions : q # s => tracked'[q] = tracked[q]
    BY <1>0, <2>0, CwdRanges DEF NoRecord, Tracks
  <2>2. \A r \in Buffers : Unless(r) \in Buffers
    BY <1>0
  <2>3. (sync.paused /\ sync.pinned # s) \in BOOLEAN /\ (IF sync.pinned = s THEN None ELSE sync.pinned) \in Sessions \cup {None}
    BY <1>0 DEF Coordinators
  <2>4. /\ sync' \in Coordinators /\ sync'.hidden = Unless(sync.hidden) /\ sync'.busy = Unless(sync.busy)
        /\ sync'.debounced = Unless(sync.debounced) /\ sync'.visible = sync.visible
    <3> HIDE DEF Unless
    <3> QED
      BY <1>0, <2>0, <2>2, <2>3, Zenon DEF Coordinators
  <2>5. BuffersTimely(sync', env, tracked') /\ BuffersUsed(sync', env)
    BY <1>0, <2>1, <2>4 DEF BuffersTimely, BuffersUsed, Timely, Coordinators, Buffers, Records
  <2>6. ReportsSound(env, tracked', reports)
    BY <1>0, <2>1, CwdRanges DEF ReportsSound
  <2> QED
    BY <1>0, <1>00, <2>0, <2>1, <2>4, <2>5, <2>6 DEF CwdInv, CwdTypeOK
<1>12. CASE ExplorerServerChanges
  <2> DEFINE d == [sync EXCEPT !.paused = FALSE, !.pinned = None, !.debounced = None, !.busy = None]
  <2>1. env' \in Surroundings /\ env'.applied = env.applied /\ env'.busy = env.busy /\ env'.focus = env.focus
    BY <1>0, <1>12 DEF ExplorerServerChanges, Surroundings
  <2>2. /\ d \in Coordinators /\ d.hidden = sync.hidden /\ d.busy = None
        /\ d.debounced = None /\ d.visible = sync.visible
    BY <1>0 DEF Coordinators
  <2>3. ReportsSound(env', tracked, reports) /\ BuffersTimely(d, env', tracked) /\ BuffersUsed(d, env')
    BY <1>0, <2>1, <2>2 DEF ReportsSound, BuffersTimely, BuffersUsed, Timely
  <2>4. Offered(env', tracked, RecordOf(tracked, env.focus), FALSE)
    BY <1>0, <2>1, <2>3, NewestOffered DEF Surroundings
  <2>5. Apply(d, env', tracked, BumpGeneration(lookups), RecordOf(tracked, env.focus), FALSE)
    BY <1>12 DEF ExplorerServerChanges
  <2> HIDE DEF d
  <2>6. sync' \in Coordinators /\ lookups' \in SUBSET Lookups /\ PendingSound(sync', env', tracked, lookups')
    BY <1>0, <1>00, <2>1, <2>2, <2>3, <2>4, <2>5, ConsiderSound
  <2> QED
    BY <1>0, <1>12, <2>1, <2>3, <2>6 DEF ExplorerServerChanges, CwdInv, CwdTypeOK
<1>13. CASE Debounce
  <2> DEFINE new == [record |-> sync.debounced, stage |-> "realpath", current |-> TRUE]
  <2>1. /\ sync' \in Coordinators /\ sync'.hidden = sync.hidden /\ sync'.busy = sync.busy
        /\ sync'.debounced = None /\ sync'.visible = sync.visible
    BY <1>0, <1>13 DEF Debounce, Coordinators
  <2>2. sync.debounced \in Records /\ Timely(env, tracked, sync.debounced)
    BY <1>0, <1>13 DEF Debounce, Coordinators, Buffers, BuffersTimely
  <2>3. new \in Lookups /\ new.record = sync.debounced
    BY <2>2 DEF Lookups
  <2> HIDE DEF new
  <2>4. lookups' = BumpGeneration(lookups) \cup {new}
    BY <1>13 DEF Debounce, new
  <2>5. \A k \in lookups' : k.current => k = new
    BY <1>0, <2>4, BumpSound
  <2>6. LookupsTimely(sync', env, tracked, lookups')
    BY <2>1, <2>2, <2>3, <2>5, Zenon DEF LookupsTimely
  <2>7. BuffersTimely(sync', env, tracked) /\ BuffersUsed(sync', env)
    BY <1>0, <2>1 DEF BuffersTimely, BuffersUsed
  <2> QED
    BY <1>0, <1>00, <1>13, <2>1, <2>3, <2>4, <2>6, <2>7 DEF Debounce, CwdInv, CwdTypeOK, PendingSound
<1>14. ASSUME NEW k \in lookups, LookupDropped(k) PROVE CwdInv'
  BY <1>0, <1>14 DEF LookupDropped, CwdInv, CwdTypeOK, PendingSound, LookupsTimely
<1>15. ASSUME NEW k \in lookups, LookupBlocked(k) PROVE CwdInv'
  <2>1. k.record \in Records /\ k.current /\ Timely(env, tracked, k.record) /\ k.record \in Buffers
    BY <1>0, <1>15 DEF LookupBlocked, IsCurrent, LookupsTimely, Lookups, Buffers
  <2>2. /\ sync' \in Coordinators /\ sync'.debounced = sync.debounced /\ sync'.visible = sync.visible
        /\ sync'.busy = sync.busy \/ (sync'.busy = k.record /\ env.busy)
        /\ sync'.hidden = sync.hidden \/ (sync'.hidden = k.record /\ ~sync.visible)
    BY <1>0, <1>15, <2>1 DEF LookupBlocked, Abandon, Coordinators
  <2>3. BuffersTimely(sync', env, tracked) /\ BuffersUsed(sync', env)
    BY <1>0, <2>1, <2>2 DEF BuffersTimely, BuffersUsed
  <2>4. LookupsTimely(sync', env, tracked, lookups')
    BY <1>0, <1>15, <2>2 DEF LookupBlocked, LookupsTimely
  <2> QED
    BY <1>0, <1>15, <2>2, <2>3, <2>4 DEF LookupBlocked, CwdInv, CwdTypeOK, PendingSound
<1>16. ASSUME NEW k \in lookups, RealpathAnswers(k) PROVE CwdInv'
  <2> DEFINE new == [k EXCEPT !.stage = "stat"]
  <2>1. new \in Lookups /\ new.record = k.record /\ k.current
    BY <1>0, <1>16 DEF RealpathAnswers, IsCurrent, Lookups
  <2> HIDE DEF new
  <2>2. lookups' = (lookups \ {k}) \cup {new} /\ UNCHANGED <<tracked, sync, env, reports>>
    BY <1>16 DEF RealpathAnswers, new
  <2>3. \A j \in lookups' : j.current => j = new
    BY <1>0, <2>1, <2>2 DEF LookupsTimely
  <2>4. LookupsTimely(sync, env, tracked, lookups')
    BY <1>0, <2>1, <2>3 DEF LookupsTimely
  <2> QED
    BY <1>0, <2>1, <2>2, <2>4 DEF CwdInv, CwdTypeOK, PendingSound
<1>17. ASSUME NEW k \in lookups, StatAnswers(k) PROVE CwdInv'
  <2>1. k.record \in Records /\ k.current /\ Timely(env, tracked, k.record) /\ sync.busy = None /\ sync.hidden = None
    BY <1>0, <1>17 DEF StatAnswers, IsCurrent, LookupsTimely, Lookups, Passes, BuffersUsed
  <2>2. /\ env' = [env EXCEPT !.applied[k.record.session] = k.record.at] /\ lookups' = lookups \ {k}
        /\ UNCHANGED <<tracked, sync, reports>>
    BY <1>17 DEF StatAnswers
  <2>3. /\ env' \in Surroundings /\ env'.busy = env.busy
        /\ \A s \in Sessions : env'.applied[s] = IF s = k.record.session THEN k.record.at ELSE env.applied[s]
    BY <1>0, <2>1, <2>2, CwdRanges DEF Surroundings, Records
  <2>4. ReportsSound(env', tracked, reports)
    BY <1>0, <2>1, <2>3, CwdRanges DEF ReportsSound, Timely, Records, Tracks
  <2>5. BuffersTimely(sync, env', tracked) /\ BuffersUsed(sync, env')
    BY <1>0, <1>17, <2>1, <2>3 DEF BuffersTimely, BuffersUsed, LookupsTimely, Timely, Coordinators, Buffers, Records
  <2>6. LookupsTimely(sync, env', tracked, lookups')
    BY <1>0, <1>17, <2>1, <2>2 DEF LookupsTimely
  <2> QED
    BY <1>0, <2>2, <2>3, <2>4, <2>5, <2>6 DEF CwdInv, CwdTypeOK, PendingSound
<1>18. CASE UNCHANGED cwdVars
  BY <1>0, <1>18 DEF cwdVars, CwdInv, CwdTypeOK
<1> QED
  BY <1>1, <1>2, <1>3, <1>4, <1>5, <1>6, <1>7, <1>8, <1>9, <1>10, <1>11, <1>12, <1>13, <1>14, <1>15, <1>16, <1>17, <1>18
  DEF CwdNext

\* Only an answer of tryStat() moves the explorer, and to a record that is timely.
LEMMA AppliedForward ==
  ASSUME CwdInv, CwdNext, NEW s \in Sessions, env'.applied[s] # env.applied[s]
  PROVE  env'.applied[s] > env.applied[s] /\ tracked[s].at > 0
<1>0. /\ tracked \in [Sessions -> Tracks] /\ lookups \in SUBSET Lookups /\ env \in Surroundings
      /\ LookupsTimely(sync, env, tracked, lookups)
  BY DEF CwdInv, CwdTypeOK, PendingSound
<1>1. PICK k \in lookups : StatAnswers(k)
  BY <1>0 DEF CwdNext, Report, FlushReport, SessionEnds, FocusChanges, FollowingOff, FollowingOn, SetViewVisible,
     BusyChanges, ManualNavigation, ClearPin, Resume, ExplorerServerChanges, Debounce, LookupDropped, LookupBlocked,
     RealpathAnswers, Surroundings
<1>2. k.record \in Records /\ Timely(env, tracked, k.record)
  BY <1>0, <1>1 DEF StatAnswers, IsCurrent, LookupsTimely, Lookups
<1>3. s = k.record.session /\ env'.applied[s] = k.record.at
  BY <1>0, <1>1, <1>2 DEF StatAnswers, Surroundings, Records
<1> QED
  BY <1>0, <1>2, <1>3, CwdRanges DEF Timely, Records, Tracks, Surroundings

\* For any number of terminals, reports and lookups: the explorer never goes
\* back to an older directory of a terminal, nor to one of a terminal that ended.
THEOREM ExplorerNeverGoesBackward == CwdSpec => NeverBackward
<1>1. CwdInv /\ [CwdNext]_cwdVars =>
        [/\ CwdTypeOK
         /\ \A s \in Sessions : env'.applied[s] # env.applied[s] =>
              env'.applied[s] > env.applied[s] /\ tracked[s].at > 0]_cwdVars
  BY AppliedForward DEF CwdInv
<1> QED
  BY <1>1, CwdInitial, CwdStep, PTL DEF CwdSpec, NeverBackward
=================================================================================
