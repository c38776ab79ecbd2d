------------------------------- MODULE CwdSync -------------------------------
(* CwdSyncCoordinator with its CwdTracker: the file explorer follows the      *)
(* directory of the focused terminal.  The sessions belong to one server,     *)
(* which the explorer shows or not.  A record is a session and the number of  *)
(* its report, which stands for updatedAt.  The explorer, the terminals and   *)
(* the SFTP server are external.                                              *)
EXTENDS Naturals, FiniteSets

CONSTANTS Sessions,   \* terminals on the server
          None,       \* the absence of a session or of a record
          MaxReports, \* bound: directories reported
          MaxLookups  \* bound: lookups on their way to the server

ASSUME CwdAssumption == None \notin Sessions /\ MaxReports \in Nat /\ MaxLookups \in Nat

VARIABLES tracked,  \* CwdTracker: the newest record of each session, and its flags
          sync,     \* CwdSyncCoordinator
          lookups,  \* the calls of resolveAndApply() in progress
          env,      \* the focused session and the explorer
          reports   \* directories reported so far
cwdVars == <<tracked, sync, lookups, env, reports>>

Records == [session : Sessions, at : 1..MaxReports]

Buffers == Records \cup {None}
Tracks == [at : 0..MaxReports, flush : BOOLEAN, disabled : BOOLEAN, stale : BOOLEAN]
Coordinators == [following : BOOLEAN, paused : BOOLEAN, pinned : Sessions \cup {None}, visible : BOOLEAN,
                 hidden : Buffers, busy : Buffers, debounced : Buffers]
Lookups == [record : Records, stage : {"realpath", "stat"}, current : BOOLEAN]
Surroundings == [focus : Sessions \cup {None}, shown : BOOLEAN, busy : BOOLEAN, applied : [Sessions -> 0..MaxReports]]

CwdTypeOK ==
  /\ tracked \in [Sessions -> Tracks] /\ sync \in Coordinators /\ lookups \subseteq Lookups
  /\ env \in Surroundings /\ reports \in 0..MaxReports

NoRecord == [at |-> 0, flush |-> FALSE, disabled |-> FALSE, stale |-> FALSE]

CwdInit ==
  /\ tracked = [s \in Sessions |-> NoRecord]
  /\ sync = [following |-> FALSE, paused |-> FALSE, pinned |-> None, visible |-> FALSE,
             hidden |-> None, busy |-> None,  \* hiddenBuffer, busyBuffer
             debounced |-> None]              \* debouncedRecord, while its timer runs
  /\ lookups = {}
  /\ env = [focus |-> None, shown |-> TRUE, busy |-> FALSE, applied |-> [s \in Sessions |-> 0]]
  /\ reports = 0

------------------------------------------------------------------------------
(* Operators on the coordinator: c is its state, e the environment's, l the   *)
(* lookups.  A generation is current until the counter moves on, so that the  *)
(* number itself need not be kept.                                            *)

BumpGeneration(l) == {[k EXCEPT !.current = FALSE] : k \in l}

RecordOf(t, s) == IF s = None \/ t[s].at = 0 THEN None ELSE [session |-> s, at |-> t[s].at]

\* The synchronous rules that considerApply() and passesArbitration() share.
InContext(c, e, r) == c.following /\ r.session = e.focus /\ e.shown /\ ~c.paused

\* considerApply(): the coordinator and its lookups afterwards.
ConsiderApply(c, e, t, l, r, immediate) ==
  IF r = None \/ ~InContext(c, e, r) \/ t[r.session].disabled \/ t[r.session].stale
    THEN [c |-> c, l |-> l]
  ELSE IF e.busy THEN [c |-> [c EXCEPT !.busy = r], l |-> BumpGeneration(l)]
  ELSE IF ~c.visible THEN [c |-> [c EXCEPT !.hidden = r], l |-> BumpGeneration(l)]
  ELSE IF immediate
    THEN [c |-> [c EXCEPT !.debounced = None],
          l |-> BumpGeneration(l) \cup {[record |-> r, stage |-> "realpath", current |-> TRUE]}]
  ELSE [c |-> [c EXCEPT !.debounced = r], l |-> l]

\* The rest of a handler that ends with considerApply().
Apply(c, e, t, l, r, immediate) ==
  \E o \in {ConsiderApply(c, e, t, l, r, immediate)} :
    /\ Cardinality(o.l) <= MaxLookups
    /\ sync' = o.c /\ lookups' = o.l

------------------------------------------------------------------------------
(* The tracker                                                                *)

\* report(): the listener is called at once, or by a timer when the last call
\* is too recent, or with the old record when a burst disables the session.
Report(s) ==
  /\ ~tracked[s].disabled /\ reports < MaxReports
  /\ reports' = reports + 1
  /\ \E how \in {"fire", "defer", "burst"}, moved \in BOOLEAN :
       LET known == [tracked EXCEPT ![s].at = reports + 1, ![s].stale = @ \/ (moved /\ tracked[s].at > 0)]
       IN \/ /\ how = "fire"
             /\ tracked' = [known EXCEPT ![s].flush = FALSE]
             /\ Apply(sync, env, tracked', lookups, RecordOf(known, s), FALSE)
          \/ /\ how = "defer" /\ tracked[s].at > 0
             /\ tracked' = [known EXCEPT ![s].flush = TRUE]
             /\ UNCHANGED <<sync, lookups>>
          \/ /\ how = "burst" /\ tracked[s].at > 0 /\ ~moved
             /\ tracked' = [tracked EXCEPT ![s].disabled = TRUE, ![s].flush = FALSE]
             /\ UNCHANGED <<sync, lookups>>
  /\ UNCHANGED env

\* The timer of schedulePendingFlush().
FlushReport(s) ==
  /\ tracked[s].flush
  /\ tracked' = [tracked EXCEPT ![s].flush = FALSE]
  /\ Apply(sync, env, tracked', lookups, RecordOf(tracked, s), FALSE)
  /\ UNCHANGED <<env, reports>>

------------------------------------------------------------------------------
(* The coordinator                                                            *)

\* The core reports another focused session.
FocusChanges ==
  /\ \E s \in (Sessions \cup {None}) \ {env.focus} :
       /\ env' = [env EXCEPT !.focus = s]
       /\ Apply(sync, env', tracked, BumpGeneration(lookups), RecordOf(tracked, s), FALSE)
  /\ UNCHANGED <<tracked, reports>>

\* setFollowing()
FollowingOff ==
  /\ sync.following
  /\ sync' = [sync EXCEPT !.following = FALSE, !.debounced = None, !.hidden = None, !.busy = None]
  /\ lookups' = BumpGeneration(lookups)
  /\ UNCHANGED <<tracked, env, reports>>

FollowingOn ==
  /\ ~sync.following
  /\ tracked' = IF env.focus = None THEN tracked
                ELSE [tracked EXCEPT ![env.focus].flush = FALSE, ![env.focus].disabled = FALSE]
  /\ LET c == [sync EXCEPT !.following = TRUE, !.paused = FALSE, !.pinned = None]
         r == IF env.busy \/ ~sync.visible THEN None ELSE RecordOf(tracked, env.focus)
     IN Apply(c, env, tracked', BumpGeneration(lookups), r, TRUE)
  /\ UNCHANGED <<env, reports>>

\* setViewVisible()
SetViewVisible ==
  /\ LET c == [sync EXCEPT !.visible = ~@]
     IN \/ /\ c.visible
           /\ Apply([c EXCEPT !.hidden = None], env, tracked, lookups, c.hidden, TRUE)
        \/ /\ ~c.visible
           /\ sync' = c /\ UNCHANGED lookups
  /\ UNCHANGED <<tracked, env, reports>>

\* The explorer starts an operation, or ends the last one: onBusyIdle().
BusyChanges ==
  /\ env' = [env EXCEPT !.busy = ~@]
  /\ \/ ~env.busy /\ UNCHANGED <<sync, lookups>>
     \/ /\ env.busy
        /\ Apply([sync EXCEPT !.busy = None], env', tracked, lookups, sync.busy, TRUE)
  /\ UNCHANGED <<tracked, reports>>

\* notifyManualNavigation(): the user goes elsewhere in the explorer.
ManualNavigation ==
  /\ sync' = [sync EXCEPT !.paused = TRUE, !.pinned = env.focus]
  /\ lookups' = BumpGeneration(lookups)
  /\ UNCHANGED <<tracked, env, reports>>

\* clearPin() and resume()
ClearPin ==
  /\ sync.paused
  /\ sync' = [sync EXCEPT !.paused = FALSE, !.pinned = None]
  /\ UNCHANGED <<tracked, lookups, env, reports>>

Resume ==
  /\ sync.paused
  /\ Apply([sync EXCEPT !.paused = FALSE, !.pinned = None], env, tracked, lookups,
           RecordOf(tracked, env.focus), TRUE)
  /\ UNCHANGED <<tracked, env, reports>>

\* onSessionEnded(); the number of a report is never used again.
SessionEnds(s) ==
  LET Without(r) == IF r # None /\ r.session = s THEN None ELSE r
  IN /\ tracked[s].at > 0
     /\ tracked' = [tracked EXCEPT ![s] = NoRecord]
     /\ sync' = [sync EXCEPT !.paused = @ /\ sync.pinned # s,
                             !.pinned = IF @ = s THEN None ELSE @,
                             !.hidden = Without(@), !.busy = Without(@), !.debounced = Without(@)]
     /\ lookups' = BumpGeneration(lookups)
     /\ UNCHANGED <<env, reports>>

\* notifyExplorerServerChanged()
ExplorerServerChanges ==
  /\ env' = [env EXCEPT !.shown = ~@]
  /\ Apply([sync EXCEPT !.paused = FALSE, !.pinned = None, !.debounced = None, !.busy = None],
           env', tracked, BumpGeneration(lookups), RecordOf(tracked, env.focus), FALSE)
  /\ UNCHANGED <<tracked, reports>>

\* The debounce timer fires.
Debounce ==
  /\ sync.debounced # None
  /\ Cardinality(lookups) < MaxLookups
  /\ sync' = [sync EXCEPT !.debounced = None]
  /\ lookups' = BumpGeneration(lookups)
                  \cup {[record |-> sync.debounced, stage |-> "realpath", current |-> TRUE]}
  /\ UNCHANGED <<tracked, env, reports>>

------------------------------------------------------------------------------
(* resolveAndApply()                                                          *)

\* Mutant: the generation is not compared.
IsCurrentAnyway(k) == TRUE
IsCurrent(k) == k.current
Passes(r) == InContext(sync, env, r) /\ ~env.busy /\ sync.visible

Newer(b, r) == b # None /\ b.at >= r.at
\* bufferOnAbandon(): a record whose way is blocked waits in the buffer.
Abandon(r) ==
  [sync EXCEPT !.busy = IF env.busy /\ ~Newer(@, r) THEN r ELSE @,
               !.hidden = IF ~env.busy /\ ~sync.visible /\ ~Newer(@, r) THEN r ELSE @]

\* The call fails, or the generation has moved on: the record is dropped.
LookupDropped(k) ==
  /\ lookups' = lookups \ {k}
  /\ UNCHANGED <<tracked, sync, env, reports>>

\* The call answers, but the record may not be applied now.
LookupBlocked(k) ==
  /\ IsCurrent(k) /\ ~Passes(k.record)
  /\ lookups' = lookups \ {k}
  /\ sync' = Abandon(k.record)
  /\ UNCHANGED <<tracked, env, reports>>

\* realpath() answers, and tryStat() is called.
RealpathAnswers(k) ==
  /\ k.stage = "realpath" /\ IsCurrent(k) /\ Passes(k.record)
  /\ lookups' = (lookups \ {k}) \cup {[k EXCEPT !.stage = "stat"]}
  /\ UNCHANGED <<tracked, sync, env, reports>>

\* tryStat() finds a directory: setRootPath().
StatAnswers(k) ==
  /\ k.stage = "stat" /\ IsCurrent(k) /\ Passes(k.record)
  /\ lookups' = lookups \ {k}
  /\ env' = [env EXCEPT !.applied[k.record.session] = k.record.at]
  /\ UNCHANGED <<tracked, sync, reports>>

CwdNext ==
  \/ \E s \in Sessions : Report(s) \/ FlushReport(s) \/ SessionEnds(s)
  \/ FocusChanges \/ FollowingOff \/ FollowingOn \/ SetViewVisible \/ BusyChanges
  \/ ManualNavigation \/ ClearPin \/ Resume \/ ExplorerServerChanges \/ Debounce
  \/ \E k \in lookups : LookupDropped(k) \/ LookupBlocked(k) \/ RealpathAnswers(k) \/ StatAnswers(k)

CwdSpec == CwdInit /\ [][CwdNext]_cwdVars

------------------------------------------------------------------------------
(* Properties                                                                 *)

\* The explorer never goes back: however lookups, buffers and the debounce
\* overtake each other, a record is not applied after a newer one of its
\* session, and a record of a session that ended is not applied at all.
NeverBackward ==
  [][/\ CwdTypeOK
     /\ \A s \in Sessions : env'.applied[s] # env.applied[s] =>
          env'.applied[s] > env.applied[s] /\ tracked[s].at > 0]_cwdVars

\* "Latest record withheld while provider.isBusy() is true ... latest-wins".
BufferLatestWins ==
  [][sync.busy # None /\ sync'.busy # None /\ sync.busy.session = sync'.busy.session
       => sync'.busy.at >= sync.busy.at]_cwdVars
==============================================================================
