------------------------------ MODULE DaemonHost ------------------------------
(***************************************************************************)
(* services/networkServers/daemonHost.ts: the extension's side of the      *)
(* network-server daemon.  It spawns a child process on demand (the native *)
(* binary first, where that engine is chosen), writes requests to its      *)
(* standard input, and retires it at the first sign of trouble; calls that *)
(* come next get a new child, a new generation.                            *)
(*                                                                         *)
(* A promise's continuations (microtasks) run before the next callback of  *)
(* the event loop: HostQuiet guards the callbacks.  The kinds of request   *)
(* and of event make no difference here and are left out.                  *)
(***************************************************************************)
EXTENDS Naturals, FiniteSets

CONSTANTS
  HostCalls,     \* calls of request()
  NumAttempts,   \* bound on the startup attempts
  NumChildren,   \* bound on the generations of the child
  MaxInFlight    \* MAX_DAEMON_RPC_IN_FLIGHT

ASSUME HostAssumption ==
  NumAttempts \in Nat /\ NumChildren \in Nat /\ MaxInFlight \in Nat \ {0}

Attempts == 1..NumAttempts
Children == 1..NumChildren

VARIABLES
  cur,       \* child and activeGeneration, 0 for none
  ready,     \* readyFlag
  disposed,
  attempt,   \* startAttempt, 0 for none
  att,       \* every attempt: [pc, gen, native]
  proc,      \* every child: [life, stage, sawReady, eof, exits]
  req,       \* every request: [pc, att, gen, frame]
  admitted   \* admissions

hostVars == <<cur, ready, disposed, attempt, att, proc, req, admitted>>

HostInit ==
  /\ cur = 0 /\ ready = FALSE /\ disposed = FALSE /\ attempt = 0
  /\ att = [a \in Attempts |-> [pc |-> "none", gen |-> 0, native |-> FALSE]]
  /\ proc = [g \in Children |-> [life |-> "none", stage |-> "live", sawReady |-> FALSE, eof |-> FALSE, exits |-> 0]]
  /\ req = [r \in HostCalls |-> [pc |-> "idle", att |-> 0, gen |-> 0, frame |-> "none"]]
  /\ admitted = {}

------------------------------------------------------------------------------
(* Admissions: held until both the answer and the write are settled.  A call *)
(* that timed out is "expired", every other one ends "ended".                *)

CallOver(q) == q.pc \in {"ended", "expired"} /\ q.frame # "retained"
Gone    == [pc |-> "ended", att |-> 0, gen |-> 0, frame |-> "none"]

SettlesAs(S, W, pc) ==
  LET settled(r) == [req[r] EXCEPT !.pc = IF r \in S THEN pc[r] ELSE @,
                                   !.frame = IF r \in W THEN "none" ELSE @]
  IN /\ req' = [r \in HostCalls |-> IF CallOver(settled(r)) THEN Gone ELSE settled(r)]
     /\ admitted' = {r \in admitted : ~CallOver(settled(r))}

\* Calls S end, and the frames of requests W are written or lost.
Settles(S, W) == SettlesAs(S, W, [r \in S |-> "ended"])

Pending == {r \in HostCalls : req[r].pc = "sent"}

------------------------------------------------------------------------------
(* Microtasks *)

Runnable(a) == att[a].pc \in {"resolved", "rejected", "caught"}
Startup(r)  == IF req[r].att = 0 THEN "ok" ELSE att[req[r].att].pc
Resumes(r)  == req[r].pc = "starting" /\ Startup(r) \in {"ok", "failed"}
HostQuiet == (\A a \in Attempts : ~Runnable(a)) /\ (\A r \in HostCalls : ~Resumes(r))

------------------------------------------------------------------------------
(* The child *)

Unspawned == {g \in Children : \A h \in Children : (proc[h].life # "none") <=> h < g}
Unused    == {a \in Attempts : \A b \in Attempts : (att[b].pc # "none") <=> b < a}

\* launchTarget(): the child is current from its spawn on.
Spawns(a, g, native) ==
  /\ cur' = g
  /\ proc' = [proc EXCEPT ![g].life = "alive"]
  /\ attempt' = a
  /\ att' = [att EXCEPT ![a] = [pc |-> "waiting", gen |-> g, native |-> native]]

Finished(outcome) == [pc |-> outcome, gen |-> 0, native |-> FALSE]

WaitersOut(outcome) == [a \in Attempts |-> IF att[a].pc = "waiting" THEN [att[a] EXCEPT !.pc = outcome] ELSE att[a]]

\* terminateChild(g): the input ends, SIGTERM and SIGKILL follow by timer.
Terminated(g, announced) ==
  [proc EXCEPT ![g].stage = IF proc[g].life = "alive" THEN "eof" ELSE @,
               ![g].eof = FALSE,
               ![g].exits = IF announced THEN @ + 1 ELSE @]
Forget(g) ==
  /\ cur' = 0 /\ ready' = FALSE
  /\ attempt' = IF attempt # 0 /\ att[attempt].gen = g THEN 0 ELSE attempt

\* Mutant: the requests of the retired child wait on.
RejectsNobody == {}

RejectAllPending == Pending

\* failChildProtocol(), failChildTransport() and the "error" event.
Fails(g) ==
  /\ Forget(g)
  /\ proc' = Terminated(g, ready)
  /\ att' = WaitersOut("rejected")

------------------------------------------------------------------------------
(* request() and ensureStarted() *)

Joinable == attempt # 0 /\ att[attempt].gen = cur

Enter(r, a) ==
  /\ req' = [req EXCEPT ![r].pc = "starting", ![r].att = a]
  /\ admitted' = admitted \cup {r}

Request(r) ==
  /\ req[r].pc = "idle"
  /\ IF Cardinality(admitted) >= MaxInFlight \/ disposed
     THEN Settles({r}, {}) /\ UNCHANGED <<cur, ready, attempt, att, proc>>
     ELSE \/ cur # 0 /\ ready /\ Enter(r, 0) /\ UNCHANGED <<cur, ready, attempt, att, proc>>
          \/ ~(cur # 0 /\ ready) /\ Joinable /\ Enter(r, attempt) /\ UNCHANGED <<cur, ready, attempt, att, proc>>
          \/ /\ ~(cur # 0 /\ ready) /\ ~Joinable
             /\ \E a \in Unused :
                  /\ Enter(r, a)
                  /\ \/ cur = 0 /\ UNCHANGED ready /\ \E g \in Unspawned, n \in BOOLEAN : Spawns(a, g, n)
                     \/ /\ att' = [att EXCEPT ![a].pc = "failed"]   \* no daemon script, or a child is there
                        /\ attempt' = 0
                        /\ UNCHANGED <<cur, ready, proc>>
  /\ UNCHANGED disposed

\* After ensureStarted(): the frame is written to the child of that moment.
Resume(r) ==
  /\ Resumes(r)
  /\ IF cur = 0 \/ Startup(r) = "failed"
     THEN Settles({r}, {})
     ELSE /\ req' = [req EXCEPT ![r] = [@ EXCEPT !.pc = "sent", !.gen = cur, !.frame = "retained"]]
          /\ UNCHANGED admitted
  /\ UNCHANGED <<cur, ready, disposed, attempt, att, proc>>

\* The promise of launchTarget() resolved: is the child still the one?
StartupSettles(a) ==
  /\ att[a].pc = "resolved"
  /\ IF cur = att[a].gen /\ ready
     THEN att' = [att EXCEPT ![a] = Finished("ok")] /\ attempt' = IF attempt = a THEN 0 ELSE attempt
     ELSE att' = [att EXCEPT ![a].pc = "rejected"] /\ UNCHANGED attempt
  /\ UNCHANGED <<cur, ready, disposed, proc, req, admitted>>

\* The catch of launchTarget().
TerminateLate(a) ==
  IF cur = att[a].gen THEN Forget(cur) /\ proc' = Terminated(cur, FALSE)
  ELSE UNCHANGED <<cur, ready, attempt, proc>>

StartupCaught(a) ==
  /\ att[a].pc = "rejected"
  /\ TerminateLate(a)
  /\ att' = [att EXCEPT ![a].pc = "caught"]
  /\ UNCHANGED <<disposed, req, admitted>>

\* launch(): the native daemon failed, the bundled one is tried once.
MayRetry(a) == att[a].native /\ ~disposed /\ ~ready /\ cur = 0 /\ attempt \in {0, a}

StartupRetries(a) ==
  /\ att[a].pc = "caught" /\ MayRetry(a)
  /\ \E g \in Unspawned : Spawns(a, g, FALSE)
  /\ UNCHANGED <<ready, disposed, req, admitted>>

\* No retry, or the bundled script is not there.
StartupFails(a) ==
  /\ att[a].pc = "caught"
  /\ att' = [att EXCEPT ![a] = Finished("failed")]
  /\ attempt' = IF attempt = a THEN 0 ELSE attempt
  /\ UNCHANGED <<cur, ready, disposed, proc, req, admitted>>

------------------------------------------------------------------------------
(* Events of a child.  Its lines arrive while it is current: terminateChild() *)
(* detaches the reader.                                                       *)

ReadyLine(g) ==
  /\ HostQuiet /\ g = cur /\ proc[g].life = "alive" /\ ~proc[g].eof /\ ~proc[g].sawReady
  /\ ready' = TRUE
  /\ att' = WaitersOut("resolved")
  /\ proc' = [proc EXCEPT ![g].sawReady = TRUE]
  /\ UNCHANGED <<cur, disposed, attempt, req, admitted>>

ReadyTimeout(a) ==
  /\ HostQuiet /\ att[a].pc = "waiting"
  /\ att' = [att EXCEPT ![a].pc = "rejected"]
  /\ UNCHANGED <<cur, ready, disposed, attempt, proc, req, admitted>>

AnswerLine(r) ==
  /\ HostQuiet /\ req[r].pc = "sent" /\ req[r].gen = cur /\ proc[cur].life = "alive" /\ ~proc[cur].eof
  /\ Settles({r}, {})
  /\ UNCHANGED <<cur, ready, disposed, attempt, att, proc>>

\* A line that is no message, a result of the wrong shape, a pipe's error.
ChildFails(g) ==
  /\ HostQuiet /\ g = cur
  /\ Fails(g) /\ Settles(RejectAllPending, {})
  /\ UNCHANGED disposed

StdoutEnds(g) ==
  /\ HostQuiet /\ g = cur /\ ~proc[g].eof
  /\ proc' = [proc EXCEPT ![g].eof = TRUE]
  /\ UNCHANGED <<cur, ready, disposed, attempt, att, req, admitted>>

EofDeadline(g) ==
  /\ HostQuiet /\ g = cur /\ proc[g].eof /\ proc[g].life = "alive"
  /\ Fails(g) /\ Settles(RejectAllPending, {})
  /\ UNCHANGED disposed

\* Mutant: the exit of a replaced child is taken for the current one's.
AnyExit(g) == cur # 0

CurrentExit(g) == cur = g

ProcessExits(g) ==
  /\ HostQuiet /\ proc[g].life = "alive"
  /\ IF CurrentExit(g)
     THEN /\ Forget(g)
          /\ proc' = [proc EXCEPT ![g].life = "exited", ![g].eof = FALSE, ![g].exits = @ + 1]
          /\ att' = WaitersOut("rejected")
          /\ Settles(RejectAllPending, {})
     ELSE /\ proc' = [proc EXCEPT ![g].life = "exited", ![g].stage = "live"]
          /\ UNCHANGED <<cur, ready, attempt, att, req, admitted>>
  /\ UNCHANGED disposed

\* Mutant: the admissions of a dead child's frames are kept.
KeepsFrames(g) == {}

LostFrames(g) == {r \in HostCalls : req[r].gen = g /\ req[r].frame = "retained"}

\* "close": its streams can retain nothing any more.
ProcessCloses(g) ==
  /\ HostQuiet /\ proc[g].life = "exited"
  /\ proc' = [proc EXCEPT ![g].life = "closed"]
  /\ Settles({}, LostFrames(g))
  /\ UNCHANGED <<cur, ready, disposed, attempt, att>>

FrameWritten(r) ==
  /\ HostQuiet /\ req[r].frame = "retained" /\ proc[req[r].gen].life = "alive"
  /\ Settles({}, {r})
  /\ UNCHANGED <<cur, ready, disposed, attempt, att, proc>>

\* Mutant: only the call ends, its undrained child stays current.
RetiresNothing(r) == FALSE

\* A frame the child has not read in time may still be executed.
Undrained(r) == req[r].frame = "retained" /\ req[r].gen = cur

Expires(r) == [q \in HostCalls |-> IF q = r THEN "expired" ELSE "ended"]

RpcTimeout(r) ==
  /\ HostQuiet /\ req[r].pc = "sent"
  /\ IF Undrained(r)
     THEN Fails(cur) /\ SettlesAs(RejectAllPending \cup {r}, {}, Expires(r))
     ELSE SettlesAs({r}, {}, Expires(r)) /\ UNCHANGED <<cur, ready, attempt, att, proc>>
  /\ UNCHANGED disposed

TermTimer(g) ==
  /\ HostQuiet /\ proc[g].life = "alive" /\ proc[g].stage \in {"eof", "term"}
  /\ proc' = [proc EXCEPT ![g].stage = IF @ = "eof" THEN "term" ELSE "kill"]
  /\ UNCHANGED <<cur, ready, disposed, attempt, att, req, admitted>>

Dispose ==
  /\ ~disposed /\ disposed' = TRUE
  /\ IF cur # 0 THEN Forget(cur) /\ proc' = Terminated(cur, FALSE)
     ELSE ready' = FALSE /\ UNCHANGED <<cur, attempt, proc>>
  /\ att' = WaitersOut("rejected")
  /\ Settles(RejectAllPending, {})

------------------------------------------------------------------------------
HostNext ==
  \/ \E r \in HostCalls : Request(r) \/ Resume(r) \/ AnswerLine(r) \/ FrameWritten(r) \/ RpcTimeout(r)
  \/ \E a \in Attempts : \/ StartupSettles(a) \/ StartupCaught(a) \/ StartupRetries(a) \/ StartupFails(a)
                         \/ ReadyTimeout(a)
  \/ \E g \in Children : \/ ReadyLine(g) \/ ChildFails(g) \/ StdoutEnds(g) \/ EofDeadline(g)
                         \/ ProcessExits(g) \/ ProcessCloses(g) \/ TermTimer(g)
  \/ Dispose

\* What the event loop runs by itself: microtasks, timers, the write callback
\* of a request that was read and answered, the end of a killed process and of
\* its streams.
Progress ==
  \/ \E r \in HostCalls : Resume(r) \/ RpcTimeout(r) \/ (req[r].pc = "ended" /\ req[r].gen = cur /\ FrameWritten(r))
  \/ \E a \in Attempts : \/ StartupSettles(a) \/ StartupCaught(a) \/ StartupRetries(a) \/ StartupFails(a)
                         \/ ReadyTimeout(a)
  \/ \E g \in Children : \/ EofDeadline(g) \/ TermTimer(g) \/ ProcessCloses(g)
                         \/ (proc[g].stage = "kill" /\ ProcessExits(g))

HostSpec == HostInit /\ [][HostNext]_hostVars /\ WF_hostVars(Progress)

------------------------------------------------------------------------------
StartupRecords ==
  [pc : {"none", "waiting", "resolved", "rejected", "caught", "ok", "failed"},
   gen : Children \cup {0}, native : BOOLEAN]
ChildRecords ==
  [life : {"none", "alive", "exited", "closed"}, stage : {"live", "eof", "term", "kill"},
   sawReady : BOOLEAN, eof : BOOLEAN, exits : Nat]
CallRecords ==
  [pc : {"idle", "starting", "sent", "ended", "expired"}, att : Attempts \cup {0},
   gen : Children \cup {0}, frame : {"none", "retained"}]

HostTypeOK ==
  /\ cur \in Children \cup {0} /\ attempt \in Attempts \cup {0}
  /\ ready \in BOOLEAN /\ disposed \in BOOLEAN
  /\ att \in [Attempts -> StartupRecords]
  /\ proc \in [Children -> ChildRecords]
  /\ req \in [HostCalls -> CallRecords]
  /\ admitted \subseteq HostCalls /\ Cardinality(admitted) <= MaxInFlight

(* The exit of a child that was ready is announced to the listeners exactly  *)
(* once, whichever of error, protocol failure, timeout and exit came first.  *)
ExitAnnouncedOnce ==
  \A g \in Children :
    /\ proc[g].exits <= 1
    /\ proc[g].sawReady /\ g # cur /\ ~disposed => proc[g].exits = 1

(* A request waits only for the current child, never for one that was        *)
(* retired; and no request is written behind a frame whose caller gave up:   *)
(* a timeout with an undrained frame retires the child.                      *)
PendingOnCurrent ==
  /\ \A r \in HostCalls : req[r].pc = "sent" => req[r].gen = cur
  /\ \A r \in HostCalls : req[r].pc = "expired" /\ req[r].frame = "retained" => req[r].gen # cur

(* No daemon is left behind: a child that runs is the current one or is      *)
(* being terminated, also when it was slow to start, was replaced, or exits  *)
(* late; and none is current once the host is disposed.  The end of one that *)
(* was ready is announced to the listeners once, and no request waits for it.*)
NoOrphanDaemon ==
  /\ HostTypeOK /\ ExitAnnouncedOnce /\ PendingOnCurrent
  /\ \A g \in Children : proc[g].life = "alive" => g = cur \/ proc[g].stage # "live"
  /\ disposed => cur = 0

(* Every admission is given back, whatever the child does with the frame:    *)
(* reads it, answers it, ignores it, or dies with it in its pipe.            *)
AdmissionsReturn == \A r \in HostCalls : r \in admitted ~> r \notin admitted
==============================================================================
