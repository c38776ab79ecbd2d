---------------------------- MODULE ScriptRuntime ----------------------------
(* ScriptRuntimeManager for one terminal session, with the watchdog that the  *)
(* extension hangs on its events.  No operation but dispose() touches the     *)
(* entries of two sessions.  A call of runScript() makes at most one run, and *)
(* the run has the name of its call.  The worker thread and the modal dialog  *)
(* are external.                                                              *)
EXTENDS Naturals, FiniteSets, Sequences

CONSTANTS ScriptCalls,  \* calls of runScript() for the session
          NoRun         \* the absence of a run

ASSUME ScriptAssumption ==
  /\ IsFiniteSet(ScriptCalls) /\ NoRun \notin ScriptCalls
  /\ ScriptCalls \cap {"command", "watchdog"} = {}

VARIABLES mgr,      \* the manager's state and what it does to the terminal
          call,     \* how far each runScript() has come
          stopping, \* the record each stopScript() in progress works on
          worker,   \* the worker thread of each run
          grace,    \* the 150 ms timers of lost connections
          open      \* the core still lists the session
scriptVars == <<mgr, call, stopping, worker, grace, open>>

\* Who calls stopScript(): a runScript() after its dialog, the stop command, the watchdog.
Stoppers == ScriptCalls \cup {"command", "watchdog"}

\* How a run ends: only "stopped" carries a reason.  The code never tells the
\* other three (completed, failed, connection-lost) apart again: "finished".
FinalStates == {"finished", "stopped"}

Managers ==
  [slot     : ScriptCalls \cup {NoRun},
   state    : [ScriptCalls -> {"none", "running"} \cup FinalStates],
   lock     : [ScriptCalls -> BOOLEAN],
   lost     : [ScriptCalls -> BOOLEAN],
   blocked  : BOOLEAN,
   filters  : Seq(ScriptCalls),
   watchdog : BOOLEAN,
   doubled  : BOOLEAN]

ScriptTypeOK ==
  /\ mgr \in Managers
  /\ call \in [ScriptCalls -> {"idle", "asking", "stopping", "over"}]
  /\ stopping \in [Stoppers -> ScriptCalls \cup {NoRun}]
  /\ worker \in [ScriptCalls -> {"none", "alive", "dying", "dead"}]
  /\ grace \in SUBSET ScriptCalls
  /\ open \in BOOLEAN

ScriptInit ==
  /\ mgr = [slot     |-> NoRun,                           \* runs.get(sessionId)
            state    |-> [c \in ScriptCalls |-> "none"],
            lock     |-> [c \in ScriptCalls |-> FALSE],   \* inputLockHeld
            lost     |-> [c \in ScriptCalls |-> FALSE],   \* connectionLostSignaled
            blocked  |-> FALSE,                           \* the terminal ignores the keyboard
            filters  |-> <<>>,                            \* the session's stack of macro filters
            watchdog |-> FALSE,                           \* its timer runs
            doubled  |-> FALSE]                           \* history: a start found a live record
  /\ call = [c \in ScriptCalls |-> "idle"]
  /\ stopping = [s \in Stoppers |-> NoRun]
  /\ worker = [c \in ScriptCalls |-> "none"]
  /\ grace = {}
  /\ open = TRUE

Live(m, r) == m.state[r] = "running"

------------------------------------------------------------------------------
(* Operators on the manager's state.                                          *)

\* The disposable of pushFilter(): lastIndexOf() and splice().  Every run pushes once.
PopFilter(filters, r) ==
  LET place == CHOOSE i \in DOMAIN filters : filters[i] = r
  IN IF \A i \in DOMAIN filters : filters[i] # r THEN filters
     ELSE [i \in 1..(Len(filters) - 1) |-> IF i < place THEN filters[i] ELSE filters[i + 1]]

\* cleanupRun(): only the first call for a record does anything.  The "ended"
\* event clears the watchdog of the session, and the slot is emptied, both
\* whatever record they belong to.
\* Mutant: the filter at the end of the stack is dropped, whoever pushed it.
CleanupRunPopsAny(m, r, final) ==
  IF ~Live(m, r) THEN m
  ELSE [m EXCEPT !.state[r]  = final,
                 !.filters   = Tail(m.filters),
                 !.blocked   = m.blocked /\ ~m.lock[r],
                 !.lock[r]   = FALSE,
                 !.watchdog  = FALSE,
                 !.slot      = NoRun]
CleanupRun(m, r, final) ==
  IF ~Live(m, r) THEN m
  ELSE [m EXCEPT !.state[r]  = final,
                 !.filters   = PopFilter(m.filters, r),
                 !.blocked   = m.blocked /\ ~m.lock[r],
                 !.lock[r]   = FALSE,
                 !.watchdog  = FALSE,
                 !.slot      = NoRun]

\* The rest of runScript(), from the record to the "started" event.  The slot
\* is not looked at again.
\* Mutant: the watchdog is not started.
StartRunUnwatched(m, c, locks) ==
  [m EXCEPT !.slot = c, !.state[c] = "running", !.lock[c] = locks,
            !.blocked = m.blocked \/ locks, !.filters = Append(m.filters, c),
            !.doubled = m.doubled \/ \E r \in ScriptCalls : Live(m, r)]
StartRun(m, c, locks) ==
  [m EXCEPT !.slot     = c,
            !.state[c] = "running",
            !.lock[c]  = locks,
            !.blocked  = m.blocked \/ locks,
            !.filters  = Append(m.filters, c),
            !.watchdog = TRUE,
            !.doubled  = m.doubled \/ \E r \in ScriptCalls : Live(m, r)]

\* handleConnectionLost() of every record that still listens to the core.
Signalled(m) == {r \in ScriptCalls : Live(m, r) /\ ~m.lost[r]}
SignalLost(m) ==
  [m EXCEPT !.lost = [r \in ScriptCalls |-> m.lost[r] \/ r \in Signalled(m)]]

\* worker.terminate()
Kill(r) == [worker EXCEPT ![r] = IF @ = "alive" THEN "dying" ELSE @]

\* The promise of terminate() settles in the tick of the worker's exit: a
\* stopScript() that waits for it goes on before any other event.
ScriptDrained == \A s \in Stoppers : stopping[s] # NoRun => worker[stopping[s]] # "dead"

------------------------------------------------------------------------------
(* runScript()                                                                *)

\* runScript() up to its first wait for the dialog, or to its end.
RunScript(c) ==
  /\ ScriptDrained /\ call[c] = "idle" /\ open
  /\ \/ /\ mgr.slot = NoRun
        /\ \E locks \in BOOLEAN : mgr' = StartRun(mgr, c, locks)
        /\ call' = [call EXCEPT ![c] = "over"]
        /\ worker' = [worker EXCEPT ![c] = "alive"]
     \/ /\ mgr.slot # NoRun
        /\ call' = [call EXCEPT ![c] = "asking"]
        /\ UNCHANGED <<mgr, worker>>
  /\ UNCHANGED <<stopping, grace, open>>

\* The user keeps the script that runs.
Decline(c) ==
  /\ ScriptDrained /\ call[c] = "asking"
  /\ call' = [call EXCEPT ![c] = "over"]
  /\ UNCHANGED <<mgr, stopping, worker, grace, open>>

\* stopScript() up to its await, for the run that is in the slot now; the
\* watchdog's timer is used up by calling it.
BeginStop(s) ==
  /\ stopping[s] = NoRun /\ mgr.slot # NoRun
  /\ mgr' = [mgr EXCEPT !.watchdog = mgr.watchdog /\ s # "watchdog"]
  /\ stopping' = [stopping EXCEPT ![s] = mgr.slot]
  /\ worker' = Kill(mgr.slot)

\* "Stop & run": stop whatever runs by now, or start at once.
Confirm(c) ==
  /\ ScriptDrained /\ call[c] = "asking"
  /\ \/ /\ BeginStop(c)
        /\ call' = [call EXCEPT ![c] = "stopping"]
     \/ /\ mgr.slot = NoRun
        /\ \E locks \in BOOLEAN : mgr' = StartRun(mgr, c, locks)
        /\ call' = [call EXCEPT ![c] = "over"]
        /\ worker' = [worker EXCEPT ![c] = "alive"]
        /\ UNCHANGED stopping
  /\ UNCHANGED <<grace, open>>

\* The rest of stopScript(), when the worker has ended or 100 ms have passed;
\* a runScript() that waited for it then starts its own run.
FinishStop(s) ==
  /\ stopping[s] # NoRun
  /\ ScriptDrained \/ worker[stopping[s]] = "dead"
  /\ stopping' = [stopping EXCEPT ![s] = NoRun]
  /\ LET m == CleanupRun(mgr, stopping[s], "stopped")
     IN \/ /\ s \in ScriptCalls
           /\ \E locks \in BOOLEAN : mgr' = StartRun(m, s, locks)
           /\ call' = [call EXCEPT ![s] = "over"]
           /\ worker' = [worker EXCEPT ![s] = "alive"]
        \/ /\ s \notin ScriptCalls
           /\ mgr' = m
           /\ UNCHANGED <<call, worker>>
  /\ UNCHANGED <<grace, open>>

\* The stop command.
StopCommand ==
  /\ ScriptDrained
  /\ BeginStop("command")
  /\ UNCHANGED <<call, grace, open>>

\* The watchdog's timer fires.
Watchdog ==
  /\ ScriptDrained /\ mgr.watchdog
  /\ BeginStop("watchdog")
  /\ UNCHANGED <<call, grace, open>>

------------------------------------------------------------------------------
(* Events                                                                     *)

\* The worker reports that the script returned, or threw; it may do so while
\* it is being terminated, and goes on living otherwise.
WorkerReports(r) ==
  /\ ScriptDrained /\ worker[r] \in {"alive", "dying"} /\ Live(mgr, r)
  /\ mgr' = CleanupRun(mgr, r, "finished")
  /\ UNCHANGED <<call, stopping, worker, grace, open>>

\* The thread ends: on terminate(), or after an uncaught error, whose handler
\* cleans up as this one does.
WorkerExits(r) ==
  /\ ScriptDrained /\ worker[r] \in {"alive", "dying"}
  /\ worker[r] = "alive" => Live(mgr, r)
  /\ worker' = [worker EXCEPT ![r] = "dead"]
  /\ mgr' = CleanupRun(mgr, r, "finished")
  /\ UNCHANGED <<call, stopping, grace, open>>

\* The session closes, or anything else changes in the core after that.
CoreChanges ==
  /\ ScriptDrained
  /\ open' = FALSE
  /\ mgr' = SignalLost(mgr)
  /\ grace' = grace \cup Signalled(mgr)
  /\ UNCHANGED <<call, stopping, worker>>

\* 150 ms after the signal.  The test is whether any run of the session is left.
LostGrace(r) ==
  /\ ScriptDrained /\ r \in grace
  /\ grace' = grace \ {r}
  /\ \/ mgr.slot = NoRun /\ UNCHANGED <<mgr, worker>>
     \/ mgr.slot # NoRun /\ mgr' = CleanupRun(mgr, r, "finished") /\ worker' = Kill(r)
  /\ UNCHANGED <<call, stopping, open>>

ScriptNext ==
  \/ \E c \in ScriptCalls : RunScript(c) \/ Decline(c) \/ Confirm(c)
  \/ \E s \in Stoppers : FinishStop(s)
  \/ StopCommand \/ Watchdog \/ CoreChanges
  \/ \E r \in ScriptCalls : WorkerReports(r) \/ WorkerExits(r) \/ LostGrace(r)

\* Timers fire and continuations run; a script need not end, nor a dialog be answered.
ScriptProgress == (\E s \in Stoppers : FinishStop(s)) \/ Watchdog

ScriptSpec == ScriptInit /\ [][ScriptNext]_scriptVars /\ WF_scriptVars(ScriptProgress)

------------------------------------------------------------------------------
(* Properties                                                                 *)

\* "On any exit path ... the prior macro state is restored": the stack holds
\* the filters of the live runs and no others, and the keyboard is never left
\* blocked by a run that is over.  While no start overtook another, the one
\* live run is the one the slot names, it is watched or being stopped, and a
\* lock it holds is in force.
NothingLeftBehind ==
  /\ ScriptTypeOK
  /\ {mgr.filters[i] : i \in DOMAIN mgr.filters} = {r \in ScriptCalls : Live(mgr, r)}
  /\ mgr.blocked => \E r \in ScriptCalls : Live(mgr, r) /\ mgr.lock[r]
  /\ ~mgr.doubled => \A r \in ScriptCalls : Live(mgr, r) =>
        /\ mgr.slot = r
        /\ mgr.watchdog \/ \E s \in Stoppers : stopping[s] = r
        /\ mgr.lock[r] => mgr.blocked

\* Every run ends, even one whose script never returns or whose session was
\* gone before it started: the watchdog stops it, unless starts overtook each
\* other.
EveryRunEnds == \A r \in ScriptCalls : Live(mgr, r) ~> (~Live(mgr, r) \/ mgr.doubled)

\* "One script per session at a time."
OneScriptPerSession == ~mgr.doubled

\* "It's stopped automatically and tagged with reason max-runtime-exceeded":
\* the end of a terminated worker does not turn the stop, which carries the
\* reason, into a failure, which does not.
StopTagged ==
  [][\A r \in ScriptCalls :
       worker[r] = "dying" /\ worker'[r] = "dead" /\ Live(mgr, r)
         => mgr'.state[r] \in {"running", "stopped"}]_scriptVars
==============================================================================
