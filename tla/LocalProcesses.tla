--------------------------- MODULE LocalProcesses ---------------------------
(* Local servers and local shells.  Both run in a LocalShellPty, which spawns *)
(* a sidecar process; LocalServerManager starts a server again when it exits  *)
(* by itself, and local shells are only opened and closed.  A behaviour is    *)
(* about the sessions of one configuration, of the kind that is chosen.  What *)
(* is launched is left out: its resolution succeeds or throws.                *)
EXTENDS Naturals, FiniteSets

CONSTANTS MaxAutoRestarts,  \* min(LOCAL_SERVER_RESTART_CEILING, what is configured)
          MaxLocalSessions, \* bound: sessions that are started
          MaxShells         \* bound: of these, of a shell

ASSUME LocalAssumption == MaxAutoRestarts \in Nat /\ MaxShells \in Nat /\ MaxLocalSessions \in Nat \ {0}

VARIABLES ses,   \* the sessions: terminal, pty, and what the manager and the core know of them
          desk   \* the configuration, its restarts, and the extension
localVars == <<ses, desk>>

Sessions == 1..MaxLocalSessions

\* entry: the manager's record, with its flags and timers; shown: the session is
\* in the map of terminals; listed: it is in the core; held: the pty has a sidecar to kill.
NoSession ==
  [by |-> "none", st |-> "idle", window |-> FALSE, child |-> FALSE, held |-> FALSE, terminal |-> "none",
   entry |-> FALSE, user |-> FALSE, stopping |-> FALSE, stable |-> FALSE, grace |-> FALSE,
   shown |-> FALSE, listed |-> FALSE]

LocalInit ==
  /\ ses = [s \in Sessions |-> NoSession]
  /\ desk \in {[kind |-> k, known |-> TRUE, tries |-> 0, timers |-> 0, off |-> FALSE, row |-> 0] :
                 k \in {"server", "shell"}}

IsServer == desk.kind = "server"
Unused == {s \in Sessions : ses[s].by = "none" /\ \A u \in 1..(s - 1) : ses[u].by # "none"}

\* getActiveSessionIdForConfig()
Active == {s \in Sessions : ses[s].shown /\ ses[s].entry /\ ~ses[s].stopping}

------------------------------------------------------------------------------
(* The manager *)

\* clearTimers()
ClearTimers(x) == [x EXCEPT !.stable = FALSE, !.grace = FALSE]

\* cleanupSession()
CleanupSession(x) == [ClearTimers(x) EXCEPT !.entry = FALSE, !.user = FALSE, !.stopping = FALSE, !.shown = FALSE, !.listed = FALSE]

\* Mutant: a server that the user has stopped is started again.
RestartsAnyhow(x) == MaxAutoRestarts > 0

\* The server goes on after this exit.
Restarts(x) == ~x.user /\ MaxAutoRestarts > 0

\* handleExit(): x is the session with what its pty has just become.
HandleExit(s, x) ==
  /\ ses' = [ses EXCEPT ![s] = IF x.entry THEN CleanupSession(x) ELSE x]
  /\ desk' = IF ~x.entry THEN desk
             ELSE IF Restarts(x) /\ desk.tries < MaxAutoRestarts
             THEN [desk EXCEPT !.tries = @ + 1, !.timers = @ + 1]
             ELSE [desk EXCEPT !.tries = 0]

\* resolveLocalServerLaunchOptions(): whether there is an executable and a
\* directory in scope is open at every start.
LaunchOptions == {"ok", "throws"}

\* start() once nothing speaks against it.
Launch(s, by) ==
  ses' = [ses EXCEPT ![s] =
    [NoSession EXCEPT !.by = by, !.terminal = "open", !.shown = TRUE, !.listed = TRUE, !.entry = IsServer]]

\* Mutant: a restart that is pending is left pending.
KeepsTimer(d) == [d EXCEPT !.tries = 0]

\* start() of the user: the series of restarts is over.
ReArmed(d) == [d EXCEPT !.tries = 0, !.timers = 0]

\* The start command, with a configuration that may have been removed since it
\* was picked; start() throws when one is running, or when there is nothing to launch.
StartServer ==
  /\ IsServer /\ ~desk.off
  /\ desk' = [ReArmed(desk) EXCEPT !.row = 0]
  /\ \/ (Active # {} \/ "throws" \in LaunchOptions) /\ UNCHANGED ses
     \/ Active = {} /\ "ok" \in LaunchOptions /\ \E s \in Unused : Launch(s, "user")

\* The backoff is over: retryStart().
RestartTimer ==
  /\ desk.timers > 0 /\ ~desk.off
  /\ \/ desk' = [desk EXCEPT !.timers = @ - 1, !.tries = 0] /\ UNCHANGED ses   \* gone, running, or nothing to launch
     \/ /\ desk.known /\ Active = {}
        /\ desk' = [desk EXCEPT !.timers = @ - 1, !.row = @ + 1]
        /\ \E s \in Unused : Launch(s, "user")

\* markShuttingDown() of the pty
MarkShuttingDown(x) ==
  IF x.st \in {"disposed", "closing"} THEN x
  ELSE [x EXCEPT !.st = "closing", !.child = @ /\ ~x.held, !.held = FALSE]

\* terminal.dispose(): VS Code closes the terminal later.
DisposeTerminal(x) == [x EXCEPT !.terminal = IF @ = "open" THEN "closing" ELSE @]

\* stop(): the exit is handled when the grace is over, for the pty of a terminal
\* that is closed says nothing.
Stopped(x, user) ==
  IF x.stopping THEN x
  ELSE [DisposeTerminal(MarkShuttingDown(ClearTimers(x))) EXCEPT !.user = user, !.stopping = TRUE, !.grace = TRUE]

StopSession(s) ==
  /\ IsServer /\ ~desk.off /\ ses[s].entry
  /\ ses' = [ses EXCEPT ![s] = Stopped(@, TRUE)] /\ UNCHANGED desk

\* stopConfig()
StopConfig(all) == [s \in Sessions |-> IF all[s].shown /\ all[s].entry THEN Stopped(all[s], TRUE) ELSE all[s]]

StopServer ==
  /\ IsServer /\ ~desk.off
  /\ ses' = StopConfig(ses) /\ UNCHANGED desk

\* restart(): the new session starts while the old one is being stopped.
RestartServer ==
  /\ IsServer /\ ~desk.off
  /\ \E s \in Unused :
       ses' = [t \in Sessions |->
                 IF t = s THEN [NoSession EXCEPT !.by = "user", !.terminal = "open", !.shown = TRUE, !.listed = TRUE, !.entry = TRUE]
                 ELSE IF t \in Active THEN Stopped(ses[t], TRUE) ELSE ses[t]]
  /\ desk' = [ReArmed(desk) EXCEPT !.row = 0]

GraceTimer(s) ==
  /\ ses[s].grace /\ HandleExit(s, [ses[s] EXCEPT !.grace = FALSE])

\* It has run long enough: its restarts are forgotten.
StableTimer(s) ==
  /\ ses[s].stable
  /\ ses' = [ses EXCEPT ![s].stable = FALSE]
  /\ desk' = IF ses[s].entry THEN [desk EXCEPT !.tries = 0, !.row = IF s \in Active THEN 0 ELSE @] ELSE desk

\* The remove command, under the configuration lock, once confirmed.
RemoveLocalServer ==
  /\ IsServer /\ desk.known /\ ~desk.off
  /\ LET stopped == StopConfig(ses) IN
     ses' = [s \in Sessions |->
               IF stopped[s].shown THEN [DisposeTerminal(stopped[s]) EXCEPT !.shown = FALSE, !.listed = FALSE]
               ELSE stopped[s]]
  /\ desk' = [desk EXCEPT !.known = FALSE]

\* The manager is disposed with the extension: no exit and no timer is handled any more.
DisposeManager ==
  /\ IsServer /\ ~desk.off
  /\ ses' = [s \in Sessions |->
               [ClearTimers(IF ses[s].entry THEN Stopped(ses[s], FALSE) ELSE ses[s])
                  EXCEPT !.entry = FALSE, !.user = FALSE, !.stopping = FALSE]]
  /\ desk' = [desk EXCEPT !.off = TRUE, !.timers = 0, !.tries = 0]

------------------------------------------------------------------------------
(* Local shells *)

\* openLocalShell(); runWithScript waits for the start.
OpenShell ==
  /\ ~IsServer /\ ~desk.off
  /\ \E s \in Unused \cap 1..MaxShells, by \in {"user", "script"} : Launch(s, by)
  /\ UNCHANGED desk

Unlisted(x) == [x EXCEPT !.shown = FALSE, !.listed = FALSE]

\* waitForStartup() is given up: the shell may yet start.
GiveUpStart(s) ==
  /\ ses[s].by = "script" /\ ses[s].st \in {"idle", "spawning"} /\ ~IsServer
  /\ ses' = [ses EXCEPT ![s] = [Unlisted(@) EXCEPT !.by = "user"]]
  /\ UNCHANGED desk

\* The disconnect command, of one session or of the profile's.
DisconnectShell ==
  /\ ~IsServer /\ ~desk.off
  /\ \E which \in SUBSET {s \in Sessions : ses[s].shown} :
       ses' = [s \in Sessions |-> IF s \in which THEN Unlisted(DisposeTerminal(ses[s])) ELSE ses[s]]
  /\ UNCHANGED desk

RemoveShell ==
  /\ ~IsServer /\ desk.known /\ ~desk.off
  /\ ses' = [s \in Sessions |-> IF ses[s].shown THEN Unlisted(DisposeTerminal(ses[s])) ELSE ses[s]]
  /\ desk' = [desk EXCEPT !.known = FALSE]

\* The extension is deactivated.
ShutDownShells ==
  /\ ~IsServer /\ ~desk.off
  /\ ses' = [s \in Sessions |-> [(IF ses[s].listed THEN MarkShuttingDown(ses[s]) ELSE ses[s]) EXCEPT !.shown = FALSE]]
  /\ desk' = [desk EXCEPT !.off = TRUE]

------------------------------------------------------------------------------
(* The pty and its sidecar *)

\* onDidTerminateEarly: the terminal stays open.
TerminatesEarly(s, x) == IF IsServer THEN HandleExit(s, x) ELSE ses' = [ses EXCEPT ![s] = Unlisted(x)] /\ UNCHANGED desk

\* onDidClose: VS Code closes the terminal.
FiresClose(s, x) ==
  LET y == DisposeTerminal(x) IN
  IF IsServer THEN HandleExit(s, y) ELSE ses' = [ses EXCEPT ![s] = y] /\ UNCHANGED desk

\* failBeforeReady()
FailBeforeReady(s) == TerminatesEarly(s, [ses[s] EXCEPT !.st = "failed", !.window = FALSE, !.child = FALSE, !.held = FALSE])

\* open(): the sidecar is spawned, or cannot be.
OpenPty(s) ==
  /\ ses[s].st = "idle" /\ ses[s].terminal \in {"open", "closing"}
  /\ \/ FailBeforeReady(s)
     \/ /\ ses' = [ses EXCEPT ![s] = [@ EXCEPT !.st = "spawning", !.window = TRUE, !.child = TRUE, !.held = TRUE]]
        /\ UNCHANGED desk

\* finishStartup()
FinishStartup(x) == [x EXCEPT !.window = FALSE, !.stable = x.entry]

\* The frame "ready".
Ready(s) ==
  /\ ses[s].child /\ ses[s].st = "spawning"
  /\ ses' = [ses EXCEPT ![s] = [(IF @.window THEN @ ELSE FinishStartup(@)) EXCEPT !.st = "running"]]
  /\ UNCHANGED desk

\* The startup window ends.
WindowEnds(s) ==
  /\ ses[s].window
  /\ ses' = [ses EXCEPT ![s] = IF @.st = "running" THEN FinishStartup(@) ELSE [@ EXCEPT !.window = FALSE]]
  /\ UNCHANGED desk

\* failEarlyAfterReady()
FailEarlyAfterReady(s, x) == TerminatesEarly(s, [x EXCEPT !.st = "failed", !.window = FALSE, !.held = FALSE])

\* The process exits: handleExit() of the pty.
ChildExits(s) ==
  LET x == [ses[s] EXCEPT !.child = FALSE] IN
  /\ ses[s].child
  /\ \/ x.st \in {"disposed", "exited", "closing", "failed"} /\ ses' = [ses EXCEPT ![s] = x] /\ UNCHANGED desk
     \/ x.st = "spawning" /\ FailBeforeReady(s)
     \/ x.st = "running" /\ x.window /\ FailEarlyAfterReady(s, x)
     \/ x.st = "running" /\ ~x.window /\ FiresClose(s, [x EXCEPT !.st = "exited"])

\* fail(): the sidecar is killed when the terminal is closed.
Fail(s) == FiresClose(s, [ses[s] EXCEPT !.st = "failed", !.window = FALSE])

\* A frame that makes no sense, or one that reports an error.
BadFrame(s) ==
  /\ ses[s].child /\ ses[s].st # "disposed"
  /\ Fail(s)

\* close() of the pty
PtyClosed(x) == [x EXCEPT !.st = "disposed", !.window = FALSE, !.child = @ /\ ~x.held, !.held = FALSE]

\* The terminal is closed, by the user or because it was disposed: the listener
\* on closed terminals.
TerminalClosed(s) ==
  LET x == [PtyClosed(ses[s]) EXCEPT !.terminal = "closed"] IN
  /\ ses[s].terminal \in {"open", "closing"}
  /\ ses' = [ses EXCEPT ![s] = IF x.shown THEN [Unlisted(x) EXCEPT !.user = @ \/ x.entry] ELSE x]
  /\ UNCHANGED desk

LocalNext ==
  \/ StartServer \/ RestartTimer \/ StopServer \/ RestartServer \/ RemoveLocalServer \/ DisposeManager
  \/ OpenShell \/ DisconnectShell \/ RemoveShell \/ ShutDownShells
  \/ \E s \in Sessions :
       \/ StopSession(s) \/ GraceTimer(s) \/ StableTimer(s) \/ GiveUpStart(s)
       \/ OpenPty(s) \/ Ready(s) \/ WindowEnds(s) \/ ChildExits(s) \/ BadFrame(s) \/ TerminalClosed(s)
LocalSpec == LocalInit /\ [][LocalNext]_localVars

------------------------------------------------------------------------------

LocalRecords ==
  [by : {"none", "user", "script"}, st : {"idle", "spawning", "running", "closing", "exited", "failed", "disposed"},
   window : BOOLEAN, child : BOOLEAN, held : BOOLEAN, terminal : {"none", "open", "closing", "closed"},
   entry : BOOLEAN, user : BOOLEAN, stopping : BOOLEAN, stable : BOOLEAN, grace : BOOLEAN,
   shown : BOOLEAN, listed : BOOLEAN]

Desks == [kind : {"server", "shell"}, known : BOOLEAN, tries : Nat, timers : Nat, off : BOOLEAN, row : Nat]

LocalTypeOK == ses \in [Sessions -> LocalRecords] /\ desk \in Desks

Working(s) == ses[s].child /\ ses[s].st \in {"spawning", "running"}

\* Of a server at most one process is at work, whatever the user starts, stops
\* and restarts while it exits by itself.
OneProcess == IsServer => Cardinality({s \in Sessions : Working(s)}) <= 1

\* A process at work can be found in the views, and so be stopped.
WorkIsShown == \A s \in Sessions : Working(s) /\ (IsServer \/ ses[s].by = "script") =>
  ses[s].shown \/ ses[s].terminal = "closing" \/ desk.off

\* No more restarts are tried than are allowed, one at a time, and none is
\* pending beside a server that runs.
RestartsBounded == desk.tries <= MaxAutoRestarts /\ desk.timers <= 1 /\ (desk.timers > 0 => Active = {})

\* What is listed in the core is in the map of terminals, and the other way
\* round; a terminal that is closed has no process.
ListsAgree ==
  \A s \in Sessions : (ses[s].listed = ses[s].shown \/ desk.off) /\ (ses[s].terminal = "closed" => ~ses[s].child)

LocalSound == LocalTypeOK /\ OneProcess /\ WorkIsShown /\ RestartsBounded /\ ListsAgree

\* The manager keeps no record of a session whose terminal is closed, unless it is stopping it.
RecordsEnd == \A s \in Sessions : ses[s].entry /\ ses[s].terminal = "closed" => ses[s].stopping

\* The number of restarts in a row is what the setting says.
RowBounded == desk.row <= MaxAutoRestarts

\* Every shell at work is shown.
EveryShellShown == \A s \in Sessions : Working(s) => ses[s].shown \/ desk.off \/ ses[s].terminal = "closing"
==============================================================================
