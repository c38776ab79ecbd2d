-------------------------- MODULE ServiceLifecycle --------------------------
(* One network service (TFTP) from the command to the socket and back: the    *)
(* NetworkServerManager of the extension, the daemon with its workflow queue, *)
(* its configuration controller, its ServerManager and the adapter, and the   *)
(* two ordered pipes between them.  DaemonHost models how a child is spawned  *)
(* and retired; here it is up or down.                                        *)
(*                                                                            *)
(* The workflows of a service are serialised, so that each is one step; what  *)
(* it tells the extension on the way is in the pipe.  The extension handles   *)
(* the lines of a chunk one after the other, and the continuations of the     *)
(* calls they answer only after the chunk: "settled" holds those.             *)
EXTENDS Naturals, Sequences, FiniteSets

CONSTANTS MaxCommands,  \* bound: calls of start(), stop() and restart()
          MaxSettings,  \* bound: versions of the settings
          MaxTrouble    \* bound: failures of any kind

ASSUME ServiceAssumption == {MaxCommands, MaxSettings, MaxTrouble} \subseteq Nat /\ MaxSettings > 0

VARIABLES panel,     \* what the extension shows, its settings and its refresh timer
          command,   \* how far each command has come
          settled,   \* continuations of answered calls that have not run
          daemon,    \* the daemon and the pipes
          trouble    \* failures so far
svcVars == <<panel, command, settled, daemon, trouble>>

Commands == 1..MaxCommands
Nobody == MaxCommands + 1
Background == 0   \* the caller of a refresh that nobody waits for

\* No adapter instance yet.
NoInstance == [status |-> "none", config |-> 0, engine |-> FALSE]

Down == [up |-> FALSE, store |-> 0, stale |-> FALSE, inst |-> NoInstance,
         queue |-> <<>>, pipe |-> <<>>]

SvcInit ==
  /\ panel = [status |-> "stopped", timer |-> FALSE, settings |-> 1,
              missed |-> FALSE]   \* history: a refresh timed out
  /\ command = [c \in Commands |-> "unused"]
  /\ settled = <<>> /\ daemon = Down /\ trouble = 0

------------------------------------------------------------------------------
(* The daemon.  An operation has a set of outcomes: the daemon after it,      *)
(* whether it succeeded, and the failures it met.                             *)

Outcome(d, ok, n) == [d |-> d, ok |-> ok, failures |-> n]
Done(d) == {Outcome(d, TRUE, 0)}

\* await first; await Second
Then(first, Second(_)) ==
  UNION {IF o.ok THEN {[n EXCEPT !.failures = @ + o.failures] : n \in Second(o.d)} ELSE {o}
           : o \in first}

\* BaseNexusServer.setStatus(); the error messages are left out.
SetStatus(d, s) ==
  IF d.inst.status = s THEN d
  ELSE [d EXCEPT !.inst.status = s, !.pipe = Append(@, [kind |-> "status", status |-> s])]

\* releaseEngine(), when it succeeds.
ReleaseEngine(d) == [d EXCEPT !.inst.engine = FALSE]

\* TftpAdapter.stopOwned()
AdapterStop(d) ==
  IF ~d.inst.engine /\ d.inst.status = "stopped" THEN Done(d)
  ELSE LET s == SetStatus(d, "stopping")
       IN {Outcome(SetStatus(ReleaseEngine(s), "stopped"), TRUE, 0)}
            \cup {Outcome(SetStatus(s, "error"), FALSE, 1) : e \in {s.inst.engine} \cap {TRUE}}

\* TftpAdapter.startOwned(): the old engine cannot be released, or the new one
\* runs, fails, or fails and cannot be released.
AdapterStart(d) ==
  IF d.inst.engine /\ d.inst.status = "running" THEN Done(d)
  ELSE LET s == SetStatus(ReleaseEngine(d), "starting")
           bound == [s EXCEPT !.inst.engine = TRUE]
       IN {Outcome(SetStatus(d, "error"), FALSE, 1) : e \in {d.inst.engine} \cap {TRUE}}
            \cup {Outcome(SetStatus(bound, "running"), TRUE, 0),
                  Outcome(SetStatus(s, "error"), FALSE, 1),
                  Outcome(SetStatus(bound, "error"), FALSE, 2)}

\* ServerManager: the instance is built from the configuration of the moment.
EnsureInstance(d) ==
  IF d.inst # NoInstance THEN d
  ELSE [d EXCEPT !.inst = [status |-> "stopped", config |-> d.store, engine |-> FALSE]]

ManagerStop(d) == IF d.inst = NoInstance THEN Done(d) ELSE AdapterStop(d)
ManagerStart(d) == AdapterStart(EnsureInstance(d))
DropInstance(d) == Then(AdapterStop(d), LAMBDA e : Done([e EXCEPT !.inst = NoInstance]))

\* NetworkServerConfigController.  Mutant: the mark is only set for a running service.
EvictIfIdleUnmarked(d) ==
  IF d.inst = NoInstance THEN Done([d EXCEPT !.stale = FALSE])
  ELSE IF d.inst.status = "running" THEN Done([d EXCEPT !.stale = TRUE])
  ELSE DropInstance([d EXCEPT !.stale = FALSE])
EvictIfIdle(d) ==
  IF d.inst = NoInstance THEN Done([d EXCEPT !.stale = FALSE])
  ELSE IF d.inst.status = "running" THEN Done([d EXCEPT !.stale = TRUE])
  ELSE Then(DropInstance([d EXCEPT !.stale = TRUE]), LAMBDA e : Done([e EXCEPT !.stale = FALSE]))

ApplyConfig(d, config) ==
  IF d.store = config THEN Done(d) ELSE EvictIfIdle([d EXCEPT !.store = config])

EvictStale(d) == IF d.stale THEN EvictIfIdle(d) ELSE Done(d)

\* handleRequest()
Workflow(d, r) ==
  CASE r.op = "read"      -> Done(EnsureInstance(d))
    [] r.op = "configure" -> ApplyConfig(d, r.config)
    [] r.op = "stop"      -> ManagerStop(d)
    [] r.op = "start"     -> Then(Then(ApplyConfig(d, r.config), EvictStale), ManagerStart)
    [] r.op = "restart"   ->
         Then(Then(Then(ManagerStop(d), LAMBDA e : ApplyConfig(e, r.config)), EvictStale), ManagerStart)

\* The answer: the status that a read reports and, for the record, whether a
\* service that was (re)started runs the configuration it was sent.  Nobody
\* looks at the answer to "configure" or to a refresh that timed out.
Reply(r, o, ran) ==
  IF r.by = Nobody THEN <<>>
  ELSE <<[kind |-> "reply", by |-> r.by, op |-> r.op, ok |-> o.ok,
          status |-> IF r.op = "read" THEN o.d.inst.status ELSE "none",
          newest |-> r.op = "restart" \/ (r.op = "start" /\ ~ran) => o.d.inst.config = r.config]>>

CountTrouble(n) == trouble + n <= MaxTrouble /\ trouble' = trouble + n

ExecuteWorkflow ==
  /\ daemon.queue # <<>>
  /\ LET r == Head(daemon.queue)
     IN \E o \in Workflow([daemon EXCEPT !.queue = Tail(@)], r) :
          /\ CountTrouble(o.failures)
          /\ daemon' = [o.d EXCEPT !.pipe = @ \o Reply(r, o, daemon.inst.status = "running")]
  /\ UNCHANGED <<panel, command, settled>>

\* The socket fails under a running service.
SocketFails ==
  /\ daemon.inst.status = "running"
  /\ CountTrouble(1)
  /\ daemon' = SetStatus(daemon, "error")
  /\ UNCHANGED <<panel, command, settled>>

------------------------------------------------------------------------------
(* The extension: p is the panel, d the daemon.                               *)

Send(d, op, config, by) ==
  [d EXCEPT !.queue = Append(@, [op |-> op, config |-> config, by |-> by])]

\* A child that is not there is spawned, with the settings of the moment.
Spawned == IF daemon.up THEN daemon ELSE [Down EXCEPT !.up = TRUE, !.store = panel.settings]

\* refreshRuntime()
Refresh(d, by) == IF d.up THEN Send(d, "read", 0, by) ELSE d

\* start(), stop() and restart() up to the request.
Command(c, op) ==
  /\ settled = <<>> /\ command[c] = "unused"
  /\ \A b \in 1..(c - 1) : command[b] # "unused"
  /\ panel' = [panel EXCEPT !.status = IF op = "stop" THEN "stopping" ELSE "starting"]
  /\ command' = [command EXCEPT ![c] = "request"]
  /\ daemon' = Send(Spawned, op, IF op = "stop" THEN 0 ELSE panel.settings, c)
  /\ UNCHANGED <<settled, trouble>>

\* The next line of a chunk.  A late answer to a call that timed out is ignored.
Awaited(line) ==
  \/ line.by \in Commands /\ command[line.by] = (IF line.op = "read" THEN "refresh" ELSE "request")
  \/ line.by = Background

\* Mutant: a status event does not schedule a refresh.
ReceiveWithoutRefresh ==
  /\ daemon.pipe # <<>> /\ daemon' = [daemon EXCEPT !.pipe = Tail(@)]
  /\ LET line == Head(daemon.pipe)
     IN \/ line.kind = "status" /\ panel' = [panel EXCEPT !.status = line.status] /\ UNCHANGED settled
        \/ /\ line.kind = "reply" /\ UNCHANGED panel
           /\ settled' = IF Awaited(line) THEN Append(settled, line) ELSE settled
  /\ UNCHANGED <<command, trouble>>

Receive ==
  /\ daemon.pipe # <<>>
  /\ LET line == Head(daemon.pipe)
         d == [daemon EXCEPT !.pipe = Tail(@)]
     IN \/ /\ line.kind = "status"
           /\ panel' = [panel EXCEPT !.status = line.status, !.timer = TRUE]
           /\ daemon' = d /\ UNCHANGED settled
        \/ /\ line.kind = "reply"
           /\ daemon' = d
           /\ settled' = IF Awaited(line) THEN Append(settled, line) ELSE settled
           /\ UNCHANGED panel
  /\ UNCHANGED <<command, trouble>>

Over(c) == [command EXCEPT ![c] = "over"]

\* The rest of a call, after its answer.
Continue ==
  /\ settled # <<>> /\ settled' = Tail(settled)
  /\ LET line == Head(settled)
     IN \/ /\ line.op = "read"
           /\ panel' = [panel EXCEPT !.status = line.status]
           /\ command' = IF line.by \in Commands THEN Over(line.by) ELSE command
           /\ UNCHANGED daemon
        \/ /\ line.op # "read" /\ ~line.ok
           /\ panel' = [panel EXCEPT !.status = "error"]
           /\ command' = Over(line.by) /\ UNCHANGED daemon
        \/ /\ line.op = "stop" /\ line.ok
           /\ panel' = [panel EXCEPT !.status = "stopped"]
           /\ command' = Over(line.by) /\ UNCHANGED daemon
        \/ /\ line.op \in {"start", "restart"} /\ line.ok
           /\ command' = [command EXCEPT ![line.by] = "refresh"]
           /\ daemon' = Refresh(daemon, line.by) /\ UNCHANGED panel
  /\ UNCHANGED <<trouble>>

\* The refresh timer fires.
RefreshTimer ==
  /\ settled = <<>> /\ panel.timer
  /\ panel' = [panel EXCEPT !.timer = FALSE]
  /\ daemon' = Refresh(daemon, Background)
  /\ UNCHANGED <<command, settled, trouble>>

\* The settings change: syncConfiguration().
SettingsChange ==
  /\ settled = <<>> /\ panel.settings < MaxSettings
  /\ panel' = [panel EXCEPT !.settings = @ + 1]
  /\ daemon' = IF daemon.up THEN Send(daemon, "configure", panel.settings + 1, Nobody) ELSE daemon
  /\ UNCHANGED <<command, settled, trouble>>

Waiting(stage) == {c \in Commands : command[c] = stage}
Settle(cs) == [c \in Commands |-> IF c \in cs THEN "over" ELSE command[c]]

\* An RPC times out; the daemon may still execute it.
CommandTimesOut(c) ==
  /\ settled = <<>> /\ command[c] \in {"request", "refresh"}
  /\ CountTrouble(1)
  /\ \/ command[c] = "request" /\ panel' = [panel EXCEPT !.status = "error"]
     \/ command[c] = "refresh" /\ panel' = [panel EXCEPT !.missed = TRUE]
  /\ command' = Settle({c})
  /\ UNCHANGED <<settled, daemon>>

RefreshTimesOut(i) ==
  /\ settled = <<>> /\ daemon.queue[i].by = Background
  /\ CountTrouble(1)
  /\ panel' = [panel EXCEPT !.missed = TRUE]
  /\ daemon' = [daemon EXCEPT !.queue[i].by = Nobody]
  /\ UNCHANGED <<command, settled>>

\* The daemon dies, with whatever is in the pipes.
DaemonExits ==
  /\ settled = <<>> /\ daemon.up
  /\ CountTrouble(1)
  /\ panel' = [panel EXCEPT !.status = IF Waiting("request") = {} THEN "stopped" ELSE "error"]
  /\ command' = Settle(Waiting("request") \cup Waiting("refresh"))
  /\ daemon' = Down
  /\ UNCHANGED <<settled>>

SvcNext ==
  \/ \E c \in Commands : (\E op \in {"start", "stop", "restart"} : Command(c, op)) \/ CommandTimesOut(c)
  \/ \E i \in DOMAIN daemon.queue : RefreshTimesOut(i)
  \/ Receive \/ Continue \/ RefreshTimer \/ SettingsChange \/ DaemonExits
  \/ ExecuteWorkflow \/ SocketFails

SvcSpec == SvcInit /\ [][SvcNext]_svcVars

------------------------------------------------------------------------------
(* Properties                                                                 *)

SvcTypeOK ==
  /\ panel.status \in {"stopped", "starting", "running", "stopping", "error"}
  /\ panel.timer \in BOOLEAN /\ panel.settings \in 1..MaxSettings
  /\ daemon.inst.status \in {"none", "stopped", "running", "error"}
  /\ trouble \in 0..MaxTrouble

Running == daemon.inst.status = "running"
Quiet ==
  /\ daemon.pipe = <<>> /\ daemon.queue = <<>>
  /\ settled = <<>> /\ ~panel.timer
  /\ \A c \in Commands : command[c] \in {"unused", "over"}

\* Once nothing is under way the sidebar tells the truth, however commands,
\* their answers, status events and refreshes crossed each other: it neither
\* hangs in a transition nor takes a dead service for a live one or the other
\* way round.  (A refresh that times out is not repeated: after one there is
\* no such promise.)
PanelHonest ==
  /\ SvcTypeOK
  /\ Quiet /\ ~panel.missed =>
       /\ panel.status \notin {"starting", "stopping"}
       /\ panel.status = "running" => Running
       /\ panel.status = "stopped" => ~Running

\* "a service always launches with what the user currently has configured": a
\* restart, or the start of an idle service, that is answered with success runs
\* the configuration it brought, even after an eviction that failed half way.
NewestConfig ==
  \A i \in DOMAIN daemon.pipe :
    daemon.pipe[i].kind = "reply" /\ daemon.pipe[i].ok => daemon.pipe[i].newest

\* Commands do what they say and the sidebar shows it.
ServiceHonest == PanelHonest /\ NewestConfig
==============================================================================
