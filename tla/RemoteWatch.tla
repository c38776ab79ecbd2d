----------------------------- MODULE RemoteWatch -----------------------------
(* RemoteDirectoryWatcher: the watcher of one SFTP session.  A call of        *)
(* watch() is known by its generation.  The server runs inotifywait for each  *)
(* stream; what a probe, an exec or a stat answers is the server's choice.    *)
(* What the watcher emits is RemoteChange of SftpService.                     *)
EXTENDS Naturals, FiniteSets

CONSTANTS MaxWatches,  \* bound: calls of watch()
          MaxExecs     \* bound: inotifywait commands started

ASSUME WatchAssumption == {MaxWatches, MaxExecs} \subseteq Nat

VARIABLES watcher,  \* the fields of the watcher
          probing,  \* the generation of the watch() that waits for probe(), or 0
          execs,    \* the generation each start of inotifywait belongs to, and how far it is
          checks    \* generations of the stat commands that have not answered
watchVars == <<watcher, probing, execs, checks>>

Gens == 1..MaxWatches
Idle == [gen |-> 0, state |-> "none"]
Execs == 1..MaxExecs

Watchers ==
  [gen : 0..MaxWatches, probed : BOOLEAN, mode : {"none", "inotifywait", "stat"}, disposed : BOOLEAN,
   stream : 0..MaxExecs, restart : 0..MaxWatches, debounce : BOOLEAN, polling : 0..MaxWatches, overtaken : BOOLEAN]
ExecStates == [gen : 0..MaxWatches, state : {"none", "asked", "live", "dead"}]

WatchTypeOK ==
  /\ watcher \in Watchers /\ probing \in 0..MaxWatches
  /\ execs \in [Execs -> ExecStates] /\ checks \subseteq Gens

WatchInit ==
  /\ watcher = [gen       |-> 0,      \* watchGeneration
                probed    |-> FALSE,
                mode      |-> "none",
                disposed  |-> FALSE,
                stream    |-> 0,      \* inotifyStream
                restart   |-> 0,      \* the generation that restartTimer restarts
                debounce  |-> FALSE,  \* debounceTimer
                polling   |-> 0,      \* the generation of statTimer
                overtaken |-> FALSE]  \* history: watch() found a probe() in progress
  /\ probing = 0 /\ execs = [x \in Execs |-> Idle] /\ checks = {}

------------------------------------------------------------------------------

Active(w, g) == ~w.disposed /\ g = w.gen

\* stopInternal(): the fields, and the stream it destroys.
StopInternal(w) == [w EXCEPT !.stream = 0, !.restart = 0, !.debounce = FALSE, !.polling = 0]
Destroyed(x, es) == [e \in Execs |-> IF e = x THEN [es[e] EXCEPT !.state = "dead"] ELSE es[e]]

Unused(es) == {x \in Execs : es[x] = Idle}

\* startInotifywait() up to its exec().
StartInotifywait(g, es) ==
  /\ Unused(es) # {}
  /\ LET x == CHOOSE u \in Unused(es) : TRUE
     IN execs' = [es EXCEPT ![x] = [gen |-> g, state |-> "asked"]]

\* The rest of watch(), once the mode is known, for a generation that is active.
Begins(w, g, es) ==
  \/ /\ w.mode = "inotifywait" /\ StartInotifywait(g, es)
     /\ watcher' = w /\ UNCHANGED checks
  \/ /\ w.mode = "stat" /\ execs' = es
     /\ watcher' = [w EXCEPT !.polling = g] /\ checks' = checks \cup {g}
  \/ /\ w.mode = "none" /\ execs' = es
     /\ watcher' = w /\ UNCHANGED checks

\* watch().  A probe() in progress counts as done, with the mode "none".
Watch ==
  /\ ~watcher.disposed /\ watcher.gen < MaxWatches
  /\ LET w == [StopInternal(watcher) EXCEPT !.gen = @ + 1, !.probed = TRUE, !.overtaken = @ \/ probing # 0]
         es == Destroyed(watcher.stream, execs)
     IN \/ /\ ~watcher.probed
           /\ probing' = w.gen /\ watcher' = w /\ execs' = es /\ UNCHANGED checks
        \/ /\ watcher.probed
           /\ Begins(w, w.gen, es) /\ UNCHANGED probing

\* probe() ends; its watch() goes on unless another has replaced it.
ProbeAnswers ==
  /\ probing # 0 /\ probing' = 0
  /\ \E mode \in {"none", "inotifywait", "stat"} :
       LET w == [watcher EXCEPT !.mode = mode]
       IN \/ Active(w, probing) /\ Begins(w, probing, execs)
          \/ ~Active(w, probing) /\ watcher' = w /\ UNCHANGED <<execs, checks>>

\* stop(), by dispose().
DisposeWatcher ==
  /\ ~watcher.disposed
  /\ watcher' = [StopInternal(watcher) EXCEPT !.disposed = TRUE]
  /\ execs' = Destroyed(watcher.stream, execs)
  /\ UNCHANGED <<probing, checks>>

\* scheduleRestart()
ScheduleRestart(w, g) ==
  IF Active(w, g) /\ w.restart = 0 THEN [w EXCEPT !.restart = g] ELSE w

\* Mutant: the stream is kept whatever happened during the exec().
ExecAnswersUnchecked(x) ==
  /\ execs[x].state = "asked"
  /\ \/ /\ execs' = [execs EXCEPT ![x].state = "live"]
        /\ watcher' = [watcher EXCEPT !.stream = x]
     \/ /\ execs' = [execs EXCEPT ![x].state = "dead"]
        /\ watcher' = ScheduleRestart(watcher, execs[x].gen)
  /\ UNCHANGED <<probing, checks>>

\* exec() answers: a stream for the active generation, one too late, or an error.
ExecAnswers(x) ==
  /\ execs[x].state = "asked"
  /\ \/ /\ Active(watcher, execs[x].gen)
        /\ execs' = [execs EXCEPT ![x].state = "live"]
        /\ watcher' = [watcher EXCEPT !.stream = x]
     \/ /\ ~Active(watcher, execs[x].gen)
        /\ execs' = [execs EXCEPT ![x].state = "dead"] /\ UNCHANGED watcher
     \/ /\ execs' = [execs EXCEPT ![x].state = "dead"]
        /\ watcher' = ScheduleRestart(watcher, execs[x].gen)
  /\ UNCHANGED <<probing, checks>>

\* Mutant: only an error of the stream asks for a restart.
StreamEndsQuietly(x) ==
  /\ execs[x].state = "live"
  /\ execs' = [execs EXCEPT ![x].state = "dead"]
  /\ watcher' = [watcher EXCEPT !.stream = IF @ = x THEN 0 ELSE @]
  /\ UNCHANGED <<probing, checks>>

\* The stream closes, or fails and closes.
StreamEnds(x) ==
  /\ execs[x].state = "live"
  /\ execs' = [execs EXCEPT ![x].state = "dead"]
  /\ watcher' = ScheduleRestart([watcher EXCEPT !.stream = IF @ = x THEN 0 ELSE @], execs[x].gen)
  /\ UNCHANGED <<probing, checks>>

\* The restart timer fires.
Restart ==
  /\ watcher.restart # 0
  /\ watcher' = [watcher EXCEPT !.restart = 0]
  /\ StartInotifywait(watcher.restart, execs)
  /\ UNCHANGED <<probing, checks>>

\* A line of inotifywait arrives; the debounce timer fires.
StreamData(x) ==
  /\ execs[x].state = "live"
  /\ watcher' = [watcher EXCEPT !.debounce = TRUE]
  /\ UNCHANGED <<probing, execs, checks>>

DebounceFires ==
  /\ watcher.debounce
  /\ watcher' = [watcher EXCEPT !.debounce = FALSE]
  /\ UNCHANGED <<probing, execs, checks>>

\* The interval of startStatPolling(), and the answer of a stat command.
PollTimer ==
  /\ watcher.polling # 0
  /\ checks' = checks \cup {watcher.polling}
  /\ UNCHANGED <<watcher, probing, execs>>

CheckAnswers(g) ==
  /\ checks' = checks \ {g}
  /\ UNCHANGED <<watcher, probing, execs>>

WatchNext ==
  \/ Watch \/ ProbeAnswers \/ DisposeWatcher \/ Restart \/ DebounceFires \/ PollTimer
  \/ \E x \in Execs : ExecAnswers(x) \/ StreamEnds(x) \/ StreamData(x)
  \/ \E g \in checks : CheckAnswers(g)

WatchSpec == WatchInit /\ [][WatchNext]_watchVars

------------------------------------------------------------------------------
(* Properties                                                                 *)

\* No inotifywait is left behind on the server, however watch(), dispose(),
\* restarts and late answers cross: one that runs is the stream of the latest
\* watch(), and there is never a second one on its way.
NoStray ==
  /\ \A x \in Execs : execs[x].state = "live" =>
       /\ watcher.stream = x /\ Active(watcher, execs[x].gen)
       /\ \A y \in Execs : execs[y].state = "asked" => execs[y].gen # execs[x].gen
  /\ watcher.restart # 0 => watcher.stream = 0 /\ Active(watcher, watcher.restart)

Watching ==
  \/ watcher.stream # 0 \/ watcher.restart # 0 \/ watcher.polling = watcher.gen
  \/ \E x \in Execs : execs[x] = [gen |-> watcher.gen, state |-> "asked"]

\* Once the probe has found a way to watch, the directory of the latest watch()
\* is watched or will be again, unless two calls met in one probe.
KeepsWatching ==
  watcher.mode # "none" /\ ~watcher.disposed /\ ~watcher.overtaken => Watching

\* One stream for the latest watch(), and one whenever there should be.
WatchSound == WatchTypeOK /\ NoStray /\ KeepsWatching

\* The same of the calls that met.
EveryWatchCounts == watcher.mode # "none" /\ ~watcher.disposed => Watching
==============================================================================
