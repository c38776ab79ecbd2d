----------------------------- MODULE SshTerminal -----------------------------
(* SshPty: one SSH terminal, from its first connection through disconnects    *)
(* and reconnects to its end.  A connection is known by the generation of the *)
(* start() that made it.  The factory and the connections are external; text, *)
(* highlighting and observers are left out.                                   *)
EXTENDS Naturals

CONSTANT MaxGenerations   \* bound: calls of start()

ASSUME TerminalAssumption == MaxGenerations \in Nat \ {0}

VARIABLES term,   \* the fields of the terminal
          start,  \* the call of start() in progress
          ssh,    \* the connection of each generation
          listed  \* the core lists the session
termVars == <<term, start, ssh, listed>>

Generations == 1..MaxGenerations

Terminals ==
  [gen : Generations, conn : 0..MaxGenerations, disposed : BOOLEAN, disconnected : BOOLEAN,
   failed : BOOLEAN, shutting : BOOLEAN, reconnecting : BOOLEAN]
StartCalls == [gen : 0..MaxGenerations, stage : {"none", "primary", "alternate", "shell"}]

TermTypeOK ==
  /\ term \in Terminals /\ start \in StartCalls
  /\ ssh \in [Generations -> {"none", "open", "disposed", "ended"}]
  /\ listed \in BOOLEAN

NoStart == [gen |-> 0, stage |-> "none"]
Starting(g) == [gen |-> g, stage |-> "primary"]

\* The terminal has been opened: open() has called start().
TermInit ==
  /\ term = [gen |-> 1,  \* connectionGeneration
             conn |-> 0, \* connection and stream
             disposed |-> FALSE, disconnected |-> FALSE, failed |-> FALSE,
             shutting |-> FALSE, reconnecting |-> FALSE]
  /\ start = Starting(1)
  /\ ssh = [g \in Generations |-> "none"]
  /\ listed = FALSE

------------------------------------------------------------------------------

\* A connection of this terminal is let go of; one that has ended stays so.
Disposed(c, g) == [h \in Generations |-> IF h = g /\ c[h] = "open" THEN "disposed" ELSE c[h]]

Superseded(g) == term.disposed \/ term.shutting \/ g # term.gen

\* The catch block of start(), with the rest of reconnect().
StartFails(c) ==
  /\ ssh' = Disposed(c, start.gen)
  /\ start' = NoStart
  /\ \/ /\ term.disposed \/ term.shutting
        /\ term' = [term EXCEPT !.reconnecting = FALSE]
     \/ /\ ~term.disposed /\ ~term.shutting /\ term.reconnecting
        /\ term' = [term EXCEPT !.reconnecting = FALSE, !.failed = FALSE, !.disconnected = TRUE]
     \/ /\ ~term.disposed /\ ~term.shutting /\ ~term.reconnecting
        /\ term' = [term EXCEPT !.failed = TRUE]
  /\ UNCHANGED listed

\* The primary host refuses: the alternate one is tried if there is one and the
\* failure lies below the handshake.
PrimaryFails ==
  /\ start.stage = "primary"
  /\ \/ /\ ~Superseded(start.gen)
        /\ start' = [start EXCEPT !.stage = "alternate"]
        /\ UNCHANGED <<term, ssh, listed>>
     \/ StartFails(ssh)

AlternateFails == start.stage = "alternate" /\ StartFails(ssh)

\* A connection comes, perhaps too late.
Connects ==
  /\ start.stage \in {"primary", "alternate"}
  /\ \/ /\ ~Superseded(start.gen)
        /\ ssh' = [ssh EXCEPT ![start.gen] = "open"]
        /\ start' = [start EXCEPT !.stage = "shell"] /\ UNCHANGED term
     \/ /\ Superseded(start.gen)
        /\ ssh' = [ssh EXCEPT ![start.gen] = "disposed"]
        /\ start' = NoStart /\ term' = [term EXCEPT !.reconnecting = FALSE]
  /\ UNCHANGED listed

\* openShell() fails, because the connection ended or for its own reasons.
ShellFails == start.stage = "shell" /\ StartFails(ssh)

\* openShell() answers: onSessionOpened() is called.
\* Mutant: nobody asks whether the terminal is still there.
ShellOpensAnyhow ==
  /\ start.stage = "shell" /\ ssh[start.gen] = "open" /\ start' = NoStart
  /\ term' = [term EXCEPT !.conn = start.gen, !.disconnected = FALSE, !.reconnecting = FALSE]
  /\ listed' = TRUE /\ UNCHANGED ssh
ShellOpens ==
  /\ start.stage = "shell" /\ ssh[start.gen] = "open" /\ start' = NoStart
  /\ \/ /\ ~Superseded(start.gen)
        /\ term' = [term EXCEPT !.conn = start.gen, !.disconnected = FALSE, !.reconnecting = FALSE]
        /\ listed' = TRUE /\ UNCHANGED ssh
     \/ /\ Superseded(start.gen)
        /\ ssh' = Disposed(ssh, start.gen)
        /\ term' = [term EXCEPT !.reconnecting = FALSE] /\ UNCHANGED listed

\* handleDisconnect(): the session leaves the core, the terminal waits for a key.
HandleDisconnect(g, c) ==
  \/ /\ ~term.disposed /\ ~term.disconnected /\ g = term.gen
     /\ term' = [term EXCEPT !.disconnected = TRUE, !.conn = 0]
     /\ ssh' = Disposed(c, term.conn) /\ listed' = FALSE
  \/ /\ term.disposed \/ term.disconnected \/ g # term.gen
     /\ ssh' = c /\ UNCHANGED <<term, listed>>

\* The connection or its shell ends.  The handlers are there once the shell is
\* open, and are called late for a connection that was let go of.
Ends(g) ==
  /\ ssh[g] \in {"open", "disposed"}
  /\ LET c == [ssh EXCEPT ![g] = "ended"]
     IN \/ g # start.gen /\ HandleDisconnect(g, c)
        \/ g = start.gen /\ ssh' = c /\ UNCHANGED <<term, listed>>
  /\ UNCHANGED start

\* dispose()
Dispose ==
  /\ ~term.disposed
  /\ term' = [term EXCEPT !.disposed = TRUE]
  /\ ssh' = Disposed(ssh, term.conn) /\ listed' = FALSE
  /\ UNCHANGED start

\* handleInput() while there is no connection: R reconnects; any key closes a
\* terminal that never connected, and Enter one that is disconnected.
PressR ==
  /\ ~term.disposed /\ ~term.shutting /\ ~term.failed /\ term.disconnected /\ ~term.reconnecting
  /\ term.gen < MaxGenerations
  /\ term' = [term EXCEPT !.gen = @ + 1, !.reconnecting = TRUE]
  /\ start' = Starting(term.gen + 1)
  /\ UNCHANGED <<ssh, listed>>

PressEnter ==
  /\ ~term.shutting /\ (term.failed \/ (term.disconnected /\ ~term.reconnecting))
  /\ Dispose

\* markShuttingDown(): the extension host goes away, and the core with it.
ShutDown ==
  /\ ~term.disposed /\ ~term.shutting
  /\ term' = [term EXCEPT !.shutting = TRUE, !.conn = 0, !.disconnected = TRUE]
  /\ ssh' = Disposed(ssh, term.conn)
  /\ UNCHANGED <<start, listed>>

TermNext ==
  \/ PrimaryFails \/ AlternateFails \/ Connects \/ ShellFails \/ ShellOpens
  \/ \E g \in Generations : Ends(g)
  \/ Dispose \/ PressR \/ PressEnter \/ ShutDown

TermSpec == TermInit /\ [][TermNext]_termVars

------------------------------------------------------------------------------
(* Properties                                                                 *)

\* However close, shutdown, reconnects and late events cross, no connection
\* outlives its use: one that is open is being given its shell or is the
\* terminal's.
OpenIsUsed ==
  \A g \in Generations : ssh[g] = "open" => (start = [gen |-> g, stage |-> "shell"]) \/ term.conn = g

\* A terminal that is closed or shut down holds no connection but the one whose
\* shell is on its way.
ClosedHoldsNothing ==
  /\ term.disposed \/ term.shutting => \A g \in Generations : ssh[g] = "open" => start.gen = g
  /\ term.disposed => ~listed

\* The core lists the session exactly while it has a connection (but at
\* shutdown, when the core goes too), and a terminal without one is on its way
\* to one or can be acted upon with a key.
ListedWhileConnected ==
  ~term.disposed /\ ~term.shutting =>
    /\ listed <=> term.conn # 0
    /\ term.conn # 0 => ssh[term.conn] = "open" /\ ~term.disconnected
    /\ term.conn = 0 => start # NoStart \/ term.failed \/ (term.disconnected /\ ~term.reconnecting)

\* What the terminal holds, what it shows and what the core lists agree.
TerminalHonest == TermTypeOK /\ OpenIsUsed /\ ClosedHoldsNothing /\ ListedWhileConnected
==============================================================================
