----------------------------- MODULE SerialPorts -----------------------------
(* Serial terminals and the sidecar process that holds their ports: SerialPty *)
(* opens one port, SmartSerialPty follows a device from port to port.  A      *)
(* request goes through SerialSidecarManager to the sidecar and can time out  *)
(* with its bytes still on the way; answers and notices come back in one      *)
(* stream.  What a port is called and what is known of the device is left     *)
(* out: which ports match the saved device is open at every attempt.          *)
EXTENDS Naturals, Sequences, FiniteSets

CONSTANTS Ports,          \* the paths of the machine
          SerialSetups,   \* what may be tried: the modes of the terminals, in the order they
                          \* are opened, and a bound on the devices plugged in or out, lines
                          \* typed, timeouts and crashes
          MaxOpens        \* bound: ports opened

ASSUME SerialAssumption ==
  Ports \subseteq Nat \ {0} /\ MaxOpens \in Nat /\ \A u \in SerialSetups : u.events \in Nat

Ttys == 1..2

VARIABLES tty,      \* the terminals
          sidecar,  \* the process: state, and what it has open
          wire,     \* requests to it, and its answers and notices
          pending,  \* the requests the manager waits for
          got,      \* answers that were resolved and have not been acted on
          orphan,   \* history: sessions whose open had timed out
          tally      \* history: for the bounds, and for ids
serialVars == <<tty, sidecar, wire, pending, got, orphan, tally>>

\* prof: the profile is in the core, one for each terminal and each saved for port 1;
\* listed: ctx.serialTerminals has an entry for the terminal, with activePath act; at: where the attempt is that holds "connecting" ("saving" is onResolvedPort).
NewTty ==
  [st |-> "none", sid |-> 0, act |-> 0, end |-> "no", poll |-> FALSE, at |-> "idle", aim |-> 0,
   how |-> "direct", seen |-> {}, offer |-> {}, pref |-> 1, asked |-> <<>>, shown |-> "waiting", prof |-> TRUE,
   listed |-> FALSE]

SerialInit ==
  /\ tty = [t \in Ttys |-> NewTty]
  /\ sidecar = [up |-> "none", ports |-> {}, plugged |-> Ports]
  /\ wire = [in |-> <<>>, out |-> <<>>]
  /\ pending = {} /\ got = {} /\ orphan = {}
  /\ tally \in {[opens |-> 0, events |-> u.events, off |-> FALSE, modes |-> u.modes] : u \in SerialSetups}

Smart(t) == tally.modes[t] = "smart"
TtyLive(t) == tty[t].st = "live"
Over(t) == tty[t].st = "disposed" \/ tty[t].end = "stopped"   \* disposed || stopped
Calm == got = {}   \* promises go on before the next event; the sidecar's steps do not mind

------------------------------------------------------------------------------
(* Requests *)

\* What a queue holds, and the queue without its element k.
Lines(q) == {q[i] : i \in DOMAIN q}
TakenOut(q, k) == [i \in 1..(Len(q) - 1) |-> IF i < k THEN q[i] ELSE q[i + 1]]

\* A request that nothing under way is confused with.
InUse == {r.n : r \in pending \cup got \cup Lines(wire.in) \cup Lines(wire.out)}
Request(t, kind, arg) ==
  [n |-> CHOOSE k \in 1..(Cardinality(InUse) + 1) : k \notin InUse, t |-> t, kind |-> kind, arg |-> arg]

\* request(), of one request or none: the sidecar is started if there is none.
Send(rs) ==
  /\ wire' = [wire EXCEPT !.in = @ \o rs]
  /\ pending' = pending \cup {r \in Lines(rs) : r.kind # "close"}
  /\ sidecar' = IF sidecar.up = "none" /\ rs # <<>> THEN [sidecar EXCEPT !.up = "up"] ELSE sidecar

Answer(r, ok, val) == [n |-> r.n, t |-> r.t, kind |-> r.kind, arg |-> r.arg, ok |-> ok, val |-> val]
Say(k, a) == wire' = [in |-> TakenOut(wire.in, k), out |-> Append(wire.out, a)]
Notice(s) == [n |-> 0, kind |-> "disconnect", sid |-> s]

Holder(p) == {q \in sidecar.ports : q.path = p}

\* The next request, or a later one: of what handleRequest() awaits, nothing has
\* an order, but a write to an unknown session is answered at once.
InTurn(k) == Calm /\ sidecar.up = "up" /\ k \in DOMAIN wire.in /\ \A j \in 1..(k - 1) : wire.in[j].kind # "write"

\* handleRequest() in the sidecar: a port is open once at most.
SidecarServes(k) ==
  LET r == wire.in[k] IN
  /\ InTurn(k)
  /\ \/ /\ r.kind = "list"
        /\ Say(k, Answer(r, TRUE, sidecar.plugged)) /\ UNCHANGED <<sidecar, tally>>
     \/ /\ r.kind = "open" /\ r.arg \in sidecar.plugged /\ Holder(r.arg) = {} /\ tally.opens < MaxOpens
        /\ sidecar' = [sidecar EXCEPT !.ports = @ \cup {[sid |-> tally.opens + 1, path |-> r.arg]}]
        /\ tally' = [tally EXCEPT !.opens = @ + 1]
        /\ Say(k, Answer(r, TRUE, tally.opens + 1))
     \/ /\ r.kind = "write"
        /\ Say(k, Answer(r, \E q \in sidecar.ports : q.sid = r.arg, "unknown")) /\ UNCHANGED <<sidecar, tally>>
     \/ /\ r.kind = "close"
        /\ sidecar' = [sidecar EXCEPT !.ports = {q \in @ : q.sid # r.arg}]
        /\ wire' = [wire EXCEPT !.in = TakenOut(@, k)] /\ UNCHANGED tally   \* the answer interests nobody
  /\ UNCHANGED <<tty, pending, got, orphan>>

\* It cannot list or open, or a write fails in the driver; the runtime may be missing.
SidecarRefuses(k) ==
  LET r == wire.in[k] IN
  /\ InTurn(k) /\ r.kind \in {"list", "open", "write"}
  /\ \E why \in {"error", "runtime"} :
       /\ why = "runtime" => r.kind # "write"
       /\ Say(k, Answer(r, FALSE, why))
  /\ UNCHANGED <<tty, sidecar, pending, got, orphan, tally>>

Event == tally.events > 0 /\ tally' = [tally EXCEPT !.events = @ - 1]

Plug ==
  /\ Calm /\ Event
  /\ \/ \E p \in Ports \ sidecar.plugged :
          sidecar' = [sidecar EXCEPT !.plugged = @ \cup {p}] /\ UNCHANGED wire
     \/ \E p \in sidecar.plugged :   \* "close" of the port that was open, if one was
          /\ sidecar' = [sidecar EXCEPT !.plugged = @ \ {p}, !.ports = @ \ Holder(p)]
          /\ \/ Holder(p) = {} /\ UNCHANGED wire
             \/ \E q \in Holder(p) : wire' = [wire EXCEPT !.out = Append(@, Notice(q.sid))]
  /\ UNCHANGED <<tty, pending, got, orphan>>

\* The sidecar dies; what it had said may be lost.
SidecarDies ==
  /\ Calm /\ sidecar.up = "up" /\ Event
  /\ sidecar' = [sidecar EXCEPT !.up = "dead", !.ports = {}]
  /\ \E k \in 0..Len(wire.out) : wire' = [in |-> <<>>, out |-> SubSeq(wire.out, 1, k)]
  /\ UNCHANGED <<tty, pending, got, orphan>>

\* "exit": whoever waits is told; nobody is told that the ports are gone.
SidecarExit ==
  /\ sidecar.up = "dead" /\ Calm
  /\ got' = {Answer(r, FALSE, "error") : r \in pending}
  /\ pending' = {}
  /\ wire' = [wire EXCEPT !.in = <<>>]
  /\ sidecar' = [sidecar EXCEPT !.up = "none"]
  /\ UNCHANGED <<tty, orphan, tally>>

\* The manager gives up a request; the sidecar may yet serve it.
RpcTimeout ==
  /\ Calm /\ Event
  /\ \E r \in pending :
       /\ pending' = pending \ {r}
       /\ got' = {Answer(r, FALSE, "error")}
  /\ UNCHANGED <<tty, sidecar, wire, orphan>>

------------------------------------------------------------------------------
(* What a terminal does *)

\* The attempt is over ("connecting" is reset).
Idle(x) == [x EXCEPT !.at = "idle", !.seen = {}, !.offer = {}, !.aim = 0, !.how = "direct"]

\* Mutant: a terminal that waits does not look again.
WaitsForever(x) == [x EXCEPT !.shown = "waiting"]

\* enterWaiting(): poll until a port is there.
EnterWaiting(x) == [x EXCEPT !.shown = "waiting", !.poll = TRUE]

\* enterStopped(), markShuttingDown()
EnterStopped(x) ==
  IF x.end = "stopped" THEN Idle(x)
  ELSE [Idle(x) EXCEPT !.end = "stopped", !.poll = FALSE, !.act = 0, !.sid = 0, !.shown = "waiting"]

\* Its entry in ctx.serialTerminals is deleted.  What the terminal's callbacks
\* would write to the entry later is not written.
Delisted(x) == [x EXCEPT !.listed = FALSE, !.act = 0]

\* handleTransportDisconnect(), handleDisconnect(): an attempt that is saving
\* the port it found goes on.
Disconnected(t) ==
  LET x == tty[t] IN
  IF Over(t) \/ x.end = "disconnected" THEN x
  ELSE IF Smart(t) THEN EnterWaiting([x EXCEPT !.sid = 0, !.act = 0, !.asked = <<>>])
  ELSE [Delisted(x) EXCEPT !.sid = 0, !.end = "disconnected"]

\* enforceSerialConnectPreconditions(): no terminal shows the port as its own.
MayOpen(t) ==
  /\ Calm /\ ~tally.off /\ t \in DOMAIN tally.modes /\ tty[t].st = "none"
  /\ \A u \in Ttys : u < t => tty[u].st # "none"
  /\ \A u \in Ttys : tty[u].act # 1

OpenStandard(t) ==
  /\ MayOpen(t) /\ ~Smart(t)
  /\ tty' = [tty EXCEPT ![t] = [@ EXCEPT !.st = "live", !.at = "open", !.aim = 1]]
  /\ Send(<<Request(t, "open", 1)>>)
  /\ UNCHANGED <<got, orphan, tally>>

OpenSmart(t) ==
  /\ MayOpen(t) /\ Smart(t)
  /\ tty' = [tty EXCEPT ![t] = [@ EXCEPT !.st = "live", !.at = "list", !.aim = 1, !.listed = TRUE]]
  /\ Send(<<Request(t, "list", 0)>>)
  /\ UNCHANGED <<got, orphan, tally>>

PollTick(t) ==
  /\ Calm /\ ~tally.off /\ TtyLive(t) /\ tty[t].poll /\ tty[t].at = "idle" /\ tty[t].end # "stopped"
  /\ tty' = [tty EXCEPT ![t].at = "list"]
  /\ Send(<<Request(t, "list", 0)>>)
  /\ UNCHANGED <<got, orphan, tally>>

\* handleInput(); a key closes a terminal that has failed.
Type(t) ==
  /\ Calm /\ ~tally.off /\ TtyLive(t) /\ tty[t].sid # 0 /\ tty[t].end = "no"
  /\ Send(<<Request(t, "write", tty[t].sid)>>)
  /\ Event
  /\ UNCHANGED <<tty, got, orphan>>

\* The profile is removed, under the configuration lock; VS Code closes the
\* terminal, if there was an entry for it, some time after that.
RemoveProfile(t) ==
  /\ Calm /\ ~tally.off /\ TtyLive(t) /\ tty[t].prof /\ Event
  /\ tty' = [tty EXCEPT ![t] = [Delisted(@) EXCEPT !.prof = FALSE]]
  /\ UNCHANGED <<sidecar, wire, pending, got, orphan>>

\* "nexus.serial.disconnect" of a session or a profile: closed by VS Code likewise.
DisconnectTerminal(t) ==
  /\ Calm /\ ~tally.off /\ TtyLive(t) /\ tty[t].listed /\ Event
  /\ tty' = [tty EXCEPT ![t] = Delisted(@)]
  /\ UNCHANGED <<sidecar, wire, pending, got, orphan>>

CloseTerminal(t) ==
  /\ Calm /\ TtyLive(t)
  /\ tty' = [tty EXCEPT ![t] = [NewTty EXCEPT !.st = "disposed", !.at = tty[t].at, !.prof = tty[t].prof]]
  /\ Send(IF tty[t].sid = 0 THEN <<>> ELSE <<Request(t, "close", tty[t].sid)>>)
  /\ UNCHANGED <<got, orphan, tally>>

\* deactivate(): the terminals say so and lose their entries, the sidecar is killed.
Deactivate ==
  /\ Calm /\ ~tally.off
  /\ tty' = [t \in Ttys |->
               IF ~TtyLive(t) THEN tty[t]
               ELSE IF Smart(t) THEN [Delisted(EnterStopped(tty[t])) EXCEPT !.at = tty[t].at]
               ELSE [Delisted(tty[t]) EXCEPT !.end = "disconnected", !.sid = 0]]
  /\ got' = {Answer(r, FALSE, "error") : r \in pending}
  /\ pending' = {} /\ wire' = [in |-> <<>>, out |-> <<>>]
  /\ sidecar' = [sidecar EXCEPT !.up = "none", !.ports = {}]
  /\ tally' = [tally EXCEPT !.off = TRUE]
  /\ UNCHANGED orphan

------------------------------------------------------------------------------
(* What the sidecar says *)

\* Mutant: a notice is taken for the terminal's whatever session it is about.
AboutAnySession(t, s) == tty[t].sid # 0

About(t, s) == s = tty[t].sid

\* handleMessage(): an answer nobody waits for is dropped.  Lines that came
\* together are all handled before the promises go on.
Deliver ==
  /\ wire.out # <<>> /\ sidecar.up # "none"
  /\ LET msg == Head(wire.out) IN
     \/ /\ msg.n = 0
        /\ tty' = [t \in Ttys |-> IF TtyLive(t) /\ About(t, msg.sid) THEN Disconnected(t) ELSE tty[t]]
        /\ UNCHANGED <<pending, got, orphan>>
     \/ /\ msg.n # 0
        /\ \/ \E r \in pending : r.n = msg.n /\ pending' = pending \ {r} /\ got' = got \cup {msg} /\ UNCHANGED orphan
           \/ /\ \A r \in pending : r.n # msg.n
              /\ orphan' = IF msg.kind = "open" /\ msg.ok THEN orphan \cup {msg.val} ELSE orphan
              /\ UNCHANGED <<pending, got>>
        /\ UNCHANGED tty
  /\ wire' = [wire EXCEPT !.out = Tail(@)]
  /\ UNCHANGED <<sidecar, tally>>

Acted(t, x, rs) ==
  /\ tty' = [tty EXCEPT ![t] = x]
  /\ Send(rs) /\ UNCHANGED tally

BusyFor(t) == {tty[u].act : u \in Ttys \ {t}} \ {0}

\* The port of a smart terminal is missing or cannot be had: a lone match is
\* tried, or the user is asked, unless that was asked before.
LookFurther(t, x, matches) ==
  LET others == x.seen \ ({x.pref} \cup matches)
      missing == x.pref \notin x.seen
      lone == missing /\ Cardinality(matches) = 1
      shown == IF ~missing \/ Cardinality(matches) >= 2 THEN matches ELSE {}
      key == <<missing, shown, others>>
  IN
  IF lone THEN Acted(t, [x EXCEPT !.at = "open", !.how = "hint", !.aim = CHOOSE p \in matches : TRUE],
                     <<Request(t, "open", CHOOSE p \in matches : TRUE)>>)
  ELSE IF shown \cup others = {} \/ x.asked = key THEN Acted(t, EnterWaiting(Idle(x)), <<>>)
  ELSE Acted(t, [x EXCEPT !.at = "prompt", !.asked = key, !.offer = shown \cup others], <<>>)

\* Which of the candidates match the saved device; a lone match that was
\* refused is out, and no other takes its place.
Matches(x) == IF x.how = "hint" THEN {{}} ELSE SUBSET (x.seen \ {x.pref})

\* The ports of the list that the attempt may try or offer: those no other
\* terminal shows now, and the preferred one, of which it matters whether it is there.
Seen(t, ports) == (ports \ BusyFor(t)) \cup (ports \cap {tty[t].pref})

ListAnswered(a) ==
  LET t == a.t
      x == [tty[t] EXCEPT !.seen = IF a.ok THEN Seen(t, a.val) ELSE {}, !.how = "direct", !.aim = tty[t].pref]
  IN
  /\ a \in got /\ a.kind = "list" /\ got' = got \ {a} /\ UNCHANGED orphan
  /\ \/ Over(t) /\ Acted(t, Idle(tty[t]), <<>>)
     \/ ~Over(t) /\ ~a.ok /\ Acted(t, IF a.val = "runtime" THEN EnterStopped(x) ELSE EnterWaiting(Idle(x)), <<>>)
     \/ /\ ~Over(t) /\ a.ok /\ x.pref \in a.val \ BusyFor(t)
        /\ Acted(t, [x EXCEPT !.at = "open"], <<Request(t, "open", x.pref)>>)
     \/ /\ ~Over(t) /\ a.ok /\ x.pref \notin a.val \ BusyFor(t)
        /\ \E matches \in Matches(x) : LookFurther(t, x, matches)

\* Mutant: the port is kept though the terminal was closed.
KeepsTheLate(t, s) == <<>>

\* tryOpen() and start(): closed meanwhile, so the port is closed too.
CloseTheLate(t, s) == IF tty[t].st = "disposed" THEN <<Request(t, "close", s)>> ELSE <<>>

\* handleConnected() up to its await: it is the port to come back to, and the
\* profile is put back into the core if the port has changed.  The session of a
\* standard terminal makes its entry; a smart one's may be gone.
Connected(t, s) ==
  [Idle(tty[t]) EXCEPT !.sid = s, !.act = IF Smart(t) /\ ~tty[t].listed THEN 0 ELSE tty[t].aim, !.listed = @ \/ ~Smart(t),
                 !.pref = tty[t].aim, !.poll = FALSE, !.asked = <<>>, !.at = IF Smart(t) THEN "saving" ELSE "idle",
                 !.prof = @ \/ (Smart(t) /\ tty[t].aim # tty[t].pref), !.shown = IF Smart(t) THEN @ ELSE "connected"]

OpenAnswered(a) ==
  LET t == a.t
      x == tty[t]
  IN
  /\ a \in got /\ a.kind = "open" /\ got' = got \ {a} /\ UNCHANGED orphan
  /\ \/ a.ok /\ x.st = "disposed" /\ Acted(t, Idle(x), CloseTheLate(t, a.val))
     \/ a.ok /\ TtyLive(t) /\ x.end = "stopped" /\ Acted(t, [Idle(x) EXCEPT !.sid = a.val], <<>>)
     \/ a.ok /\ TtyLive(t) /\ x.end # "stopped" /\ Acted(t, Connected(t, a.val), <<>>)
     \/ ~a.ok /\ Smart(t) /\ Over(t) /\ Acted(t, Idle(x), <<>>)
     \/ ~a.ok /\ ~Smart(t) /\ Acted(t, [Idle(x) EXCEPT !.end = IF @ = "no" THEN "failed" ELSE @], <<>>)
     \/ ~a.ok /\ Smart(t) /\ ~Over(t) /\ a.val = "runtime" /\ Acted(t, EnterStopped(x), <<>>)
     \/ ~a.ok /\ Smart(t) /\ ~Over(t) /\ a.val # "runtime" /\ x.how = "picked" /\ Acted(t, EnterWaiting(Idle(x)), <<>>)
     \/ /\ ~a.ok /\ Smart(t) /\ ~Over(t) /\ a.val # "runtime" /\ x.how # "picked"
        /\ LET y == [x EXCEPT !.seen = @ \ ({x.aim} \ {x.pref})]
           IN  \E matches \in Matches(y) : LookFurther(t, y, matches)

\* The user picks one of the ports, or goes on waiting.
PickPort(t) ==
  /\ Calm /\ tty[t].at = "prompt" /\ UNCHANGED <<got, orphan>>
  /\ \/ Over(t) /\ Acted(t, Idle(tty[t]), <<>>)
     \/ ~Over(t) /\ Acted(t, EnterWaiting(Idle(tty[t])), <<>>)
     \/ /\ ~Over(t)
        /\ \E p \in tty[t].offer :
             Acted(t, [tty[t] EXCEPT !.at = "open", !.how = "picked", !.aim = p], <<Request(t, "open", p)>>)

\* onResolvedPort() has saved the profile; the rest of handleConnected().
ProfileSaved(t) ==
  /\ Calm /\ tty[t].at = "saving"
  /\ tty' = [tty EXCEPT ![t].at = "idle", ![t].shown = IF tty[t].st = "live" THEN "connected" ELSE @]
  /\ UNCHANGED <<sidecar, wire, pending, got, orphan, tally>>

\* A write failed: "unknown serial session" counts as a disconnect, of whatever
\* session the terminal has by now.
WriteAnswered(a) ==
  /\ a \in got /\ a.kind = "write" /\ got' = got \ {a}
  /\ \/ /\ ~a.ok /\ a.val = "unknown" /\ TtyLive(a.t)
        /\ tty' = [tty EXCEPT ![a.t] = Disconnected(a.t)]
     \/ ~(~a.ok /\ a.val = "unknown" /\ TtyLive(a.t)) /\ UNCHANGED tty
  /\ UNCHANGED <<orphan, sidecar, wire, pending, tally>>

SerialNext ==
  \/ \E k \in DOMAIN wire.in : SidecarServes(k) \/ SidecarRefuses(k)
  \/ Plug \/ SidecarDies \/ SidecarExit \/ RpcTimeout \/ Deactivate \/ Deliver
  \/ \E t \in Ttys : OpenStandard(t) \/ OpenSmart(t) \/ PollTick(t) \/ Type(t) \/ CloseTerminal(t) \/ PickPort(t) \/ ProfileSaved(t)
  \/ \E t \in Ttys : RemoveProfile(t) \/ DisconnectTerminal(t)
  \/ \E a \in got : ListAnswered(a) \/ OpenAnswered(a) \/ WriteAnswered(a)
SerialSpec == SerialInit /\ [][SerialNext]_serialVars

------------------------------------------------------------------------------

SerialTypeOK ==
  /\ \A t \in Ttys : tty[t].st \in {"none", "live", "disposed"} /\ tty[t].sid \in 0..MaxOpens
                       /\ tty[t].act \in Ports \cup {0} /\ tty[t].end \in {"no", "failed", "disconnected", "stopped"}
  /\ \A q \in sidecar.ports : q.path \in Ports

OnItsWay(s) ==
  \/ \E a \in got \cup Lines(wire.out) : a.kind = "open" /\ a.ok /\ a.val = s
  \/ \E r \in Lines(wire.in) : r.kind = "close" /\ r.arg = s

\* A port the sidecar holds is some terminal's, or is just being opened or
\* closed: none is blocked until the window is closed.
PortsKnown == \A q \in sidecar.ports : q.sid \in orphan \/ OnItsWay(q.sid) \/ \E t \in Ttys : tty[t].sid = q.sid

\* A smart terminal that has not been stopped has a session, is trying to get
\* one, or will look again.
NeverStuck ==
  \A t \in Ttys : TtyLive(t) /\ Smart(t) /\ tty[t].end = "no" => tty[t].sid # 0 \/ tty[t].at # "idle" \/ tty[t].poll

\* A terminal with an entry shows the port its session is on, one without holds no
\* path against the others, and once the extension is deactivated no sidecar is
\* started again.
ShowsItsPort ==
  /\ \A t \in Ttys, q \in sidecar.ports :
       TtyLive(t) /\ tty[t].listed /\ tty[t].sid = q.sid /\ tty[t].end = "no" => tty[t].act = q.path
  /\ \A t \in Ttys : ~tty[t].listed => tty[t].act = 0
  /\ tally.off => sidecar.up = "none"

SerialSound == SerialTypeOK /\ PortsKnown /\ NeverStuck /\ ShowsItsPort

\* The same of the ports that were opened after the request had timed out.
EveryPortKnown == \A q \in sidecar.ports : OnItsWay(q.sid) \/ \E t \in Ttys : tty[t].sid = q.sid

\* findSerialSessionHoldingPath() finds the terminal whose session holds a port.
HeldIsShown ==
  \A t \in Ttys, q \in sidecar.ports : TtyLive(t) /\ tty[t].sid = q.sid /\ tty[t].end = "no" => tty[t].act = q.path

\* A profile that was removed stays removed.
RemovedStays == [][\A t \in Ttys : ~tty[t].prof => ~tty'[t].prof]_serialVars

\* "connected" is shown only of a terminal that has a session.
StatusHonest == \A t \in Ttys : TtyLive(t) /\ Smart(t) /\ tty[t].shown = "connected" /\ tty[t].at # "saving" => tty[t].sid # 0
==============================================================================
