---------------------------- MODULE SessionProofs ----------------------------
(* Theorems about what belongs to a session: its SSH terminal, its script and *)
(* its transcript, and the sessions of local servers and shells.              *)
EXTENDS SshTerminal, ScriptRuntime, LocalProcesses, SessionTranscript, FiniteSetTheorems, SequenceTheorems,
        WellFoundedInduction, TLAPS

------------------------------------------------------------------------------
(* SshTerminal                                                                *)

\* A call of start() is the one of the current generation, and while there is
\* one there is no connection yet; a terminal that reconnects has its start()
\* under way.
StartIsCurrent ==
  /\ start.stage = "none" <=> start.gen = 0
  /\ start.gen # 0 => start.gen = term.gen /\ term.conn = 0
  /\ start.gen # 0 /\ ~term.reconnecting => ~term.disconnected \/ term.shutting
  /\ term.reconnecting => start.gen # 0

\* A connected terminal has the connection of its generation and is not marked
\* disconnected; one that never connected has nothing under way.
ConnIsCurrent ==
  /\ term.conn # 0 => term.conn = term.gen /\ ~term.disconnected
  /\ term.failed => term.conn = 0 /\ start.gen = 0

TermInv == TerminalHonest /\ StartIsCurrent /\ ConnIsCurrent

\* The core's answer stays a Boolean.
LEMMA ListedType == TermTypeOK /\ [TermNext]_termVars => listed' \in BOOLEAN
BY Zenon DEF TermTypeOK, TermNext, termVars, PrimaryFails, AlternateFails, StartFails, Connects, ShellFails, ShellOpens,
   Ends, HandleDisconnect, Dispose, PressR, PressEnter, ShutDown

LEMMA NoStartType == NoStart \in StartCalls /\ 0 \in 0..MaxGenerations
BY TerminalAssumption DEF NoStart, StartCalls

\* The state stays well typed.
LEMMA TermTypeStep == TermTypeOK /\ StartIsCurrent /\ [TermNext]_termVars => TermTypeOK'
<1> SUFFICES ASSUME TermTypeOK, StartIsCurrent, [TermNext]_termVars PROVE TermTypeOK'
  OBVIOUS
<1>0. listed' \in BOOLEAN
  BY ListedType
<1>00. /\ start.stage # "none" => start.gen \in Generations
       /\ Generations \subseteq 0..MaxGenerations
  BY TerminalAssumption DEF TermTypeOK, StartIsCurrent, StartCalls, Generations
<1>1. ASSUME StartFails(ssh) PROVE TermTypeOK'
  <2>1. term' \in Terminals
    BY <1>1 DEF StartFails, TermTypeOK, Terminals
  <2>2. start' \in StartCalls
    BY <1>1, NoStartType DEF StartFails, TermTypeOK, StartCalls
  <2>3. ssh' \in [Generations -> {"none", "open", "disposed", "ended"}]
    BY <1>1 DEF StartFails, TermTypeOK, Disposed
  <2> QED
    BY <1>0, <2>1, <2>2, <2>3 DEF TermTypeOK
<1>2. CASE start.stage = "primary" /\ start' = [start EXCEPT !.stage = "alternate"] /\ UNCHANGED <<term, ssh, listed>>
  BY <1>0, <1>2 DEF TermTypeOK, StartCalls
<1>3. CASE Connects
  <2> start.stage # "none"
    BY <1>3 DEF Connects
  <2>1. term' \in Terminals
    BY <1>3 DEF Connects, TermTypeOK, Terminals
  <2>2. start' \in StartCalls
    BY <1>3, NoStartType DEF Connects, TermTypeOK, StartCalls
  <2>3. ssh' \in [Generations -> {"none", "open", "disposed", "ended"}]
    BY <1>00, <1>3 DEF Connects, TermTypeOK
  <2> QED
    BY <1>0, <2>1, <2>2, <2>3 DEF TermTypeOK
<1>4. CASE ShellOpens
  <2>1. term' \in Terminals
    BY <1>4, <1>00 DEF ShellOpens, TermTypeOK, Terminals
  <2>2. start' \in StartCalls
    BY <1>4, <1>00, NoStartType DEF ShellOpens, TermTypeOK, StartCalls
  <2>3. ssh' \in [Generations -> {"none", "open", "disposed", "ended"}]
    BY <1>4, <1>00 DEF ShellOpens, TermTypeOK, Disposed
  <2> QED
    BY <1>0, <2>1, <2>2, <2>3 DEF TermTypeOK
<1>5. ASSUME NEW g \in Generations, Ends(g) PROVE TermTypeOK'
  BY <1>5, NoStartType, <1>0 DEF Ends, HandleDisconnect, TermTypeOK, Terminals, StartCalls, Disposed
<1>6. CASE Dispose
  BY <1>6, NoStartType, <1>0 DEF Dispose, TermTypeOK, Terminals, StartCalls, Disposed
<1>7. CASE PressR
  <2>0. term.gen + 1 \in Generations /\ term.gen + 1 \in 0..MaxGenerations
    BY <1>7, TerminalAssumption DEF PressR, TermTypeOK, Terminals, Generations
  <2>1. term' \in Terminals
    BY <1>7, <2>0 DEF PressR, TermTypeOK, Terminals
  <2>2. start' \in StartCalls
    BY <1>7, <2>0 DEF PressR, Starting, StartCalls
  <2> QED
    BY <1>0, <1>7, <2>1, <2>2 DEF PressR, TermTypeOK
<1>8. CASE ShutDown
  BY <1>8, NoStartType, <1>0 DEF ShutDown, TermTypeOK, Terminals, StartCalls, Disposed
<1>9. CASE UNCHANGED termVars
  BY <1>9 DEF termVars, TermTypeOK
<1> QED
  BY <1>1, <1>2, <1>3, <1>4, <1>5, <1>6, <1>7, <1>8, <1>9
  DEF TermNext, PrimaryFails, AlternateFails, ShellFails, PressEnter

LEMMA TermInitial == TermInit => TermInv
<1> SUFFICES ASSUME TermInit PROVE TermInv
  OBVIOUS
<1>1. listed \in BOOLEAN
  BY Zenon DEF TermInit
<1> QED
  BY <1>1, TerminalAssumption DEF TermInit, TermInv, TerminalHonest, Terminals, StartCalls, TermTypeOK, StartIsCurrent,
     ConnIsCurrent, OpenIsUsed, ClosedHoldsNothing, ListedWhileConnected, Generations, Starting, NoStart

\* The catch block of start(), wherever start() was.
LEMMA StartFailsStep ==
  ASSUME TermInv, start.gen # 0, StartFails(ssh), TermTypeOK'
  PROVE  TermInv'
<1>0. TermTypeOK'
  OBVIOUS
<1> USE TerminalAssumption DEF Terminals, StartCalls, TermTypeOK, StartIsCurrent, ConnIsCurrent, OpenIsUsed,
        ClosedHoldsNothing, ListedWhileConnected, Generations, NoStart, Disposed
<1>1. CASE term.disposed \/ term.shutting
  BY <1>1, <1>0 DEF StartFails, TermInv, TerminalHonest
<1>2. CASE ~term.disposed /\ ~term.shutting /\ term.reconnecting
  <2>1. StartIsCurrent'
    BY <1>2 DEF StartFails, TermInv, TerminalHonest
  <2>2. ConnIsCurrent'
    BY <1>2 DEF StartFails, TermInv, TerminalHonest
  <2>3. OpenIsUsed'
    BY <1>2 DEF StartFails, TermInv, TerminalHonest
  <2>4. ClosedHoldsNothing'
    BY <1>2 DEF StartFails, TermInv, TerminalHonest
  <2>5. ListedWhileConnected'
    BY <1>2 DEF StartFails, TermInv, TerminalHonest
  <2> HIDE DEF TermTypeOK, StartIsCurrent, ConnIsCurrent, OpenIsUsed, ClosedHoldsNothing, ListedWhileConnected
  <2> QED
    BY <1>0, <2>1, <2>2, <2>3, <2>4, <2>5 DEF TermInv, TerminalHonest
<1>3. CASE ~term.disposed /\ ~term.shutting /\ ~term.reconnecting
  BY <1>3, <1>0 DEF StartFails, TermInv, TerminalHonest
<1> QED
  BY <1>1, <1>2, <1>3

\* Every action keeps the invariant.
LEMMA TermStep == TermInv /\ [TermNext]_termVars => TermInv'
<1> SUFFICES ASSUME TermInv, [TermNext]_termVars PROVE TermInv'
  OBVIOUS
<1>0. TermTypeOK'
  BY TermTypeStep DEF TermInv, TerminalHonest
<1>00. /\ TermTypeOK /\ StartIsCurrent
       /\ start.stage # "none" => start.gen \in Generations
  BY TerminalAssumption DEF TermInv, TerminalHonest, TermTypeOK, StartCalls, StartIsCurrent, Generations
<1> USE TerminalAssumption DEF Terminals, StartCalls, TermTypeOK, StartIsCurrent, ConnIsCurrent, OpenIsUsed,
        ClosedHoldsNothing, ListedWhileConnected, Generations, NoStart, Disposed
<1>1. CASE PrimaryFails
  BY <1>0, <1>00, <1>1, StartFailsStep DEF PrimaryFails, TermInv, TerminalHonest
<1>2. CASE AlternateFails
  BY <1>0, <1>00, <1>2, StartFailsStep DEF AlternateFails
<1>3. CASE Connects
  BY <1>00, <1>3, <1>0 DEF Connects, Superseded, TermInv, TerminalHonest
<1>4. CASE ShellFails
  BY <1>0, <1>00, <1>4, StartFailsStep DEF ShellFails
<1>5. CASE ShellOpens
  <2>0. /\ start.gen \in Generations /\ start.gen = term.gen /\ term.conn = 0 /\ start' = NoStart
        /\ \A g \in Generations : ssh[g] = "open" => g = start.gen
    BY <1>00, <1>5 DEF ShellOpens, TermInv, TerminalHonest
  <2>1. CASE Superseded(start.gen)
    <3>1. StartIsCurrent'
      BY <1>00, <1>5, <2>1 DEF ShellOpens, Superseded, TermInv, TerminalHonest
    <3>2. ConnIsCurrent'
      BY <1>00, <1>5, <2>1 DEF ShellOpens, Superseded, TermInv, TerminalHonest
    <3>3. OpenIsUsed'
      BY <1>00, <1>5, <2>1 DEF ShellOpens, Superseded, TermInv, TerminalHonest
    <3>4. ClosedHoldsNothing'
      <4>1. \A g \in Generations : ssh'[g] # "open"
        BY <1>00, <1>5, <2>0, <2>1 DEF ShellOpens
      <4>2. (term.disposed => ~listed)'
        BY <1>5, <2>1 DEF ShellOpens, TermInv, TerminalHonest
      <4> QED
        BY <4>1, <4>2
    <3>5. ListedWhileConnected'
      BY <1>00, <1>5, <2>1 DEF ShellOpens, Superseded, TermInv, TerminalHonest
    <3> HIDE DEF TermTypeOK, StartIsCurrent, ConnIsCurrent, OpenIsUsed, ClosedHoldsNothing, ListedWhileConnected
    <3> QED
      BY <1>0, <3>1, <3>2, <3>3, <3>4, <3>5 DEF TermInv, TerminalHonest
  <2>2. CASE ~Superseded(start.gen)
    <3>1. StartIsCurrent'
      BY <1>00, <1>5, <2>2 DEF ShellOpens, Superseded, TermInv, TerminalHonest
    <3>2. ConnIsCurrent'
      BY <1>5, <2>2, <1>00, <2>0 DEF ShellOpens, TermTypeOK, Terminals, TermInv, ConnIsCurrent
    <3>3. OpenIsUsed'
      BY <1>00, <1>5, <2>0, <2>2 DEF ShellOpens
    <3>4. ClosedHoldsNothing'
      BY <1>00, <1>5, <2>2 DEF ShellOpens, Superseded, TermInv, TerminalHonest
    <3>5. ListedWhileConnected'
      BY <1>00, <1>5, <2>2 DEF ShellOpens, Superseded, TermInv, TerminalHonest
    <3> HIDE DEF TermTypeOK, StartIsCurrent, ConnIsCurrent, OpenIsUsed, ClosedHoldsNothing, ListedWhileConnected
    <3> QED
      BY <1>0, <3>1, <3>2, <3>3, <3>4, <3>5 DEF TermInv, TerminalHonest
  <2> QED
    BY <2>1, <2>2
<1>6. ASSUME NEW g \in Generations, Ends(g) PROVE TermInv'
  <2> DEFINE c == [ssh EXCEPT ![g] = "ended"]
  <2>1. CASE UNCHANGED <<term, listed>> /\ ssh' = c /\ g # term.conn
    BY <1>00, <1>6, <2>1, <1>0 DEF Ends, TermInv, TerminalHonest
  <2>2. CASE UNCHANGED <<term, listed>> /\ ssh' = c /\ g = term.conn /\ term.disposed
    BY <1>00, <1>6, <2>2, <1>0 DEF Ends, TermInv, TerminalHonest
  <2>3. CASE /\ ~term.disposed /\ ~term.disconnected /\ g = term.gen /\ g # start.gen
             /\ term' = [term EXCEPT !.disconnected = TRUE, !.conn = 0]
             /\ ssh' = Disposed(c, term.conn) /\ listed' = FALSE
    BY <1>00, <1>6, <2>3, <1>0 DEF Ends, TermInv, TerminalHonest
  <2>4. g # 0 /\ ConnIsCurrent
    BY <1>6 DEF TermInv
  <2>5. CASE g = start.gen
    BY <1>00, <1>6, <2>1, <2>4, <2>5 DEF Ends
  <2>6. CASE g # start.gen
    BY <1>00, <1>6, <2>1, <2>2, <2>3, <2>4, <2>6 DEF Ends, HandleDisconnect
  <2> QED
    BY <2>5, <2>6
<1>7. CASE Dispose
  BY <1>00, <1>7, <1>0 DEF Dispose, TermInv, TerminalHonest
<1>8. CASE PressR
  BY <1>00, <1>8, <1>0 DEF PressR, Starting, TermInv, TerminalHonest
<1>9. CASE PressEnter
  BY <1>7, <1>9 DEF PressEnter
<1>10. CASE ShutDown
  BY <1>00, <1>10, <1>0 DEF ShutDown, TermInv, TerminalHonest
<1>11. CASE UNCHANGED termVars
  BY <1>00, <1>11, <1>0 DEF termVars, TermInv, TerminalHonest
<1> HIDE DEF TermTypeOK, StartIsCurrent, ConnIsCurrent, OpenIsUsed, ClosedHoldsNothing, ListedWhileConnected
<1> QED
  BY <1>1, <1>2, <1>3, <1>4, <1>5, <1>6, <1>7, <1>8, <1>9, <1>10, <1>11 DEF TermNext

\* However close, shutdown, reconnects and late events cross, and for any
\* number of reconnects: no connection outlives its use, and the core lists the
\* session exactly while it has one.
THEOREM TerminalIsHonest == TermSpec => []TerminalHonest
<1>1. TermInv => TerminalHonest
  BY DEF TermInv
<1> QED
  BY <1>1, TermInitial, TermStep, PTL DEF TermSpec

------------------------------------------------------------------------------
(* ScriptRuntime                                                              *)

FiltersOnce(m) == \A i, j \in DOMAIN m.filters : m.filters[i] = m.filters[j] => i = j
FiltersOfLive(m) == {m.filters[i] : i \in DOMAIN m.filters} = {r \in ScriptCalls : Live(m, r)}
BlockedByLive(m) == m.blocked => \E r \in ScriptCalls : Live(m, r) /\ m.lock[r]
OneRun(m) ==
  ~m.doubled => \A r \in ScriptCalls : Live(m, r) => m.slot = r /\ (m.lock[r] => m.blocked)

\* What every operator of the manager keeps, its events apart.
ManagerSound(m) ==
  /\ m \in Managers
  /\ FiltersOnce(m) /\ FiltersOfLive(m)
  /\ BlockedByLive(m) /\ OneRun(m)

\* A run is watched, or somebody is stopping it.
Watched(m, stops) ==
  ~m.doubled => \A r \in ScriptCalls : Live(m, r) => m.watchdog \/ \E s \in Stoppers : stops[s] = r

\* A call that has not come to its run has left nothing, and it stops another
\* run only while it says so.
CallsFresh ==
  /\ \A c \in ScriptCalls : call[c] # "over" => mgr.state[c] = "none"
  /\ \A c \in ScriptCalls : stopping[c] # NoRun => call[c] = "stopping"

ScriptInv == ScriptTypeOK /\ ManagerSound(mgr) /\ Watched(mgr, stopping) /\ CallsFresh

\* What dispose() of a filter leaves on the stack.
LEMMA PoppedStack ==
  ASSUME NEW s \in Seq(ScriptCalls), NEW r \in ScriptCalls,
         \A i, j \in DOMAIN s : s[i] = s[j] => i = j,
         r \in {s[i] : i \in DOMAIN s}
  PROVE  /\ PopFilter(s, r) \in Seq(ScriptCalls)
         /\ \A i, j \in DOMAIN PopFilter(s, r) : PopFilter(s, r)[i] = PopFilter(s, r)[j] => i = j
         /\ {PopFilter(s, r)[i] : i \in DOMAIN PopFilter(s, r)} = {s[i] : i \in DOMAIN s} \ {r}
<1> DEFINE t == PopFilter(s, r)
<1>1. PICK n \in Nat : n = Len(s) /\ DOMAIN s = 1..n
  OBVIOUS
<1>2. PICK p \in 1..n : p = (CHOOSE i \in DOMAIN s : s[i] = r) /\ s[p] = r
  BY <1>1
<1>3. t = [i \in 1..(n - 1) |-> IF i < p THEN s[i] ELSE s[i + 1]]
  BY <1>1, <1>2 DEF PopFilter
<1> DEFINE At == [i \in 1..(n - 1) |-> IF i < p THEN i ELSE i + 1]
<1>4. DOMAIN t = 1..(n - 1) /\ \A i \in 1..(n - 1) : t[i] = s[At[i]]
  BY <1>3
<1>0. \A i \in 1..(n - 1) : At[i] = IF i < p THEN i ELSE i + 1
  OBVIOUS
<1>5. t \in Seq(ScriptCalls)
  BY <1>1, <1>2, <1>3, IsASeq
<1> HIDE DEF t
<1>6. /\ \A i \in 1..(n - 1) : At[i] \in 1..n /\ At[i] # p
      /\ \A i, j \in 1..(n - 1) : At[i] = At[j] => i = j
      /\ \A k \in 1..n : k # p => \E i \in 1..(n - 1) : At[i] = k
  <2> HIDE DEF At
  <2>0. p \in Int /\ 1 <= p /\ p <= n /\ \A i \in 1..(n - 1) : i \in Int /\ 1 <= i /\ i <= n - 1
    BY <1>2
  <2>a. \A i \in 1..(n - 1) : (i < p /\ At[i] = i) \/ (~(i < p) /\ At[i] = i + 1)
    BY <1>0
  <2>1. ASSUME NEW i \in 1..(n - 1) PROVE At[i] \in 1..n /\ At[i] # p
    BY <2>0, <2>a
  <2>2. ASSUME NEW i \in 1..(n - 1), NEW j \in 1..(n - 1), At[i] = At[j] PROVE i = j
    BY <2>0, <2>a, <2>2
  <2>3. ASSUME NEW k \in 1..n, k # p PROVE \E i \in 1..(n - 1) : At[i] = k
    <3>1. CASE k < p
      BY <1>0, <1>1, <1>2, <3>1
    <3>2. CASE k > p
      <4>1. k - 1 \in 1..(n - 1) /\ ~(k - 1 < p) /\ k - 1 + 1 = k
        BY <2>0, <3>2
      <4>2. At[k - 1] = k
        BY <2>a, <4>1
      <4> QED
        BY <4>1, <4>2
    <3>3. k < p \/ k > p
      BY <1>0, <1>1, <1>2, <2>3
    <3> QED
      BY <3>1, <3>2, <3>3
  <2> QED
    BY <2>1, <2>2, <2>3
<1> HIDE DEF At
<1>7. \A i, j \in DOMAIN t : t[i] = t[j] => i = j
  BY SMTT(30), <1>1, <1>4, <1>6
<1>8. ASSUME NEW i \in DOMAIN t PROVE t[i] \in {s[k] : k \in DOMAIN s} \ {r}
  BY <1>1, <1>2, <1>4, <1>6, <1>8
<1>9. ASSUME NEW d \in {s[k] : k \in DOMAIN s} \ {r} PROVE d \in {t[i] : i \in DOMAIN t}
  <2>1. PICK k \in 1..n : s[k] = d /\ k # p
    BY <1>1, <1>2, <1>9
  <2>2. PICK i \in 1..(n - 1) : At[i] = k
    BY <1>6, <2>1
  <2> QED
    BY <1>4, <2>1, <2>2
<1>10. {t[i] : i \in DOMAIN t} = {s[k] : k \in DOMAIN s} \ {r}
  BY <1>8, <1>9
<1> QED
  BY <1>5, <1>7, <1>10 DEF t

\* cleanupRun() keeps the manager sound; afterwards the record is over.
LEMMA CleanupKeeps ==
  ASSUME NEW m, ManagerSound(m), NEW r \in ScriptCalls, NEW final \in FinalStates
  PROVE  LET n == CleanupRun(m, r, final)
         IN /\ ManagerSound(n)
            /\ ~Live(n, r)
            /\ \A c \in ScriptCalls : c # r => n.state[c] = m.state[c]
            /\ m.state[r] = "none" => n.state[r] = "none"
            /\ n.doubled = m.doubled
            /\ ~m.doubled /\ Live(m, r) => \A c \in ScriptCalls : ~Live(n, c)
            /\ ~Live(m, r) => n = m
<1>1. CASE ~Live(m, r)
  BY <1>1 DEF CleanupRun
<1>2. CASE Live(m, r)
  <2> DEFINE n == CleanupRun(m, r, final)
  <2> DEFINE left == PopFilter(m.filters, r)
  <2>1. /\ m \in Managers /\ FiltersOnce(m) /\ FiltersOfLive(m) /\ BlockedByLive(m) /\ OneRun(m)
        /\ m.filters \in Seq(ScriptCalls)
    BY DEF ManagerSound, Managers
  <2>2. /\ left \in Seq(ScriptCalls)
        /\ \A i, j \in DOMAIN left : left[i] = left[j] => i = j
        /\ {left[i] : i \in DOMAIN left} = {m.filters[i] : i \in DOMAIN m.filters} \ {r}
    BY <1>2, <2>1, PoppedStack DEF FiltersOnce, FiltersOfLive
  <2> HIDE DEF left
  <2>3. n = [m EXCEPT !.state[r] = final, !.filters = left, !.blocked = m.blocked /\ ~m.lock[r],
                      !.lock[r] = FALSE, !.watchdog = FALSE, !.slot = NoRun]
    BY <1>2 DEF CleanupRun, left
  <2> HIDE DEF n
  <2>4. /\ n.state = [m.state EXCEPT ![r] = final] /\ n.filters = left
        /\ n.blocked = (m.blocked /\ ~m.lock[r])
        /\ n.lock = [m.lock EXCEPT ![r] = FALSE] /\ n.watchdog = FALSE /\ n.slot = NoRun
        /\ n.doubled = m.doubled /\ n.lost = m.lost
    BY <2>1, <2>3 DEF Managers
  <2>5. final # "running" /\ final \in FinalStates
    BY DEF FinalStates
  <2>6. /\ m.state \in [ScriptCalls -> {"none", "running"} \cup FinalStates]
        /\ m.lock \in [ScriptCalls -> BOOLEAN]
    BY <2>1 DEF Managers
  <2>7. /\ ~Live(n, r)
        /\ \A c \in ScriptCalls : c # r => n.state[c] = m.state[c] /\ n.lock[c] = m.lock[c]
    BY <2>4, <2>5, <2>6 DEF Live
  <2>8. n \in Managers
    BY <2>2, <2>5, <2>6, <2>1, <2>3 DEF Managers
  <2>9. FiltersOnce(n)
    BY <2>2, <2>4 DEF FiltersOnce
  <2>10. FiltersOfLive(n)
    <3>1. {c \in ScriptCalls : Live(n, c)} = {c \in ScriptCalls : Live(m, c)} \ {r}
      BY <2>7 DEF Live
    <3>2. {left[i] : i \in DOMAIN left} = {c \in ScriptCalls : Live(m, c)} \ {r}
      BY <2>1, <2>2 DEF FiltersOfLive
    <3> QED
      BY <2>4, <3>1, <3>2 DEF FiltersOfLive
  <2>11. BlockedByLive(n)
    BY <2>4, <2>1, <2>7 DEF BlockedByLive, Live
  <2>12. ASSUME ~m.doubled, NEW c \in ScriptCalls PROVE ~Live(n, c)
    BY <1>2, <2>1, <2>12, <2>7 DEF OneRun, Live
  <2>13. OneRun(n)
    BY <2>4, <2>12 DEF OneRun
  <2>14. ManagerSound(n)
    BY <2>8, <2>9, <2>10, <2>11, <2>13 DEF ManagerSound
  <2>15. m.state[r] # "none"
    BY <1>2 DEF Live
  <2> QED
    BY <1>2, <2>4, <2>7, <2>12, <2>14, <2>15 DEF n
<1> QED
  BY <1>1, <1>2

\* A run that starts is the only one, unless it overtook another.
LEMMA StartKeeps ==
  ASSUME NEW m, ManagerSound(m), NEW c \in ScriptCalls, m.state[c] = "none", NEW locks \in BOOLEAN
  PROVE  LET n == StartRun(m, c, locks)
         IN /\ ManagerSound(n)
            /\ n.watchdog
            /\ \A r \in ScriptCalls : r # c => n.state[r] = m.state[r]
<1> DEFINE n == StartRun(m, c, locks)
<1> DEFINE pushed == Append(m.filters, c)
<1>1. /\ m \in Managers /\ FiltersOnce(m) /\ FiltersOfLive(m) /\ BlockedByLive(m) /\ OneRun(m)
      /\ m.filters \in Seq(ScriptCalls)
      /\ m.state \in [ScriptCalls -> {"none", "running"} \cup FinalStates]
      /\ m.lock \in [ScriptCalls -> BOOLEAN] /\ m.blocked \in BOOLEAN /\ m.doubled \in BOOLEAN
  BY DEF ManagerSound, Managers
<1>2. PICK meets \in BOOLEAN : meets = (\E r \in ScriptCalls : Live(m, r))
  OBVIOUS
<1>3. c \notin {m.filters[i] : i \in DOMAIN m.filters}
  BY <1>1 DEF FiltersOfLive, Live
<1>4. /\ pushed \in Seq(ScriptCalls)
      /\ \A i, j \in DOMAIN pushed : pushed[i] = pushed[j] => i = j
      /\ {pushed[i] : i \in DOMAIN pushed} = {m.filters[i] : i \in DOMAIN m.filters} \cup {c}
  BY <1>1, AppendProperties, <1>3 DEF FiltersOnce
<1> HIDE DEF pushed
<1>5. n = [m EXCEPT !.slot = c, !.state[c] = "running", !.lock[c] = locks, !.blocked = m.blocked \/ locks,
                    !.filters = pushed, !.watchdog = TRUE, !.doubled = m.doubled \/ meets]
  BY <1>2 DEF StartRun, pushed
<1> HIDE DEF n
<1>6. /\ n.slot = c /\ n.state = [m.state EXCEPT ![c] = "running"] /\ n.lock = [m.lock EXCEPT ![c] = locks]
      /\ n.blocked = (m.blocked \/ locks) /\ n.filters = pushed /\ n.watchdog = TRUE
      /\ n.doubled = (m.doubled \/ meets)
  BY <1>1, <1>5 DEF Managers
<1>7. /\ Live(n, c) /\ n.lock[c] = locks
      /\ \A r \in ScriptCalls : r # c => n.state[r] = m.state[r] /\ n.lock[r] = m.lock[r]
  BY <1>1, <1>6 DEF Live
<1>8. n \in Managers
  BY <1>1, <1>4, <1>5 DEF Managers
<1>9. FiltersOnce(n)
  BY <1>4, <1>6 DEF FiltersOnce
<1>10. FiltersOfLive(n)
  <2>1. {r \in ScriptCalls : Live(n, r)} = {r \in ScriptCalls : Live(m, r)} \cup {c}
    BY <1>7 DEF Live
  <2>2. {pushed[i] : i \in DOMAIN pushed} = {r \in ScriptCalls : Live(m, r)} \cup {c}
    BY <1>1, <1>4 DEF FiltersOfLive
  <2> QED
    BY <1>6, <2>1, <2>2 DEF FiltersOfLive
<1>11. BlockedByLive(n)
  BY <1>7, <1>1, <1>6 DEF BlockedByLive, Live
<1>12. OneRun(n)
  <2> SUFFICES ASSUME ~n.doubled, NEW r \in ScriptCalls, Live(n, r)
               PROVE  n.slot = r /\ (n.lock[r] => n.blocked)
    BY DEF OneRun
  <2>1. r = c
    BY <1>2, <1>6, <1>7 DEF Live
  <2> QED
    BY <1>6, <1>7, <2>1
<1>13. ManagerSound(n)
  BY <1>8, <1>9, <1>10, <1>11, <1>12 DEF ManagerSound
<1> QED
  BY <1>6, <1>7, <1>13 DEF n

LEMMA ScriptInitial == ScriptInit => ScriptInv
<1> SUFFICES ASSUME ScriptInit PROVE ScriptInv
  OBVIOUS
<1>1. /\ mgr.state = [c \in ScriptCalls |-> "none"] /\ mgr.filters = << >> /\ mgr.blocked = FALSE
      /\ \A r \in ScriptCalls : ~Live(mgr, r)
  BY DEF ScriptInit, Live
<1>2. mgr \in Managers
  BY DEF ScriptInit, Managers
<1>3. ScriptTypeOK
  BY <1>2 DEF ScriptInit, ScriptTypeOK
<1>4. FiltersOnce(mgr) /\ FiltersOfLive(mgr)
  BY <1>1 DEF FiltersOnce, FiltersOfLive
<1>5. BlockedByLive(mgr) /\ OneRun(mgr) /\ Watched(mgr, stopping)
  BY <1>1 DEF BlockedByLive, OneRun, Watched
<1>6. CallsFresh
  BY <1>1 DEF ScriptInit, CallsFresh, Stoppers
<1> QED
  BY <1>2, <1>3, <1>4, <1>5, <1>6 DEF ScriptInv, ManagerSound

\* What a step must show when the runs stay as they are.
LEMMA SameRuns ==
  ASSUME ManagerSound(mgr),
         mgr' \in Managers, mgr'.state = mgr.state, mgr'.filters = mgr.filters, mgr'.lock = mgr.lock,
         mgr'.blocked = mgr.blocked, mgr'.slot = mgr.slot, mgr'.doubled = mgr.doubled
  PROVE  ManagerSound(mgr')
BY DEF ManagerSound, FiltersOnce, FiltersOfLive, BlockedByLive, OneRun, Live

\* stopScript() begins.
LEMMA BeginStopKeeps ==
  ASSUME ScriptInv, NEW s \in Stoppers, BeginStop(s)
  PROVE  /\ mgr' \in Managers /\ ManagerSound(mgr') /\ Watched(mgr', stopping')
         /\ stopping' \in [Stoppers -> ScriptCalls \cup {NoRun}]
         /\ worker' \in [ScriptCalls -> {"none", "alive", "dying", "dead"}]
         /\ mgr'.state = mgr.state
         /\ \A o \in Stoppers : o # s => stopping'[o] = stopping[o]
<1> PICK kept \in BOOLEAN : kept = (mgr.watchdog /\ s # "watchdog")
  OBVIOUS
<1>1. /\ mgr \in Managers /\ ManagerSound(mgr)
      /\ stopping \in [Stoppers -> ScriptCalls \cup {NoRun}]
      /\ worker \in [ScriptCalls -> {"none", "alive", "dying", "dead"}]
      /\ mgr.slot \in ScriptCalls
  BY DEF ScriptInv, ScriptTypeOK, BeginStop, Managers
<1>2. /\ mgr' = [mgr EXCEPT !.watchdog = kept]
      /\ stopping' = [stopping EXCEPT ![s] = mgr.slot]
      /\ stopping[s] = NoRun /\ mgr.slot # NoRun
  BY DEF BeginStop
<1>3. mgr' \in Managers
  BY <1>1, <1>2 DEF Managers
<1>4. /\ mgr'.state = mgr.state /\ mgr'.filters = mgr.filters /\ mgr'.lock = mgr.lock
      /\ mgr'.blocked = mgr.blocked /\ mgr'.slot = mgr.slot /\ mgr'.doubled = mgr.doubled
  BY <1>1, <1>2 DEF Managers
<1>5. stopping'[s] = mgr.slot /\ \A o \in Stoppers : o # s => stopping'[o] = stopping[o]
  BY <1>1, <1>2
<1>6. Watched(mgr', stopping')
  BY <1>1, <1>4, <1>5 DEF Watched, Live, ManagerSound, OneRun
<1>7. worker' \in [ScriptCalls -> {"none", "alive", "dying", "dead"}]
  BY <1>1 DEF BeginStop, Kill
<1>8. stopping' \in [Stoppers -> ScriptCalls \cup {NoRun}]
  BY <1>1, <1>2
<1>9. ManagerSound(mgr')
  BY <1>1, <1>3, <1>4, SameRuns
<1> QED
  BY <1>3, <1>4, <1>5, <1>6, <1>7, <1>8, <1>9

\* A run that ended is missed by nobody.
LEMMA CleanupWatched ==
  ASSUME NEW m, ManagerSound(m), NEW stops, Watched(m, stops), NEW r \in ScriptCalls, NEW final \in FinalStates
  PROVE  Watched(CleanupRun(m, r, final), stops)
BY CleanupKeeps DEF Watched

LEMMA Finals == "finished" \in FinalStates /\ "stopped" \in FinalStates
BY DEF FinalStates

LEMMA ScriptStep == ScriptInv /\ [ScriptNext]_scriptVars => ScriptInv'
<1> SUFFICES ASSUME ScriptInv, [ScriptNext]_scriptVars PROVE ScriptInv'
  OBVIOUS
<1>0. /\ mgr \in Managers /\ ManagerSound(mgr) /\ Watched(mgr, stopping)
      /\ call \in [ScriptCalls -> {"idle", "asking", "stopping", "over"}]
      /\ stopping \in [Stoppers -> ScriptCalls \cup {NoRun}]
      /\ worker \in [ScriptCalls -> {"none", "alive", "dying", "dead"}]
      /\ grace \in SUBSET ScriptCalls /\ open \in BOOLEAN
      /\ \A c \in ScriptCalls : call[c] # "over" => mgr.state[c] = "none"
      /\ \A c \in ScriptCalls : stopping[c] # NoRun => call[c] = "stopping"
      /\ ScriptCalls \subseteq Stoppers
      /\ \A c \in ScriptCalls : c # "command" /\ c # "watchdog"
      /\ "command" \in Stoppers /\ "watchdog" \in Stoppers
  BY ScriptAssumption DEF ScriptInv, ScriptTypeOK, CallsFresh, Stoppers
\* A run starts for a call that waited for nothing.
<1>1. ASSUME NEW c \in ScriptCalls, NEW locks \in BOOLEAN, mgr' = StartRun(mgr, c, locks),
             call[c] # "over", call' = [call EXCEPT ![c] = "over"],
             worker' = [worker EXCEPT ![c] = "alive"], stopping[c] = NoRun,
             UNCHANGED <<stopping, grace, open>>
      PROVE  ScriptInv'
  BY <1>0, <1>1, StartKeeps DEF ManagerSound, ScriptTypeOK, Watched, CallsFresh, ScriptInv
<1>2. ASSUME NEW r \in ScriptCalls, mgr' = CleanupRun(mgr, r, "finished"),
             worker' \in [ScriptCalls -> {"none", "alive", "dying", "dead"}],
             grace' \in SUBSET ScriptCalls, UNCHANGED <<call, stopping, open>>
      PROVE  ScriptInv'
  <2>1. /\ ManagerSound(mgr')
        /\ \A c \in ScriptCalls : c # r => mgr'.state[c] = mgr.state[c]
        /\ mgr.state[r] = "none" => mgr'.state[r] = "none"
    BY <1>0, <1>2, CleanupKeeps, Finals
  <2>2. mgr' \in Managers
    BY <2>1 DEF ManagerSound
  <2>3. ScriptTypeOK'
    BY <1>0, <1>2, <2>2 DEF ScriptTypeOK
  <2>4. Watched(mgr', stopping')
    BY <1>0, <1>2, CleanupWatched, Finals
  <2>5. CallsFresh'
    BY <1>0, <1>2, <2>1 DEF CallsFresh
  <2> QED
    BY <2>1, <2>3, <2>4, <2>5 DEF ScriptInv
<1>3. ASSUME NEW c \in ScriptCalls, RunScript(c) PROVE ScriptInv'
  BY <1>3, <1>0, <1>1 DEF RunScript, ScriptTypeOK, CallsFresh, ScriptInv
<1>4. ASSUME NEW c \in ScriptCalls, Decline(c) PROVE ScriptInv'
  BY <1>4, <1>0 DEF Decline, ScriptTypeOK, CallsFresh, ScriptInv
<1>5. ASSUME NEW c \in ScriptCalls, Confirm(c) PROVE ScriptInv'
  BY <1>0, BeginStopKeeps, <1>5, <1>1 DEF Confirm, ScriptTypeOK, CallsFresh, ScriptInv
<1>6. ASSUME NEW s \in Stoppers, FinishStop(s) PROVE ScriptInv'
  <2> PICK r \in ScriptCalls : r = stopping[s]
    BY <1>0, <1>6 DEF FinishStop
  <2> DEFINE m == CleanupRun(mgr, r, "stopped")
  <2>1. /\ stopping' = [stopping EXCEPT ![s] = NoRun] /\ UNCHANGED <<grace, open>>
        /\ \/ /\ s \in ScriptCalls
              /\ \E locks \in BOOLEAN : mgr' = StartRun(m, s, locks)
              /\ call' = [call EXCEPT ![s] = "over"]
              /\ worker' = [worker EXCEPT ![s] = "alive"]
           \/ /\ s \notin ScriptCalls
              /\ mgr' = m
              /\ UNCHANGED <<call, worker>>
    BY <1>6 DEF FinishStop
  <2>2. /\ ManagerSound(m) /\ ~Live(m, r)
        /\ \A c \in ScriptCalls : c # r => m.state[c] = mgr.state[c]
        /\ mgr.state[r] = "none" => m.state[r] = "none"
    BY <1>0, CleanupKeeps, Finals
  <2>3. Watched(m, stopping)
    BY <1>0, CleanupWatched, Finals
  <2> HIDE DEF m
  <2>4. /\ stopping' \in [Stoppers -> ScriptCalls \cup {NoRun}] /\ stopping'[s] = NoRun
        /\ \A o \in Stoppers : o # s => stopping'[o] = stopping[o]
    BY <1>0, <2>1
  <2>5. Watched(m, stopping')
    BY <2>2, <2>3, <2>4 DEF Watched
  <2>6. \A c \in ScriptCalls : mgr.state[c] = "none" => m.state[c] = "none"
    BY <2>2
  <2>7. CASE s \in ScriptCalls
    <3>1. PICK locks \in BOOLEAN : mgr' = StartRun(m, s, locks)
      BY <2>1, <2>7
    <3>2. call' = [call EXCEPT ![s] = "over"] /\ worker' = [worker EXCEPT ![s] = "alive"]
      BY <2>1, <2>7
    <3>3. call[s] = "stopping"
      BY <1>0, <1>6, <2>7 DEF FinishStop
    <3>4. m.state[s] = "none"
      BY <1>0, <2>6, <2>7, <3>3
    <3>5. /\ ManagerSound(mgr') /\ mgr'.watchdog
          /\ \A c \in ScriptCalls : c # s => mgr'.state[c] = m.state[c]
      BY <2>2, <2>7, <3>1, <3>4, StartKeeps
    <3>6. mgr' \in Managers
      BY <3>5 DEF ManagerSound
    <3>7. ScriptTypeOK'
      BY <1>0, <2>1, <2>4, <2>7, <3>2, <3>6 DEF ScriptTypeOK
    <3>8. Watched(mgr', stopping')
      BY <3>5 DEF Watched
    <3>9. CallsFresh'
      BY <1>0, <2>4, <2>6, <2>7, <3>2, <3>5 DEF CallsFresh
    <3> QED
      BY <3>5, <3>7, <3>8, <3>9 DEF ScriptInv
  <2>8. CASE s \notin ScriptCalls
    BY <2>1, <2>8, <2>2, <1>0, <2>4, <2>6, <2>5 DEF ManagerSound, ScriptTypeOK, CallsFresh, ScriptInv
  <2> QED
    BY <2>7, <2>8
<1>7. ASSUME NEW s \in {"command", "watchdog"}, BeginStop(s), UNCHANGED <<call, grace, open>>
      PROVE  ScriptInv'
  BY <1>0, <1>7, BeginStopKeeps DEF ScriptTypeOK, CallsFresh, ScriptInv
<1>8. CASE StopCommand
  BY <1>7, <1>8 DEF StopCommand
<1>9. CASE Watchdog
  BY <1>7, <1>9 DEF Watchdog
<1>10. CASE CoreChanges
  <2> DEFINE told == [r \in ScriptCalls |-> mgr.lost[r] \/ r \in Signalled(mgr)]
  <2>1. /\ mgr' = [mgr EXCEPT !.lost = told] /\ open' = FALSE
        /\ grace' = grace \cup Signalled(mgr) /\ UNCHANGED <<call, stopping, worker>>
    BY <1>10 DEF CoreChanges, SignalLost
  <2>2. told \in [ScriptCalls -> BOOLEAN]
    BY <1>0 DEF Managers
  <2> HIDE DEF told
  <2>3. /\ mgr' \in Managers /\ mgr'.state = mgr.state /\ mgr'.filters = mgr.filters /\ mgr'.lock = mgr.lock
        /\ mgr'.blocked = mgr.blocked /\ mgr'.slot = mgr.slot /\ mgr'.doubled = mgr.doubled
        /\ mgr'.watchdog = mgr.watchdog
    BY <1>0, <2>1, <2>2 DEF Managers
  <2>4. ManagerSound(mgr')
    BY <1>0, <2>3, SameRuns
  <2>5. ScriptTypeOK'
    BY <1>0, <2>1, <2>3 DEF ScriptTypeOK, Signalled
  <2>6. Watched(mgr', stopping')
    BY <1>0, <2>1, <2>3 DEF Watched, Live
  <2>7. CallsFresh'
    BY <1>0, <2>1, <2>3 DEF CallsFresh
  <2> QED
    BY <2>4, <2>5, <2>6, <2>7 DEF ScriptInv
<1>11. ASSUME NEW r \in ScriptCalls, WorkerReports(r) PROVE ScriptInv'
  BY <1>0, <1>2, <1>11 DEF WorkerReports
<1>12. ASSUME NEW r \in ScriptCalls, WorkerExits(r) PROVE ScriptInv'
  BY <1>0, <1>12, <1>2 DEF WorkerExits
<1>13. ASSUME NEW r \in ScriptCalls, LostGrace(r) PROVE ScriptInv'
  BY <1>0, <1>13, <1>2 DEF LostGrace, Kill, ScriptTypeOK, CallsFresh, ScriptInv
<1>14. CASE UNCHANGED scriptVars
  BY <1>0, <1>14 DEF ScriptTypeOK, scriptVars, CallsFresh, ScriptInv
<1> QED
  BY <1>3, <1>4, <1>5, <1>6, <1>8, <1>9, <1>10, <1>11, <1>12, <1>13, <1>14 DEF ScriptNext

LEMMA ScriptSound == ScriptInv => NothingLeftBehind
BY DEF ScriptInv, ManagerSound, FiltersOfLive, BlockedByLive, OneRun, Watched, NothingLeftBehind

(* On any exit path of a script - it returns, throws, is stopped, loses its     *)
(* session, or its worker dies, in any order and overlap - its macro filter     *)
(* and its input lock go with it, and a run that goes on is watched           *)
(* (ScriptRuntimeManager.cleanupRun(), startScriptWatchdog()).                  *)
THEOREM NothingIsLeftBehind == ScriptSpec => []NothingLeftBehind
<1>1. ScriptInit => ScriptInv
  BY ScriptInitial
<1>2. ScriptInv /\ [ScriptNext]_scriptVars => ScriptInv'
  BY ScriptStep
<1>3. ScriptInv => NothingLeftBehind
  BY ScriptSound
<1> QED
  BY <1>1, <1>2, <1>3, PTL DEF ScriptSpec

------------------------------------------------------------------------------
(* Local servers and local shells                                             *)

\* A session whose process may be at work, now or later.
Young(x) == x.by # "none" /\ x.st \in {"idle", "spawning", "running"}

\* In getActiveSessionIdForConfig().
Acts(x) == x.shown /\ x.entry /\ ~x.stopping

\* What holds of every session, of servers or of shells, before and after the
\* extension is deactivated: a server that may be at work is active; whoever has
\* a record that the user did not end is, too; and whoever is being stopped has
\* been told to by the user and will not work again.
SessionSound(x, server, off) ==
  /\ x.by = "none" => x.terminal = "none" /\ x.st = "idle" /\ ~x.child /\ ~x.window /\ ~x.entry /\ ~x.shown
  /\ x.child => x.held /\ x.terminal # "closed"
  /\ x.listed = x.shown \/ off
  /\ x.entry => server /\ ~off
  /\ x.entry /\ ~x.user => x.shown /\ ~x.stopping
  /\ x.stopping => x.entry /\ x.user /\ ~Young(x)
  /\ x.grace => x.stopping
  /\ Young(x) => x.terminal \in {"open", "closing"}
  /\ Young(x) /\ server => Acts(x)
  /\ Young(x) /\ x.by = "script" => x.shown \/ x.terminal = "closing" \/ off

SessionsSound == \A s \in Sessions : SessionSound(ses[s], IsServer, desk.off)

\* A restart is pending only while no session is active, and one at most is.
DeskSound ==
  /\ \A s, t \in Sessions : Acts(ses[s]) /\ Acts(ses[t]) => s = t
  /\ desk.tries <= MaxAutoRestarts /\ desk.timers <= 1
  /\ desk.timers > 0 => IsServer /\ \A s \in Sessions : ~Acts(ses[s])

LocalInv == LocalTypeOK /\ SessionsSound /\ DeskSound

LEMMA LocalInitial == LocalInit => LocalInv
<1> SUFFICES ASSUME LocalInit PROVE LocalInv
  OBVIOUS
<1>1. NoSession \in LocalRecords /\ ~NoSession.shown /\ ~Acts(NoSession) /\ \A server, off \in BOOLEAN : SessionSound(NoSession, server, off)
  BY DEF NoSession, LocalRecords, SessionSound, Young, Acts
<1>2. ses = [s \in Sessions |-> NoSession] /\ desk \in Desks /\ desk.tries = 0 /\ desk.timers = 0
  <2>1. PICK k \in {"server", "shell"} : desk = [kind |-> k, known |-> TRUE, tries |-> 0, timers |-> 0, off |-> FALSE, row |-> 0]
    BY DEF LocalInit
  <2> QED
    BY <2>1 DEF LocalInit, Desks
<1>3. IsServer \in BOOLEAN /\ desk.off \in BOOLEAN
  BY <1>2 DEF IsServer, Desks
<1> QED
  BY <1>1, <1>2, <1>3, LocalAssumption DEF LocalInv, LocalTypeOK, SessionsSound, DeskSound

------------------------------------------------------------------------------
(* What the operations on a session do to its record                          *)

\* Two records of the same session agree on what the views and the manager know.
SameView(x, y) ==
  /\ y.by = x.by /\ y.entry = x.entry /\ y.user = x.user /\ y.stopping = x.stopping
  /\ y.shown = x.shown /\ y.listed = x.listed

LEMMA ClearTimersFacts ==
  ASSUME NEW x \in LocalRecords
  PROVE  LET y == ClearTimers(x)
         IN  /\ y \in LocalRecords /\ SameView(x, y) /\ ~y.grace /\ ~y.stable
             /\ y.st = x.st /\ y.terminal = x.terminal /\ y.child = x.child /\ y.held = x.held /\ y.window = x.window
BY DEF ClearTimers, LocalRecords, SameView

LEMMA CleanupFacts ==
  ASSUME NEW x \in LocalRecords
  PROVE  LET y == CleanupSession(x)
         IN  /\ y \in LocalRecords /\ y.by = x.by
             /\ ~y.entry /\ ~y.user /\ ~y.stopping /\ ~y.shown /\ ~y.listed /\ ~y.grace
             /\ y.st = x.st /\ y.terminal = x.terminal /\ y.child = x.child /\ y.held = x.held /\ y.window = x.window
<1> DEFINE c == ClearTimers(x)
<1>1. /\ c \in LocalRecords /\ c.by = x.by /\ ~c.grace
      /\ c.st = x.st /\ c.terminal = x.terminal /\ c.child = x.child /\ c.held = x.held /\ c.window = x.window
  BY ClearTimersFacts DEF SameView
<1>2. CleanupSession(x) = [c EXCEPT !.entry = FALSE, !.user = FALSE, !.stopping = FALSE, !.shown = FALSE, !.listed = FALSE]
  BY DEF CleanupSession
<1> HIDE DEF c
<1> DEFINE d == [c EXCEPT !.entry = FALSE, !.user = FALSE, !.stopping = FALSE, !.shown = FALSE, !.listed = FALSE]
<1>3. d \in LocalRecords
  BY <1>1 DEF LocalRecords
<1>4. /\ d.by = c.by /\ ~d.entry /\ ~d.user /\ ~d.stopping /\ ~d.shown /\ ~d.listed /\ d.grace = c.grace
      /\ d.st = c.st /\ d.terminal = c.terminal /\ d.child = c.child /\ d.held = c.held /\ d.window = c.window
  BY <1>1 DEF LocalRecords
<1> HIDE DEF d
<1>5. CleanupSession(x) = d
  BY <1>2 DEF d
<1> QED
  BY <1>1, <1>3, <1>4, <1>5

LEMMA DisposeTerminalFacts ==
  ASSUME NEW x \in LocalRecords
  PROVE  LET y == DisposeTerminal(x)
         IN  /\ y \in LocalRecords /\ SameView(x, y) /\ y.grace = x.grace
             /\ y.st = x.st /\ y.child = x.child /\ y.held = x.held /\ y.window = x.window
             /\ y.terminal = IF x.terminal = "open" THEN "closing" ELSE x.terminal
BY DEF DisposeTerminal, LocalRecords, SameView

LEMMA ShuttingDownFacts ==
  ASSUME NEW x \in LocalRecords, x.child => x.held
  PROVE  LET y == MarkShuttingDown(x)
         IN  /\ y \in LocalRecords /\ SameView(x, y) /\ y.grace = x.grace /\ y.terminal = x.terminal
             /\ y.window = x.window /\ ~Young(y)
             /\ y.child => x.child /\ y.held
<1>1. CASE x.st \in {"disposed", "closing"}
  BY <1>1 DEF MarkShuttingDown, SameView, Young
<1>2. CASE x.st \notin {"disposed", "closing"}
  BY <1>2 DEF MarkShuttingDown, LocalRecords, SameView, Young
<1> QED
  BY <1>1, <1>2

LEMMA StoppedFacts ==
  ASSUME NEW x \in LocalRecords, NEW user \in BOOLEAN, NEW server \in BOOLEAN, NEW off \in BOOLEAN,
         SessionSound(x, server, off), x.entry
  PROVE  LET y == Stopped(x, user)
         IN  /\ y \in LocalRecords /\ y.by = x.by /\ y.entry /\ y.stopping /\ ~Young(y)
             /\ user => y.user
             /\ y.shown = x.shown /\ y.listed = x.listed
             /\ y.child => y.held /\ y.terminal # "closed"
<1>1. CASE x.stopping
  BY <1>1 DEF Stopped, SessionSound
<1>2. CASE ~x.stopping
  <2> DEFINE a == ClearTimers(x)
             b == MarkShuttingDown(a)
             c == DisposeTerminal(b)
  <2>1. /\ a \in LocalRecords /\ SameView(x, a) /\ a.terminal = x.terminal /\ a.child = x.child /\ a.held = x.held
    BY ClearTimersFacts
  <2>2. x.child => x.held /\ x.terminal # "closed"
    BY DEF SessionSound
  <2> HIDE DEF a
  <2>3. /\ b \in LocalRecords /\ SameView(a, b) /\ b.terminal = a.terminal /\ ~Young(b)
        /\ b.child => a.child /\ b.held
    BY <2>1, <2>2, ShuttingDownFacts
  <2> HIDE DEF b
  <2>4. /\ c \in LocalRecords /\ SameView(b, c) /\ c.st = b.st /\ c.child = b.child /\ c.held = b.held
        /\ c.terminal = IF b.terminal = "open" THEN "closing" ELSE b.terminal
    BY <2>3, DisposeTerminalFacts
  <2>5. Stopped(x, user) = [c EXCEPT !.user = user, !.stopping = TRUE, !.grace = TRUE]
    BY <1>2 DEF Stopped, a, b
  <2> HIDE DEF c
  <2>6. /\ c.by = x.by /\ c.entry /\ c.shown = x.shown /\ c.listed = x.listed /\ ~Young(c)
        /\ c.child => c.held /\ c.terminal # "closed"
    BY <2>1, <2>2, <2>3, <2>4 DEF SameView, Young
  <2> DEFINE d == [c EXCEPT !.user = user, !.stopping = TRUE, !.grace = TRUE]
  <2>7. /\ d \in LocalRecords /\ d.by = c.by /\ d.st = c.st /\ d.entry = c.entry /\ d.stopping /\ d.user = user
        /\ d.shown = c.shown /\ d.listed = c.listed /\ d.child = c.child /\ d.held = c.held /\ d.terminal = c.terminal
    BY <2>4 DEF LocalRecords
  <2> HIDE DEF d
  <2>8. Stopped(x, user) = d
    BY <2>5 DEF d
  <2> QED
    BY <2>6, <2>7, <2>8 DEF Young
<1> QED
  BY <1>1, <1>2

LEMMA PtyClosedFacts ==
  ASSUME NEW x \in LocalRecords, x.child => x.held
  PROVE  LET y == PtyClosed(x)
         IN  /\ y \in LocalRecords /\ SameView(x, y) /\ y.grace = x.grace /\ y.terminal = x.terminal
             /\ y.st = "disposed" /\ ~y.child
BY DEF LocalRecords, PtyClosed, SameView

------------------------------------------------------------------------------
(* Steps of a kind                                                            *)

LEMMA LocalParts ==
  LocalInv => /\ ses \in [Sessions -> LocalRecords] /\ desk \in Desks
              /\ IsServer \in BOOLEAN /\ desk.off \in BOOLEAN
              /\ desk.tries \in Nat /\ desk.timers \in Nat /\ MaxAutoRestarts \in Nat
              /\ \A s \in Sessions : ses[s] \in LocalRecords /\ SessionSound(ses[s], IsServer, desk.off)
BY LocalAssumption DEF LocalInv, LocalTypeOK, SessionsSound, IsServer, Desks

\* No session becomes active, and no restart pending.
LEMMA CalmerStep ==
  ASSUME LocalInv, ses' \in [Sessions -> LocalRecords],
         \A s \in Sessions : SessionSound(ses'[s], IsServer, desk'.off) /\ (Acts(ses'[s]) => Acts(ses[s])),
         desk' \in Desks, desk'.kind = desk.kind, desk'.tries <= MaxAutoRestarts, desk'.timers <= desk.timers
  PROVE  LocalInv'
BY LocalParts DEF IsServer, Desks, LocalInv, DeskSound, LocalTypeOK, SessionsSound

LEMMA OneSessionStep ==
  ASSUME LocalInv, NEW s \in Sessions, NEW y \in LocalRecords, SessionSound(y, IsServer, desk.off),
         Acts(y) => Acts(ses[s]), ses' = [ses EXCEPT ![s] = y], UNCHANGED desk
  PROVE  LocalInv'
BY LocalParts, CalmerStep DEF LocalInv, DeskSound

\* A session starts while no other is active, or one that is not a server's.
LEMMA LaunchFacts ==
  ASSUME NEW by \in {"user", "script"}, NEW server \in BOOLEAN, by = "script" => ~server
  PROVE  LET y == [NoSession EXCEPT !.by = by, !.terminal = "open", !.shown = TRUE, !.listed = TRUE, !.entry = server]
         IN  y \in LocalRecords /\ SessionSound(y, server, FALSE) /\ (Acts(y) => server)
BY DEF NoSession, LocalRecords, SessionSound, Acts, Young

LEMMA LaunchStep ==
  ASSUME LocalInv, NEW s \in Sessions, NEW y \in LocalRecords, SessionSound(y, IsServer, FALSE), Acts(y) => IsServer,
         ~desk.off, ses' \in [Sessions -> LocalRecords], ses'[s] = y,
         \A t \in Sessions : t # s => SessionSound(ses'[t], IsServer, FALSE) /\ (IsServer => ~Acts(ses'[t])),
         desk' \in Desks, desk'.kind = desk.kind, ~desk'.off, desk'.tries <= MaxAutoRestarts, desk'.timers = 0
  PROVE  LocalInv'
BY DEF IsServer, Desks, SessionSound, Acts, DeskSound, LocalInv, LocalTypeOK, SessionsSound

\* The exit of a session is handled: y is the session, that will not work again.
LEMMA HandleExitStep ==
  ASSUME LocalInv, NEW s \in Sessions, NEW y \in LocalRecords, HandleExit(s, y), SameView(ses[s], y),
         y.grace => ses[s].grace, ~Young(y), y.by # "none", y.child => y.held /\ y.terminal # "closed"
  PROVE  LocalInv'
<1>1. /\ ses[s] \in LocalRecords /\ SessionSound(ses[s], IsServer, desk.off)
      /\ ses \in [Sessions -> LocalRecords] /\ desk \in Desks /\ DeskSound
  BY LocalParts DEF LocalInv
<1>2. CASE ~y.entry
  BY <1>2, <1>1, OneSessionStep DEF HandleExit, SessionSound, SameView, Acts
<1>3. CASE y.entry
  <2> DEFINE c == CleanupSession(y)
  <2>1. /\ c \in LocalRecords /\ c.by = y.by /\ ~c.entry /\ ~c.user /\ ~c.stopping /\ ~c.shown /\ ~c.listed /\ ~c.grace
        /\ c.st = y.st /\ c.terminal = y.terminal /\ c.child = y.child /\ c.held = y.held
    BY CleanupFacts
  <2>2. /\ ses' = [ses EXCEPT ![s] = c]
        /\ desk' = IF Restarts(y) /\ desk.tries < MaxAutoRestarts
                   THEN [desk EXCEPT !.tries = @ + 1, !.timers = @ + 1]
                   ELSE [desk EXCEPT !.tries = 0]
    BY <1>3 DEF HandleExit
  <2> HIDE DEF c
  <2>3. IsServer /\ ~desk.off /\ (~y.user => Acts(ses[s]))
    BY <1>1, <1>3 DEF SessionSound, SameView, Acts
  <2>4. desk.off = FALSE /\ IsServer = TRUE /\ IsServer' = IsServer
    BY <1>1, <2>2, <2>3 DEF IsServer, Desks
  <2>5. c.shown = FALSE /\ c.listed = FALSE /\ ~Acts(c) /\ ~Young(c)
    BY <2>1 DEF LocalRecords, Acts, Young
  <2>6. SessionSound(c, IsServer, desk.off)
    BY <2>1, <2>4, <2>5 DEF SessionSound
  <2>7. /\ ses' \in [Sessions -> LocalRecords]
        /\ \A t \in Sessions : SessionSound(ses'[t], IsServer, desk.off) /\ (Acts(ses'[t]) => t # s /\ Acts(ses[t]))
    BY <1>1, <2>1, <2>2, <2>5, <2>6, LocalParts
  <2>8. CASE Restarts(y) /\ desk.tries < MaxAutoRestarts
    <3>1. desk' = [desk EXCEPT !.tries = desk.tries + 1, !.timers = desk.timers + 1] /\ Acts(ses[s])
      BY <2>2, <2>3, <2>8 DEF Restarts
    <3>2. desk.timers = 0 /\ \A t \in Sessions : ~Acts(ses'[t])
      BY <1>1, <2>7, <3>1 DEF DeskSound, Desks
    <3>3. /\ desk' \in Desks /\ desk'.off = desk.off /\ desk'.tries = desk.tries + 1 /\ desk'.timers = 1
      <4>1. PICK n \in Nat : n = desk.tries + 1
        BY LocalParts
      <4>2. desk.timers = 0 /\ desk \in Desks /\ desk' = [desk EXCEPT !.tries = n, !.timers = 1]
        BY <1>1, <3>1, <3>2, <4>1
      <4> QED
        BY <4>1, <4>2 DEF Desks
    <3>4. desk'.tries <= MaxAutoRestarts
      BY <2>8, <3>3, LocalParts
    <3> QED
      <4>1. desk'.timers <= 1
        BY <3>3
      <4>2. DeskSound'
        BY <2>4, <3>2, <3>4, <4>1 DEF DeskSound
      <4> QED
        BY <2>4, <2>7, <3>3, <4>2 DEF LocalInv, LocalTypeOK, SessionsSound
  <2>9. CASE ~(Restarts(y) /\ desk.tries < MaxAutoRestarts)
    BY <2>2, <2>9, <1>1, LocalAssumption, <2>7, CalmerStep DEF Desks
  <2> QED
    BY <2>8, <2>9
<1> QED
  BY <1>2, <1>3

\* Those that are active are stopped by the user.
LEMMA StopConfigFacts ==
  ASSUME LocalInv
  PROVE  LET all == StopConfig(ses)
         IN  /\ all \in [Sessions -> LocalRecords]
             /\ \A s \in Sessions : /\ SessionSound(all[s], IsServer, desk.off) /\ ~Acts(all[s])
                                    /\ all[s].by = ses[s].by
                                    /\ all[s].shown /\ all[s].entry => all[s].user
<1> DEFINE all == StopConfig(ses)
<1>1. ASSUME NEW s \in Sessions
      PROVE  /\ all[s] \in LocalRecords /\ SessionSound(all[s], IsServer, desk.off) /\ ~Acts(all[s])
             /\ all[s].by = ses[s].by
             /\ all[s].shown /\ all[s].entry => all[s].user
  <2>1. ses[s] \in LocalRecords /\ SessionSound(ses[s], IsServer, desk.off) /\ IsServer \in BOOLEAN /\ desk.off \in BOOLEAN
    BY LocalParts
  <2>2. CASE ses[s].shown /\ ses[s].entry
    BY <2>1, <2>2, StoppedFacts DEF StopConfig, SessionSound, Acts
  <2>3. CASE ~(ses[s].shown /\ ses[s].entry)
    BY <2>3, <2>1 DEF StopConfig, Acts
  <2> QED
    BY <2>2, <2>3
<1> QED
  BY <1>1 DEF StopConfig

------------------------------------------------------------------------------
(* The manager                                                                *)

LEMMA UnusedSessions == \A s \in Unused : s \in Sessions /\ ses[s].by = "none"
BY DEF Unused

LEMMA ActiveSessions == Active = {s \in Sessions : Acts(ses[s])}
BY DEF Active, Acts

\* The restarts that are forgotten.
LEMMA ReArmedFacts ==
  ASSUME NEW d \in Desks
  PROVE  LET e == [ReArmed(d) EXCEPT !.row = 0]
         IN e \in Desks /\ e.kind = d.kind /\ e.off = d.off /\ e.tries = 0 /\ e.timers = 0
BY DEF Desks, ReArmed

LEMMA LaunchedStep ==
  ASSUME LocalInv, NEW s \in Unused, NEW by \in {"user", "script"}, by = "script" => ~IsServer, Launch(s, by),
         ~desk.off, IsServer => Active = {},
         desk' \in Desks, desk'.kind = desk.kind, desk'.off = desk.off, desk'.tries <= MaxAutoRestarts, desk'.timers = 0
  PROVE  LocalInv'
<1> DEFINE y == [NoSession EXCEPT !.by = by, !.terminal = "open", !.shown = TRUE, !.listed = TRUE, !.entry = IsServer]
<1>1. y \in LocalRecords /\ SessionSound(y, IsServer, FALSE) /\ (Acts(y) => IsServer)
  BY LocalParts, LaunchFacts
<1>2. s \in Sessions /\ ses' = [ses EXCEPT ![s] = y]
  BY UnusedSessions DEF Launch
<1> HIDE DEF y
<1>3. desk.off = FALSE
  BY LocalParts
<1>4. /\ ses' \in [Sessions -> LocalRecords] /\ ses'[s] = y
      /\ \A t \in Sessions : t # s => ses'[t] = ses[t]
  BY <1>1, <1>2, LocalParts
<1>5. \A t \in Sessions : t # s => SessionSound(ses'[t], IsServer, FALSE) /\ (IsServer => ~Acts(ses'[t]))
  BY <1>3, <1>4, LocalParts, ActiveSessions
<1> QED
  BY <1>1, <1>2, <1>3, <1>4, <1>5, LaunchStep

LEMMA StartsStep == LocalInv /\ (StartServer \/ RestartTimer \/ RestartServer \/ OpenShell) => LocalInv'
<1> SUFFICES ASSUME LocalInv PROVE (StartServer \/ RestartTimer \/ RestartServer \/ OpenShell) => LocalInv'
  OBVIOUS
<1>0. /\ desk \in Desks /\ desk.tries \in Nat /\ desk.tries <= MaxAutoRestarts /\ 0 <= MaxAutoRestarts
      /\ desk.timers \in Nat /\ desk.timers <= 1
      /\ desk.timers > 0 => IsServer /\ Active = {}
  BY LocalParts, ActiveSessions DEF LocalInv, DeskSound
<1>1. CASE StartServer
  <2>1. /\ desk' \in Desks /\ desk'.kind = desk.kind /\ desk'.off = desk.off /\ desk'.tries = 0 /\ desk'.timers = 0
        /\ IsServer /\ ~desk.off
    BY <1>0, <1>1, ReArmedFacts DEF StartServer
  <2>2. CASE UNCHANGED ses
    <3>1. /\ ses' \in [Sessions -> LocalRecords]
          /\ \A s \in Sessions : SessionSound(ses'[s], IsServer, desk'.off) /\ (Acts(ses'[s]) => Acts(ses[s]))
      BY <2>1, <2>2, LocalParts
    <3>2. desk'.tries <= MaxAutoRestarts /\ desk'.timers <= desk.timers
      BY <1>0, <2>1
    <3> QED
      BY <2>1, <3>1, <3>2, CalmerStep
  <2>3. ASSUME NEW s \in Unused, Active = {}, Launch(s, "user") PROVE LocalInv'
    BY <1>0, <2>1, <2>3, LaunchedStep
  <2> QED
    BY <1>1, <2>2, <2>3 DEF StartServer
<1>2. CASE RestartTimer
  <2>1. desk.timers = 1 /\ IsServer /\ Active = {} /\ ~desk.off
    BY <1>0, <1>2 DEF RestartTimer
  <2>2. CASE desk' = [desk EXCEPT !.timers = @ - 1, !.tries = 0] /\ UNCHANGED ses
    <3>1. desk' = [desk EXCEPT !.timers = 0, !.tries = 0]
      BY <2>1, <2>2
    <3>2. desk' \in Desks /\ desk'.kind = desk.kind /\ desk'.off = desk.off /\ desk'.tries = 0 /\ desk'.timers = 0
      BY <1>0, <3>1 DEF Desks
    <3> QED
      BY <1>0, <2>2, <3>2, CalmerStep, LocalParts
  <2>3. ASSUME desk' = [desk EXCEPT !.timers = @ - 1, !.row = @ + 1], NEW s \in Unused, Launch(s, "user") PROVE LocalInv'
    <3>1. PICK n \in Nat : n = desk.row + 1
      BY <1>0 DEF Desks
    <3>2. desk' = [desk EXCEPT !.timers = 0, !.row = n]
      BY <2>1, <2>3, <3>1
    <3>3. desk' \in Desks /\ desk'.kind = desk.kind /\ desk'.off = desk.off /\ desk'.tries = desk.tries /\ desk'.timers = 0
      BY <1>0, <3>1, <3>2 DEF Desks
    <3> QED
      BY <1>0, <2>1, <2>3, <3>3, LaunchedStep
  <2> QED
    BY <1>2, <2>2, <2>3 DEF RestartTimer
<1>3. CASE RestartServer
  <2> DEFINE y == [NoSession EXCEPT !.by = "user", !.terminal = "open", !.shown = TRUE, !.listed = TRUE, !.entry = TRUE]
             next(s, t) == IF t = s THEN y ELSE IF t \in Active THEN Stopped(ses[t], TRUE) ELSE ses[t]
  <2>1. /\ desk' \in Desks /\ desk'.kind = desk.kind /\ desk'.off = desk.off /\ desk'.tries = 0 /\ desk'.timers = 0
        /\ IsServer /\ ~desk.off
    BY <1>0, <1>3, ReArmedFacts DEF RestartServer
  <2>2. PICK s \in Unused : ses' = [t \in Sessions |-> next(s, t)]
    BY <1>3 DEF RestartServer
  <2>3. y \in LocalRecords /\ SessionSound(y, IsServer, FALSE) /\ s \in Sessions
    BY <2>1, UnusedSessions, LaunchFacts, LocalParts
  <2> HIDE DEF y
  <2>4. ASSUME NEW t \in Sessions, t # s
        PROVE  /\ next(s, t) \in LocalRecords /\ SessionSound(next(s, t), IsServer, FALSE) /\ ~Acts(next(s, t))
    <3>1. /\ ses[t] \in LocalRecords /\ SessionSound(ses[t], IsServer, FALSE) /\ IsServer \in BOOLEAN
      BY <2>1, LocalParts
    <3>2. CASE t \in Active
      BY <3>2, <3>1, StoppedFacts, <2>4 DEF Active, SessionSound, Acts
    <3>3. CASE t \notin Active
      BY <2>4, <3>1, <3>3, ActiveSessions
    <3> QED
      BY <3>2, <3>3
  <2>5. ses' \in [Sessions -> LocalRecords] /\ ses'[s] = y /\ \A t \in Sessions : t # s => ses'[t] = next(s, t)
    BY <2>2, <2>3, <2>4
  <2> HIDE DEF next
  <2> QED
    BY <1>0, <2>1, <2>3, <2>4, <2>5, LaunchStep
<1>4. CASE OpenShell
  BY <1>4, <1>0, LaunchedStep DEF OpenShell
<1> QED
  BY <1>1, <1>2, <1>3, <1>4

LEMMA StopsStep == LocalInv /\ (StopServer \/ \E s \in Sessions : StopSession(s)) => LocalInv'
<1> SUFFICES ASSUME LocalInv PROVE (StopServer \/ \E s \in Sessions : StopSession(s)) => LocalInv'
  OBVIOUS
<1>1. CASE StopServer
  <2>1. ses' = StopConfig(ses) /\ UNCHANGED desk
    BY <1>1 DEF StopServer
  <2>2. desk.timers <= desk.timers /\ desk.tries <= MaxAutoRestarts
    BY LocalParts DEF LocalInv, DeskSound
  <2> QED
    BY <2>1, <2>2, StopConfigFacts, CalmerStep, LocalParts
<1>2. ASSUME NEW s \in Sessions, StopSession(s) PROVE LocalInv'
  BY <1>2, LocalParts, StoppedFacts, OneSessionStep DEF StopSession, SessionSound, Acts
<1> QED
  BY <1>1, <1>2

LEMMA RemovalStep == LocalInv /\ RemoveLocalServer => LocalInv'
<1> SUFFICES ASSUME LocalInv, RemoveLocalServer PROVE LocalInv'
  OBVIOUS
<1> DEFINE all == StopConfig(ses)
           next(s) == IF all[s].shown THEN [DisposeTerminal(all[s]) EXCEPT !.shown = FALSE, !.listed = FALSE] ELSE all[s]
<1>1. ses' = [s \in Sessions |-> next(s)] /\ desk' = [desk EXCEPT !.known = FALSE] /\ ~desk.off /\ IsServer
  BY DEF RemoveLocalServer
<1>2. all \in [Sessions -> LocalRecords]
  BY StopConfigFacts
<1>3. ASSUME NEW s \in Sessions
      PROVE  next(s) \in LocalRecords /\ SessionSound(next(s), IsServer, desk.off) /\ ~Acts(next(s))
  <2>1. /\ all[s] \in LocalRecords /\ SessionSound(all[s], IsServer, desk.off) /\ ~Acts(all[s])
        /\ all[s].shown /\ all[s].entry => all[s].user
    BY <1>2, StopConfigFacts
  <2> HIDE DEF all
  <2>2. CASE all[s].shown
    <3> DEFINE x == DisposeTerminal(all[s])
               y == [x EXCEPT !.shown = FALSE, !.listed = FALSE]
    <3>1. /\ x \in LocalRecords /\ SameView(all[s], x) /\ x.grace = all[s].grace
          /\ x.st = all[s].st /\ x.child = all[s].child /\ x.held = all[s].held /\ x.window = all[s].window
          /\ x.terminal = IF all[s].terminal = "open" THEN "closing" ELSE all[s].terminal
      BY <2>1, DisposeTerminalFacts
    <3> HIDE DEF x
    <3>2. /\ y \in LocalRecords /\ ~y.shown /\ ~y.listed /\ y.by = x.by /\ y.entry = x.entry /\ y.user = x.user
          /\ y.stopping = x.stopping /\ y.grace = x.grace
          /\ y.st = x.st /\ y.child = x.child /\ y.held = x.held /\ y.window = x.window /\ y.terminal = x.terminal
      BY <3>1 DEF LocalRecords
    <3>3. next(s) = y
      BY <2>2 DEF x
    <3> HIDE DEF y, next
    <3>4. ~Young(all[s])
      BY <1>1, <2>1 DEF SessionSound
    <3>5. ~Young(y) /\ ~Acts(y) /\ all[s].by # "none"
      BY <2>1, <2>2, <3>1, <3>2, <3>4 DEF Young, Acts, SameView, SessionSound
    <3>6. y.shown = FALSE /\ y.listed = FALSE /\ desk.off = FALSE
      BY <1>1, <3>2, LocalParts DEF LocalRecords
    <3>7. SessionSound(y, IsServer, desk.off)
      BY <1>1, <2>1, <2>2, <3>1, <3>2, <3>5, <3>6 DEF SessionSound, SameView
    <3> QED
      BY <3>2, <3>3, <3>5, <3>7
  <2>3. CASE ~all[s].shown
    BY <2>1, <2>3
  <2> QED
    BY <2>2, <2>3
<1> HIDE DEF next
<1>4. /\ desk' \in Desks /\ desk'.kind = desk.kind /\ desk'.off = desk.off
      /\ desk'.tries = desk.tries /\ desk'.timers = desk.timers /\ desk.timers \in Nat
  BY <1>1, LocalParts DEF Desks
<1>5. desk'.tries <= MaxAutoRestarts /\ desk'.timers <= desk.timers
  BY <1>4 DEF LocalInv, DeskSound
<1>6. ses' \in [Sessions -> LocalRecords] /\ \A s \in Sessions : ses'[s] = next(s)
  BY <1>1, <1>3
<1> QED
  BY <1>3, <1>4, <1>5, <1>6, CalmerStep

LEMMA DisposalStep == LocalInv /\ DisposeManager => LocalInv'
<1> SUFFICES ASSUME LocalInv, DisposeManager PROVE LocalInv'
  OBVIOUS
<1> DEFINE ended(x) == IF x.entry THEN Stopped(x, FALSE) ELSE x
           next(s) == [ClearTimers(ended(ses[s])) EXCEPT !.entry = FALSE, !.user = FALSE, !.stopping = FALSE]
<1>1. /\ ses' = [s \in Sessions |-> next(s)] /\ desk' = [desk EXCEPT !.off = TRUE, !.timers = 0, !.tries = 0]
      /\ ~desk.off /\ IsServer
  BY DEF DisposeManager
<1>2. desk' \in Desks /\ desk'.kind = desk.kind /\ desk'.off = TRUE /\ desk'.tries = 0 /\ desk'.timers = 0
  BY <1>1, LocalParts DEF Desks
<1>3. ASSUME NEW s \in Sessions
      PROVE  next(s) \in LocalRecords /\ SessionSound(next(s), IsServer, TRUE) /\ ~Acts(next(s))
  <2>1. /\ ses[s] \in LocalRecords /\ SessionSound(ses[s], IsServer, desk.off) /\ IsServer \in BOOLEAN /\ desk.off \in BOOLEAN
    BY LocalParts
  <2> DEFINE x == ended(ses[s])
             c == ClearTimers(x)
             y == [c EXCEPT !.entry = FALSE, !.user = FALSE, !.stopping = FALSE]
  <2>2. /\ x \in LocalRecords /\ ~Young(x)
        /\ x.child => x.held /\ x.terminal # "closed"
        /\ x.by = "none" => x.terminal = "none" /\ x.st = "idle" /\ ~x.child /\ ~x.window /\ ~x.shown
    BY <2>1, StoppedFacts, <1>1 DEF SessionSound, Acts
  <2> HIDE DEF x
  <2>3. /\ c \in LocalRecords /\ SameView(x, c) /\ ~c.grace
        /\ c.st = x.st /\ c.terminal = x.terminal /\ c.child = x.child /\ c.held = x.held /\ c.window = x.window
    BY <2>2, ClearTimersFacts
  <2> HIDE DEF c
  <2>4. /\ y \in LocalRecords /\ ~y.entry /\ ~y.user /\ ~y.stopping /\ y.by = c.by /\ y.shown = c.shown /\ y.grace = c.grace
        /\ y.st = c.st /\ y.terminal = c.terminal /\ y.child = c.child /\ y.held = c.held /\ y.window = c.window
    BY <2>3 DEF LocalRecords
  <2>5. next(s) = y
    BY DEF c, x
  <2> HIDE DEF y, next, ended
  <2>6. ~Young(y) /\ ~Acts(y)
    BY <2>2, <2>3, <2>4 DEF Young, Acts, SameView
  <2>7. y.by = x.by /\ y.shown = x.shown /\ ~y.grace
    BY <2>3, <2>4 DEF SameView
  <2>8. SessionSound(y, IsServer, TRUE)
    BY <2>2, <2>3, <2>4, <2>6, <2>7 DEF SessionSound
  <2> QED
    BY <2>4, <2>5, <2>6, <2>8
<1> HIDE DEF next
<1>4. ses' \in [Sessions -> LocalRecords] /\ \A s \in Sessions : ses'[s] = next(s)
  BY <1>1, <1>3
<1>5. desk'.tries <= MaxAutoRestarts /\ desk'.timers <= desk.timers
  BY <1>2, LocalParts
<1> QED
  BY <1>2, <1>3, <1>4, <1>5, CalmerStep

------------------------------------------------------------------------------
(* Shells, the pty and its sidecar                                            *)

\* A session that leaves the views.
LEMMA UnlistedFacts ==
  ASSUME NEW x \in LocalRecords
  PROVE  LET y == Unlisted(x)
         IN  /\ y \in LocalRecords /\ y.shown = FALSE /\ y.listed = FALSE /\ y.by = x.by /\ y.entry = x.entry /\ y.user = x.user
             /\ y.stopping = x.stopping /\ y.grace = x.grace
             /\ y.st = x.st /\ y.child = x.child /\ y.held = x.held /\ y.window = x.window /\ y.terminal = x.terminal
BY DEF Unlisted, LocalRecords

\* A shell that is taken from the views while its terminal is being closed.
LEMMA UnlistedShell ==
  ASSUME LocalInv, ~IsServer, NEW s \in Sessions, ses[s].shown
  PROVE  LET y == Unlisted(DisposeTerminal(ses[s]))
         IN  y \in LocalRecords /\ SessionSound(y, IsServer, desk.off) /\ ~Acts(y)
<1> DEFINE x == DisposeTerminal(ses[s])
           y == Unlisted(x)
<1>1. /\ ses[s] \in LocalRecords /\ SessionSound(ses[s], IsServer, desk.off) /\ IsServer \in BOOLEAN /\ desk.off \in BOOLEAN
  BY LocalParts
<1>2. /\ x \in LocalRecords /\ SameView(ses[s], x) /\ x.grace = ses[s].grace
      /\ x.st = ses[s].st /\ x.child = ses[s].child /\ x.held = ses[s].held /\ x.window = ses[s].window
      /\ x.terminal = IF ses[s].terminal = "open" THEN "closing" ELSE ses[s].terminal
  BY <1>1, DisposeTerminalFacts
<1> HIDE DEF x
<1>3. /\ y \in LocalRecords /\ y.shown = FALSE /\ y.listed = FALSE /\ y.by = x.by /\ y.entry = x.entry /\ y.user = x.user
      /\ y.stopping = x.stopping /\ y.grace = x.grace
      /\ y.st = x.st /\ y.child = x.child /\ y.held = x.held /\ y.window = x.window /\ y.terminal = x.terminal
  BY <1>2, UnlistedFacts
<1> HIDE DEF y
<1>4. ~Acts(y) /\ ses[s].by # "none"
  BY <1>1, <1>3 DEF Acts, SessionSound
<1>5. y.by = "script" /\ Young(y) => y.terminal = "closing" \/ desk.off
  BY <1>1, <1>2, <1>3 DEF SessionSound, SameView, Young
<1>6. Young(y) => y.terminal \in {"open", "closing"} /\ Young(ses[s])
  BY <1>1, <1>2, <1>3 DEF SessionSound, SameView, Young
<1>7. SessionSound(y, IsServer, desk.off)
  BY <1>1, <1>2, <1>3, <1>4, <1>5, <1>6 DEF SessionSound, SameView
<1> QED
  BY <1>3, <1>4, <1>7 DEF x, y

LEMMA ShellsStep == LocalInv /\ (DisconnectShell \/ RemoveShell) => LocalInv'
<1> SUFFICES ASSUME LocalInv, DisconnectShell \/ RemoveShell PROVE LocalInv'
  OBVIOUS
<1>1. /\ ~IsServer
      /\ \E which \in SUBSET {s \in Sessions : ses[s].shown} :
           ses' = [s \in Sessions |-> IF s \in which THEN Unlisted(DisposeTerminal(ses[s])) ELSE ses[s]]
  <2>1. CASE DisconnectShell
    BY <2>1 DEF DisconnectShell
  <2>2. CASE RemoveShell
    <3>1. ses' = [s \in Sessions |-> IF s \in {t \in Sessions : ses[t].shown} THEN Unlisted(DisposeTerminal(ses[s])) ELSE ses[s]]
      BY <2>2 DEF RemoveShell
    <3> QED
      BY <2>2, <3>1 DEF RemoveShell
  <2> QED
    BY <2>1, <2>2
<1>2. PICK which \in SUBSET {s \in Sessions : ses[s].shown} :
        ses' = [s \in Sessions |-> IF s \in which THEN Unlisted(DisposeTerminal(ses[s])) ELSE ses[s]]
  BY <1>1
<1>3. UNCHANGED desk \/ desk' = [desk EXCEPT !.known = FALSE]
  BY DEF DisconnectShell, RemoveShell
<1>4. /\ desk' \in Desks /\ desk'.kind = desk.kind /\ desk'.off = desk.off
      /\ desk'.tries = desk.tries /\ desk'.timers = desk.timers /\ desk.timers \in Nat
  BY <1>3, LocalParts DEF Desks
<1>5. desk'.tries <= MaxAutoRestarts /\ desk'.timers <= desk.timers
  BY <1>4 DEF LocalInv, DeskSound
<1>6. ASSUME NEW s \in Sessions
      PROVE  ses'[s] \in LocalRecords /\ SessionSound(ses'[s], IsServer, desk.off) /\ (Acts(ses'[s]) => Acts(ses[s]))
  BY <1>1, <1>2, UnlistedShell, LocalParts
<1>7. ses' \in [Sessions -> LocalRecords]
  BY <1>2, <1>6
<1> QED
  BY <1>4, <1>5, <1>6, <1>7, CalmerStep

LEMMA ShutDownStep == LocalInv /\ ShutDownShells => LocalInv'
<1> SUFFICES ASSUME LocalInv, ShutDownShells PROVE LocalInv'
  OBVIOUS
<1> DEFINE last(x) == IF x.listed THEN MarkShuttingDown(x) ELSE x
           next(s) == [last(ses[s]) EXCEPT !.shown = FALSE]
<1>1. /\ ses' = [s \in Sessions |-> next(s)] /\ desk' = [desk EXCEPT !.off = TRUE] /\ IsServer = FALSE /\ ~desk.off
  BY LocalParts DEF ShutDownShells
<1>2. /\ desk' \in Desks /\ desk'.kind = desk.kind /\ desk'.off = TRUE
      /\ desk'.tries = desk.tries /\ desk'.timers = desk.timers /\ desk.timers \in Nat
  BY <1>1, LocalParts DEF Desks
<1>3. ASSUME NEW s \in Sessions
      PROVE  next(s) \in LocalRecords /\ SessionSound(next(s), IsServer, TRUE) /\ ~Acts(next(s))
  <2>1. /\ ses[s] \in LocalRecords /\ SessionSound(ses[s], FALSE, desk.off) /\ desk.off \in BOOLEAN
    BY <1>1, LocalParts
  <2> DEFINE x == last(ses[s])
             y == [x EXCEPT !.shown = FALSE]
  <2>2. /\ x \in LocalRecords /\ x.by = ses[s].by /\ ~x.entry /\ ~x.stopping /\ ~x.grace
        /\ x.child => x.held /\ x.terminal # "closed"
        /\ x.by = "none" => x.terminal = "none" /\ x.st = "idle" /\ ~x.child /\ ~x.window /\ ~x.shown
        /\ Young(x) => x.terminal \in {"open", "closing"}
    BY <2>1, ShuttingDownFacts, <1>1 DEF SessionSound, SameView
  <2> HIDE DEF x
  <2>3. /\ y \in LocalRecords /\ y.shown = FALSE /\ y.by = x.by /\ y.entry = x.entry /\ y.stopping = x.stopping /\ y.grace = x.grace
        /\ y.st = x.st /\ y.child = x.child /\ y.held = x.held /\ y.window = x.window /\ y.terminal = x.terminal
    BY <2>2 DEF LocalRecords
  <2>4. next(s) = y
    BY DEF x
  <2> HIDE DEF y, next, last
  <2>5. SessionSound(y, FALSE, TRUE) /\ ~Acts(y)
    BY <2>2, <2>3 DEF SessionSound, Acts, Young
  <2> QED
    BY <1>1, <2>3, <2>4, <2>5
<1> HIDE DEF next
<1>4. ses' \in [Sessions -> LocalRecords] /\ \A s \in Sessions : ses'[s] = next(s)
  BY <1>1, <1>3
<1>5. desk'.tries <= MaxAutoRestarts /\ desk'.timers <= desk.timers
  BY <1>2 DEF LocalInv, DeskSound
<1> QED
  BY <1>2, <1>3, <1>4, <1>5, CalmerStep

\* What onDidTerminateEarly and onDidClose do with a session that has ended.
LEMMA EndsStep ==
  ASSUME LocalInv, NEW s \in Sessions, NEW y \in LocalRecords, SameView(ses[s], y),
         y.grace => ses[s].grace, ~Young(y), y.by # "none", y.child => y.held /\ y.terminal # "closed",
         TerminatesEarly(s, y) \/ FiresClose(s, y)
  PROVE  LocalInv'
<1>0. ses[s] \in LocalRecords /\ SessionSound(ses[s], IsServer, desk.off)
  BY LocalParts
<1>1. CASE TerminatesEarly(s, y) /\ IsServer
  BY <1>1, HandleExitStep DEF TerminatesEarly
<1>2. CASE TerminatesEarly(s, y) /\ ~IsServer
  <2> DEFINE z == Unlisted(y)
  <2>1. ses' = [ses EXCEPT ![s] = z] /\ UNCHANGED desk
    BY <1>2 DEF TerminatesEarly
  <2>2. /\ z \in LocalRecords /\ z.shown = FALSE /\ z.listed = FALSE /\ z.by = y.by /\ z.entry = y.entry /\ z.user = y.user
        /\ z.stopping = y.stopping /\ z.grace = y.grace
        /\ z.st = y.st /\ z.child = y.child /\ z.held = y.held /\ z.window = y.window /\ z.terminal = y.terminal
    BY UnlistedFacts
  <2> HIDE DEF z
  <2>3. SessionSound(z, IsServer, desk.off) /\ ~Acts(z)
    BY <1>0, <1>2, <2>2 DEF SessionSound, SameView, Acts, Young
  <2> QED
    BY <2>1, <2>2, <2>3, OneSessionStep
<1>3. CASE FiresClose(s, y)
  BY DisposeTerminalFacts, <1>3, HandleExitStep, <1>0, OneSessionStep DEF FiresClose, SameView, Young, SessionSound,
     Acts
<1> QED
  BY <1>1, <1>2, <1>3

\* One assignment to the record of a session.
LEMMA PtyUpdates ==
  ASSUME NEW x \in LocalRecords
  PROVE  /\ LET y == [x EXCEPT !.window = FALSE]
            IN  /\ y \in LocalRecords /\ SameView(x, y) /\ y.st = x.st /\ y.grace = x.grace
                /\ y.terminal = x.terminal /\ y.child = x.child /\ y.held = x.held /\ y.window = FALSE
         /\ LET y == [x EXCEPT !.grace = FALSE]
            IN  /\ y \in LocalRecords /\ SameView(x, y) /\ y.st = x.st /\ y.grace = FALSE
                /\ y.terminal = x.terminal /\ y.child = x.child /\ y.held = x.held /\ y.window = x.window
         /\ LET y == [x EXCEPT !.stable = FALSE]
            IN  /\ y \in LocalRecords /\ SameView(x, y) /\ y.st = x.st /\ y.grace = x.grace
                /\ y.terminal = x.terminal /\ y.child = x.child /\ y.held = x.held /\ y.window = x.window
         /\ LET y == [x EXCEPT !.st = "running"]
            IN  /\ y \in LocalRecords /\ SameView(x, y) /\ y.st = "running" /\ y.grace = x.grace
                /\ y.terminal = x.terminal /\ y.child = x.child /\ y.held = x.held /\ y.window = x.window
         /\ LET y == [x EXCEPT !.st = "exited"]
            IN  /\ y \in LocalRecords /\ SameView(x, y) /\ y.st = "exited" /\ y.grace = x.grace
                /\ y.terminal = x.terminal /\ y.child = x.child /\ y.held = x.held /\ y.window = x.window
         /\ LET y == [x EXCEPT !.st = "failed", !.window = FALSE]
            IN  /\ y \in LocalRecords /\ SameView(x, y) /\ y.st = "failed" /\ y.grace = x.grace
                /\ y.terminal = x.terminal /\ y.child = x.child /\ y.held = x.held /\ y.window = FALSE
BY DEF LocalRecords, SameView

LEMMA ChildGone ==
  ASSUME NEW x \in LocalRecords
  PROVE  LET y == [x EXCEPT !.child = FALSE]
         IN  /\ y \in LocalRecords /\ SameView(x, y) /\ y.st = x.st /\ y.grace = x.grace
             /\ y.terminal = x.terminal /\ y.child = FALSE /\ y.held = x.held
BY DEF LocalRecords, SameView

LEMMA MorePtyUpdates ==
  ASSUME NEW x \in LocalRecords
  PROVE  /\ LET y == [x EXCEPT !.st = "failed", !.window = FALSE, !.child = FALSE, !.held = FALSE]
            IN  /\ y \in LocalRecords /\ SameView(x, y) /\ y.st = "failed" /\ y.grace = x.grace /\ ~y.child
         /\ LET y == [x EXCEPT !.st = "failed", !.window = FALSE, !.held = FALSE]
            IN  /\ y \in LocalRecords /\ SameView(x, y) /\ y.st = "failed" /\ y.grace = x.grace /\ y.child = x.child
         /\ LET y == [x EXCEPT !.st = "spawning", !.window = TRUE, !.child = TRUE, !.held = TRUE]
            IN  /\ y \in LocalRecords /\ SameView(x, y) /\ y.st = "spawning" /\ y.grace = x.grace
                /\ y.terminal = x.terminal /\ y.child /\ y.held
         /\ LET y == FinishStartup(x)
            IN  /\ y \in LocalRecords /\ SameView(x, y) /\ y.st = x.st /\ y.grace = x.grace
                /\ y.terminal = x.terminal /\ y.child = x.child /\ y.held = x.held
BY DEF LocalRecords, SameView, FinishStartup

LEMMA FailsBeforeReady == ASSUME LocalInv, NEW s \in Sessions, FailBeforeReady(s), ses[s].by # "none" PROVE LocalInv'
<1> DEFINE y == [ses[s] EXCEPT !.st = "failed", !.window = FALSE, !.child = FALSE, !.held = FALSE]
<1>1. /\ y \in LocalRecords /\ SameView(ses[s], y) /\ y.st = "failed" /\ y.grace = ses[s].grace /\ ~y.child
  BY ZenonT(30), LocalParts, MorePtyUpdates
<1>2. TerminatesEarly(s, y)
  BY DEF FailBeforeReady
<1> HIDE DEF y
<1>3. ~Young(y) /\ y.by # "none"
  BY <1>1 DEF Young, SameView
<1> QED
  BY <1>1, <1>2, <1>3, EndsStep

LEMMA OpenPtyStep == ASSUME LocalInv, NEW s \in Sessions, OpenPty(s) PROVE LocalInv'
<1>1. /\ ses[s] \in LocalRecords /\ SessionSound(ses[s], IsServer, desk.off)
      /\ ses[s].st = "idle" /\ ses[s].terminal \in {"open", "closing"}
  BY LocalParts DEF OpenPty
<1>2. ses[s].by # "none"
  BY <1>1 DEF SessionSound
<1>3. CASE FailBeforeReady(s)
  BY <1>2, <1>3, FailsBeforeReady
<1>4. CASE ~FailBeforeReady(s)
  <2> DEFINE y == [ses[s] EXCEPT !.st = "spawning", !.window = TRUE, !.child = TRUE, !.held = TRUE]
  <2>1. /\ y \in LocalRecords /\ SameView(ses[s], y) /\ y.st = "spawning" /\ y.grace = ses[s].grace
        /\ y.terminal = ses[s].terminal /\ y.child /\ y.held
    BY <1>1, MorePtyUpdates
  <2>2. ses' = [ses EXCEPT ![s] = y] /\ UNCHANGED desk
    BY <1>4 DEF OpenPty
  <2> HIDE DEF y
  <2>3. Young(ses[s]) /\ Young(y)
    BY <1>1, <1>2, <2>1 DEF Young, SameView
  <2>4. SessionSound(y, IsServer, desk.off) /\ (Acts(y) => Acts(ses[s]))
    BY <1>1, <1>2, <2>1, <2>3 DEF SessionSound, SameView, Acts
  <2> QED
    BY <2>1, <2>2, <2>4, OneSessionStep
<1> QED
  BY <1>3, <1>4

\* A session of which neither the views nor the manager learn anything goes on.
LEMMA QuietStep ==
  ASSUME LocalInv, NEW s \in Sessions, NEW y \in LocalRecords, SameView(ses[s], y), y.grace => ses[s].grace,
         y.by # "none", Young(y) => Young(ses[s]), y.child => ses[s].child, y.held = ses[s].held, y.terminal = ses[s].terminal,
         ses' = [ses EXCEPT ![s] = y], UNCHANGED desk
  PROVE  LocalInv'
<1>1. SessionSound(ses[s], IsServer, desk.off)
  BY LocalParts
<1>2. SessionSound(y, IsServer, desk.off) /\ (Acts(y) => Acts(ses[s]))
  BY <1>1 DEF SessionSound, SameView, Acts
<1> QED
  BY <1>2, OneSessionStep

LEMMA StartupStep == ASSUME LocalInv, NEW s \in Sessions, Ready(s) \/ WindowEnds(s) PROVE LocalInv'
<1>1. /\ ses[s] \in LocalRecords /\ SessionSound(ses[s], IsServer, desk.off)
  BY LocalParts
<1>2. CASE Ready(s)
  <2> DEFINE x == IF ses[s].window THEN ses[s] ELSE FinishStartup(ses[s])
             y == [x EXCEPT !.st = "running"]
  <2>1. /\ ses[s].child /\ ses[s].st = "spawning" /\ ses' = [ses EXCEPT ![s] = y] /\ UNCHANGED desk
    BY <1>2 DEF Ready
  <2>2. /\ x \in LocalRecords /\ SameView(ses[s], x) /\ x.grace = ses[s].grace
        /\ x.terminal = ses[s].terminal /\ x.child = ses[s].child /\ x.held = ses[s].held
    <3>1. LET z == FinishStartup(ses[s])
          IN  /\ z \in LocalRecords /\ SameView(ses[s], z) /\ z.grace = ses[s].grace
              /\ z.terminal = ses[s].terminal /\ z.child = ses[s].child /\ z.held = ses[s].held
      BY <1>1, MorePtyUpdates
    <3>2. SameView(ses[s], ses[s])
      BY DEF SameView
    <3> QED
      BY <1>1, <3>1, <3>2
  <2> HIDE DEF x
  <2>3. /\ y \in LocalRecords /\ SameView(x, y) /\ y.grace = x.grace
        /\ y.terminal = x.terminal /\ y.child = x.child /\ y.held = x.held
    BY <2>2, PtyUpdates
  <2> HIDE DEF y
  <2>4. Young(ses[s]) /\ y.by # "none" /\ SameView(ses[s], y)
    BY <1>1, <2>1, <2>2, <2>3 DEF Young, SameView, SessionSound
  <2> QED
    BY <2>1, <2>2, <2>3, <2>4, QuietStep
<1>3. CASE WindowEnds(s)
  <2> DEFINE y == IF ses[s].st = "running" THEN FinishStartup(ses[s]) ELSE [ses[s] EXCEPT !.window = FALSE]
  <2>1. ses[s].window /\ ses' = [ses EXCEPT ![s] = y] /\ UNCHANGED desk
    BY <1>3 DEF WindowEnds
  <2>2. /\ y \in LocalRecords /\ SameView(ses[s], y) /\ y.grace = ses[s].grace /\ y.st = ses[s].st
        /\ y.terminal = ses[s].terminal /\ y.child = ses[s].child /\ y.held = ses[s].held
    BY <1>1, MorePtyUpdates, PtyUpdates
  <2> HIDE DEF y
  <2>3. y.by # "none" /\ (Young(y) => Young(ses[s]))
    BY <1>1, <2>1, <2>2 DEF Young, SameView, SessionSound
  <2> QED
    BY <2>1, <2>2, <2>3, QuietStep
<1> QED
  BY <1>2, <1>3

LEMMA ExitStep == ASSUME LocalInv, NEW s \in Sessions, ChildExits(s) \/ BadFrame(s) PROVE LocalInv'
<1>1. /\ ses[s] \in LocalRecords /\ SessionSound(ses[s], IsServer, desk.off) /\ ses[s].child
  BY LocalParts DEF ChildExits, BadFrame
<1>2. ses[s].by # "none" /\ ses[s].held /\ ses[s].terminal # "closed"
  BY <1>1 DEF SessionSound
<1> DEFINE x == [ses[s] EXCEPT !.child = FALSE]
<1>3. /\ x \in LocalRecords /\ SameView(ses[s], x) /\ x.st = ses[s].st /\ x.grace = ses[s].grace
      /\ x.terminal = ses[s].terminal /\ x.child = FALSE /\ x.held = ses[s].held
  BY <1>1, ChildGone
<1>4. CASE ChildExits(s)
  <2>1. \/ ses' = [ses EXCEPT ![s] = x] /\ UNCHANGED desk
        \/ FailBeforeReady(s)
        \/ FailEarlyAfterReady(s, x)
        \/ FiresClose(s, [x EXCEPT !.st = "exited"])
    BY <1>4 DEF ChildExits
  <2> HIDE DEF x
  <2>2. CASE ses' = [ses EXCEPT ![s] = x] /\ UNCHANGED desk
    BY <1>2, <1>3, <2>2, QuietStep DEF Young, SameView
  <2>3. CASE FailBeforeReady(s)
    BY <1>2, <2>3, FailsBeforeReady
  <2>4. CASE FailEarlyAfterReady(s, x)
    <3> DEFINE y == [x EXCEPT !.st = "failed", !.window = FALSE, !.held = FALSE]
    <3>1. y \in LocalRecords /\ SameView(x, y) /\ y.st = "failed" /\ y.grace = x.grace /\ y.child = x.child
      BY <1>3, MorePtyUpdates
    <3>2. TerminatesEarly(s, y)
      BY <2>4 DEF FailEarlyAfterReady
    <3> HIDE DEF y
    <3>3. ~Young(y) /\ y.by # "none" /\ SameView(ses[s], y) /\ ~y.child
      BY <1>2, <1>3, <3>1 DEF Young, SameView
    <3> QED
      BY <1>3, <3>1, <3>2, <3>3, EndsStep
  <2>5. CASE FiresClose(s, [x EXCEPT !.st = "exited"])
    <3> DEFINE y == [x EXCEPT !.st = "exited"]
    <3>1. y \in LocalRecords /\ SameView(x, y) /\ y.st = "exited" /\ y.grace = x.grace /\ y.child = x.child
      BY <1>3, PtyUpdates
    <3>2. FiresClose(s, y)
      BY <2>5
    <3> HIDE DEF y
    <3>3. ~Young(y) /\ y.by # "none" /\ SameView(ses[s], y) /\ ~y.child
      BY <1>2, <1>3, <3>1 DEF Young, SameView
    <3> QED
      BY <1>3, <3>1, <3>2, <3>3, EndsStep
  <2> QED
    BY <2>1, <2>2, <2>3, <2>4, <2>5
<1>5. CASE BadFrame(s)
  <2> DEFINE y == [ses[s] EXCEPT !.st = "failed", !.window = FALSE]
  <2>1. /\ y \in LocalRecords /\ SameView(ses[s], y) /\ y.st = "failed" /\ y.grace = ses[s].grace
        /\ y.terminal = ses[s].terminal /\ y.child = ses[s].child /\ y.held = ses[s].held
    BY <1>1, PtyUpdates
  <2>2. FiresClose(s, y)
    BY <1>5 DEF BadFrame, Fail
  <2> HIDE DEF y
  <2>3. ~Young(y) /\ y.by # "none"
    BY <1>2, <2>1 DEF Young, SameView
  <2> QED
    BY <1>2, <2>1, <2>2, <2>3, EndsStep
<1> QED
  BY <1>4, <1>5

LEMMA TimersStep == ASSUME LocalInv, NEW s \in Sessions, GraceTimer(s) \/ StableTimer(s) \/ GiveUpStart(s) PROVE LocalInv'
<1>1. /\ ses[s] \in LocalRecords /\ SessionSound(ses[s], IsServer, desk.off)
      /\ desk \in Desks /\ desk.tries <= MaxAutoRestarts /\ 0 <= MaxAutoRestarts /\ desk.timers \in Nat
  BY LocalParts DEF LocalInv, DeskSound
<1>2. CASE GraceTimer(s)
  <2> DEFINE y == [ses[s] EXCEPT !.grace = FALSE]
  <2>1. ses[s].grace /\ HandleExit(s, y)
    BY <1>2 DEF GraceTimer
  <2>2. /\ y \in LocalRecords /\ SameView(ses[s], y) /\ y.st = ses[s].st /\ y.grace = FALSE
        /\ y.terminal = ses[s].terminal /\ y.child = ses[s].child /\ y.held = ses[s].held
    BY <1>1, PtyUpdates
  <2> HIDE DEF y
  <2>3. /\ ~Young(y) /\ y.by # "none"
        /\ y.child => y.held /\ y.terminal # "closed"
    BY <1>1, <2>1, <2>2 DEF Young, SameView, SessionSound
  <2> QED
    BY <2>1, <2>2, <2>3, HandleExitStep
<1>3. CASE StableTimer(s)
  <2> DEFINE y == [ses[s] EXCEPT !.stable = FALSE]
  <2>1. /\ ses' = [ses EXCEPT ![s] = y]
        /\ \/ UNCHANGED desk
           \/ desk' = [desk EXCEPT !.tries = 0, !.row = IF s \in Active THEN 0 ELSE @]
    BY <1>3 DEF StableTimer
  <2>2. /\ y \in LocalRecords /\ SameView(ses[s], y) /\ y.st = ses[s].st /\ y.grace = ses[s].grace
        /\ y.terminal = ses[s].terminal /\ y.child = ses[s].child /\ y.held = ses[s].held /\ y.window = ses[s].window
    BY <1>1, PtyUpdates
  <2> HIDE DEF y
  <2>3. SessionSound(y, IsServer, desk.off) /\ (Acts(y) => Acts(ses[s]))
    BY <1>1, <2>2 DEF SessionSound, SameView, Acts, Young
  <2>4. CASE UNCHANGED desk
    BY <2>1, <2>2, <2>3, <2>4, OneSessionStep
  <2>5. CASE desk' = [desk EXCEPT !.tries = 0, !.row = IF s \in Active THEN 0 ELSE @]
    <3>1. PICK n \in Nat : n = IF s \in Active THEN 0 ELSE desk.row
      BY <1>1 DEF Desks
    <3>2. desk' = [desk EXCEPT !.tries = 0, !.row = n]
      BY <2>5, <3>1
    <3>3. /\ desk' \in Desks /\ desk'.kind = desk.kind /\ desk'.off = desk.off /\ desk'.tries = 0
          /\ desk'.timers = desk.timers
      BY <1>1, <3>1, <3>2 DEF Desks
    <3>4. desk'.tries <= MaxAutoRestarts /\ desk'.timers <= desk.timers
      BY <1>1, <3>3
    <3>5. /\ ses' \in [Sessions -> LocalRecords]
          /\ \A t \in Sessions : SessionSound(ses'[t], IsServer, desk'.off) /\ (Acts(ses'[t]) => Acts(ses[t]))
      BY <2>1, <2>2, <2>3, <3>3, LocalParts
    <3> QED
      BY <3>3, <3>4, <3>5, CalmerStep
  <2> QED
    BY <2>1, <2>4, <2>5
<1>4. CASE GiveUpStart(s)
  <2> DEFINE x == Unlisted(ses[s])
             y == [x EXCEPT !.by = "user"]
  <2>1. /\ ~IsServer /\ ses[s].by = "script" /\ ses' = [ses EXCEPT ![s] = y] /\ UNCHANGED desk
    BY <1>4 DEF GiveUpStart
  <2>2. /\ x \in LocalRecords /\ x.shown = FALSE /\ x.listed = FALSE /\ x.by = ses[s].by /\ x.entry = ses[s].entry /\ x.user = ses[s].user
        /\ x.stopping = ses[s].stopping /\ x.grace = ses[s].grace
        /\ x.st = ses[s].st /\ x.child = ses[s].child /\ x.held = ses[s].held /\ x.window = ses[s].window /\ x.terminal = ses[s].terminal
    BY <1>1, UnlistedFacts
  <2> HIDE DEF x
  <2>3. /\ y \in LocalRecords /\ y.by = "user" /\ y.shown = x.shown /\ y.listed = x.listed /\ y.entry = x.entry /\ y.user = x.user
        /\ y.stopping = x.stopping /\ y.grace = x.grace
        /\ y.st = x.st /\ y.child = x.child /\ y.held = x.held /\ y.window = x.window /\ y.terminal = x.terminal
    BY <2>2 DEF LocalRecords
  <2> HIDE DEF y
  <2>4. SessionSound(y, IsServer, desk.off) /\ ~Acts(y)
    BY <1>1, <2>1, <2>2, <2>3 DEF SessionSound, Acts, Young
  <2> QED
    BY <2>1, <2>3, <2>4, OneSessionStep
<1> QED
  BY <1>2, <1>3, <1>4

LEMMA ClosedStep == ASSUME LocalInv, NEW s \in Sessions, TerminalClosed(s) PROVE LocalInv'
<1>1. /\ ses[s] \in LocalRecords /\ SessionSound(ses[s], IsServer, desk.off) /\ ses[s].terminal \in {"open", "closing"}
  BY LocalParts DEF TerminalClosed
<1>2. ses[s].by # "none" /\ (ses[s].child => ses[s].held)
  BY <1>1 DEF SessionSound
<1> DEFINE c == PtyClosed(ses[s])
           x == [c EXCEPT !.terminal = "closed"]
           u == Unlisted(x)
           v == [u EXCEPT !.user = u.user \/ x.entry]
<1>3. ses' = [ses EXCEPT ![s] = IF x.shown THEN v ELSE x] /\ UNCHANGED desk
  BY DEF TerminalClosed
<1>4. c \in LocalRecords /\ SameView(ses[s], c) /\ c.grace = ses[s].grace /\ c.st = "disposed" /\ ~c.child
  BY <1>1, <1>2, PtyClosedFacts
<1> HIDE DEF c
<1>5. x \in LocalRecords /\ SameView(c, x) /\ x.grace = c.grace /\ x.st = "disposed" /\ ~x.child
  BY <1>4 DEF LocalRecords, SameView
<1> HIDE DEF x
<1>6. SameView(ses[s], x) /\ ~Young(x) /\ x.by # "none" /\ x.grace = ses[s].grace
  BY <1>2, <1>4, <1>5 DEF SameView, Young
<1>7. CASE x.shown
  <2>1. /\ u \in LocalRecords /\ u.shown = FALSE /\ u.listed = FALSE /\ u.by = x.by /\ u.entry = x.entry /\ u.user = x.user
        /\ u.stopping = x.stopping /\ u.grace = x.grace /\ u.st = x.st /\ u.child = x.child
    BY <1>5, UnlistedFacts
  <2> HIDE DEF u
  <2>2. PICK b \in BOOLEAN : b = (u.user \/ x.entry)
    OBVIOUS
  <2>3. v = [u EXCEPT !.user = b]
    BY <2>2
  <2>4. /\ v \in LocalRecords /\ v.shown = FALSE /\ v.listed = FALSE /\ v.by = u.by /\ v.entry = u.entry /\ v.user = b
        /\ v.stopping = u.stopping /\ v.grace = u.grace /\ v.st = u.st /\ v.child = u.child
    BY <2>1, <2>3 DEF LocalRecords
  <2> HIDE DEF v
  <2>5. ~Young(v) /\ ~Acts(v)
    BY <1>6, <2>1, <2>4 DEF Young, Acts
  <2>6. v.entry => v.user
    BY <2>1, <2>2, <2>4
  <2>7. SessionSound(v, IsServer, desk.off)
    BY ZenonT(30), <1>1, <1>5, <1>6, <2>1, <2>2, <2>4, <2>5, <2>6 DEF SessionSound, SameView
  <2> QED
    BY <1>3, <1>7, <2>4, <2>5, <2>7, OneSessionStep
<1>8. CASE ~x.shown
  BY <1>1, <1>5, <1>6, <1>8, <1>3, OneSessionStep DEF SessionSound, SameView, Acts
<1> QED
  BY <1>7, <1>8

LEMMA LocalStep == LocalInv /\ [LocalNext]_localVars => LocalInv'
<1> SUFFICES ASSUME LocalInv, [LocalNext]_localVars PROVE LocalInv'
  OBVIOUS
<1>1. CASE UNCHANGED localVars
  BY <1>1 DEF localVars, LocalInv, LocalTypeOK, SessionsSound, DeskSound, IsServer
<1>2. CASE StartServer \/ RestartTimer \/ RestartServer \/ OpenShell
  BY <1>2, StartsStep
<1>3. CASE StopServer \/ \E s \in Sessions : StopSession(s)
  BY <1>3, StopsStep
<1>4. CASE RemoveLocalServer \/ DisposeManager
  BY <1>4, RemovalStep, DisposalStep
<1>5. CASE DisconnectShell \/ RemoveShell \/ ShutDownShells
  BY <1>5, ShellsStep, ShutDownStep
<1>6. CASE \E s \in Sessions : OpenPty(s) \/ Ready(s) \/ WindowEnds(s) \/ ChildExits(s) \/ BadFrame(s)
  BY <1>6, OpenPtyStep, StartupStep, ExitStep
<1>7. CASE \E s \in Sessions : GraceTimer(s) \/ StableTimer(s) \/ GiveUpStart(s) \/ TerminalClosed(s)
  BY <1>7, TimersStep, ClosedStep
<1> QED
  BY <1>1, <1>2, <1>3, <1>4, <1>5, <1>6, <1>7 DEF LocalNext

LEMMA LocalImplies == LocalInv => LocalSound
<1> SUFFICES ASSUME LocalInv PROVE LocalSound
  OBVIOUS
<1>1. \A s \in Sessions : SessionSound(ses[s], IsServer, desk.off)
  BY LocalParts
<1>2. \A s \in Sessions : Working(s) => Young(ses[s])
  BY <1>1 DEF Working, Young, SessionSound
<1>3. OneProcess
  <2> SUFFICES ASSUME IsServer PROVE Cardinality({s \in Sessions : Working(s)}) <= 1
    BY DEF OneProcess
  <2> DEFINE W == {s \in Sessions : Working(s)}
  <2>1. \A s, t \in W : s = t
    BY <1>1, <1>2 DEF SessionSound, LocalInv, DeskSound
  <2>2. CASE W = {}
    BY <2>2, FS_EmptySet
  <2>3. CASE W # {}
    <3>1. PICK s \in W : W = {s}
      BY <2>1, <2>3
    <3> QED
      BY <3>1, FS_Singleton
  <2> QED
    BY <2>2, <2>3
<1>4. WorkIsShown
  BY <1>1, <1>2 DEF WorkIsShown, SessionSound, Acts
<1>5. RestartsBounded
  BY ActiveSessions DEF RestartsBounded, LocalInv, DeskSound
<1>6. ListsAgree
  BY <1>1 DEF ListsAgree, SessionSound
<1> QED
  BY <1>3, <1>4, <1>5, <1>6 DEF LocalSound, LocalInv

(* A server has one process at most, whatever is started, stopped, restarted    *)
(* and removed while it exits by itself (getActiveSessionIdForConfig(),         *)
(* handleExit()); what works can be found in the views; and no more restarts    *)
(* are tried than the setting allows, one at a time and only while no session   *)
(* of the server is active.                                                     *)
THEOREM LocalProcessesAreSound == LocalSpec => []LocalSound
BY LocalInitial, LocalStep, LocalImplies, PTL DEF LocalSpec

------------------------------------------------------------------------------
(* SessionTranscript                                                          *)

\* What is cut from a text and what is put together of two.
LEMMA CutText ==
  ASSUME NEW S, NEW s \in Seq(S), NEW k \in 0..Len(s)
  PROVE  /\ SubSeq(s, 1, k) \in Seq(S) /\ Len(SubSeq(s, 1, k)) = k
         /\ From(s, k) \in Seq(S) /\ Len(From(s, k)) = Len(s) - k
         /\ \A i \in 1..k : SubSeq(s, 1, k)[i] = s[i]
         /\ \A i \in 1..(Len(s) - k) : From(s, k)[i] = s[k + i]
         /\ SubSeq(s, 1, k) \o From(s, k) = s
<1>1. Len(s) \in Nat /\ \A i \in 1..Len(s) : s[i] \in S
  BY LenProperties, ElementOfSeq
<1>2. /\ SubSeq(s, 1, k) \in Seq(S) /\ Len(SubSeq(s, 1, k)) = k
      /\ \A i \in 1..k : SubSeq(s, 1, k)[i] = s[i]
  BY <1>1, SubSeqProperties
<1>3. /\ From(s, k) \in Seq(S) /\ Len(From(s, k)) = Len(s) - k
      /\ \A i \in 1..(Len(s) - k) : From(s, k)[i] = s[k + i]
  BY <1>1, SubSeqProperties DEF From
<1>4. SubSeq(s, 1, k) \o From(s, k) = s
  <2>1. SubSeq(s, 1, k) \o SubSeq(s, k + 1, Len(s)) = SubSeq(s, 1, Len(s))
    <3>1. 1 \in 1..(Len(s) + 1) /\ k \in (1 - 1)..Len(s) /\ Len(s) \in k..Len(s)
      BY <1>1
    <3> QED
      BY <3>1, ConcatAdjacentSubSeq
  <2> QED
    BY <2>1, SubSeqFull DEF From
<1> QED
  BY <1>2, <1>3, <1>4

LEMMA SetOfConcat ==
  ASSUME NEW S, NEW s \in Seq(S), NEW t \in Seq(S)
  PROVE  ToSet(s \o t) = ToSet(s) \cup ToSet(t) /\ ToSet(s) \subseteq S
<1>1. /\ s \o t \in Seq(S) /\ Len(s \o t) = Len(s) + Len(t)
      /\ \A i \in 1..(Len(s) + Len(t)) : (s \o t)[i] = IF i <= Len(s) THEN s[i] ELSE t[i - Len(s)]
  BY ConcatProperties
<1>2. /\ DOMAIN s = 1..Len(s) /\ DOMAIN t = 1..Len(t) /\ Len(s) \in Nat /\ Len(t) \in Nat
      /\ DOMAIN (s \o t) = 1..(Len(s) + Len(t))
  BY <1>1, LenProperties
<1>3. ToSet(s \o t) \subseteq ToSet(s) \cup ToSet(t)
  BY <1>1, <1>2 DEF ToSet
<1>4. ASSUME NEW i \in 1..Len(s) PROVE s[i] \in ToSet(s \o t)
  BY <1>1, <1>2 DEF ToSet
<1>5. ASSUME NEW i \in 1..Len(t) PROVE t[i] \in ToSet(s \o t)
  <2>1. Len(s) + i \in 1..(Len(s) + Len(t)) /\ (s \o t)[Len(s) + i] = t[i]
    BY <1>1, <1>2
  <2> QED
    BY <1>2, <2>1 DEF ToSet
<1>6. ToSet(s) \subseteq S
  BY <1>2, ElementOfSeq DEF ToSet
<1> QED
  BY <1>2, <1>3, <1>4, <1>5, <1>6 DEF ToSet

\* The same of the text of a transcript.
LEMMA Joined ==
  /\ \A s, t \in Text : /\ s \o t \in Text /\ Len(s \o t) = Len(s) + Len(t)
                        /\ ToSet(s \o t) = ToSet(s) \cup ToSet(t)
  /\ <<>> \in Text /\ ToSet(<<>>) = {} /\ InOrder(<<>>) /\ Len(<<>>) = 0
  /\ \A s \in Text : <<>> \o s = s /\ s \o <<>> = s
<1>1. ASSUME NEW s \in Text, NEW t \in Text
      PROVE  s \o t \in Text /\ Len(s \o t) = Len(s) + Len(t) /\ ToSet(s \o t) = ToSet(s) \cup ToSet(t)
  BY ConcatProperties, SetOfConcat DEF Text
<1>3. <<>> \in Text /\ Len(<<>>) = 0
  BY EmptySeq DEF Text
<1>4. DOMAIN <<>> = 1..0
  BY <1>3, LenProperties DEF Text
<1>5. ToSet(<<>>) = {} /\ InOrder(<<>>)
  BY <1>4 DEF ToSet, InOrder
<1>6. ASSUME NEW s \in Text PROVE <<>> \o s = s /\ s \o <<>> = s
  BY ConcatEmptySeq DEF Text
<1> QED
  BY <1>1, <1>3, <1>5, <1>6

\* Stated apart from Joined: few steps regroup, and the others need not meet it.
LEMMA Regrouped ==
  ASSUME NEW s \in Text, NEW t \in Text, NEW u \in Text
  PROVE  (s \o t) \o u = s \o (t \o u)
<1> DEFINE S == Nat \X Nat
<1>1. s \in Seq(S) /\ t \in Seq(S) /\ u \in Seq(S)
  BY DEF Text
<1> HIDE DEF S
<1> QED
  BY <1>1, ConcatAssociative

LEMMA OrderOfConcat ==
  ASSUME NEW s \in Text, NEW t \in Text
  PROVE  InOrder(s \o t) <=> InOrder(s) /\ InOrder(t) /\ Precedes(s, t)
<1>1. /\ \A i \in 1..(Len(s) + Len(t)) : (s \o t)[i] = IF i <= Len(s) THEN s[i] ELSE t[i - Len(s)]
      /\ DOMAIN s = 1..Len(s) /\ DOMAIN t = 1..Len(t) /\ Len(s) \in Nat /\ Len(t) \in Nat
      /\ DOMAIN (s \o t) = 1..(Len(s) + Len(t))
  BY ConcatProperties, LenProperties DEF Text
<1>2. ASSUME InOrder(s \o t) PROVE InOrder(s) /\ InOrder(t) /\ Precedes(s, t)
  <2>1. InOrder(s)
    BY <1>1, <1>2 DEF InOrder
  <2>2. InOrder(t)
    <3> SUFFICES ASSUME NEW i \in 1..Len(t), NEW j \in 1..Len(t), i < j PROVE Later(t[i], t[j])
      BY <1>1 DEF InOrder
    <3>1. Len(s) + i \in 1..(Len(s) + Len(t)) /\ Len(s) + j \in 1..(Len(s) + Len(t)) /\ Len(s) + i < Len(s) + j
      BY <1>1
    <3>2. (s \o t)[Len(s) + i] = t[i] /\ (s \o t)[Len(s) + j] = t[j]
      BY <1>1, <3>1
    <3>3. Later((s \o t)[Len(s) + i], (s \o t)[Len(s) + j])
      BY <1>1, <1>2, <3>1 DEF InOrder
    <3> QED
      BY <3>2, <3>3
  <2>3. Precedes(s, t)
    <3> SUFFICES ASSUME NEW i \in 1..Len(s), NEW j \in 1..Len(t) PROVE Later(s[i], t[j])
      BY <1>1 DEF Precedes, ToSet
    <3>1. i \in 1..(Len(s) + Len(t)) /\ Len(s) + j \in 1..(Len(s) + Len(t)) /\ i < Len(s) + j
      BY <1>1
    <3>2. (s \o t)[i] = s[i] /\ (s \o t)[Len(s) + j] = t[j]
      BY <1>1, <3>1
    <3>3. Later((s \o t)[i], (s \o t)[Len(s) + j])
      BY <1>1, <1>2, <3>1 DEF InOrder
    <3> QED
      BY <3>2, <3>3
  <2> QED
    BY <2>1, <2>2, <2>3
<1>3. ASSUME InOrder(s), InOrder(t), Precedes(s, t) PROVE InOrder(s \o t)
  <2> SUFFICES ASSUME NEW i \in 1..(Len(s) + Len(t)), NEW j \in 1..(Len(s) + Len(t)), i < j
               PROVE  Later((s \o t)[i], (s \o t)[j])
    BY <1>1 DEF InOrder
  <2>1. CASE j <= Len(s)
    BY <1>1, <1>3, <2>1 DEF InOrder
  <2>2. CASE i > Len(s)
    BY <1>1, <2>2, <1>3 DEF InOrder
  <2>3. CASE i <= Len(s) /\ j > Len(s)
    <3>1. i \in 1..Len(s) /\ j - Len(s) \in 1..Len(t)
      BY <1>1, <2>3
    <3>2. s[i] \in ToSet(s) /\ t[j - Len(s)] \in ToSet(t)
      BY <1>1, <3>1 DEF ToSet
    <3>3. Later(s[i], t[j - Len(s)])
      BY <1>3, <3>2 DEF Precedes
    <3> QED
      BY <1>1, <2>3, <3>3
  <2> QED
    BY <1>1, <2>1, <2>2, <2>3
<1> QED
  BY <1>2, <1>3


LEMMA CutOff ==
  ASSUME NEW s \in Text, NEW k \in 0..Len(s)
  PROVE  /\ SubSeq(s, 1, k) \in Text /\ Len(SubSeq(s, 1, k)) = k
         /\ From(s, k) \in Text /\ Len(From(s, k)) = Len(s) - k
         /\ SubSeq(s, 1, k) \o From(s, k) = s
BY CutText DEF Text
\* Max() and Min() of a set of lengths.
LEMMA LeastLength ==
  ASSUME NEW T, T \subseteq Nat, T # {}
  PROVE  \E x \in T : \A y \in T : x <= y
<1> DEFINE R == OpToRel(<, Nat)
<1>1. IsWellFoundedOn(R, Nat)
  BY NatLessThanWellFounded
<1>2. PICK x \in T : \A y \in T : ~(<<y, x>> \in R)
  BY <1>1, WFMin
<1>3. \A y \in T : ~(y < x)
  BY <1>2 DEF OpToRel
<1> QED
  BY <1>3

LEMMA LongestLength ==
  ASSUME NEW k \in Nat, NEW T, T \subseteq 0..k, T # {}
  PROVE  Max(T) \in T
<1> DEFINE U == {k - x : x \in T}
<1>1. U \subseteq Nat /\ U # {}
  OBVIOUS
<1>2. PICK m \in U : \A y \in U : m <= y
  BY <1>1, LeastLength
<1>3. PICK x \in T : m = k - x
  OBVIOUS
<1>4. ASSUME NEW y \in T PROVE x >= y
  <2>1. k - y \in U
    OBVIOUS
  <2> QED
    BY <1>2, <1>3, <2>1
<1>5. \E z \in T : \A y \in T : z >= y
  BY <1>4
<1> QED
  BY <1>5 DEF Max

LEMMA ShortestLength ==
  ASSUME NEW T, T \subseteq Nat, T # {}
  PROVE  Min(T) \in T
BY LeastLength DEF Min

------------------------------------------------------------------------------
(* Where the text of a transcript is: in rotated generations, in the live file *)
(* or destined for it ("head"), or still to be given a place ("pend").         *)

Apart(s, t) == \A a \in ToSet(s), b \in ToSet(t) : a[1] < b[1]
UnitsOf(ch) == UNION {ToSet(Chunk(c, ch[c])) : c \in DOMAIN ch}
OldText(old) == UNION {ToSet(old[g]) : g \in 1..MaxRotated}
Olds == [1..MaxRotated -> Text]

\* Writes are in order and none is parted between two places, and whatever was
\* written is in one of them or was given up.
TextSound(old, head, pend, gn, ch) ==
  /\ InOrder(head \o pend) /\ Apart(head, pend)
  /\ \A g \in 1..MaxRotated : InOrder(old[g]) /\ Apart(old[g], head \o pend)
  /\ \A g, h \in 1..MaxRotated : h < g => Apart(old[g], old[h])
  /\ UnitsOf(ch) = ToSet(head \o pend) \cup OldText(old) \cup gn

\* From the pending writes to the text owed to the live file.
LEMMA MoveOn ==
  ASSUME NEW old, NEW head \in Text, NEW a \in Text, NEW b \in Text, NEW gn, NEW ch,
         TextSound(old, head, a \o b, gn, ch), Apart(a, b)
  PROVE  TextSound(old, head \o a, b, gn, ch)
<1>1. a \o b \in Text /\ head \o a \in Text /\ (head \o a) \o b = head \o (a \o b)
  BY Joined, Regrouped
<1>2. ToSet(head \o a) = ToSet(head) \cup ToSet(a) /\ ToSet(a \o b) = ToSet(a) \cup ToSet(b)
  BY Joined
<1>3. Apart(head \o a, b)
  BY <1>2 DEF TextSound, Apart
<1> QED
  BY <1>1, <1>3 DEF TextSound

\* The cap cuts from what is owed ...
LEMMA CutOwed ==
  ASSUME NEW old, NEW x \in Text, NEW c \in Text, NEW z \in Text, NEW pend \in Text, NEW gn, NEW ch,
         TextSound(old, x \o (c \o z), pend, gn, ch)
  PROVE  TextSound(old, x \o z, pend, gn \cup ToSet(c), ch)
<1>1. c \o z \in Text /\ x \o (c \o z) \in Text /\ x \o z \in Text
  BY Joined
<1>2. /\ ToSet((x \o (c \o z)) \o pend) = ToSet(x) \cup ToSet(c) \cup ToSet(z) \cup ToSet(pend)
      /\ ToSet((x \o z) \o pend) = ToSet(x) \cup ToSet(z) \cup ToSet(pend)
      /\ ToSet(x \o (c \o z)) = ToSet(x) \cup ToSet(c) \cup ToSet(z)
      /\ ToSet(x \o z) = ToSet(x) \cup ToSet(z) /\ ToSet(c \o z) = ToSet(c) \cup ToSet(z)
  BY <1>1, Joined
<1>3. InOrder(x \o (c \o z)) /\ InOrder(pend) /\ Precedes(x \o (c \o z), pend)
  BY <1>1, OrderOfConcat DEF TextSound
<1>4. InOrder(x) /\ InOrder(c \o z) /\ Precedes(x, c \o z)
  BY <1>1, <1>3, OrderOfConcat
<1>5. InOrder(z)
  BY <1>4, OrderOfConcat
<1>6. Precedes(x, z) /\ Precedes(x \o z, pend)
  BY <1>2, <1>3, <1>4 DEF Precedes
<1>7. InOrder((x \o z) \o pend)
  BY <1>1, <1>3, <1>4, <1>5, <1>6, OrderOfConcat
<1>8. Apart(x \o z, pend)
  BY <1>2 DEF TextSound, Apart
<1>9. \A g \in 1..MaxRotated : Apart(old[g], (x \o z) \o pend)
  BY <1>2 DEF TextSound, Apart
<1>10. UnitsOf(ch) = ToSet((x \o z) \o pend) \cup OldText(old) \cup (gn \cup ToSet(c))
  BY <1>2 DEF TextSound
<1> QED
  BY <1>7, <1>8, <1>9, <1>10 DEF TextSound

\* ... and then from the pending writes.
LEMMA CutPending ==
  ASSUME NEW old, NEW head \in Text, NEW c \in Text, NEW z \in Text, NEW gn, NEW ch,
         TextSound(old, head, c \o z, gn, ch)
  PROVE  TextSound(old, head, z, gn \cup ToSet(c), ch)
BY Joined, OrderOfConcat DEF TextSound, Precedes, Apart

LEMMA OneChunk ==
  ASSUME NEW c \in Nat, NEW n \in Nat
  PROVE  Chunk(c, n) \in Text /\ Len(Chunk(c, n)) = n /\ InOrder(Chunk(c, n)) /\ \A u \in ToSet(Chunk(c, n)) : u[1] = c
BY SeqDef, LenProperties DEF Chunk, Text, InOrder, Later, ToSet

\* write() brings a text later than all there is.
LEMMA Bring ==
  ASSUME NEW old, NEW head \in Text, NEW pend \in Text, NEW gn, NEW ch \in Seq(Nat), NEW n \in Nat,
         TextSound(old, head, pend, gn, ch)
  PROVE  TextSound(old, head, pend \o Chunk(Len(ch) + 1, n), gn, Append(ch, n))
<1> DEFINE new == Chunk(Len(ch) + 1, n)
           more == Append(ch, n)
<1>1. Len(ch) \in Nat /\ DOMAIN ch = 1..Len(ch) /\ \A i \in 1..Len(ch) : ch[i] \in Nat
  BY LenProperties, ElementOfSeq
<1>2. new \in Text /\ InOrder(new) /\ \A u \in ToSet(new) : u[1] = Len(ch) + 1
  BY <1>1, OneChunk
<1>3. /\ DOMAIN more = 1..(Len(ch) + 1) /\ more[Len(ch) + 1] = n
      /\ \A i \in 1..Len(ch) : more[i] = ch[i]
  BY <1>1, AppendProperties, LenProperties
<1>4. \A u \in UnitsOf(ch) : u[1] < Len(ch) + 1
  BY <1>1, OneChunk DEF UnitsOf
<1>5. UnitsOf(more) = UnitsOf(ch) \cup ToSet(new)
  BY <1>3, <1>1 DEF UnitsOf
<1> HIDE DEF new, more
<1>6. head \o pend \in Text /\ pend \o new \in Text /\ (head \o pend) \o new = head \o (pend \o new)
  BY <1>2, Joined, Regrouped
<1>7. ToSet(head \o (pend \o new)) = ToSet(head \o pend) \cup ToSet(new) /\ ToSet(pend \o new) = ToSet(pend) \cup ToSet(new)
      /\ ToSet(head \o pend) = ToSet(head) \cup ToSet(pend)
  BY <1>2, <1>6, Joined
<1>8. Precedes(head \o pend, new)
  BY <1>2, <1>4, <1>7 DEF Precedes, Later, TextSound
<1>9. InOrder(head \o (pend \o new))
  BY <1>2, <1>6, <1>8, OrderOfConcat DEF TextSound
<1>10. Apart(head, pend \o new)
  BY <1>2, <1>4, <1>7 DEF TextSound, Apart
<1>11. \A g \in 1..MaxRotated : Apart(old[g], head \o (pend \o new))
  BY <1>2, <1>4, <1>7 DEF Apart, OldText, TextSound
<1>12. UnitsOf(more) = ToSet(head \o (pend \o new)) \cup OldText(old) \cup gn
  BY <1>5, <1>7 DEF TextSound
<1>13. TextSound(old, head, pend \o new, gn, more)
  BY <1>9, <1>10, <1>11, <1>12 DEF TextSound
<1> QED
  BY <1>13 DEF new, more

\* WholeWrites() never parts a write.
LEMMA WholeWritesApart ==
  ASSUME NEW p \in Text, InOrder(p), NEW n \in WholeWrites(p)
  PROVE  n \in 0..Len(p) /\ Apart(SubSeq(p, 1, n), From(p, n))
<1> DEFINE w == [i \in 1..Len(p) |-> p[i][1]]
<1>1. Len(p) \in Nat /\ DOMAIN p = 1..Len(p) /\ \A i \in 1..Len(p) : p[i] \in Nat \X Nat
  BY LenProperties, ElementOfSeq DEF Text
<1>2. n = 0 \/ n = Len(p) \/ (n \in 1..(Len(p) - 1) /\ p[n][1] # p[n + 1][1])
  BY Zenon DEF WholeWrites
<1>3. n \in 0..Len(p)
  BY <1>1, <1>2
<1>4. /\ SubSeq(p, 1, n) \in Text /\ Len(SubSeq(p, 1, n)) = n /\ \A i \in 1..n : SubSeq(p, 1, n)[i] = p[i]
      /\ From(p, n) \in Text /\ Len(From(p, n)) = Len(p) - n /\ \A i \in 1..(Len(p) - n) : From(p, n)[i] = p[n + i]
  BY <1>3, CutText DEF Text
<1>5. DOMAIN SubSeq(p, 1, n) = 1..n /\ DOMAIN From(p, n) = 1..(Len(p) - n)
  BY <1>4, LenProperties DEF Text
<1>6. \A i \in 1..Len(p) : w[i] \in Nat /\ w[i] = p[i][1]
  BY <1>1
<1>7. ASSUME NEW i \in 1..Len(p), NEW j \in 1..Len(p), i < j PROVE w[i] <= w[j]
  <2>1. p[i][1] < p[j][1] \/ p[i][1] = p[j][1]
    BY <1>1, <1>7 DEF InOrder, Later
  <2> HIDE DEF w
  <2>2. w[i] = p[i][1] /\ w[j] = p[j][1] /\ w[i] \in Nat /\ w[j] \in Nat
    BY <1>6
  <2>3. w[i] < w[j] \/ w[i] = w[j]
    BY <2>1, <2>2
  <2> QED
    BY <2>2, <2>3
<1>8. n \in 1..(Len(p) - 1) => w[n] < w[n + 1]
  <2> SUFFICES ASSUME n \in 1..(Len(p) - 1) PROVE w[n] < w[n + 1]
    OBVIOUS
  <2>1. n \in 1..Len(p) /\ n + 1 \in 1..Len(p) /\ n < n + 1 /\ n # Len(p) /\ n # 0
    BY <1>1
  <2>2. w[n] # w[n + 1]
    BY <1>2, <2>1, <1>6
  <2> HIDE DEF w
  <2> QED
    BY <1>6, <1>7, <2>1, <2>2
<1> HIDE DEF w
<1>9. ASSUME NEW i \in 1..n, NEW j \in 1..(Len(p) - n) PROVE SubSeq(p, 1, n)[i][1] < From(p, n)[j][1]
  <2>1. /\ n \in 1..(Len(p) - 1) /\ i \in 1..Len(p) /\ n \in 1..Len(p)
        /\ n + 1 \in 1..Len(p) /\ n + j \in 1..Len(p)
    BY <1>1, <1>3
  <2>2. w[i] <= w[n]
    BY <1>6, <1>7, <2>1
  <2>3. w[n + 1] <= w[n + j]
    BY <1>6, <1>7, <2>1
  <2>4. w[i] < w[n + j]
    BY <1>6, <1>8, <2>1, <2>2, <2>3
  <2>5. SubSeq(p, 1, n)[i] = p[i] /\ From(p, n)[j] = p[n + j]
    BY <1>4
  <2> QED
    BY <1>6, <2>1, <2>4, <2>5
<1>10. Apart(SubSeq(p, 1, n), From(p, n))
  BY <1>5, <1>9 DEF Apart, ToSet
<1> QED
  BY <1>3, <1>10

\* A rotation takes nothing but the live file and the oldest generation, and is
\* made when nothing else is destined for that file.
LEMMA RotationSound ==
  ASSUME NEW d \in Disks, NEW moved \in BOOLEAN, NEW pend \in Text, NEW gn, NEW ch,
         TextSound(d.old, d.live, pend, gn, ch)
  PROVE  /\ ShiftGenerations(d, moved) \in Disks
         /\ TextSound(ShiftGenerations(d, moved).old, ShiftGenerations(d, moved).live, pend,
                      gn \cup RotatedAway(d, moved), ch)
<1> DEFINE new == [g \in 1..MaxRotated |-> IF g > 1 THEN d.old[g - 1] ELSE IF moved THEN d.live ELSE <<>>]
           live == IF moved THEN <<>> ELSE d.live
<1>1. /\ MaxRotated \in Nat /\ d.live \in Text /\ d.old \in Olds
      /\ <<>> \in Text /\ ToSet(<<>>) = {} /\ InOrder(<<>>)
      /\ \A g \in 2..MaxRotated : g - 1 \in 1..MaxRotated
  BY TranscriptAssumption, Joined DEF Disks, Olds
<1>2. /\ ShiftGenerations(d, moved).old = new /\ ShiftGenerations(d, moved).live = live
      /\ ShiftGenerations(d, moved) = [live |-> live, old |-> new]
  BY DEF ShiftGenerations
<1>3. /\ live \in Text /\ \A g \in 2..MaxRotated : new[g] = d.old[g - 1]
      /\ MaxRotated > 0 => new[1] = IF moved THEN d.live ELSE <<>>
      /\ \A g \in 1..MaxRotated : g = 1 \/ g \in 2..MaxRotated
  BY <1>1
<1>4. new \in Olds
  BY <1>1, <1>3 DEF Olds
<1>5. (live = <<>> /\ moved) \/ (live = d.live /\ ~moved)
  OBVIOUS
<1> HIDE DEF new
<1>6. /\ ToSet(d.live \o pend) = ToSet(d.live) \cup ToSet(pend) /\ ToSet(live \o pend) = ToSet(live) \cup ToSet(pend)
      /\ <<>> \o pend = pend
  BY <1>1, <1>3, Joined
<1>7. InOrder(d.live) /\ InOrder(pend)
  BY <1>1, OrderOfConcat DEF TextSound
<1>8. InOrder(live \o pend) /\ Apart(live, pend)
  BY <1>1, <1>5, <1>6, <1>7 DEF TextSound, Apart
<1>9. ASSUME NEW g \in 1..MaxRotated PROVE InOrder(new[g]) /\ Apart(new[g], live \o pend)
  BY <1>1, <1>3, <1>5, <1>6, <1>7 DEF TextSound, Apart
<1>10. ASSUME NEW g \in 1..MaxRotated, NEW h \in 1..MaxRotated, h < g PROVE Apart(new[g], new[h])
  BY <1>1, <1>3, <1>10, <1>6 DEF TextSound, Apart
<1>11. ToSet(live \o pend) \cup OldText(new) \cup RotatedAway(d, moved)
       = ToSet(d.live \o pend) \cup OldText(d.old)
  <2>1. CASE MaxRotated = 0
    BY <2>1, <1>1, <1>6 DEF OldText, RotatedAway
  <2>2. CASE MaxRotated > 0
    <3>1. RotatedAway(d, moved) = ToSet(d.old[MaxRotated]) /\ MaxRotated \in 1..MaxRotated /\ 1 \in 1..MaxRotated
      BY <1>1, <2>2 DEF RotatedAway
    <3>2. new[1] = IF moved THEN d.live ELSE <<>>
      BY <1>3, <2>2
    <3>3. ToSet(new[1]) \cup ToSet(live) = ToSet(d.live)
      BY <1>1, <1>5, <3>2
    <3>4. OldText(new) \subseteq ToSet(new[1]) \cup OldText(d.old)
      BY <1>3, <1>1 DEF OldText
    <3>5. OldText(d.old) \subseteq OldText(new) \cup ToSet(d.old[MaxRotated])
      <4> SUFFICES ASSUME NEW g \in 1..MaxRotated, g # MaxRotated, NEW u \in ToSet(d.old[g]) PROVE u \in OldText(new)
        BY DEF OldText
      <4>1. g + 1 \in 2..MaxRotated /\ g + 1 \in 1..MaxRotated /\ g + 1 - 1 = g
        BY <1>1
      <4>2. new[g + 1] = d.old[g]
        BY <1>3, <4>1
      <4> QED
        BY <4>1, <4>2 DEF OldText
    <3>6. ToSet(new[1]) \subseteq OldText(new) /\ ToSet(d.old[MaxRotated]) \subseteq OldText(d.old)
      BY <3>1 DEF OldText
    <3> QED
      BY <1>6, <3>1, <3>3, <3>4, <3>5, <3>6
  <2> QED
    BY <1>1, <2>1, <2>2
<1>12. UnitsOf(ch) = ToSet(live \o pend) \cup OldText(new) \cup (gn \cup RotatedAway(d, moved))
  BY <1>11 DEF TextSound
<1>13. TextSound(new, live, pend, gn \cup RotatedAway(d, moved), ch)
  BY <1>8, <1>9, <1>10, <1>12 DEF TextSound
<1> HIDE DEF live
<1> QED
  BY <1>2, <1>3, <1>4, <1>13 DEF Disks, Olds

------------------------------------------------------------------------------
(* The operators on a transcript                                              *)

\* What promote() and an append leave alone.
Kept(t, u) ==
  /\ u.closed = t.closed /\ u.timer = t.timer /\ u.chain = t.chain /\ u.queued = t.queued
  /\ u.attempt = t.attempt /\ u.retry = t.retry /\ u.stranded = t.stranded

\* The text of a transcript whose batch is in the file up to place k.
TrText(t, d, k, gn, ch) ==
  TextSound(d.old, d.live \o (From(t.inFlight, k) \o t.owed), t.pending, gn, ch)

LEMMA TrFields ==
  ASSUME NEW t \in Transcripts
  PROVE  /\ t.pending \in Text /\ t.owed \in Text /\ t.inFlight \in Text /\ t.size \in Nat
         /\ Len(t.pending) \in Nat /\ Len(t.owed) \in Nat /\ Len(t.inFlight) \in Nat
         /\ t.chain \in Links /\ t.fd \in BOOLEAN /\ t.attempt \in 0..CloseRetries
BY LenProperties DEF Transcripts, Text

LEMMA Counts ==
  ASSUME NEW t \in Transcripts
  PROVE  RetainedCount(t) \in Nat
<1>1. Len(t.owed) \in Nat /\ Len(t.pending) \in Nat
  BY TrFields
<1>2. \A x, y \in Nat : x + y \in Nat
  OBVIOUS
<1>3. Len(t.owed) + Len(t.pending) \in Nat
  BY <1>1, <1>2, Zenon
<1> QED
  BY <1>3, Zenon DEF RetainedCount

\* Whole writes become owed to the live file.
Taken(t, n) ==
  [t EXCEPT !.owed = t.owed \o SubSeq(t.pending, 1, n), !.pending = From(t.pending, n)]
TakenSound(t, u, old, live, gn, ch) ==
  /\ u \in Transcripts /\ Kept(t, u) /\ RetainedCount(u) = RetainedCount(t)
  /\ u.inFlight = t.inFlight /\ u.draining = t.draining
  /\ TextSound(old, live \o u.owed, u.pending, gn, ch)
LEMMA TakeWrites ==
  ASSUME NEW t \in Transcripts, NEW n \in WholeWrites(t.pending), NEW old, NEW live \in Text, NEW gn, NEW ch,
         TextSound(old, live \o t.owed, t.pending, gn, ch)
  PROVE  TakenSound(t, Taken(t, n), old, live, gn, ch)
<1> DEFINE u == Taken(t, n)
<1> DEFINE a == SubSeq(t.pending, 1, n)
           b == From(t.pending, n)
<1>1. t.pending \in Text /\ t.owed \in Text /\ live \o t.owed \in Text /\ Len(t.pending) \in Nat /\ Len(t.owed) \in Nat
  BY TrFields, Joined
<1>2. InOrder(t.pending)
  BY <1>1, OrderOfConcat DEF TextSound
<1>3. n \in 0..Len(t.pending) /\ Apart(a, b)
  BY <1>1, <1>2, WholeWritesApart
<1>4. a \in Text /\ b \in Text /\ Len(a) = n /\ Len(b) = Len(t.pending) - n /\ a \o b = t.pending
  BY <1>1, <1>3, CutText DEF Text
<1> HIDE DEF a, b
<1>5. TextSound(old, (live \o t.owed) \o a, b, gn, ch)
  BY <1>1, <1>3, <1>4, MoveOn
<1>6. t.owed \o a \in Text /\ Len(t.owed \o a) = Len(t.owed) + n /\ (live \o t.owed) \o a = live \o (t.owed \o a)
  BY <1>1, <1>4, Joined, Regrouped
<1>7. u = [t EXCEPT !.owed = t.owed \o a, !.pending = b]
  BY DEF a, b, Taken
<1> HIDE DEF u
<1>8. u.owed = t.owed \o a /\ u.pending = b
  BY <1>7 DEF Transcripts
<1>9. u \in Transcripts
  BY <1>4, <1>6, <1>7 DEF Transcripts
<1>10. u.inFlight = t.inFlight /\ u.draining = t.draining 
  BY <1>7 DEF Transcripts
<1>12. Kept(t, u)
  BY <1>7 DEF Transcripts, Kept
<1>11. RetainedCount(u) = RetainedCount(t)
  <2>1. Len(u.owed) = Len(t.owed) + n /\ Len(u.pending) = Len(t.pending) - n /\ n \in Int
    BY <1>1, <1>3, <1>4, <1>6, <1>8
  <2>2. \A x, y \in Nat, m \in Int : (x + m) + (y - m) = x + y
    OBVIOUS
  <2>3. (Len(t.owed) + n) + (Len(t.pending) - n) = Len(t.owed) + Len(t.pending)
    BY <1>1, <2>1, <2>2
  <2> QED
    BY <2>1, <2>3, Zenon DEF RetainedCount
<1> QED
  BY <1>5, <1>6, <1>8, <1>9, <1>10, <1>11, <1>12 DEF TakenSound, u

\* A rotation when nothing is owed to the file.
LEMMA RotateText ==
  ASSUME NEW t \in Transcripts, t.owed = <<>>, t.inFlight = <<>>, ~t.stranded, disk \in Disks, NEW gn, NEW ch,
         TextSound(disk.old, disk.live \o t.owed, t.pending, gn, ch), NEW s \in Rotations(t)
  PROVE  /\ s.tr \in Transcripts /\ Kept(t, s.tr) /\ s.failed \in 0..1
         /\ s.tr.owed = t.owed /\ s.tr.pending = t.pending /\ s.tr.inFlight = t.inFlight
         /\ s.tr.draining = t.draining
         /\ s.disk \in Disks /\ TextSound(s.disk.old, s.disk.live \o s.tr.owed, t.pending, gn \cup s.lost, ch)
<1> DEFINE u == [t EXCEPT !.fd = FALSE, !.size = 0, !.stranded = t.stranded \/ t.owed \o t.inFlight # <<>>]
<1>1. PICK moved \in BOOLEAN :
        s = [tr |-> u, disk |-> ShiftGenerations(disk, moved), lost |-> RotatedAway(disk, moved), failed |-> Fault(moved)]
  BY DEF Rotations
<1>2. t.owed \o t.inFlight = <<>> /\ t.pending \in Text /\ disk.live \in Text /\ disk.live \o t.owed = disk.live
  BY TrFields, Joined DEF Disks
<1>3. u \in Transcripts /\ u.owed = t.owed /\ u.pending = t.pending /\ u.inFlight = t.inFlight /\ u.draining = t.draining
  BY <1>2 DEF Transcripts
<1>4. Kept(t, u)
  BY <1>2 DEF Transcripts, Kept
<1> HIDE DEF u
<1>5. ShiftGenerations(disk, moved) \in Disks
      /\ TextSound(ShiftGenerations(disk, moved).old, ShiftGenerations(disk, moved).live, t.pending,
                   gn \cup RotatedAway(disk, moved), ch)
  <2>1. TextSound(disk.old, disk.live, t.pending, gn, ch)
    BY <1>2
  <2> QED
    BY <1>2, <2>1, RotationSound
<1>6. s.tr = u /\ s.disk = ShiftGenerations(disk, moved) /\ s.lost = RotatedAway(disk, moved) /\ s.failed \in 0..1
  BY <1>1 DEF Fault
<1>7. s.disk.live \o s.tr.owed = s.disk.live
  BY <1>3, <1>5, <1>6, Joined DEF Disks
<1> QED
  BY <1>3, <1>4, <1>5, <1>6, <1>7

\* What promote() may come to, from a transcript without a batch in flight.
Promoted(t, b, gn, ch) ==
  /\ b.tr \in Transcripts /\ b.disk \in Disks /\ b.failed \in 0..1
  /\ Kept(t, b.tr) /\ RetainedCount(b.tr) = RetainedCount(t)
  /\ b.tr.inFlight = <<>> /\ b.tr.draining = t.draining
  /\ TextSound(b.disk.old, b.disk.live \o b.tr.owed, b.tr.pending, gn \cup b.lost, ch)

LEMMA TakenHead ==
  ASSUME NEW t \in Transcripts, NEW s, NEW gn, NEW ch, Promoted(t, s, gn, ch)
  PROVE  Promoted(t, [tr |-> TakeHead(s.tr), disk |-> s.disk, lost |-> s.lost, failed |-> s.failed], gn, ch)
<1> DEFINE r == s.tr
           n == HeadLength(r.pending)
           u == Taken(r, n)
<1>1. r \in Transcripts /\ r.pending \in Text /\ s.disk.live \in Text
  BY TrFields DEF Promoted, Disks
<1>2. CASE r.owed # <<>> \/ r.pending = <<>>
  BY <1>2 DEF TakeHead, Promoted
<1>3. CASE r.owed = <<>> /\ r.pending # <<>>
  <2>1. n \in WholeWrites(r.pending)
    <3>1. Len(r.pending) \in Nat \ {0}
      BY <1>1, <1>3, EmptySeq DEF Text
    <3>2. WholeWrites(r.pending) \ {0} \subseteq Nat
      BY <3>1 DEF WholeWrites
    <3>3. WholeWrites(r.pending) \ {0} # {}
      BY <3>1 DEF WholeWrites
    <3>4. n \in WholeWrites(r.pending) \ {0}
      BY <3>2, <3>3, ShortestLength DEF HeadLength
    <3> QED
      BY <3>4
  <2>2. <<>> \o SubSeq(r.pending, 1, n) = SubSeq(r.pending, 1, n)
    BY <1>1, <2>1, TrFields, CutText, Joined DEF WholeWrites, Text
  <2>3. TakeHead(r) = u
    BY <1>3, <2>2 DEF TakeHead, Taken
  <2>4. TextSound(s.disk.old, s.disk.live \o r.owed, r.pending, gn \cup s.lost, ch)
    BY DEF Promoted
  <2> HIDE DEF n, u, r
  <2>5. /\ u \in Transcripts /\ Kept(r, u) /\ RetainedCount(u) = RetainedCount(r)
        /\ u.inFlight = r.inFlight /\ u.draining = r.draining
        /\ TextSound(s.disk.old, s.disk.live \o u.owed, u.pending, gn \cup s.lost, ch)
    BY <1>1, <2>4, <2>1, TakeWrites DEF TakenSound, u
  <2>6. Kept(t, u)
    BY <2>5 DEF Kept, Promoted, r
  <2> QED
    BY <2>3, <2>5, <2>6 DEF Promoted, r
<1> QED
  BY <1>2, <1>3

LEMMA TakenMore ==
  ASSUME NEW t \in Transcripts, NEW s, NEW gn, NEW ch, Promoted(t, s, gn, ch)
  PROVE  Promoted(t, [tr |-> TakeMore(s.tr), disk |-> s.disk, lost |-> s.lost, failed |-> s.failed], gn, ch)
<1> DEFINE r == s.tr
           T == {m \in WholeWrites(r.pending) : Fits(r, m)}
           n == Max(T)
           u == Taken(r, n)
<1>1. r \in Transcripts /\ r.pending \in Text /\ s.disk.live \in Text
  BY TrFields DEF Promoted, Disks
<1>2. CASE r.owed = <<>>
  BY <1>2 DEF TakeMore, Promoted
<1>3. CASE r.owed # <<>>
  <2>1. n \in WholeWrites(r.pending)
    <3>1. Len(r.pending) \in Nat
      BY <1>1, TrFields
    <3>2. T \subseteq 0..Len(r.pending)
      BY <3>1 DEF WholeWrites
    <3>3. 0 \in T
      BY DEF WholeWrites, Fits
    <3>4. n \in T
      BY <3>1, <3>2, <3>3, LongestLength
    <3> QED
      BY <3>4
  <2>2. TakeMore(r) = u
    BY <1>3 DEF TakeMore, Taken
  <2>3. TextSound(s.disk.old, s.disk.live \o r.owed, r.pending, gn \cup s.lost, ch)
    BY DEF Promoted
  <2> HIDE DEF n, u, r
  <2>4. /\ u \in Transcripts /\ Kept(r, u) /\ RetainedCount(u) = RetainedCount(r)
        /\ u.inFlight = r.inFlight /\ u.draining = r.draining
        /\ TextSound(s.disk.old, s.disk.live \o u.owed, u.pending, gn \cup s.lost, ch)
    BY <1>1, <2>3, <2>1, TakeWrites DEF TakenSound, u
  <2>5. Kept(t, u)
    BY <2>4 DEF Kept, Promoted, r
  <2> QED
    BY <2>2, <2>4, <2>5 DEF Promoted, r
<1> QED
  BY <1>2, <1>3

LEMMA PromotionSound ==
  ASSUME NEW t \in Transcripts, t.inFlight = <<>>, ~t.stranded, disk \in Disks, NEW gn, NEW ch,
         TextSound(disk.old, disk.live \o t.owed, t.pending, gn, ch), NEW b \in Promotions(t)
  PROVE  Promoted(t, b, gn, ch) /\ b = [tr |-> b.tr, disk |-> b.disk, lost |-> b.lost, failed |-> b.failed]
<1> DEFINE starts == IF MustRotate(t) THEN Rotations(t)
                    ELSE {[tr |-> t, disk |-> disk, lost |-> {}, failed |-> 0]}
<1>1. PICK s \in starts : b = [[s EXCEPT !.tr = TakeHead(s.tr)]
                               EXCEPT !.tr = TakeMore([s EXCEPT !.tr = TakeHead(s.tr)].tr)]
  BY Zenon DEF Promotions
<1>2. /\ Promoted(t, s, gn, ch)
      /\ s = [tr |-> s.tr, disk |-> s.disk, lost |-> s.lost, failed |-> s.failed]
  <2>1. CASE MustRotate(t)
    <3>1. s \in Rotations(t) /\ t.owed = <<>>
      BY <2>1 DEF MustRotate
    <3>2. /\ s.tr \in Transcripts /\ Kept(t, s.tr) /\ s.failed \in 0..1
          /\ s.tr.owed = t.owed /\ s.tr.pending = t.pending /\ s.tr.inFlight = t.inFlight
          /\ s.tr.draining = t.draining
          /\ s.disk \in Disks /\ TextSound(s.disk.old, s.disk.live \o s.tr.owed, t.pending, gn \cup s.lost, ch)
      BY <3>1, RotateText
    <3>3. s = [tr |-> s.tr, disk |-> s.disk, lost |-> s.lost, failed |-> s.failed]
      BY <3>1 DEF Rotations
    <3>4. RetainedCount(s.tr) = RetainedCount(t)
      BY <3>2 DEF RetainedCount
    <3> QED
      BY <3>2, <3>3, <3>4 DEF Promoted
  <2>2. CASE ~MustRotate(t)
    <3>1. s = [tr |-> t, disk |-> disk, lost |-> {}, failed |-> 0]
      BY <2>2
    <3>2. s.tr = t /\ s.disk = disk /\ s.lost = {} /\ s.failed = 0
      BY <3>1
    <3>3. Kept(t, t) /\ gn \cup {} = gn
      BY DEF Kept
    <3> QED
      BY <3>1, <3>2, <3>3 DEF Promoted
  <2> QED
    BY <2>1, <2>2
<1> HIDE DEF starts
<1> DEFINE h == [tr |-> TakeHead(s.tr), disk |-> s.disk, lost |-> s.lost, failed |-> s.failed]
<1>3. Promoted(t, h, gn, ch) /\ h.tr = TakeHead(s.tr) /\ h.disk = s.disk /\ h.lost = s.lost /\ h.failed = s.failed
  BY <1>2, TakenHead
<1>4. b = [tr |-> TakeMore(h.tr), disk |-> h.disk, lost |-> h.lost, failed |-> h.failed]
  BY <1>2, <1>1, <1>3
<1> HIDE DEF h
<1> QED
  BY <1>3, <1>4, TakenMore

\* A batch is taken from the front of what is owed.
BatchReady(t, b, gn, ch) ==
  /\ b.tr \in Transcripts /\ b.disk \in Disks /\ b.failed \in 0..1
  /\ Kept(t, b.tr) /\ b.tr.draining = t.draining
  /\ Len(b.tr.inFlight) <= MaxAppend
  /\ RetainedCount(b.tr) + Len(b.tr.inFlight) = RetainedCount(t)
  /\ TrText(b.tr, b.disk, 0, gn \cup b.lost, ch)

LEMMA WholeText ==
  ASSUME NEW s \in Text
  PROVE  From(s, 0) = s /\ From(s, Len(s)) = <<>> /\ Len(s) \in Nat
BY LenProperties, SubSeqFull, CutText, EmptySeq DEF Text, From

LEMMA BatchSound ==
  ASSUME NEW t \in Transcripts, NEW p, NEW gn, NEW ch, Promoted(t, p, gn, ch)
  PROVE  BatchReady(t, [tr |-> TakeAppendBatch(p.tr), disk |-> p.disk, lost |-> p.lost, failed |-> p.failed], gn, ch)
<1> DEFINE r == p.tr
           n == IF Len(r.owed) <= MaxAppend THEN Len(r.owed) ELSE MaxAppend
           a == SubSeq(r.owed, 1, n)
           b == From(r.owed, n)
           u == [r EXCEPT !.inFlight = a, !.owed = b]
<1>1. /\ r \in Transcripts /\ r.owed \in Text /\ r.inFlight = <<>> /\ r.draining = t.draining /\ Kept(t, r)
      /\ Len(r.owed) \in Nat /\ Len(r.pending) \in Nat /\ MaxAppend \in Nat
  BY TrFields, TranscriptAssumption DEF Promoted
<1>2. n \in 0..Len(r.owed) /\ n <= MaxAppend
  BY <1>1
<1>3. TakeAppendBatch(r) = u
  BY DEF TakeAppendBatch
<1> HIDE DEF n
<1>4. a \in Text /\ b \in Text /\ Len(a) = n /\ Len(b) = Len(r.owed) - n /\ a \o b = r.owed
  BY <1>1, <1>2, CutOff
<1> HIDE DEF a, b
<1>5. u \in Transcripts /\ u.inFlight = a /\ u.owed = b /\ u.pending = r.pending /\ u.draining = r.draining
  BY <1>1, <1>4 DEF Transcripts
<1>6. Kept(r, u)
  BY <1>1 DEF Transcripts, Kept
<1> HIDE DEF u
<1>7. Kept(t, u)
  BY <1>1, <1>6 DEF Kept
<1>8. RetainedCount(u) + Len(u.inFlight) = RetainedCount(t) /\ Len(u.inFlight) <= MaxAppend
  <2>1. Len(u.owed) = Len(r.owed) - n /\ Len(u.inFlight) = n /\ Len(u.pending) = Len(r.pending)
    BY <1>4, <1>5
  <2>2. RetainedCount(r) = RetainedCount(t)
    BY DEF Promoted
  <2>3. \A x, y \in Nat : \A m \in 0..x : ((x - m) + y) + m = x + y
    OBVIOUS
  <2>4. ((Len(r.owed) - n) + Len(r.pending)) + n = Len(r.owed) + Len(r.pending)
    BY <1>1, <1>2, <2>3
  <2> QED
    BY <1>2, <2>1, <2>2, <2>4 DEF RetainedCount
<1>9. TrText(u, p.disk, 0, gn \cup p.lost, ch)
  BY <1>4, <1>5, WholeText DEF TrText, Promoted
<1> HIDE DEF r
<1> QED
  BY <1>3, <1>5, <1>7, <1>8, <1>9, <1>1 DEF BatchReady, Promoted, r

LEMMA BatchesSound ==
  ASSUME NEW t \in Transcripts, t.inFlight = <<>>, ~t.stranded, disk \in Disks, NEW gn, NEW ch,
         TextSound(disk.old, disk.live \o t.owed, t.pending, gn, ch), NEW b \in Batches(t)
  PROVE  BatchReady(t, b, gn, ch)
BY PromotionSound, BatchSound DEF Batches

\* What is not in the file of a batch is owed again.
ReturnSound(t, u, d, gn, ch) ==
  /\ u \in Transcripts /\ Kept(t, u) /\ u.draining = t.draining /\ u.inFlight = <<>>
  /\ RetainedCount(u) <= RetainedCount(t) + Len(t.inFlight)
  /\ TextSound(d.old, d.live \o u.owed, u.pending, gn, ch)

LEMMA Returned ==
  ASSUME NEW t \in Transcripts, NEW k \in 0..Len(t.inFlight), NEW d, NEW gn, NEW ch, TrText(t, d, k, gn, ch)
  PROVE  ReturnSound(t, ReturnUnwritten(t, k), d, gn, ch)
<1> DEFINE a == From(t.inFlight, k) \o t.owed
           u == [t EXCEPT !.inFlight = <<>>, !.owed = a]
<1>1. /\ t.inFlight \in Text /\ t.owed \in Text /\ <<>> \in Text
      /\ Len(t.owed) \in Nat /\ Len(t.pending) \in Nat /\ Len(t.inFlight) \in Nat
  BY TrFields, Joined
<1>2. From(t.inFlight, k) \in Text /\ Len(From(t.inFlight, k)) = Len(t.inFlight) - k
  BY <1>1, CutOff
<1>3. a \in Text /\ Len(a) = (Len(t.inFlight) - k) + Len(t.owed)
  <2>1. PICK x, y : x = From(t.inFlight, k) /\ y = t.owed
    OBVIOUS
  <2>2. x \in Text /\ y \in Text
    BY <1>1, <1>2, <2>1
  <2>3. x \o y \in Text /\ Len(x \o y) = Len(x) + Len(y)
    BY <2>2, Joined
  <2> QED
    BY <1>2, <2>1, <2>3
<1>4. ReturnUnwritten(t, k) = u
  BY DEF ReturnUnwritten
<1>5. TextSound(d.old, d.live \o a, t.pending, gn, ch)
  BY DEF TrText
<1> HIDE DEF a
<1>6. u \in Transcripts /\ u.inFlight = <<>> /\ u.owed = a /\ u.pending = t.pending /\ u.draining = t.draining
  BY <1>1, <1>3 DEF Transcripts
<1>7. Kept(t, u)
  BY DEF Transcripts, Kept
<1> HIDE DEF u
<1>8. RetainedCount(u) <= RetainedCount(t) + Len(t.inFlight)
  <2>1. \A x, y, z \in Nat : \A m \in 0..z : ((z - m) + x) + y <= (x + y) + z
    OBVIOUS
  <2>2. ((Len(t.inFlight) - k) + Len(t.owed)) + Len(t.pending) <= (Len(t.owed) + Len(t.pending)) + Len(t.inFlight)
    BY <1>1, <2>1
  <2> QED
    BY <1>3, <1>6, <2>2 DEF RetainedCount
<1> QED
  BY <1>4, <1>5, <1>6, <1>7, <1>8 DEF ReturnSound

LEMMA SettledSound ==
  ASSUME NEW t \in Transcripts, NEW k \in 0..Len(t.inFlight), NEW d, NEW gn, NEW ch, TrText(t, d, k, gn, ch)
  PROVE  ReturnSound(t, Settled(t, k), d, gn, ch)
<1> DEFINE u == [t EXCEPT !.size = t.size + k]
<1>1. t.size + k \in Nat
  BY TrFields
<1>2. u \in Transcripts /\ u.inFlight = t.inFlight /\ u.owed = t.owed /\ u.pending = t.pending /\ u.draining = t.draining
  BY <1>1 DEF Transcripts
<1>3. Kept(t, u)
  BY DEF Kept, Transcripts
<1>4. Settled(t, k) = ReturnUnwritten(u, k)
  BY DEF Settled
<1> HIDE DEF u
<1>5. TrText(u, d, k, gn, ch) /\ RetainedCount(u) = RetainedCount(t)
  BY <1>2 DEF TrText, RetainedCount
<1>6. ReturnSound(u, ReturnUnwritten(u, k), d, gn, ch)
  BY <1>2, <1>5, Returned
<1> DEFINE w == ReturnUnwritten(u, k)
<1> HIDE DEF w
<1>7. Kept(t, w)
  BY <1>6, <1>3 DEF ReturnSound, w, Kept
<1> QED
  BY <1>2, <1>4, <1>5, <1>6, <1>7 DEF ReturnSound, w

LEMMA OpenedSound ==
  ASSUME NEW t \in Transcripts, NEW d \in Disks
  PROVE  LET u == Opened(t, d)
         IN  /\ u \in Transcripts /\ Kept(t, u) /\ u.draining = t.draining
             /\ u.inFlight = t.inFlight /\ u.owed = t.owed /\ u.pending = t.pending
BY LenProperties DEF Disks, Text, Transcripts, Kept, Opened

------------------------------------------------------------------------------
(* The turns of a drain, and the cap                                          *)

\* What a turn of drainAsync() comes to.
TurnSound(t) ==
  /\ tr' \in Transcripts /\ disk' \in Disks /\ offset' = 0 /\ faults' \in 0..MaxFaults
  /\ Kept(t, tr') /\ (tr'.draining \/ tr'.inFlight = <<>>)
  /\ Len(tr'.inFlight) <= MaxAppend
  /\ RetainedCount(tr') + Len(tr'.inFlight) <= RetainedCount(t)
  /\ TrText(tr', disk', 0, gone', chunks)
  /\ loop' = loop /\ chunks' = chunks

LEMMA Counted ==
  ASSUME faults \in 0..MaxFaults, NEW n \in Nat, CountFailures(n)
  PROVE  faults' \in 0..MaxFaults
BY TranscriptAssumption DEF CountFailures

LEMMA OneTurn ==
  ASSUME NEW t \in Transcripts, t.inFlight = <<>>, ~t.stranded, disk \in Disks, faults \in 0..MaxFaults,
         TextSound(disk.old, disk.live \o t.owed, t.pending, gone, chunks), AsyncTurn(t)
  PROVE  TurnSound(t)
<1>1. PICK b \in Batches(t), opens \in BOOLEAN :
        /\ CountFailures(b.failed + Fault(opens))
        /\ disk' = b.disk /\ gone' = gone \cup b.lost
        /\ tr' = [(IF opens THEN Opened(b.tr, b.disk) ELSE ReturnUnwritten(b.tr, 0))
                    EXCEPT !.draining = opens /\ b.tr.inFlight # <<>>]
        /\ offset' = 0 /\ UNCHANGED <<loop, chunks>>
  BY DEF AsyncTurn
<1>2. BatchReady(t, b, gone, chunks)
  BY BatchesSound
<1>3. PICK r \in Transcripts, d \in Disks : r = b.tr /\ d = b.disk
  BY <1>2 DEF BatchReady
<1>4. /\ Kept(t, r) /\ r.draining = t.draining /\ Len(r.inFlight) <= MaxAppend
      /\ RetainedCount(r) + Len(r.inFlight) = RetainedCount(t)
      /\ TrText(r, d, 0, gone', chunks) /\ b.failed \in 0..1
  BY <1>1, <1>2, <1>3 DEF BatchReady
<1>5. faults' \in 0..MaxFaults
  BY <1>4, <1>1, Counted DEF Fault
<1>6. /\ Len(r.inFlight) \in Nat /\ Len(r.owed) \in Nat /\ Len(r.pending) \in Nat
      /\ RetainedCount(r) \in Nat /\ MaxAppend \in Nat /\ Len(<<>>) = 0 /\ <<>> \in Text
  BY TrFields, Counts, TranscriptAssumption, Joined
<1>7. CASE opens
  <2> DEFINE u == Opened(r, d)
             v == [u EXCEPT !.draining = opens /\ r.inFlight # <<>>]
  <2>1. /\ u \in Transcripts /\ Kept(r, u)
        /\ u.inFlight = r.inFlight /\ u.owed = r.owed /\ u.pending = r.pending
    BY OpenedSound
  <2>2. tr' = v
    BY <1>1, <1>3, <1>7
  <2> HIDE DEF u
  <2>3. /\ v \in Transcripts /\ v.inFlight = u.inFlight /\ v.owed = u.owed /\ v.pending = u.pending
        /\ v.draining = (r.inFlight # <<>>)
    BY <1>7, <2>1 DEF Transcripts
  <2>4. Kept(u, v)
    BY <2>1 DEF Transcripts, Kept
  <2> HIDE DEF v
  <2>5. Kept(t, v)
    BY <1>4, <2>1, <2>4 DEF Kept
  <2>6. TrText(v, d, 0, gone', chunks) /\ RetainedCount(v) = RetainedCount(r)
    BY <1>4, <2>1, <2>3 DEF TrText, RetainedCount
  <2>7. v.draining \/ v.inFlight = <<>>
    BY <2>1, <2>3
  <2>8. Len(v.inFlight) <= MaxAppend /\ RetainedCount(v) + Len(v.inFlight) <= RetainedCount(t)
    BY <1>4, <1>6, <2>1, <2>3, <2>6
  <2> QED
    BY <1>1, <1>3, <1>5, <2>2, <2>3, <2>5, <2>6, <2>7, <2>8 DEF TurnSound
<1>8. CASE ~opens
  <2> DEFINE u == ReturnUnwritten(r, 0)
             v == [u EXCEPT !.draining = FALSE]
  <2>1. ReturnSound(r, u, d, gone', chunks)
    BY <1>6, <1>4, Returned
  <2>2. tr' = v
    BY <1>1, <1>3, <1>8
  <2> HIDE DEF u
  <2>3. /\ u \in Transcripts /\ Kept(r, u) /\ u.inFlight = <<>>
        /\ RetainedCount(u) <= RetainedCount(r) + Len(r.inFlight)
        /\ TextSound(d.old, d.live \o u.owed, u.pending, gone', chunks)
    BY <2>1 DEF ReturnSound
  <2>4. v \in Transcripts /\ v.inFlight = <<>> /\ v.owed = u.owed /\ v.pending = u.pending
    BY <2>3 DEF Transcripts
  <2>5. Kept(u, v)
    BY <2>3 DEF Transcripts, Kept
  <2> HIDE DEF v
  <2>6. Kept(t, v)
    BY <1>4, <2>3, <2>5 DEF Kept
  <2>7. TrText(v, d, 0, gone', chunks) /\ RetainedCount(v) = RetainedCount(u)
    BY <1>6, <2>3, <2>4, WholeText, TrFields, Joined DEF TrText, RetainedCount
  <2>8. Len(v.inFlight) <= MaxAppend /\ RetainedCount(v) + Len(v.inFlight) <= RetainedCount(t)
    BY <2>3, Counts, <1>4, <1>6, <2>4, <2>7
  <2> QED
    BY <1>1, <1>3, <1>5, <2>2, <2>4, <2>6, <2>7, <2>8 DEF TurnSound
<1> QED
  BY <1>7, <1>8

LEMMA PartOf ==
  ASSUME NEW s \in Text, NEW k \in 0..Len(s)
  PROVE  ToSet(SubSeq(s, 1, k)) = {s[i] : i \in 1..k}
<1> DEFINE S == Nat \X Nat
<1>1. s \in Seq(S)
  BY DEF Text
<1> HIDE DEF S
<1> DEFINE a == SubSeq(s, 1, k)
<1>2. a \in Seq(S) /\ Len(a) = k /\ \A i \in 1..k : a[i] = s[i]
  BY <1>1, CutText
<1> HIDE DEF a
<1>3. DOMAIN a = 1..k
  BY <1>2, LenProperties
<1>4. ToSet(a) = {s[i] : i \in 1..k}
  BY <1>2, <1>3 DEF ToSet
<1> QED
  BY <1>4 DEF a

LEMMA PlacesOfJoined ==
  ASSUME NEW o \in Text, NEW p \in Text
  PROVE  /\ \A i \in 1..Len(o) : (o \o p)[i] = o[i]
         /\ \A i \in 1..Len(p) : (o \o p)[Len(o) + i] = p[i]
BY ConcatProperties, LenProperties DEF Text

\* The cap on what is retained: from what is owed, then from the pending writes.
CapSound(old, x, o, p, e, gn, ch) ==
  /\ From(o, e) \in Text /\ From(p, Monus(e, Len(o))) \in Text
  /\ Len(From(o, e)) + Len(From(p, Monus(e, Len(o)))) = (Len(o) + Len(p)) - e
  /\ TextSound(old, x \o From(o, e), From(p, Monus(e, Len(o))), gn \cup ToSet(SubSeq(o \o p, 1, e)), ch)

LEMMA CapOwed ==
  ASSUME NEW old, NEW x \in Text, NEW o \in Text, NEW p \in Text, NEW gn, NEW ch, NEW e \in 0..Len(o),
         TextSound(old, x \o o, p, gn, ch)
  PROVE  CapSound(old, x, o, p, e, gn, ch)
<1>1. Len(o) \in Nat /\ Len(p) \in Nat
  BY WholeText
<1>2. Monus(e, Len(o)) = 0 /\ From(p, 0) = p
  BY <1>1, WholeText DEF Monus
<1> DEFINE c == SubSeq(o, 1, e)
           z == From(o, e)
<1>3. c \in Text /\ z \in Text /\ Len(z) = Len(o) - e /\ c \o z = o
  BY CutOff
<1>4. TextSound(old, x \o z, p, gn \cup ToSet(c), ch)
  BY <1>3, CutOwed
<1>5. ToSet(SubSeq(o \o p, 1, e)) = ToSet(c)
  <2>1. o \o p \in Text /\ Len(o \o p) = Len(o) + Len(p)
    BY Joined
  <2>2. e \in 0..Len(o \o p)
    BY <1>1, <2>1
  <2>3. ToSet(SubSeq(o \o p, 1, e)) = {(o \o p)[i] : i \in 1..e}
    BY <2>1, <2>2, PartOf
  <2>4. ToSet(c) = {o[i] : i \in 1..e}
    BY PartOf
  <2>5. \A i \in 1..e : (o \o p)[i] = o[i]
    BY <1>1, PlacesOfJoined
  <2> QED
    BY <2>3, <2>4, <2>5
<1> HIDE DEF c
<1>6. (Len(o) - e) + Len(p) = (Len(o) + Len(p)) - e
  BY <1>1
<1> QED
  BY <1>2, <1>3, <1>4, <1>5, <1>6 DEF CapSound

LEMMA CapBoth ==
  ASSUME NEW old, NEW x \in Text, NEW o \in Text, NEW p \in Text, NEW gn, NEW ch,
         NEW e \in 0..(Len(o) + Len(p)), e > Len(o), TextSound(old, x \o o, p, gn, ch)
  PROVE  CapSound(old, x, o, p, e, gn, ch)
<1> DEFINE m == e - Len(o)
<1>1. Len(o) \in Nat /\ Len(p) \in Nat /\ e \in Nat
  BY WholeText
<1>2. Monus(e, Len(o)) = m /\ m \in 0..Len(p) /\ e = Len(o) + m
  BY <1>1 DEF Monus
<1> HIDE DEF m
<1> DEFINE c == SubSeq(p, 1, m)
           z == From(p, m)
<1>3. c \in Text /\ z \in Text /\ Len(z) = Len(p) - m /\ c \o z = p
  BY <1>2, CutOff
<1>4. From(o, e) = <<>>
  BY <1>1, SubSeqProperties, EmptySeq DEF Text, From
<1>5. TextSound(old, x \o <<>>, p, gn \cup ToSet(o), ch)
  BY Joined, CutOwed
<1>6. TextSound(old, x \o <<>>, z, (gn \cup ToSet(o)) \cup ToSet(c), ch)
  BY <1>3, <1>5, Joined, CutPending
<1>7. ToSet(SubSeq(o \o p, 1, e)) = ToSet(o) \cup ToSet(c)
  <2>1. o \o p \in Text /\ Len(o \o p) = Len(o) + Len(p)
    BY Joined
  <2>2. ToSet(SubSeq(o \o p, 1, e)) = {(o \o p)[i] : i \in 1..e}
    BY <2>1, PartOf
  <2>3. ToSet(c) = {p[i] : i \in 1..m}
    BY <1>2, PartOf
  <2>4. ToSet(o) = {o[i] : i \in 1..Len(o)}
    BY LenProperties DEF Text, ToSet
  <2>5. \A i \in 1..Len(o) : (o \o p)[i] = o[i] /\ i \in 1..e
    BY <1>1, PlacesOfJoined
  <2>6. \A i \in 1..m : (o \o p)[Len(o) + i] = p[i] /\ Len(o) + i \in 1..e
    BY <1>1, <1>2, PlacesOfJoined
  <2>7. \A i \in 1..e : i \in 1..Len(o) \/ (i - Len(o) \in 1..m /\ Len(o) + (i - Len(o)) = i)
    BY <1>1, <1>2
  <2>8. {(o \o p)[i] : i \in 1..e} \subseteq {o[i] : i \in 1..Len(o)} \cup {p[i] : i \in 1..m}
    BY <2>5, <2>6, <2>7
  <2>9. {o[i] : i \in 1..Len(o)} \subseteq {(o \o p)[i] : i \in 1..e}
    BY <2>5
  <2>10. {p[i] : i \in 1..m} \subseteq {(o \o p)[i] : i \in 1..e}
    BY <2>6
  <2> HIDE DEF c
  <2> QED
    BY <2>2, <2>3, <2>4, <2>8, <2>9, <2>10
<1> HIDE DEF c
<1>8. 0 + (Len(p) - m) = (Len(o) + Len(p)) - e
  BY <1>1, <1>2
<1> QED
  BY <1>2, <1>3, <1>4, <1>6, <1>7, <1>8, Joined DEF CapSound

LEMMA CapText ==
  ASSUME NEW old, NEW x \in Text, NEW o \in Text, NEW p \in Text, NEW gn, NEW ch,
         NEW e \in 0..(Len(o) + Len(p)), TextSound(old, x \o o, p, gn, ch)
  PROVE  CapSound(old, x, o, p, e, gn, ch)
BY WholeText, CapBoth, CapOwed

\* What admit() makes of a transcript.
AdmitSound(t, u, d, k, gn, ch) ==
  /\ u \in Transcripts /\ u.inFlight = t.inFlight /\ u.draining = t.draining /\ Kept(t, u)
  /\ RetainedCount(u) <= MaxRetained
  /\ TrText(u, d, k, gn, ch)

LEMMA Admitted ==
  ASSUME NEW t \in Transcripts, NEW k \in 0..Len(t.inFlight), NEW d \in Disks, NEW gn, NEW ch \in Seq(Nat),
         NEW n \in Nat, TrText(t, d, k, gn, ch)
  PROVE  AdmitSound(t, Admit(t, Chunk(Len(ch) + 1, n)), d, k,
                    gn \cup ShedText(t, Chunk(Len(ch) + 1, n)), Append(ch, n))
<1> DEFINE new == Chunk(Len(ch) + 1, n)
           more == Append(ch, n)
<1>1. new \in Text
  BY LenProperties, OneChunk
<1>2. PICK o \in Text, q \in Text, f \in Text, live \in Text :
        o = t.owed /\ q = t.pending /\ f = t.inFlight /\ live = d.live
  BY TrFields DEF Disks
<1>3. PICK x, old : x = live \o From(f, k) /\ old = d.old
  OBVIOUS
<1>4. x \in Text /\ x \o o \in Text /\ x \o o = live \o (From(f, k) \o o) /\ From(f, k) \in Text
  <2>1. k \in 0..Len(f)
    BY <1>2
  <2>2. From(f, k) \in Text
    BY <2>1, CutOff
  <2>3. PICK y \in Text : y = From(f, k)
    BY <2>2
  <2>4. live \o y \in Text /\ (live \o y) \o o \in Text
    BY Joined
  <2>5. (live \o y) \o o = live \o (y \o o)
    BY Regrouped
  <2> QED
    BY <1>3, <2>2, <2>3, <2>4, <2>5
<1>5. TextSound(old, x \o o, q, gn, ch)
  BY <1>2, <1>3, <1>4 DEF TrText
<1>6. TextSound(old, x \o o, q \o new, gn, more)
  BY <1>4, <1>5, Bring
<1> HIDE DEF new, more
<1> DEFINE p == q \o new
           pushed == [t EXCEPT !.pending = p]
           e == Shed(pushed)
           s == From(o, e)
           z == From(p, Monus(e, Len(o)))
           u == [pushed EXCEPT !.owed = s, !.pending = z]
<1>7. p \in Text /\ Len(p) \in Nat /\ Len(o) \in Nat /\ MaxRetained \in Nat
  BY <1>1, Joined, TranscriptAssumption, WholeText
<1> HIDE DEF p
<1>8. pushed \in Transcripts /\ pushed.pending = p /\ pushed.owed = o /\ pushed.inFlight = f
  BY <1>2, <1>7 DEF Transcripts
<1>9. Kept(t, pushed) /\ pushed.draining = t.draining
  BY DEF Transcripts, Kept
<1>10. /\ Admit(t, new) = ShedOldest(pushed, e)
       /\ ShedText(t, new) = ToSet(SubSeq(o \o p, 1, e))
  BY <1>2, <1>8 DEF Admit, ShedText, p
<1> HIDE DEF pushed
<1>11. e \in 0..(Len(o) + Len(p)) /\ (Len(o) + Len(p)) - e <= MaxRetained
  BY <1>8, <1>7 DEF RetainedCount, Shed, Monus
<1>12. ShedOldest(pushed, e) = u
  BY <1>8 DEF ShedOldest
<1> HIDE DEF e
<1>13. CapSound(old, x, o, p, e, gn, more)
  BY <1>4, <1>6, <1>7, <1>11, CapText DEF p
<1>14. /\ s \in Text /\ z \in Text /\ Len(s) + Len(z) <= MaxRetained
       /\ TextSound(old, x \o s, z, gn \cup ToSet(SubSeq(o \o p, 1, e)), more)
  BY <1>11, <1>13 DEF CapSound
<1> HIDE DEF s, z
<1>15. u \in Transcripts /\ u.owed = s /\ u.pending = z /\ u.inFlight = f /\ u.draining = t.draining
  BY <1>8, <1>9, <1>14 DEF Transcripts
<1>16. Kept(t, u)
  BY <1>8, <1>9 DEF Transcripts, Kept
<1> HIDE DEF u
<1>17. RetainedCount(u) <= MaxRetained
  BY <1>14, <1>15 DEF RetainedCount
<1>18. TrText(u, d, k, gn \cup ToSet(SubSeq(o \o p, 1, e)), more)
  <2>1. x \o s = live \o (From(f, k) \o s)
    <3>1. PICK y \in Text : y = From(f, k)
      BY <1>4
    <3>2. s \in Text
      BY <1>14
    <3>3. (live \o y) \o s = live \o (y \o s)
      BY SMTT(30), <3>2, Regrouped
    <3> QED
      BY <1>3, <3>1, <3>3
  <2> QED
    BY <1>2, <1>3, <1>14, <1>15, <2>1 DEF TrText
<1>19. AdmitSound(t, u, d, k, gn \cup ShedText(t, new), more)
  BY <1>2, <1>10, <1>15, <1>16, <1>17, <1>18 DEF AdmitSound
<1> QED
  BY <1>10, <1>12, <1>19 DEF new, more

------------------------------------------------------------------------------
(* The invariant and its steps                                                *)

\* What the text relies on: a batch is in flight only under drainAsync(), which
\* neither drainSync() nor a retry of close() ever meets.
TrControl ==
  /\ tr \in Transcripts /\ disk \in Disks /\ loop \in {"none", "sync", "finish", "end"}
  /\ offset \in 0..Len(tr.inFlight) /\ faults \in 0..MaxFaults /\ chunks \in Seq(Nat)
  /\ ~tr.stranded
  /\ tr.draining \/ tr.inFlight = <<>>
  /\ loop # "none" \/ tr.retry => ~tr.draining
  /\ tr.retry \/ loop \in {"finish", "end"} \/ "finish" \in ToSet(tr.chain) => tr.closed
  /\ Len(tr.inFlight) <= MaxAppend
  /\ RetainedCount(tr) + Len(tr.inFlight) <= MaxRetained + MaxAppend

TrInv == TrControl /\ TrText(tr, disk, offset, gone, chunks)

LEMMA TrBegins == TrInit => TrInv
<1> SUFFICES ASSUME TrInit PROVE TrInv
  OBVIOUS
<1> DEFINE header == Chunk(1, 1)
<1>1. header \in Text /\ Len(header) = 1 /\ InOrder(header)
  BY OneChunk
<1>2. <<>> \in Text /\ ToSet(<<>>) = {} /\ InOrder(<<>>) /\ Len(<<>>) = 0 /\ <<>> \o header = header
      /\ <<>> \o <<>> = <<>> /\ From(<<>>, 0) = <<>>
  BY <1>1, Joined, WholeText
<1>3. tr.pending = header /\ tr.owed = <<>> /\ tr.inFlight = <<>> /\ disk.live = <<>>
      /\ disk.old = [g \in 1..MaxRotated |-> <<>>] /\ offset = 0 /\ gone = {} /\ chunks = <<1>>
  BY DEF TrInit
<1> HIDE DEF header
<1>4. /\ chunks \in Seq(Nat) /\ DOMAIN chunks = {1} /\ chunks[1] = 1
      /\ disk \in Disks /\ tr \in Transcripts
  BY <1>2, TranscriptAssumption, EmptySeq, <1>1, <1>3 DEF TrInit, Disks, Links, Transcripts, header
<1>5. TrControl
  <2>1. ~tr.stranded /\ ~tr.draining /\ ~tr.retry /\ loop = "none" /\ tr.chain = <<>> /\ faults = 0
    BY DEF TrInit
  <2>2. ToSet(<<>>) = {} /\ Len(tr.inFlight) = 0 /\ RetainedCount(tr) = 1
    BY <1>1, <1>2, <1>3 DEF RetainedCount
  <2>3. MaxAppend \in Nat /\ MaxRetained \in Nat /\ MaxAppend # 0 /\ MaxFaults \in Nat
    BY TranscriptAssumption
  <2> QED
    BY <1>3, <1>4, <2>1, <2>2, <2>3 DEF TrControl
<1>6. TrText(tr, disk, offset, gone, chunks)
  <2>1. disk.live \o (From(tr.inFlight, offset) \o tr.owed) = <<>>
    BY <1>2, <1>3
  <2>2. InOrder(<<>> \o header) /\ Apart(<<>>, header)
    BY <1>1, <1>2 DEF Apart
  <2>3. \A g \in 1..MaxRotated : disk.old[g] = <<>>
    BY <1>3
  <2>4. OldText(disk.old) = {}
    BY <1>2, <2>3 DEF OldText
  <2>5. UnitsOf(chunks) = ToSet(header)
    BY <1>4 DEF UnitsOf, header
  <2>6. TextSound(disk.old, <<>>, header, {}, chunks)
    BY <1>2, <2>2, <2>3, <2>4, <2>5 DEF TextSound, Apart
  <2> QED
    BY <1>3, <2>1, <2>6 DEF TrText
<1> QED
  BY <1>5, <1>6 DEF TrInv

LEMMA LinkFacts ==
  ASSUME NEW c \in Links
  PROVE  /\ \A l \in {"drain", "flush", "finish"} :
              Append(c, l) \in Links /\ ToSet(Append(c, l)) = ToSet(c) \cup {l}
         /\ c # <<>> => Tail(c) \in Links /\ Head(c) \in ToSet(c) /\ ToSet(Tail(c)) \subseteq ToSet(c)
BY LenProperties, ElementOfSeq, AppendProperties, HeadTailProperties, EmptySeq DEF Links, ToSet

LEMMA SizesOfText ==
  ASSUME TrControl
  PROVE  /\ Len(tr.inFlight) \in Nat /\ RetainedCount(tr) \in Nat /\ MaxAppend \in Nat /\ MaxRetained \in Nat
         /\ MaxAppend # 0 /\ offset \in Nat /\ tr.inFlight \in Text /\ tr.chain \in Links
         /\ Len(<<>>) = 0 /\ <<>> \in Text
BY TrFields, Counts, TranscriptAssumption, Joined DEF TrControl

\* A part of the batch goes from what is in flight to the live file.
OnDisk(t, d, j, n) == [d EXCEPT !.live = @ \o SubSeq(t.inFlight, j + 1, j + n)]

LEMMA Appended ==
  ASSUME NEW t \in Transcripts, NEW d \in Disks, NEW j \in 0..Len(t.inFlight), NEW n \in 0..(Len(t.inFlight) - j),
         NEW gn, NEW ch, TrText(t, d, j, gn, ch)
  PROVE  OnDisk(t, d, j, n) \in Disks /\ TrText(t, OnDisk(t, d, j, n), j + n, gn, ch)
<1> DEFINE e == OnDisk(t, d, j, n)
<1>2. e = [d EXCEPT !.live = @ \o SubSeq(t.inFlight, j + 1, j + n)]
  BY DEF OnDisk
<1> HIDE DEF e
<1>3. PICK f \in Text, o \in Text, live \in Text : f = t.inFlight /\ o = t.owed /\ live = d.live
  BY TrFields DEF Disks
<1>4. Len(f) \in Nat /\ j \in 0..Len(f) /\ n \in 0..(Len(f) - j) /\ j + n \in 0..Len(f)
  BY WholeText, <1>3
<1> DEFINE a == SubSeq(f, j + 1, j + n)
           b == From(f, j + n)
<1>5. a \in Text /\ b \in Text /\ a \o b = From(f, j)
  <2> DEFINE S == Nat \X Nat
  <2>1. f \in Seq(S) /\ Text = Seq(S)
    BY DEF Text
  <2> HIDE DEF S
  <2>2. b \in Text
    BY <1>4, CutOff
  <2>3. \A i \in (j + 1)..(j + n) : f[i] \in S
    BY <1>4, <2>1, ElementOfSeq
  <2>4. a \in Seq(S)
    BY <1>4, <2>1, <2>3, SubSeqProperties
  <2>5. SubSeq(f, j + 1, j + n) \o SubSeq(f, j + n + 1, Len(f)) = SubSeq(f, j + 1, Len(f))
    <3>1. PICK m \in Nat, l \in Nat, i \in Nat : m = j + 1 /\ l = j + n /\ i = Len(f)
      <4>1. j + 1 \in Nat /\ j + n \in Nat /\ Len(f) \in Nat
        BY <1>4
      <4> QED
        BY <4>1
    <3>2. m \in 1..(Len(f) + 1) /\ l \in (m - 1)..Len(f) /\ i \in l..Len(f)
      BY <1>4, <3>1
    <3>3. SubSeq(f, m, l) \o SubSeq(f, l + 1, i) = SubSeq(f, m, i)
      BY <2>1, <3>2, ConcatAdjacentSubSeq
    <3> QED
      BY <3>1, <3>3
  <2> QED
    BY <2>1, <2>2, <2>4, <2>5 DEF From
<1>6. e.live = live \o a /\ e.old = d.old /\ e \in Disks
  BY <1>5, Joined, <1>2, <1>3 DEF Disks
<1> HIDE DEF a, b
<1>7. (live \o a) \o (b \o o) = live \o ((a \o b) \o o)
  <2>1. a \in Text /\ b \in Text
    BY <1>5
  <2>2. (a \o b) \o o = a \o (b \o o)
    BY SMTT(30), <2>1, Regrouped
  <2>3. PICK y \in Text : y = b \o o
    BY <2>1, Joined
  <2>4. (live \o a) \o y = live \o (a \o y)
    BY <2>1, Regrouped
  <2> QED
    BY <2>2, <2>3, <2>4
<1>8. From(t.inFlight, j) = a \o b /\ From(t.inFlight, j + n) = b
  BY <1>3, <1>5 DEF b
<1>9. TrText(t, e, j + n, gn, ch)
  BY <1>3, <1>8, <1>6, <1>7 DEF TrText
<1> QED
  BY <1>6, <1>9 DEF e

\* A write() puts more of the batch into the file.
LEMMA WriteDoneKeeps == TrInv /\ WriteDone => TrInv'
<1> SUFFICES ASSUME TrInv, WriteDone PROVE TrInv'
  OBVIOUS
<1> TrControl
  BY DEF TrInv
<1>1. PICK n \in 1..(Len(tr.inFlight) - offset) :
        disk' = OnDisk(tr, disk, offset, n) /\ offset' = offset + n
  BY DEF WriteDone, OnDisk
<1>2. tr' = tr /\ loop' = loop /\ faults' = faults /\ chunks' = chunks /\ gone' = gone
  BY DEF WriteDone
<1>3. /\ tr \in Transcripts /\ disk \in Disks /\ offset \in 0..Len(tr.inFlight)
      /\ TrText(tr, disk, offset, gone, chunks)
  BY DEF TrInv, TrControl
<1>4. n \in 0..(Len(tr.inFlight) - offset) /\ offset + n \in 0..Len(tr.inFlight)
  BY SizesOfText
<1>5. disk' \in Disks /\ TrText(tr, disk', offset', gone, chunks)
  BY <1>1, <1>3, <1>4, Appended
<1>6. TrControl'
  BY <1>1, <1>2, <1>4, <1>5 DEF TrControl
<1>7. TrText(tr, disk, offset, gone, chunks)'
  BY <1>2, <1>5
<1> QED
  BY <1>6, <1>7 DEF TrInv

\* A turn of drainAsync(), from a transcript that differs in its control at most.
LEMMA TurnKeeps ==
  ASSUME TrControl, NEW t \in Transcripts, t.inFlight = <<>>, t.stranded = FALSE, loop = "none",
         TextSound(disk.old, disk.live \o t.owed, t.pending, gone, chunks), AsyncTurn(t),
         RetainedCount(t) <= MaxRetained + MaxAppend, ~t.retry,
         "finish" \in ToSet(t.chain) => t.closed
  PROVE  TrInv'
<1>1. TurnSound(t)
  BY OneTurn DEF TrControl
<1>2. TrControl'
  <2>1. /\ tr' \in Transcripts /\ disk' \in Disks /\ offset' = 0 /\ faults' \in 0..MaxFaults
        /\ loop' = "none" /\ chunks' = chunks
    BY <1>1 DEF TurnSound
  <2>2. tr'.closed = t.closed /\ tr'.chain = t.chain /\ tr'.retry = t.retry /\ tr'.stranded = FALSE
    BY <1>1 DEF TurnSound, Kept
  <2>3. /\ tr'.draining \/ tr'.inFlight = <<>>
        /\ Len(tr'.inFlight) <= MaxAppend
        /\ RetainedCount(tr') + Len(tr'.inFlight) <= RetainedCount(t)
    BY <1>1 DEF TurnSound
  <2>4. /\ RetainedCount(tr') \in Nat /\ Len(tr'.inFlight) \in Nat /\ RetainedCount(t) \in Nat
        /\ MaxRetained \in Nat /\ MaxAppend \in Nat
    BY <2>1, Counts, TrFields, SizesOfText
  <2>5. RetainedCount(tr') + Len(tr'.inFlight) <= MaxRetained + MaxAppend
    BY <2>3, <2>4
  <2>6. chunks' \in Seq(Nat) /\ offset' \in 0..Len(tr'.inFlight)
    BY <2>1, <2>4 DEF TrControl
  <2> QED
    BY <2>1, <2>2, <2>3, <2>5, <2>6 DEF TrControl
<1>3. TrText(tr, disk, offset, gone, chunks)'
  BY <1>1 DEF TurnSound
<1> QED
  BY <1>2, <1>3 DEF TrInv

LEMMA BatchDoneKeeps == TrInv /\ BatchDone => TrInv'
<1> SUFFICES ASSUME TrInv, BatchDone PROVE TrInv'
  OBVIOUS
<1>1. TrControl /\ TrText(tr, disk, offset, gone, chunks)
  BY DEF TrInv
<1>2. tr.draining /\ loop = "none" /\ offset = Len(tr.inFlight) /\ AsyncTurn(Settled(tr, offset))
  BY DEF BatchDone, TrIdle
<1> DEFINE t == Settled(tr, offset)
<1>3. ReturnSound(tr, t, disk, gone, chunks)
  BY <1>1, SettledSound DEF TrControl
<1> HIDE DEF t
<1>4. /\ t \in Transcripts /\ t.inFlight = <<>> /\ t.stranded = tr.stranded /\ t.retry = tr.retry
      /\ t.chain = tr.chain /\ t.closed = tr.closed
      /\ RetainedCount(t) <= RetainedCount(tr) + Len(tr.inFlight)
      /\ TextSound(disk.old, disk.live \o t.owed, t.pending, gone, chunks)
  BY <1>3 DEF ReturnSound, Kept
<1>5. RetainedCount(t) <= MaxRetained + MaxAppend
  BY <1>4, Counts, <1>1, SizesOfText DEF TrControl
<1>6. t.stranded = FALSE /\ ~t.retry /\ ("finish" \in ToSet(t.chain) => t.closed)
  BY <1>1, <1>2, <1>4 DEF TrControl, Transcripts
<1>7. AsyncTurn(t)
  BY <1>2 DEF t
<1> QED
  BY <1>1, <1>2, <1>4, <1>5, <1>6, <1>7, TurnKeeps

LEMMA WriteFailsKeeps == TrInv /\ WriteFails => TrInv'
<1> SUFFICES ASSUME TrInv, WriteFails PROVE TrInv'
  OBVIOUS
<1>1. TrControl /\ TrText(tr, disk, offset, gone, chunks)
  BY DEF TrInv
<1> DEFINE t == Settled(tr, offset)
           u == [t EXCEPT !.draining = FALSE]
<1>2. /\ tr' = u /\ offset' = 0 /\ CountFailures(1)
      /\ disk' = disk /\ loop' = loop /\ chunks' = chunks /\ gone' = gone /\ loop = "none"
  BY DEF WriteFails, TrIdle
<1>3. ReturnSound(tr, t, disk, gone, chunks)
  BY <1>1, SettledSound DEF TrControl
<1> HIDE DEF t
<1>4. /\ t \in Transcripts /\ t.inFlight = <<>> /\ t.stranded = tr.stranded /\ t.retry = tr.retry
      /\ t.chain = tr.chain /\ t.closed = tr.closed
      /\ RetainedCount(t) <= RetainedCount(tr) + Len(tr.inFlight)
      /\ TextSound(disk.old, disk.live \o t.owed, t.pending, gone, chunks)
  BY <1>3 DEF ReturnSound, Kept
<1>5. /\ u \in Transcripts /\ u.inFlight = <<>> /\ u.owed = t.owed /\ u.pending = t.pending
      /\ u.stranded = t.stranded /\ u.retry = t.retry /\ u.chain = t.chain /\ u.closed = t.closed
      /\ u.draining = FALSE
  BY <1>4 DEF Transcripts
<1> HIDE DEF u
<1>6. RetainedCount(u) + Len(u.inFlight) <= MaxRetained + MaxAppend /\ Len(u.inFlight) <= MaxAppend
      /\ 0 \in 0..Len(u.inFlight)
  <2>1. RetainedCount(u) \in Nat /\ RetainedCount(u) = RetainedCount(t) /\ Len(u.inFlight) = 0
    BY <1>5, Counts, SizesOfText, <1>1 DEF RetainedCount
  <2> QED
    BY <1>1, <1>4, <2>1, SizesOfText DEF TrControl
<1>7. faults' \in 0..MaxFaults
  BY <1>1, <1>2, Counted DEF TrControl
<1>8. TrControl'
  BY <1>1, <1>2, <1>4, <1>5, <1>6, <1>7 DEF TrControl
<1>9. TrText(u, disk, 0, gone, chunks)
  BY <1>5, WholeText, TrFields, Joined, <1>4 DEF TrText
<1>10. TrText(tr, disk, offset, gone, chunks)'
  BY <1>2, <1>9
<1> QED
  BY <1>8, <1>10 DEF TrInv

\* Steps that change no text keep it.
LEMMA ControlStep ==
  ASSUME TrInv, tr' \in Transcripts, TrControl',
         tr'.pending = tr.pending, tr'.owed = tr.owed, tr'.inFlight = tr.inFlight,
         UNCHANGED <<disk, offset, chunks, gone>>
  PROVE  TrInv'
BY DEF TrInv, TrText

LEMMA SyncDoneKeeps == TrInv /\ SyncDone => TrInv'
BY ControlStep DEF TrInv, SyncDone, AfterLoop, TrControl

LEMMA RunChainKeeps == TrInv /\ RunChain => TrInv'
<1> SUFFICES ASSUME TrInv, RunChain PROVE TrInv'
  OBVIOUS
<1>1. TrControl /\ tr \in Transcripts /\ loop = "none" /\ ~tr.draining /\ tr.chain # <<>> /\ tr.inFlight = <<>>
  BY DEF TrInv, TrControl, RunChain
<1> DEFINE link == Head(tr.chain)
           t == [tr EXCEPT !.chain = Tail(@), !.queued = @ /\ link # "drain"]
<1>2. /\ Tail(tr.chain) \in Links /\ link \in ToSet(tr.chain)
      /\ ToSet(Tail(tr.chain)) \subseteq ToSet(tr.chain) /\ tr.chain \in Links
  BY <1>1, SizesOfText, LinkFacts
<1>3. \/ link = "finish" /\ tr' = t /\ loop' = "finish" /\ UNCHANGED <<disk, offset, faults, chunks, gone>>
      \/ tr' = t /\ UNCHANGED <<disk, loop, offset, faults, chunks, gone>>
      \/ ~t.closed /\ AsyncTurn(t)
  BY DEF RunChain
<1> HIDE DEF link
<1>4. /\ t \in Transcripts /\ t.pending = tr.pending /\ t.owed = tr.owed /\ t.inFlight = tr.inFlight
      /\ t.draining = tr.draining /\ t.closed = tr.closed /\ t.retry = tr.retry
      /\ t.stranded = tr.stranded /\ t.chain = Tail(tr.chain)
  BY <1>1, <1>2 DEF Transcripts
<1> HIDE DEF t
<1>5. RetainedCount(t) = RetainedCount(tr) /\ ToSet(t.chain) \subseteq ToSet(tr.chain)
  BY <1>2, <1>4 DEF RetainedCount
<1>6. CASE link = "finish" /\ tr' = t /\ loop' = "finish" /\ UNCHANGED <<disk, offset, faults, chunks, gone>>
  BY <1>1, <1>2, <1>6, <1>4, <1>5, ControlStep DEF TrControl
<1>7. CASE tr' = t /\ UNCHANGED <<disk, loop, offset, faults, chunks, gone>>
  BY <1>1, <1>4, <1>5, <1>7, ControlStep DEF TrControl
<1>8. CASE ~t.closed /\ AsyncTurn(t)
  <2>1. TextSound(disk.old, disk.live \o t.owed, t.pending, gone, chunks)
    <3>1. offset = 0 /\ From(<<>>, 0) = <<>> /\ <<>> \o tr.owed = tr.owed
      BY <1>1, TrFields, Joined, WholeText DEF TrControl
    <3>2. TrText(tr, disk, offset, gone, chunks)
      BY DEF TrInv
    <3> QED
      BY <1>1, <1>4, <3>1, <3>2 DEF TrText
  <2>2. t.stranded = FALSE /\ ~t.retry
    BY <1>1, <1>4, <1>8 DEF TrControl, Transcripts
  <2>3. RetainedCount(t) <= MaxRetained + MaxAppend
    BY <1>1, SizesOfText, <1>5 DEF TrControl
  <2>4. "finish" \in ToSet(t.chain) => t.closed
    BY <1>1, <1>4, <1>5 DEF TrControl
  <2> QED
    BY <1>1, <1>4, <1>8, <2>1, <2>2, <2>3, <2>4, TurnKeeps
<1> QED
  BY <1>3, <1>6, <1>7, <1>8

\* Between drains nothing is in flight.
LEMMA NothingInFlight ==
  ASSUME TrInv, tr.inFlight = <<>>
  PROVE  /\ offset = 0 /\ From(tr.inFlight, offset) \o tr.owed = tr.owed /\ tr.owed \in Text /\ tr.pending \in Text
         /\ TextSound(disk.old, disk.live \o tr.owed, tr.pending, gone, chunks)
<1>1. TrControl /\ tr \in Transcripts /\ TrText(tr, disk, offset, gone, chunks)
  BY DEF TrInv, TrControl
<1>2. tr.owed \in Text /\ tr.pending \in Text /\ Len(<<>>) = 0 /\ <<>> \in Text
  BY <1>1, TrFields, Joined
<1>3. offset = 0
  BY <1>1, <1>2 DEF TrControl
<1>4. From(<<>>, 0) = <<>> /\ <<>> \o tr.owed = tr.owed
  BY <1>2, WholeText, Joined
<1> QED
  BY <1>1, <1>2, <1>3, <1>4 DEF TrText

LEMMA SyncTurnKeeps == TrInv /\ SyncTurn => TrInv'
<1> SUFFICES ASSUME TrInv, SyncTurn PROVE TrInv'
  OBVIOUS
<1>1. /\ TrControl /\ tr \in Transcripts /\ loop \in {"sync", "finish"} /\ ~tr.draining /\ tr.inFlight = <<>>
      /\ ~tr.stranded /\ disk \in Disks
  BY DEF TrInv, TrControl, SyncTurn
<1>2. PICK b \in Batches(tr), opens \in BOOLEAN :
        \E t \in {IF opens THEN Opened(b.tr, b.disk) ELSE b.tr}, n \in 0..Len(b.tr.inFlight) :
          /\ CountFailures(b.failed + Fault(n = Len(b.tr.inFlight)))
          /\ disk' = [b.disk EXCEPT !.live = @ \o SubSeq(t.inFlight, 1, n)]
          /\ gone' = gone \cup b.lost
          /\ tr' = Settled(t, n)
          /\ loop' = IF n = Len(b.tr.inFlight) THEN loop ELSE AfterLoop
  BY DEF SyncTurn
<1>3. offset' = offset /\ chunks' = chunks /\ offset = 0
  BY <1>1, NothingInFlight DEF SyncTurn
<1>4. BatchReady(tr, b, gone, chunks)
  BY <1>1, NothingInFlight, BatchesSound
<1>5. PICK r \in Transcripts, d \in Disks : r = b.tr /\ d = b.disk
  BY <1>4 DEF BatchReady
<1>7. /\ Kept(tr, r) /\ r.draining = tr.draining
      /\ Len(r.inFlight) <= MaxAppend /\ RetainedCount(r) + Len(r.inFlight) = RetainedCount(tr)
      /\ TrText(r, d, 0, gone', chunks) /\ b.failed \in 0..1
  BY <1>2, <1>4, <1>5 DEF BatchReady
<1>6. PICK t \in {r, Opened(r, d)}, n \in 0..Len(r.inFlight) :
          /\ faults' \in 0..MaxFaults
          /\ disk' = [d EXCEPT !.live = @ \o SubSeq(t.inFlight, 1, n)]
          /\ tr' = Settled(t, n)
          /\ loop' = loop \/ loop' = AfterLoop
  <2>1. PICK t \in {IF opens THEN Opened(b.tr, b.disk) ELSE b.tr}, n \in 0..Len(b.tr.inFlight) :
          /\ CountFailures(b.failed + Fault(n = Len(b.tr.inFlight)))
          /\ disk' = [b.disk EXCEPT !.live = @ \o SubSeq(t.inFlight, 1, n)]
          /\ tr' = Settled(t, n)
          /\ loop' = IF n = Len(b.tr.inFlight) THEN loop ELSE AfterLoop
    BY <1>2
  <2>2. t \in {r, Opened(r, d)}
    BY <1>5, <2>1
  <2>3. faults' \in 0..MaxFaults
    BY <1>7, <2>1, <1>1, Counted DEF Fault, TrControl
  <2>4. disk' = [d EXCEPT !.live = @ \o SubSeq(t.inFlight, 1, n)] /\ (loop' = loop \/ loop' = AfterLoop)
    BY <1>5, <2>1
  <2>5. tr' = Settled(t, n) /\ n \in 0..Len(r.inFlight)
    BY <1>5, <2>1
  <2> QED
    BY <2>2, <2>3, <2>4, <2>5
<1>8. /\ t \in Transcripts /\ Kept(r, t) /\ t.draining = r.draining
      /\ t.inFlight = r.inFlight /\ t.owed = r.owed /\ t.pending = r.pending
  BY <1>6, OpenedSound DEF Kept
<1>9. TrText(t, d, 0, gone', chunks) /\ RetainedCount(t) = RetainedCount(r)
  BY <1>7, <1>8 DEF TrText, RetainedCount
<1>11. Len(t.inFlight) \in Nat /\ n \in 0..Len(t.inFlight)
  BY <1>8, TrFields
<1>12. disk' \in Disks /\ TrText(t, disk', n, gone', chunks)
  <2>1. 0 \in 0..Len(t.inFlight) /\ n \in 0..(Len(t.inFlight) - 0) /\ 0 + 1 = 1 /\ 0 + n = n
    BY <1>11
  <2>2. OnDisk(t, d, 0, n) \in Disks /\ TrText(t, OnDisk(t, d, 0, n), 0 + n, gone', chunks)
    BY <1>8, <1>9, <2>1, Appended
  <2>3. disk' = OnDisk(t, d, 0, n)
    BY <1>6, <2>1 DEF OnDisk
  <2> QED
    BY <2>1, <2>2, <2>3
<1>13. ReturnSound(t, tr', disk', gone', chunks)
  BY <1>6, <1>8, <1>11, <1>12, SettledSound
<1>14. /\ tr' \in Transcripts /\ Kept(tr, tr') /\ tr'.draining = tr.draining /\ tr'.inFlight = <<>>
       /\ RetainedCount(tr') <= RetainedCount(t) + Len(t.inFlight)
       /\ TextSound(disk'.old, disk'.live \o tr'.owed, tr'.pending, gone', chunks)
  BY <1>7, <1>8, <1>13 DEF ReturnSound, Kept
<1>15. Len(tr'.inFlight) <= MaxAppend /\ RetainedCount(tr') + Len(tr'.inFlight) <= MaxRetained + MaxAppend
       /\ offset' \in 0..Len(tr'.inFlight)
  <2>1. RetainedCount(tr') \in Nat /\ Len(tr'.inFlight) = 0 /\ Len(tr.inFlight) = 0
    BY <1>1, <1>14, Counts, SizesOfText
  <2>2. RetainedCount(tr') <= RetainedCount(tr)
    BY <1>7, <1>8, <1>9, <1>14
  <2>3. RetainedCount(tr) <= MaxRetained + MaxAppend
    BY <1>1, <2>1, SizesOfText DEF TrControl
  <2> QED
    BY <1>1, <1>3, <2>1, <2>2, <2>3, SizesOfText
<1>16. loop' \in {"none", "sync", "finish", "end"} /\ (loop' \in {"finish", "end"} => loop = "finish")
  BY <1>1, <1>6 DEF AfterLoop
<1>17. TrControl'
  BY <1>14, <1>1, <1>3, <1>6, <1>12, <1>15, <1>16 DEF Kept, TrControl
<1>18. TrText(tr', disk', 0, gone', chunks)
  BY <1>14, WholeText, TrFields, Joined DEF TrText
<1>19. TrText(tr, disk, offset, gone, chunks)'
  BY <1>3, <1>18
<1> QED
  BY <1>17, <1>19 DEF TrInv

LEMMA TrFinishKeeps == TrInv /\ FinishClose => TrInv'
<1> SUFFICES ASSUME TrInv, FinishClose PROVE TrInv'
  OBVIOUS
<1>1. /\ TrControl /\ tr \in Transcripts /\ loop = "end" /\ ~tr.draining /\ tr.inFlight = <<>>
      /\ tr.closed /\ UNCHANGED <<disk, offset, faults, chunks>> /\ loop' = "none"
  BY DEF TrInv, TrControl, FinishClose
<1>2. CASE tr' = [tr EXCEPT !.fd = FALSE] /\ UNCHANGED gone
  BY <1>1, <1>2, ControlStep DEF Transcripts, RetainedCount, TrControl
<1>3. CASE tr.attempt < CloseRetries /\ tr' = [tr EXCEPT !.attempt = @ + 1, !.retry = TRUE] /\ UNCHANGED gone
  <2>0. tr.attempt + 1 \in 0..CloseRetries
    BY TranscriptAssumption, <1>1, <1>3, TrFields
  <2>1. /\ tr' \in Transcripts /\ tr'.pending = tr.pending /\ tr'.owed = tr.owed /\ tr'.inFlight = tr.inFlight
        /\ tr'.draining = tr.draining /\ tr'.closed = tr.closed
        /\ tr'.chain = tr.chain /\ tr'.stranded = tr.stranded
    BY <1>1, <1>3, <2>0 DEF Transcripts
  <2>2. RetainedCount(tr') = RetainedCount(tr)
    BY <2>1 DEF RetainedCount
  <2>3. TrControl'
    BY <1>1, <2>1, <2>2 DEF TrControl
  <2> QED
    BY <1>1, <1>3, <2>1, <2>3, ControlStep
<1>4. CASE tr' = [tr EXCEPT !.owed = <<>>, !.pending = <<>>, !.fd = FALSE] /\ gone' = gone \cup ToSet(tr.owed \o tr.pending)
  <2>0. <<>> \in Text /\ Len(<<>>) = 0 /\ ToSet(<<>>) = {}
    BY Joined
  <2>1. /\ tr' \in Transcripts /\ tr'.pending = <<>> /\ tr'.owed = <<>> /\ tr'.inFlight = <<>>
        /\ tr'.draining = tr.draining /\ tr'.retry = tr.retry /\ tr'.closed = tr.closed
        /\ tr'.chain = tr.chain /\ tr'.stranded = tr.stranded
    BY <1>1, <1>4, <2>0 DEF Transcripts
  <2>2. RetainedCount(tr') = 0 /\ Len(tr'.inFlight) = 0
    BY <2>0, <2>1 DEF RetainedCount
  <2>3. TrControl'
    BY <1>1, <2>1, <2>2, SizesOfText DEF TrControl
  <2>4. PICK o \in Text, p \in Text, live \in Text : o = tr.owed /\ p = tr.pending /\ live = disk.live
    BY <1>1, TrFields DEF TrControl, Disks
  <2>11. PICK old, g : old = disk.old /\ g = gone
    OBVIOUS
  <2>5. TextSound(old, live \o o, p, g, chunks) /\ offset = 0
    BY <1>1, <2>4, <2>11, NothingInFlight
  <2>6. TextSound(old, live \o <<>>, p, g \cup ToSet(o), chunks)
    BY Joined, <2>5, <2>0, CutOwed
  <2>7. TextSound(old, live, <<>>, (g \cup ToSet(o)) \cup ToSet(p), chunks)
    BY Joined, <2>6, <2>0, CutPending
  <2>8. (g \cup ToSet(o)) \cup ToSet(p) = gone'
    BY Joined, <1>4, <2>4, <2>11
  <2>9. TrText(tr', disk, 0, gone', chunks)
    <3>1. From(<<>>, 0) \o <<>> = <<>> /\ live \o <<>> = live
      BY <2>0, WholeText, Joined
    <3> QED
      BY <2>1, <2>4, <2>7, <2>8, <2>11, <3>1 DEF TrText
  <2>10. TrText(tr, disk, offset, gone, chunks)'
    BY <1>1, <2>5, <2>9
  <2> QED
    BY <2>3, <2>10 DEF TrInv
<1> QED
  BY <1>2, <1>3, <1>4 DEF FinishClose

LEMMA WriteKeeps == TrInv /\ Write => TrInv'
<1> SUFFICES ASSUME TrInv, Write PROVE TrInv'
  OBVIOUS
<1>1. /\ TrControl /\ tr \in Transcripts /\ disk \in Disks /\ chunks \in Seq(Nat) /\ offset \in 0..Len(tr.inFlight)
      /\ TrText(tr, disk, offset, gone, chunks)
  BY DEF TrInv, TrControl
<1>2. PICK n \in ChunkSizes :
        /\ tr' = [Admit(tr, Chunk(Len(chunks) + 1, n)) EXCEPT !.timer = TRUE]
        /\ gone' = gone \cup ShedText(tr, Chunk(Len(chunks) + 1, n))
        /\ chunks' = Append(chunks, n) /\ UNCHANGED <<disk, loop, offset, faults>>
  BY DEF Write
<1>3. n \in Nat
  BY TranscriptAssumption
<1> DEFINE t == Admit(tr, Chunk(Len(chunks) + 1, n))
<1>4. AdmitSound(tr, t, disk, offset, gone', chunks')
  BY <1>1, <1>2, <1>3, Admitted
<1> HIDE DEF t
<1>5. /\ t \in Transcripts /\ t.inFlight = tr.inFlight /\ t.draining = tr.draining /\ t.closed = tr.closed
      /\ t.chain = tr.chain /\ t.retry = tr.retry /\ t.stranded = tr.stranded
      /\ RetainedCount(t) <= MaxRetained /\ TrText(t, disk, offset, gone', chunks')
  BY <1>4 DEF AdmitSound, Kept
<1>6. /\ tr' \in Transcripts /\ tr'.inFlight = tr.inFlight /\ tr'.draining = tr.draining /\ tr'.closed = tr.closed
      /\ tr'.chain = tr.chain /\ tr'.retry = tr.retry /\ tr'.stranded = tr.stranded
      /\ tr'.owed = t.owed /\ tr'.pending = t.pending
  BY <1>2, <1>5 DEF t, Transcripts
<1>7. RetainedCount(tr') = RetainedCount(t) /\ TrText(tr', disk, offset, gone', chunks')
  BY <1>5, <1>6 DEF RetainedCount, TrText
<1>8. TrControl'
  <2>1. chunks' \in Seq(Nat)
    BY <1>1, <1>2, <1>3, AppendProperties
  <2>2. RetainedCount(tr') + Len(tr'.inFlight) <= MaxRetained + MaxAppend
    BY <1>6, Counts, <1>1, <1>5, <1>7, SizesOfText DEF TrControl
  <2> QED
    BY <1>1, <1>2, <1>6, <2>1, <2>2 DEF TrControl
<1>9. TrText(tr, disk, offset, gone, chunks)'
  BY <1>2, <1>7
<1> QED
  BY <1>8, <1>9 DEF TrInv

LEMMA TrCloseKeeps == TrInv /\ Close => TrInv'
<1> SUFFICES ASSUME TrInv, Close PROVE TrInv'
  OBVIOUS
<1>1. /\ TrControl /\ tr \in Transcripts /\ disk \in Disks /\ chunks \in Seq(Nat) /\ offset \in 0..Len(tr.inFlight)
      /\ TrText(tr, disk, offset, gone, chunks)
  BY DEF TrInv, TrControl
<1> DEFINE t == Admit(tr, Chunk(Len(chunks) + 1, 1))
           c == IF tr.draining THEN Append(t.chain, "finish") ELSE t.chain
<1>2. /\ ~tr.closed /\ loop = "none"
      /\ tr' = [t EXCEPT !.closed = TRUE, !.timer = FALSE, !.chain = c]
      /\ gone' = gone \cup ShedText(tr, Chunk(Len(chunks) + 1, 1))
      /\ chunks' = Append(chunks, 1) /\ UNCHANGED <<disk, offset, faults>>
      /\ loop' = IF tr.draining THEN loop ELSE "finish"
  BY DEF Close, TrIdle
<1>4. AdmitSound(tr, t, disk, offset, gone', chunks')
  BY <1>1, <1>2, Admitted
<1> HIDE DEF t
<1>5. /\ t \in Transcripts /\ t.inFlight = tr.inFlight /\ t.draining = tr.draining
      /\ t.chain = tr.chain /\ t.retry = tr.retry /\ t.stranded = tr.stranded
      /\ RetainedCount(t) <= MaxRetained /\ TrText(t, disk, offset, gone', chunks')
  BY <1>4 DEF AdmitSound, Kept
<1>3. c \in Links
  BY <1>1, <1>5, SizesOfText, LinkFacts
<1> HIDE DEF c
<1>6. /\ tr' \in Transcripts /\ tr'.inFlight = tr.inFlight /\ tr'.draining = tr.draining /\ tr'.closed = TRUE
      /\ tr'.retry = tr.retry /\ tr'.stranded = tr.stranded
      /\ tr'.owed = t.owed /\ tr'.pending = t.pending
  BY <1>2, <1>3, <1>5 DEF Transcripts
<1>7. RetainedCount(tr') = RetainedCount(t) /\ TrText(tr', disk, offset, gone', chunks')
  BY <1>5, <1>6 DEF RetainedCount, TrText
<1>8. TrControl'
  <2>1. chunks' \in Seq(Nat)
    BY <1>1, <1>2, AppendProperties
  <2>2. RetainedCount(tr') + Len(tr'.inFlight) <= MaxRetained + MaxAppend
    BY <1>6, Counts, <1>1, <1>5, <1>7, SizesOfText DEF TrControl
  <2>3. loop' \in {"none", "finish"} /\ (loop' # "none" => ~tr.draining) /\ ~tr.retry
    BY <1>1, <1>2 DEF TrControl
  <2> QED
    BY <1>1, <1>2, <1>6, <2>1, <2>2, <2>3 DEF TrControl
<1>9. TrText(tr, disk, offset, gone, chunks)'
  BY <1>2, <1>7
<1> QED
  BY <1>8, <1>9 DEF TrInv

\* The steps that only schedule.
LEMMA SchedulingKeeps == TrInv /\ (FlushTimer \/ Flush \/ CloseRetry \/ Settle) => TrInv'
<1> SUFFICES ASSUME TrInv, FlushTimer \/ Flush \/ CloseRetry \/ Settle PROVE TrInv'
  OBVIOUS
<1>1. TrControl /\ tr \in Transcripts /\ tr.chain \in Links
  BY SizesOfText DEF TrInv, TrControl
<1>2. \A l \in {"drain", "flush"} :
        Append(tr.chain, l) \in Links /\ ("finish" \in ToSet(Append(tr.chain, l)) => "finish" \in ToSet(tr.chain))
  BY <1>1, LinkFacts
<1>3. CASE FlushTimer
  BY <1>3, <1>2, <1>1, ControlStep DEF FlushTimer, Transcripts, RetainedCount, TrControl
<1>4. CASE Flush
  BY <1>4, <1>2, <1>1, ControlStep DEF Flush, Transcripts, RetainedCount, TrControl
<1>5. CASE CloseRetry
  BY <1>5, <1>1, ControlStep DEF CloseRetry, TrControl, Transcripts, RetainedCount
<1>6. CASE Settle
  BY <1>6, <1>1, ControlStep DEF Settle, Transcripts, RetainedCount, TrControl
<1> QED
  BY <1>3, <1>4, <1>5, <1>6

\* What the invariant says of the files.
LEMMA TrInvImplies == TrInv => TranscriptIntact
<1> SUFFICES ASSUME TrInv PROVE TranscriptIntact
  OBVIOUS
<1>1. TrControl /\ TrText(tr, disk, offset, gone, chunks)
  BY DEF TrInv
<1>2. PICK o \in Text, p \in Text, f \in Text, live \in Text :
        o = tr.owed /\ p = tr.pending /\ live = disk.live /\ f = From(tr.inFlight, offset)
  BY <1>1, TrFields, CutOff DEF TrControl, Disks
<1> DEFINE line == (live \o (f \o o)) \o p
<1>3. Line = line
  <2>1. (live \o f) \o o = live \o (f \o o)
    BY Regrouped
  <2> QED
    BY <1>2, <2>1 DEF Line
<1>4. TextSound(disk.old, live \o (f \o o), p, gone, chunks)
  BY <1>1, <1>2 DEF TrText
<1>5. ToSet(live) \subseteq ToSet(line)
  BY Joined
<1> HIDE DEF line
<1>6. /\ InOrder(line)
      /\ \A g \in 1..MaxRotated : InOrder(disk.old[g]) /\ Apart(disk.old[g], line)
      /\ \A g, h \in 1..MaxRotated : h < g => Apart(disk.old[g], disk.old[h])
      /\ Units = ToSet(line) \cup RotatedText \cup gone
  BY <1>4 DEF TextSound, line, UnitsOf, Units, OldText, RotatedText
<1>7. \A s, t : Apart(s, t) => Precedes(s, t)
  BY DEF Apart, Precedes, Later
<1>8. gone \subseteq Nat \X Nat
  <2> SUFFICES ASSUME NEW u \in gone PROVE u \in Nat \X Nat
    OBVIOUS
  <2>1. u \in Units
    BY <1>6
  <2>2. PICK c \in DOMAIN chunks : u \in ToSet(Chunk(c, chunks[c]))
    BY <2>1 DEF Units
  <2>3. c \in Nat /\ chunks[c] \in Nat
    BY <1>1, LenProperties, ElementOfSeq DEF TrControl
  <2>4. Chunk(c, chunks[c]) \in Text
    BY <2>3, OneChunk
  <2>5. ToSet(Chunk(c, chunks[c])) \subseteq Nat \X Nat
    BY <2>4, SetOfConcat DEF Text
  <2> QED
    BY <2>2, <2>5
<1>9. TrTypeOK
  BY <1>1, <1>8 DEF TrTypeOK, TrControl
<1>10. RetainedCount(tr) <= MaxRetained + MaxAppend /\ ~tr.stranded
  BY <1>1, SizesOfText DEF TrControl
<1>11. ASSUME NEW a \in Files, NEW b \in Files, a # b PROVE Apart(a, b) \/ Apart(b, a)
  BY <1>2, <1>5, <1>6, <1>11 DEF Apart, Files
<1>12. ASSUME NEW a \in Files, NEW b \in Files, a # b
       PROVE  {u[1] : u \in ToSet(a)} \cap {u[1] : u \in ToSet(b)} = {}
  <2> SUFFICES ASSUME NEW u \in ToSet(a), NEW v \in ToSet(b), u[1] = v[1] PROVE FALSE
    OBVIOUS
  <2>1. u[1] < v[1] \/ v[1] < u[1]
    BY <1>11, <1>12 DEF Apart
  <2>2. a \in Text
    BY <1>1, <1>2 DEF Files, TrControl, Disks
  <2>3. u[1] \in Nat
    BY <2>2, SetOfConcat DEF Text
  <2> QED
    BY <2>1, <2>3
<1> QED
  BY <1>3, <1>6, <1>7, <1>9, <1>10, <1>11, <1>12 DEF TranscriptIntact

\* Partial writes, rotations, the cap and close() never reorder, repeat or part
\* what a session wrote, nor lose more of it than they say.
THEOREM TranscriptIsIntact == TrSpec => []TranscriptIntact
<1>1. TrInit => TrInv
  BY TrBegins
<1>2. TrInv /\ [TrNext]_trVars => TrInv'
  <2> SUFFICES ASSUME TrInv, [TrNext]_trVars PROVE TrInv'
    OBVIOUS
  <2>1. CASE WriteDone
    BY <2>1, WriteDoneKeeps
  <2>2. CASE BatchDone
    BY <2>2, BatchDoneKeeps
  <2>3. CASE WriteFails
    BY <2>3, WriteFailsKeeps
  <2>4. CASE RunChain
    BY <2>4, RunChainKeeps
  <2>5. CASE SyncTurn
    BY <2>5, SyncTurnKeeps
  <2>6. CASE SyncDone
    BY <2>6, SyncDoneKeeps
  <2>7. CASE FinishClose
    BY <2>7, TrFinishKeeps
  <2>8. CASE FlushTimer \/ Flush \/ CloseRetry \/ Settle
    BY <2>8, SchedulingKeeps
  <2>9. CASE Write
    BY <2>9, WriteKeeps
  <2>10. CASE Close
    BY <2>10, TrCloseKeeps
  <2>11. CASE UNCHANGED trVars
    BY <2>11, ControlStep DEF TrInv, TrControl, trVars
  <2> QED
    BY <2>1, <2>2, <2>3, <2>4, <2>5, <2>6, <2>7, <2>8, <2>9, <2>10, <2>11 DEF TrNext, TrProgress
<1> QED
  BY <1>1, <1>2, TrInvImplies, PTL DEF TrSpec
==============================================================================
