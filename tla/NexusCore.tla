------------------------------ MODULE NexusCore ------------------------------
(***************************************************************************)
(* core/nexusCore.ts: the in-memory configuration and the sessions, while  *)
(* applyInventorySyncPlan() awaits its three saves.  Every mutator changes *)
(* the maps synchronously and then saves.  The class takes no lock: its    *)
(* rollback is written for callers that mutate during that await, and has  *)
(* to undo the batch without undoing them.  The commands of the extension  *)
(* hold configMutationLock, which leaves only the session and status       *)
(* callbacks in between; "serialized" tells the two worlds apart.          *)
(*                                                                         *)
(* A server is reduced to its folder, its IPMI gateway with the template's *)
(* stamp on it, whether the source owns it, and one field for the rest of  *)
(* its content.  A folder path is the sequence of its segments.            *)
(***************************************************************************)
EXTENDS Naturals, FiniteSets, Sequences

CONSTANTS
  ServerIds, NoServer,
  SessionIds, NoSession,
  Paths,          \* the folder paths in play, sequences of names
  Populations,    \* the server maps the window may start with
  Target,         \* the source's targetFolder, <<>> for the root
  Protected,      \* otherSourcesProtectedPaths
  MaxBatches,     \* bound on the applications
  MaxOps          \* bound on the other mutations

Root == << >>

ASSUME CoreAssumption ==
  /\ NoServer \notin ServerIds /\ NoSession \notin SessionIds
  /\ MaxBatches \in Nat /\ MaxOps \in Nat
  /\ Paths \subseteq Seq(STRING)
  /\ \A p \in Paths : p # Root /\ \A k \in 1..Len(p) : SubSeq(p, 1, k) \in Paths
  /\ Target \in Paths \cup {Root} /\ Protected \subseteq Paths

Record(g, gw, st, own, c) == [group |-> g, gateway |-> gw, stamped |-> st, owned |-> own, content |-> c]
Absent == Record(Root, NoServer, FALSE, FALSE, "absent")

\* What the map may hold for an id.
ServerRecords ==
  {Absent} \cup [group : Paths \cup {Root}, gateway : ServerIds \cup {NoServer}, stamped : BOOLEAN, owned : BOOLEAN,
                content : {"old", "user", "sync"}]

\* No link is broken when the window starts.
ASSUME PopulationAssumption ==
  \A P \in Populations :
    /\ P \in [ServerIds -> ServerRecords]
    /\ \A i \in ServerIds : P[i].gateway # NoServer => P[i].gateway # i /\ P[P[i].gateway] # Absent

VARIABLES
  servers,    \* the servers map; Absent where the id has no entry
  groups,     \* explicitGroups
  session,    \* "none", "active", "dropped" (with its server) or "closed" (its terminal)
  sessionOf,  \* the server of each session
  activity,   \* activitySessionIds
  focused,    \* focusedSessionId
  status,     \* servers with an entry in serverStatus
  source,     \* the inventory source: [exists, managed]
  removal,    \* the servers' records when the source was removed, for its disposition
  serialized, \* whether every caller holds configMutationLock
  batch,      \* what applyInventorySyncPlan() remembers while it awaits
  batches, ops

coreVars == <<servers, groups, session, sessionOf, activity, focused, status, source, removal, serialized,
              batch, batches, ops>>

Live == {i \in ServerIds : servers[i] # Absent}

------------------------------------------------------------------------------
(* Paths *)

Under(g, p) == Len(p) <= Len(g) /\ SubSeq(g, 1, Len(p)) = p          \* isDescendantOrSelf
Ancestors(p) == {SubSeq(p, 1, k) : k \in 1..Len(p)}                  \* getAncestorPaths
Parent(p) == SubSeq(p, 1, Len(p) - 1)
Suffix(g, p) == SubSeq(g, Len(p) + 1, Len(g))
Moved(g, old, new) == IF Under(g, old) THEN new \o Suffix(g, old) ELSE g

\* A folder can be dissolved: what is below it moves up within the paths in play.
ASSUME PathAssumption == \A g, p \in Paths : Moved(g, p, Parent(p)) \in Paths \cup {Root}

\* Every folder the tree shows: explicit ones and the chains of the servers.
Derived(G, S) == UNION {Ancestors(g) : g \in G \cup {S[i].group : i \in ServerIds}}

\* The folders strictly below the source's target folder; none for the root.
BelowTarget(G) == IF Target = Root THEN {} ELSE {g \in G : Under(g, Target) /\ g # Target}

------------------------------------------------------------------------------
(* Sessions *)

ActiveOf(S) == {x \in SessionIds : session[x] = "active" /\ sessionOf[x] \in S}

\* removeServerSessions(): the bookkeeping goes, the terminal stays open.
DropSessions(S) ==
  /\ session' = [x \in SessionIds |-> IF x \in ActiveOf(S) THEN "dropped" ELSE session[x]]
  /\ activity' = activity \ ActiveOf(S)
  /\ focused' = IF focused \in ActiveOf(S) THEN NoSession ELSE focused

------------------------------------------------------------------------------
(* Servers *)

\* Mutant: the servers that used a deleted gateway are not swept.
SweepNothing(S, deleted) == S

\* clearGatewayReferencesTo(): the value and the stamp that equals it.
Sweep(S, deleted) ==
  [i \in ServerIds |-> IF S[i].gateway \in deleted THEN [S[i] EXCEPT !.gateway = NoServer, !.stamped = FALSE]
                       ELSE S[i]]

Without(S, deleted) == Sweep([i \in ServerIds |-> IF i \in deleted THEN Absent ELSE S[i]], deleted)

NoBatch == [on |-> FALSE]

CoreInit ==
  /\ servers \in Populations
  /\ groups \in {{}, UNION {Ancestors(servers[i].group) : i \in ServerIds}}
  /\ session = [x \in SessionIds |-> "none"]
  /\ sessionOf = [x \in SessionIds |-> NoServer]
  /\ activity = {} /\ focused = NoSession /\ status = {}
  /\ source = [exists |-> TRUE, managed |-> BelowTarget(groups)]
  /\ serialized \in BOOLEAN
  /\ removal = NoBatch
  /\ batch = NoBatch
  /\ batches = 0 /\ ops = 0

\* A mutation of the configuration; one that runs during a batch is noted.
Mutation ==
  /\ serialized => ~batch.on
  /\ ops < MaxOps /\ ops' = ops + 1
  /\ batch' = IF batch.on THEN [batch EXCEPT !.alone = FALSE] ELSE batch
  /\ UNCHANGED batches

\* It replaces or deletes the source's record: identity is lost with it.
SourceMutation ==
  /\ serialized => ~batch.on
  /\ ops < MaxOps /\ ops' = ops + 1
  /\ batch' = IF batch.on THEN [batch EXCEPT !.alone = FALSE, !.sourceMine = FALSE] ELSE batch
  /\ UNCHANGED batches

Save(i, r) ==
  /\ Mutation
  /\ servers' = [servers EXCEPT ![i] = r]
  /\ UNCHANGED <<groups, session, sessionOf, activity, focused, status, source, removal, serialized>>

\* addOrUpdateServer() and addServersBatch() of one server: a new one, or an
\* edit of one field.  A gateway is chosen among the servers there are.
AddServer(i, g) == i \notin Live /\ Save(i, Record(g, NoServer, FALSE, FALSE, "user"))

EditServer(i) ==
  /\ i \in Live
  /\ \/ servers[i].content # "user" /\ Save(i, [servers[i] EXCEPT !.content = "user"])
     \/ \E g \in Paths \cup {Root} : g # servers[i].group /\ Save(i, [servers[i] EXCEPT !.group = g])
     \/ \E gw \in (Live \ {i}) \cup {NoServer} :
          gw # servers[i].gateway /\ Save(i, [servers[i] EXCEPT !.gateway = gw, !.stamped = FALSE])

RemoveServer(i) ==
  /\ Mutation /\ i \in Live
  /\ servers' = Without(servers, {i})
  /\ status' = status \ {i}
  /\ DropSessions({i})
  /\ UNCHANGED <<groups, sessionOf, source, removal, serialized>>

AddGroup(p) ==
  /\ Mutation
  /\ groups' = groups \cup Ancestors(p)
  /\ UNCHANGED <<servers, session, sessionOf, activity, focused, status, source, removal, serialized>>

\* _renameFolderPath(), for renameFolder() (same parent) and moveFolder()
\* (same name): the records are rewritten in place.
RenameFolder(old, new) ==
  /\ Mutation
  /\ old \in Derived(groups, servers) /\ new # old
  /\ Parent(new) = Parent(old) \/ (new[Len(new)] = old[Len(old)] /\ ~Under(Parent(new), old))
  /\ \A g \in Derived(groups, servers) : Moved(g, old, new) \in Paths
  /\ groups' = {Moved(g, old, new) : g \in groups} \cup Ancestors(new)
  /\ servers' = [i \in ServerIds |-> [servers[i] EXCEPT !.group = Moved(@, old, new)]]
  /\ UNCHANGED <<session, sessionOf, activity, focused, status, source, removal, serialized>>

RemoveFolderDeleting(p) ==
  LET gone == {i \in Live : Under(servers[i].group, p)} IN
  /\ Mutation /\ p \in Derived(groups, servers)
  /\ servers' = Without(servers, gone)
  /\ groups' = {g \in groups : ~Under(g, p)}
  /\ DropSessions(gone)
  /\ UNCHANGED <<sessionOf, status, source, removal, serialized>>

RemoveFolderKeeping(p) ==
  /\ Mutation /\ p \in Derived(groups, servers)
  /\ servers' = [i \in ServerIds |-> [servers[i] EXCEPT !.group = Moved(@, p, Parent(p))]]
  /\ groups' = {Moved(g, p, Parent(p)) : g \in groups \ {p}} \ {Root}
  /\ UNCHANGED <<session, sessionOf, activity, focused, status, source, removal, serialized>>

\* removeInventorySource(): the caller keeps what it is about to dispose of.
RemoveSource ==
  /\ SourceMutation /\ source.exists
  /\ source' = [exists |-> FALSE, managed |-> {}]
  /\ removal' = [on |-> TRUE, before |-> servers]
  /\ status' = {i \in status : ~servers[i].owned}
  /\ UNCHANGED <<servers, groups, session, sessionOf, activity, focused, serialized>>

\* applyInventoryStatus() of a report that is not truncated; no save, no lock.
ApplyStatus(S) ==
  /\ source.exists /\ ops < MaxOps /\ ops' = ops + 1
  /\ batch' = IF batch.on THEN [batch EXCEPT !.alone = FALSE] ELSE batch
  /\ status' = S \cap {i \in Live : servers[i].owned}
  /\ UNCHANGED <<servers, groups, session, sessionOf, activity, focused, source, removal, serialized, batches>>

------------------------------------------------------------------------------
(* Session callbacks: no lock, and no save *)

RegisterSession(x, i) ==
  /\ session[x] = "none" /\ i \in Live
  /\ session' = [session EXCEPT ![x] = "active"]
  /\ sessionOf' = [sessionOf EXCEPT ![x] = i]
  /\ UNCHANGED <<servers, groups, activity, focused, status, source, removal, serialized, batch, batches, ops>>

\* Mutant: the closed session is not recorded as a tombstone.
ForgetsTombstone(x) == batch

Tombstone(x) == IF batch.on THEN [batch EXCEPT !.tombs = @ \cup {x}] ELSE batch

UnregisterSession(x) ==
  /\ session[x] \in {"active", "dropped"}
  /\ session' = [session EXCEPT ![x] = "closed"]
  /\ activity' = activity \ {x}
  /\ focused' = IF focused = x THEN NoSession ELSE focused
  /\ batch' = Tombstone(x)
  /\ UNCHANGED <<servers, groups, sessionOf, status, source, removal, serialized, batches, ops>>

MarkActivity(x) ==
  /\ session[x] = "active" /\ x \notin activity
  /\ activity' = activity \cup {x}
  /\ UNCHANGED <<servers, groups, session, sessionOf, focused, status, source, removal, serialized, batch, batches, ops>>

ClearActivity(x) ==
  /\ x \in activity /\ activity' = activity \ {x}
  /\ UNCHANGED <<servers, groups, session, sessionOf, focused, status, source, removal, serialized, batch, batches, ops>>

\* setFocusedSession() of a terminal that is tracked, or of none.
SetFocused(x) ==
  /\ focused # x /\ (x # NoSession => session[x] = "active")
  /\ focused' = x
  /\ UNCHANGED <<servers, groups, session, sessionOf, activity, status, source, removal, serialized, batch, batches, ops>>

------------------------------------------------------------------------------
(* applyInventorySyncPlan() *)

Named(F) == UNION {Ancestors(p) : p \in F}

\* Template-owned gateways that no longer resolve are cleared on the upserts.
Revalidated(S, U) ==
  [i \in ServerIds |->
     IF i \in U /\ S[i].stamped /\ S[i].gateway # NoServer /\ S[S[i].gateway] = Absent
     THEN [S[i] EXCEPT !.gateway = NoServer, !.stamped = FALSE] ELSE S[i]]

After(R, up) ==
  LET upserted == [i \in ServerIds |-> IF i \in DOMAIN up THEN up[i]
                                       ELSE IF i \in R THEN Absent ELSE servers[i]]
  IN Revalidated(Sweep(upserted, R), DOMAIN up)

\* The source's folders that this batch keeps, and those it may collect.
Footprint(S) == UNION {Ancestors(S[i].group) : i \in {j \in ServerIds : S[j].owned}}
NewManaged(S, F) ==
  LET kept == BelowTarget(Footprint(S) \cup Named(F)) IN
    IF Target = Root THEN {} ELSE (source.managed \cap kept) \cup BelowTarget(Named(F) \ groups)
Candidates(S, F) == source.managed \ NewManaged(S, F)

\* pruneEmptyFoldersUnderTarget(), deepest first.
Pruned(S, F) ==
  LET G == groups \cup Named(F)
      C == {p \in Candidates(S, F) : p # Target /\ p \notin Named(F) \cup Protected /\ Len(p) > 1 /\ p \in G}
  IN {p \in C : /\ \A i \in ServerIds : ~Under(S[i].group, p)
                /\ \A g \in G : Under(g, p) => g \in C}

\* The maps change at once; the batch remembers what was there before.
Apply(R, up, F, prune) ==
  LET S       == After(R, up)
      touched == R \cup DOMAIN up \cup {i \in ServerIds : S[i] # servers[i]}
      gone    == IF prune THEN Pruned(S, F) ELSE {}
      managed == NewManaged(S, F) \cup (((Candidates(S, F) \ gone) \cap (groups \cup Named(F))))
  IN
  /\ servers' = S
  /\ groups' = (groups \cup Named(F)) \ gone
  /\ DropSessions(R)
  /\ status' = status \ R
  /\ source' = IF source.exists THEN [source EXCEPT !.managed = managed] ELSE source
  /\ batch' = [on        |-> TRUE,
               prior     |-> [i \in touched |-> servers[i]],
               written   |-> [i \in touched |-> S[i]],
               added     |-> Named(F) \ groups,
               gone      |-> gone,
               sessions  |-> ActiveOf(R),
               activity  |-> activity \cap ActiveOf(R),
               focus     |-> focused,
               focusSet  |-> IF focused \in ActiveOf(R) THEN NoSession ELSE focused,
               tombs     |-> {},
               status    |-> status \cap R,
               managed   |-> source.managed,
               sourceMine |-> source.exists,
               alone     |-> TRUE,
               before    |-> <<servers, groups, source, status>>]
  /\ batches < MaxBatches /\ batches' = batches + 1
  /\ UNCHANGED <<sessionOf, serialized, ops>>

\* A sync: what it removes and updates is the source's own, what it adds becomes it.
ApplySync(R, U, g, gw) ==
  /\ ~batch.on /\ source.exists
  /\ R \subseteq {j \in Live : servers[j].owned} /\ R \cap U = {} /\ gw \notin U
  /\ \A i \in U : i \in Live => servers[i].owned
  /\ Under(g, Target)
  /\ Apply(R, [i \in U |-> Record(g, gw, gw # NoServer, TRUE, "sync")], IF U = {} THEN {} ELSE {g} \ {Root}, TRUE)
  /\ UNCHANGED removal

\* The disposition of a removed source's servers ("absent"): an entry is
\* honoured only if its record is still the one the removal saw.
StillOwn(i) == i \in Live /\ servers[i].owned /\ servers[i] = removal.before[i]

DispositionTargets == {i \in ServerIds : StillOwn(i)}

DisposeOfServers ==
  /\ ~batch.on /\ removal.on /\ ~source.exists
  /\ removal' = NoBatch
  /\ \/ Apply(DispositionTargets, << >>, {}, FALSE)
     \/ Apply({}, [i \in DispositionTargets |-> [servers[i] EXCEPT !.owned = FALSE]], {}, FALSE)

\* An import brings the source back before its disposition ran: it is refused.
RestoreSource ==
  /\ SourceMutation /\ ~source.exists
  /\ source' = [exists |-> TRUE, managed |-> {}]
  /\ removal' = NoBatch
  /\ UNCHANGED <<servers, groups, session, sessionOf, activity, focused, status, serialized>>

SavesResolve ==
  /\ batch.on
  /\ batch' = NoBatch
  /\ UNCHANGED <<servers, groups, session, sessionOf, activity, focused, status, source, removal, serialized, batches, ops>>

------------------------------------------------------------------------------
(* A save was rejected *)

\* mergeServerConfigFields(): a field the batch wrote and nobody touched since
\* goes back to its value before the batch.
Merge(prior, written, current) ==
  [f \in DOMAIN prior |-> IF current[f] # written[f] THEN current[f] ELSE prior[f]]

\* Mutant: the record is put back as it was.
UndonePrior(i) == batch.prior[i]

Undone(i) ==
  LET prior == batch.prior[i] written == batch.written[i] IN
    IF written = Absent \/ servers[i] = Absent \/ (prior = Absent /\ servers[i] # written) THEN servers[i]
    ELSE IF servers[i] = written THEN prior
    ELSE Merge(prior, written, servers[i])

UndoneServers == [i \in ServerIds |-> IF i \in DOMAIN batch.prior THEN Undone(i) ELSE servers[i]]

\* The paths of wanted whose chain exists, or is restored with them: both
\* restore loops run shallowest first and ask for the parent only.
Regrown(base, wanted) ==
  base \cup {p \in wanted : \E k \in 0..Len(p) - 1 : /\ k = 0 \/ SubSeq(p, 1, k) \in base
                                                   /\ \A j \in k + 1..Len(p) : SubSeq(p, 1, j) \in wanted}

UndoneGroups == Regrown(groups \ batch.added, batch.gone)

\* The servers the batch deleted and nobody recreated come back last, into the
\* deepest folder of their chain that survives.
Deleted == {i \in DOMAIN batch.prior : batch.written[i] = Absent /\ batch.prior[i] # Absent
                                       /\ servers[i] = Absent}

Home(g, tree) ==
  LET alive == {k \in 1..Len(g) - 1 : SubSeq(g, 1, k) \in tree} IN
    IF Len(g) <= 1 \/ Parent(g) \in tree THEN g
    ELSE SubSeq(g, 1, CHOOSE k \in alive \cup {0} : \A j \in alive : j <= k)

RestoredServers ==
  LET S    == UndoneServers
      tree == Regrown(Derived(UndoneGroups, S), {batch.prior[i].group : i \in Deleted} \ {Root})
  IN [i \in ServerIds |-> IF i \in Deleted
                          THEN [batch.prior[i] EXCEPT !.group = Home(@, tree)] ELSE S[i]]

\* Mutant: the dropped status entries stay dropped.
StatusStaysDropped == status

RestoredStatus == status \cup (batch.status \cap Deleted)

SavesRejected ==
  LET back == batch.sessions \ batch.tombs IN
  /\ batch.on
  /\ servers' = RestoredServers
  /\ groups' = UndoneGroups
  /\ status' = RestoredStatus
  /\ session' = [x \in SessionIds |-> IF x \in back THEN "active" ELSE session[x]]
  /\ activity' = activity \cup (batch.activity \cap back)
  /\ focused' = IF focused # batch.focusSet THEN focused
                ELSE IF batch.focus \in batch.tombs THEN NoSession ELSE batch.focus
  /\ source' = IF batch.sourceMine THEN [source EXCEPT !.managed = batch.managed] ELSE source
  /\ batch' = NoBatch
  /\ UNCHANGED <<sessionOf, removal, serialized, batches, ops>>

------------------------------------------------------------------------------
Small(S) == {{}} \cup {{x} : x \in S}

CoreNext ==
  \/ \E i \in ServerIds : RemoveServer(i) \/ EditServer(i) \/ \E g \in Paths : AddServer(i, g)
  \/ \E p \in Paths : AddGroup(p) \/ RemoveFolderDeleting(p) \/ RemoveFolderKeeping(p)
  \/ \E old, new \in Paths : RenameFolder(old, new)
  \/ RemoveSource \/ RestoreSource
  \/ \E S \in SUBSET ServerIds : ApplyStatus(S)
  \/ \E x \in SessionIds, i \in ServerIds : RegisterSession(x, i)
  \/ \E x \in SessionIds : UnregisterSession(x) \/ MarkActivity(x) \/ ClearActivity(x)
  \/ \E x \in SessionIds \cup {NoSession} : SetFocused(x)
  \/ \E R \in SUBSET ServerIds, U \in Small(ServerIds), g \in Paths, gw \in ServerIds \cup {NoServer} :
       ApplySync(R, U, g, gw)
  \/ DisposeOfServers \/ SavesResolve \/ SavesRejected

CoreSpec == CoreInit /\ [][CoreNext]_coreVars

------------------------------------------------------------------------------
CoreTypeOK ==
  /\ servers \in [ServerIds -> ServerRecords]
  /\ groups \subseteq Paths /\ source.managed \subseteq Paths
  /\ session \in [SessionIds -> {"none", "active", "dropped", "closed"}]
  /\ activity \subseteq SessionIds /\ focused \in SessionIds \cup {NoSession}
  /\ status \subseteq ServerIds

(* A sync whose save was rejected and that nothing else disturbed leaves no  *)
(* trace: servers, folders, the source and the status entries are what they  *)
(* were.  The folder of every deleted server, and every folder that was      *)
(* pruned, hung off an explicit one: without configMutationLock an earlier   *)
(* rollback may have left a folder whose parent is none.                     *)
Undisturbed == SavesRejected /\ batch.alone
Rooted(g) == Len(g) <= 1 \/ Parent(g) \in batch.before[2]

RollbackExact ==
  [][/\ Undisturbed
     /\ \A i \in Deleted : Rooted(batch.prior[i].group)
     /\ \A p \in batch.gone : Rooted(p)
     => <<servers, groups, source, status>>' = batch.before]_coreVars

(* The same for all of them: "this batch is supposed to have had NO effect"  *)
(* (the comment on the restore of the deleted servers).                      *)
RollbackComplete == [][Undisturbed => <<servers, groups, source, status>>' = batch.before]_coreVars

(* What the user did while the save was pending survives its rejection: a    *)
(* field changed since keeps its value, a server deleted since stays away,   *)
(* a folder of the user's is kept.                                           *)
EditsSurviveRollback ==
  [][SavesRejected =>
       /\ \A i \in DOMAIN batch.prior :
            /\ (servers[i] = Absent /\ batch.written[i] # Absent) => servers'[i] = Absent
            /\ (servers[i] # Absent) =>
                 \A f \in DOMAIN servers[i] : servers[i][f] # batch.written[i][f] => servers'[i][f] = servers[i][f]
       /\ groups \ batch.added \subseteq groups']_coreVars

(* A rejected save undoes its own batch and nothing else.                    *)
RollbackUndoesBatch == RollbackExact /\ EditsSurviveRollback

(* A terminal the user closed is never tracked again, not even by the        *)
(* rollback that restores the sessions the batch dropped; and neither the    *)
(* focus nor an activity mark points at a session that is not tracked.       *)
ClosedForGood ==
  [][/\ \A x \in SessionIds : session[x] = "closed" => session'[x] = "closed"
     /\ (activity \cup {focused})' \subseteq {x \in SessionIds : session'[x] = "active"} \cup {NoSession}]_coreVars

(* Whatever a rollback restores, it restores no more than its batch changed. *)
RollbackSafe == RollbackUndoesBatch /\ ClosedForGood

(* Where the callers hold configMutationLock, a gateway link never names a   *)
(* server that is gone: every deletion sweeps the survivors, and a rollback  *)
(* brings both ends back.  The state is well typed in any case.              *)
GatewayResolves ==
  /\ CoreTypeOK
  /\ serialized => \A i \in ServerIds : servers[i].gateway # NoServer => servers[servers[i].gateway] # Absent
==============================================================================
