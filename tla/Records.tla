------------------------------- MODULE Records -------------------------------
(* The records that commands, imports and resets share: servers, auth         *)
(* profiles, device templates and inventory sources in NexusCore, and their   *)
(* secrets in the vault.  Whoever changes them holds configMutationLock and   *)
(* makes one awaited call after another ("task"); any of the calls can be     *)
(* rejected.  A record keeps its references, its owner (the inventory source  *)
(* it comes from), its proxy endpoint and a revision that stands for all the  *)
(* rest.  The SSH and the IPMI link of a server are not told apart.           *)
EXTENDS Naturals, Sequences, FiniteSets, Functions

CONSTANTS Servers, Profiles, Templates, Sources,   \* ids, positive and all different
          Endpoints,       \* proxies that ask for a password
          RecPopulations,  \* the records the window may start with
          MaxCommands,     \* bound: commands
          MaxRejections    \* bound: rejected calls

AllIds == Servers \cup Profiles \cup Templates \cup Sources
None == 0

ASSUME RecordAssumption ==
  /\ AllIds \cup Endpoints \subseteq Nat \ {None}
  /\ Servers \cap (Profiles \cup Templates \cup Sources) = {}
  /\ Profiles \cap (Templates \cup Sources) = {} /\ Templates \cap Sources = {}
  /\ IsFiniteSet(AllIds)
  /\ MaxCommands \in Nat /\ MaxRejections \in Nat

\* rev 0 is a record that does not exist; was is the source of formerlySynced.
Rec(profile, gateway, rules, owner, proxy, rev) ==
  [profile |-> profile, gateway |-> gateway, rules |-> rules, owner |-> owner, was |-> None,
   proxy |-> proxy, rev |-> rev]
Gone == Rec(None, None, {}, None, None, 0)

RecordsOf ==
  [profile : Profiles \cup {None}, gateway : Servers \cup {None}, rules : SUBSET Templates,
   owner : Sources \cup {None}, was : Sources \cup {None}, proxy : Endpoints \cup {None}, rev : Nat]

\* A record has the links that its kind has.
Shaped(i, r) ==
  /\ r.profile # None => i \notin Profiles
  /\ r.gateway # None => i \in Servers \cup Templates
  /\ r.rules # {} => i \in Sources
RecordMaps == {R \in [AllIds -> RecordsOf] : \A i \in AllIds : Shaped(i, R[i])}

LinksOf(r) == ({r.profile, r.gateway} \cup r.rules) \ {None}

\* Every profile, rule and gateway of a record is there; a template may name a
\* gateway that is gone.
Resolved(R, i) == \A x \in LinksOf(R[i]) : R[x].rev # 0 \/ (i \in Templates /\ x = R[i].gateway)

Fields == {"login", "proxy"}   \* the two secrets of a server; of a profile or source, any two
NoKey == 0
NoKeys == [f \in Fields |-> NoKey]

\* The window starts with records that belong together and with a file that a
\* program of this kind has written: the password of a proxy is that proxy's.
ASSUME RecPopulationAssumption ==
  \A p \in RecPopulations :
    /\ p.recs \in RecordMaps /\ p.file.recs \in RecordMaps /\ p.file.bad \subseteq AllIds
    /\ p.keys \in [AllIds -> [Fields -> Nat]] /\ p.file.keys \in [AllIds -> [Fields -> Nat]]
    /\ \A i \in AllIds :
         /\ p.recs[i].rev = 0 => p.recs[i] = Gone
         /\ p.recs[i].rev # 0 => Resolved(p.recs, i)
         /\ (p.recs[i].rev = 0 \/ i \in Templates) => \A f \in Fields : p.keys[i][f] = NoKey
    /\ \A s \in Servers :
         /\ p.keys[s].proxy \in {NoKey, p.recs[s].proxy}
         /\ p.file.keys[s].proxy \in {NoKey, p.file.recs[s].proxy}

VARIABLES recs,       \* the maps of NexusCore
          keys,       \* the vault; the password of a proxy is the endpoint it was typed for
          task,       \* what the holder of the lock still has to call
          forms,      \* the dialogs that wait for the user
          file,       \* the last backup, or an export from elsewhere
          abandoned,  \* history: records removed with their secrets kept, or that could not
                      \* be saved or tidied up, servers whose proxy the user changed and
                      \* whose password he left, or whose login went during an import
          stale,      \* history: records written from an old copy, by a call that failed, or
                      \* with a gateway that their import did not come to
          spent
recordVars == <<recs, keys, task, forms, file, abandoned, stale, spent>>

LiveOf(K) == {i \in K : recs[i].rev # 0}
Unborn(K) == K \ spent.born   \* randomUUID() repeats none of these
Lowest(S) == CHOOSE x \in S : \A y \in S : x <= y

\* In the order of the snapshot, which nothing depends on.
EachOf(S) == CHOOSE q \in [1..Cardinality(S) -> S] : IsInjective(q)

------------------------------------------------------------------------------
(* The calls *)

Put(i, r) == [do |-> "put", id |-> i, rec |-> r]
Del(i) == [do |-> "del", id |-> i]
Store(i, f, v) == [do |-> "store", id |-> i, field |-> f, value |-> v]
Forget(i, f) == [do |-> "store", id |-> i, field |-> f, value |-> NoKey]
\* Stored again if the server still has the proxy it had.
Restore(i, v, endpoint) == [do |-> "restore", id |-> i, value |-> v, endpoint |-> endpoint]

\* Mutant: only the login is forgotten.
ForgetLogin(i) == <<Forget(i, "login")>>

\* The entries of a record are deleted before the record.
ForgetAll(i) == <<Forget(i, "login"), Forget(i, "proxy")>>

IdleTask == [op |-> "idle", calls |-> <<>>, undo |-> <<>>, phase |-> <<>>]
NoForm == [op |-> "none"]
DropForm(s) == [op |-> "dropPassword", id |-> s]   \* a key was deployed, the login may go
Free == task.op = "idle"

RecordInit ==
  /\ \E p \in RecPopulations :
       /\ recs = p.recs /\ keys = p.keys /\ file = p.file
       /\ spent = [commands |-> 0, rejections |-> 0, revs |-> 1,
                  born |-> {i \in AllIds : p.recs[i].rev # 0 \/ p.file.recs[i].rev # 0}]
  /\ task = IdleTask
  /\ forms = [k \in 1..2 |-> NoForm]
  /\ abandoned = {} /\ stale = {}

\* A record that is saved with a new revision: device templates and sources.
Minted(i, r) == IF i \in Templates \cup Sources /\ r.rev # 0 THEN [r EXCEPT !.rev = spent.revs + 1] ELSE r
OneRev == [spent EXCEPT !.revs = @ + 1]

\* Mutant: a profile is deleted, and what links it is left alone.
UnlinkNothing(r, i) == r

\* What a record becomes when record i is deleted.
Unlink(r, i) ==
  [r EXCEPT !.profile = IF @ = i THEN None ELSE @,
            !.rules = @ \ {i}]

\* removeServer() and clearGatewayReferencesTo(): a template keeps its gateway.
WithoutServer(R, i) ==
  [j \in AllIds |-> IF j = i THEN Gone
                    ELSE IF j \in Servers /\ R[j].gateway = i THEN [R[j] EXCEPT !.gateway = None] ELSE R[j]]

\* removeAuthProfile(), removeDeviceTemplate(), removeInventorySource()
WithoutOther(R, i) ==
  [j \in AllIds |-> IF j = i THEN Gone ELSE IF Unlink(R[j], i) = R[j] THEN R[j] ELSE Minted(j, Unlink(R[j], i))]

Without(R, i) == IF i \in Servers THEN WithoutServer(R, i) ELSE WithoutOther(R, i)

\* What a rejected save leaves in memory: servers and profiles keep the change,
\* templates and sources are put back.  The deletion of a profile or template is
\* several saves; if one after the first fails ("committed"), all of it stays.
AfterRejection(c, committed) ==
  IF c.do = "put" THEN [recs EXCEPT ![c.id] = IF c.id \in Servers \cup Profiles THEN c.rec ELSE @]
  ELSE IF c.do # "del" THEN recs
  ELSE IF c.id \in Servers \/ (committed /\ c.id \in Profiles \cup Templates) THEN Without(recs, c.id)
  ELSE IF c.id \in Profiles THEN [j \in AllIds |-> IF j \in Servers \cup Profiles THEN Without(recs, c.id)[j] ELSE recs[j]]
  ELSE recs

------------------------------------------------------------------------------
(* The holder of the lock makes its calls *)

Busy(op, calls, undo) == task' = [op |-> op, calls |-> calls, undo |-> undo, phase |-> <<>>]

\* The lock is released with the last call; an import goes on with its next phase.
Next1 == IF Len(task.calls) = 1 /\ task.phase = <<>> THEN IdleTask ELSE [task EXCEPT !.calls = Tail(@)]

Calling(do) == task.calls # <<>> /\ Head(task.calls).do = do

\* A folder, and an import that replaces everything, take the servers only.
KeepsSecrets(i) == i \in Servers /\ task.op \in {"folder", "import"}

PutCall ==
  /\ Calling("put")
  /\ LET c == Head(task.calls) IN
     /\ recs' = [recs EXCEPT ![c.id] = Minted(c.id, c.rec)]
     /\ spent' = [OneRev EXCEPT !.born = @ \cup {c.id}]
  /\ task' = Next1
  /\ UNCHANGED <<keys, forms, file, abandoned, stale>>

DelCall ==
  /\ Calling("del")
  /\ LET i == Head(task.calls).id IN
     /\ recs' = Without(recs, i)
     /\ abandoned' = IF KeepsSecrets(i) THEN abandoned \cup {i} ELSE abandoned
  /\ spent' = OneRev
  /\ task' = Next1
  /\ UNCHANGED <<keys, forms, file, stale>>

StoreCall ==
  /\ Calling("store")
  /\ LET c == Head(task.calls) IN keys' = [keys EXCEPT ![c.id][c.field] = c.value]
  /\ task' = Next1
  /\ UNCHANGED <<recs, forms, file, abandoned, stale, spent>>

\* isSameAuthenticatedEndpoint() decides whether a captured password goes back.
RestoreCall ==
  /\ Calling("restore")
  /\ LET c == Head(task.calls) IN
     keys' = IF recs[c.id].proxy = c.endpoint /\ c.endpoint # None THEN [keys EXCEPT ![c.id].proxy = c.value] ELSE keys
  /\ task' = Next1
  /\ UNCHANGED <<recs, forms, file, abandoned, stale, spent>>

\* The failure of which calls a task undoes what it did: of a password for the
\* two server forms, of any call for the others.
Undoes(c) == task.undo # <<>> /\ (task.op = "serverForm" => c.do = "store")

\* The servers of an import for sharing whose gateways it does not come to.
NotReached ==
  {j \in AllIds : task.op = "share" /\ \E n \in 2..Len(task.calls) : recs'[j].gateway = task.calls[n].id}

\* A call is rejected: what can be undone is, and a rejection in there is
\* swallowed; otherwise the command ends with an error.
CallRejected ==
  /\ task.calls # <<>> /\ task.phase = <<>> /\ spent.rejections < MaxRejections
  /\ LET c == Head(task.calls) IN
     /\ \E committed \in BOOLEAN : recs' = AfterRejection(c, committed)
     /\ task' = IF task.op = "undo" THEN Next1
                ELSE IF Undoes(c) THEN [IdleTask EXCEPT !.op = "undo", !.calls = task.undo]
                ELSE IdleTask
     /\ stale' = stale \cup (IF c.do = "del" THEN {j \in AllIds : recs[j].profile = c.id} ELSE NotReached)
     /\ abandoned' = IF \/ task.op = "undo" \/ (c.do = "put" /\ task.op = "serverForm")
                        \/ c.do = "del" /\ KeepsSecrets(c.id)
                     THEN abandoned \cup {c.id} ELSE abandoned
     /\ forms' = [k \in DOMAIN forms |-> IF task.op = "deploy" /\ forms[k] = DropForm(c.id) THEN NoForm ELSE forms[k]]
  /\ spent' = [OneRev EXCEPT !.rejections = @ + 1, !.born = @ \cup {i \in AllIds : recs'[i].rev # 0}]
  /\ UNCHANGED <<keys, file>>

Calls == PutCall \/ DelCall \/ StoreCall \/ RestoreCall \/ CallRejected

------------------------------------------------------------------------------

RecordTypeOK ==
  /\ recs \in [AllIds -> RecordsOf] /\ keys \in [AllIds -> [Fields -> Nat]]
  /\ abandoned \cup stale \subseteq AllIds

\* Once the lock is free, nothing "is left pointing at an id that no longer
\* resolves" (nexusCore.ts:348-349): every profile, rule and gateway of a record
\* exists, whatever was deleted or imported while a dialog was open.
LinksResolve == Free => \A i \in LiveOf(AllIds) : Resolved(recs, i)

\* The same, of the records whose last write neither failed half-way nor came
\* from a copy made before the lock was taken.
FreshLinksResolve == RecordTypeOK /\ (Free => \A i \in LiveOf(AllIds) \ stale : Resolved(recs, i))

\* The password of a proxy is never kept for another endpoint, unless the user
\* left it in the form: not even between the calls of a command, since a
\* connection may start there, but for the form's own save.
ProxySecretBound ==
  \A s \in LiveOf(Servers) \ abandoned :
    keys[s].proxy \in {NoKey, recs[s].proxy} \/ task.op = "serverForm" \/ (task.op = "undo" /\ task.calls # <<>>)

\* No secret outlives its record, but where a folder was deleted or an undo
\* failed: every way to remove a record, or not to create it after all, takes
\* its entries in the vault along.
VaultClean ==
  Free => \A i \in AllIds \ abandoned, f \in Fields : recs[i].rev = 0 => keys[i][f] = NoKey

\* A secret is of the record, and of the endpoint, that it was given for.
VaultSound == ProxySecretBound /\ VaultClean

\* What the user's records and the vault promise each other: every link leads to
\* a record, every secret belongs to one.
RecordsSound == FreshLinksResolve /\ VaultSound
==============================================================================
