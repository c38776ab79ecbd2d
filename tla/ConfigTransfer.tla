---------------------------- MODULE ConfigTransfer ----------------------------
(* Backups, exports for sharing, their import, and the complete reset.  The    *)
(* import keeps the ids of a backup and goes through phases, each of which     *)
(* looks at the records the phases before have left; it holds the lock from    *)
(* the first to the last.                                                      *)
EXTENDS RecordCommands

VARIABLE transfer   \* the import under way: what it reads, and what it has done

NoTransfer == [mode |-> "none", data |-> <<>>, imported |-> {}, settingsFailed |-> FALSE,
               clean |-> TRUE, stored |-> <<>>, before |-> <<>>]
TransferInit == RecordInit /\ transfer = NoTransfer

Occupied == spent.commands < MaxCommands /\ spent' = [spent EXCEPT !.commands = @ + 1]
AtRest == UNCHANGED <<recs, keys, forms, abandoned, stale>>

\* ForgetAll() of one record after the other, without and with the record itself.
ForgetEach(ids) ==
  [n \in 1..(2 * Len(ids)) |-> Forget(ids[(n + 1) \div 2], IF n % 2 = 1 THEN "login" ELSE "proxy")]
RemoveEach(ids) ==
  [n \in 1..(3 * Len(ids)) |->
    LET i == ids[(n + 2) \div 3] IN <<Forget(i, "login"), Forget(i, "proxy"), Del(i)>>[((n - 1) % 3) + 1]]

------------------------------------------------------------------------------
(* Exports *)

\* captureBackupStateForExport(): records and secrets, under one lock.
ExportBackup ==
  /\ Free /\ Occupied
  /\ file' = [kind |-> "backup", recs |-> recs, bad |-> {},
              keys |-> [i \in AllIds |-> IF recs[i].rev # 0 THEN keys[i] ELSE NoKeys]]
  /\ AtRest /\ UNCHANGED <<task, transfer>>

SharedProfiles(R) == {R[s].profile : s \in {s \in Servers : R[s].rev # 0}} \ {None}

\* sanitizeForSharing(): servers and the profiles they use; no owner, no secret,
\* and of a proxy not the user.
Sanitized(R) ==
  [i \in AllIds |->
    IF i \in Servers /\ R[i].rev # 0 THEN [R[i] EXCEPT !.owner = None, !.was = None, !.proxy = None]
    ELSE IF i \in SharedProfiles(R) THEN R[i] ELSE Gone]

ExportShare ==
  /\ Occupied
  /\ file' = [kind |-> "share", recs |-> Sanitized(recs), bad |-> {}, keys |-> [i \in AllIds |-> NoKeys]]
  /\ AtRest /\ UNCHANGED <<task, transfer>>

------------------------------------------------------------------------------
(* Imports that make new ids *)

\* What an import reads was parsed when it began.
Data == IF task.op = "import" THEN transfer.data ELSE file
InFile(K) == {i \in K : Data.recs[i].rev # 0}

\* Mutant: a link is kept though its profile was refused.
LinksRefused(i, ids) == IF i \notin DOMAIN ids THEN None ELSE ids[i]

\* linkToImportedProfile(), linkToImportedServer()
Imported(i, ids) == IF i = None \/ i \notin InFile(AllIds) \ Data.bad THEN None ELSE ids[i]

\* Every record gets an id of its own, before any of them is validated.
NewIds(K) == CHOOSE ids \in Injection(InFile(K), Unborn(K)) : TRUE

\* importShareData(): profiles, then servers.
ImportShare ==
  /\ Free /\ Occupied /\ file.kind = "share"
  /\ \A K \in {Servers, Profiles} : ExistsInjection(InFile(K), Unborn(K))
  /\ LET ids == [i \in InFile(Servers \cup Profiles) |->
                   IF i \in Servers THEN NewIds(Servers)[i] ELSE NewIds(Profiles)[i]]
         profiles == EachOf(InFile(Profiles) \ Data.bad)
         servers == EachOf(InFile(Servers) \ Data.bad)
         calls == [n \in DOMAIN profiles |-> Put(ids[profiles[n]], Data.recs[profiles[n]])] \o
                  [n \in DOMAIN servers |->
                     Put(ids[servers[n]], [Data.recs[servers[n]] EXCEPT !.profile = Imported(@, ids), !.gateway = Imported(@, ids)])]
     IN calls # <<>> /\ Busy("share", calls, <<>>)
  /\ AtRest /\ UNCHANGED <<file, transfer>>

\* A session or a line of a host list becomes a server.
ImportSessions ==
  /\ Free /\ Occupied /\ Unborn(Servers) # {}
  /\ Busy("sessions", <<Put(Lowest(Unborn(Servers)), Newer(Gone))>>, <<>>)
  /\ AtRest /\ UNCHANGED <<file, transfer>>

------------------------------------------------------------------------------
(* importMergeReplaceLocked() *)

\* What a replacing import deletes: of the servers not the secrets.
WipeCalls ==
  LET ss == EachOf(LiveOf(Servers))
      others == EachOf(LiveOf(Profiles)) \o EachOf(LiveOf(Sources))
      ts == EachOf(LiveOf(Templates))
  IN [n \in DOMAIN ss |-> Del(ss[n])] \o
     RemoveEach(others) \o
     [n \in DOMAIN ts |-> Del(ts[n])]

\* Mutant: an import overwrites the records that are there.
OverwritesExisting(i) == i \in InFile(AllIds) \ Data.bad

\* importPreservingIds(): known ids are skipped when merging, and what does not validate.
ToImport(i) == /\ i \in InFile(AllIds) \ Data.bad
               /\ transfer.mode = "merge" => transfer.before.recs[i].rev = 0

AddEach(K) ==
  LET ids == EachOf({i \in K : ToImport(i)}) IN [n \in DOMAIN ids |-> Put(ids[n], Data.recs[ids[n]])]
AddCalls ==
  AddEach(Servers) \o AddEach(Sources) \o AddEach(Profiles) \o AddEach(Templates)

Dangles(i) == i # None /\ recs[i].rev = 0

\* Mutant: the sources are not looked at.
SweepServers(i) ==
  [recs[i] EXCEPT !.profile = IF i \in Servers /\ Dangles(@) THEN None ELSE @,
                  !.gateway = IF i \in Servers /\ Dangles(@) THEN None ELSE @]

\* The links of servers and sources that lead nowhere are cleared.
SweptLinks(i) ==
  [recs[i] EXCEPT !.profile = IF i \in Servers \cup Sources /\ Dangles(@) THEN None ELSE @,
                  !.gateway = IF i \in Servers /\ Dangles(@) THEN None ELSE @]

\* Then the profiles of templates, but not their gateways, and the rules.
SweptRules(i) ==
  [recs[i] EXCEPT !.profile = IF i \in Templates /\ Dangles(@) THEN None ELSE @,
                  !.rules = {t \in @ : ~Dangles(t)}]

SweepCalls(swept) ==
  LET ids == EachOf({i \in LiveOf(AllIds) : swept[i] # recs[i]}) IN [n \in DOMAIN ids |-> Put(ids[n], swept[ids[n]])]

\* The imported sources take over the poll interval that spent to be a setting.
CarryCalls ==
  LET ids == EachOf(LiveOf(Sources) \cap transfer.imported) IN [n \in DOMAIN ids |-> Put(ids[n], recs[ids[n]])]

\* restoreSecrets(), for servers and profiles that were imported.
SecretCalls(K) ==
  LET entries == EachOf({x \in K \X Fields : x[1] \in transfer.imported /\ Data.keys[x[1]][x[2]] # NoKey})
  IN [n \in DOMAIN entries |-> Store(entries[n][1], entries[n][2], Data.keys[entries[n][1]][entries[n][2]])]

\* Mutant: the servers of a source that was taken back are still said to be its.
DetachNothing(s) == {}

\* The imported servers of a source that was taken back again.
Detached(s) == {i \in Servers \cap transfer.imported : recs[i].rev # 0 /\ recs[i].owner = s}

DetachCalls(s) ==
  LET ids == EachOf(Detached(s)) IN [n \in DOMAIN ids |-> Put(ids[n], [recs[ids[n]] EXCEPT !.owner = None, !.was = s])]

PhaseCalls(ph) ==
  CASE ph[1] = "wipe" -> WipeCalls
    [] ph[1] = "add" -> AddCalls
    [] ph[1] = "links" -> SweepCalls([i \in AllIds |-> SweptLinks(i)])
    [] ph[1] = "rules" -> SweepCalls([i \in AllIds |-> SweptRules(i)])
    [] ph[1] = "settings" -> <<[do |-> "settings", id |-> None]>>
    [] ph[1] = "carry" -> CarryCalls
    [] ph[1] = "secrets" -> SecretCalls(Servers \cup Profiles)
    [] ph[1] = "source" -> SecretCalls({ph[2]})
    [] ph[1] = "detach" -> DetachCalls(ph[2])
    [] OTHER -> <<>>   \* start, done

\* The phases; without the password of a backup no secret is restored.
Phases(mode, secrets, carry) ==
  LET ss == EachOf(InFile(Sources)) IN
  <<<<"start", 0>>>> \o (IF mode = "replace" THEN <<<<"wipe", 0>>>> ELSE <<>>) \o
  <<<<"add", 0>>, <<"links", 0>>, <<"rules", 0>>, <<"settings", 0>>>> \o (IF carry THEN <<<<"carry", 0>>>> ELSE <<>>) \o <<<<"check", 0>>>> \o
  (IF secrets THEN <<<<"secrets", 0>>>> \o [n \in DOMAIN ss |-> <<"source", ss[n]>>] ELSE <<>>) \o
  <<<<"done", 0>>>>

Import ==
  /\ Free /\ Occupied /\ file.kind # "share"
  /\ \E mode \in {"merge", "replace"}, carry \in BOOLEAN :
       /\ task' = [op |-> "import", calls |-> <<>>, undo |-> <<>>, phase |-> Phases(mode, Data.kind = "backup", carry)]
       /\ transfer' = [NoTransfer EXCEPT !.mode = mode, !.data = file, !.before = [recs |-> recs, keys |-> keys]]
  /\ AtRest /\ UNCHANGED file

Phase == IF task.phase = <<>> THEN "none" ELSE Head(task.phase)[1]

\* A phase is over.  A settings error that was put off is thrown before the
\* secrets are restored.
Advance ==
  /\ task.op = "import" /\ task.calls = <<>>
  /\ LET rest == Tail(task.phase) IN
     \/ /\ Phase = "done" \/ (Phase = "check" /\ transfer.settingsFailed)
        /\ task' = IdleTask /\ transfer' = NoTransfer
     \/ /\ Phase # "done" /\ ~(Phase = "check" /\ transfer.settingsFailed)
        /\ task' = [task EXCEPT !.phase = rest, !.calls = PhaseCalls(Head(rest))]
        /\ transfer' = [transfer EXCEPT !.imported = IF Head(rest)[1] = "add" THEN {i \in AllIds : ToImport(i)} ELSE @,
                                        !.stored = <<>>]
  /\ UNCHANGED <<recs, keys, forms, file, abandoned, stale, spent>>

SettingsCall ==
  /\ Calling("settings") /\ task' = Next1
  /\ UNCHANGED <<recs, keys, forms, file, abandoned, stale, spent, transfer>>

\* A store of a source's credential succeeds: it is remembered for the way back.
ImportStore ==
  /\ Phase = "source" /\ StoreCall
  /\ transfer' = [transfer EXCEPT !.stored = Append(@, Forget(Head(task.calls).id, Head(task.calls).field))]

\* Mutant: the credentials that had been stored are left.
TakeBackSource(s, stored) == <<Del(s)>>

TakeBack(s, stored) == stored \o <<Del(s)>>

\* A call is rejected.  In most phases that ends the import.
ImportRejected ==
  /\ task.op = "import" /\ task.calls # <<>> /\ spent.rejections < MaxRejections
  /\ LET c == Head(task.calls)
         ph == Head(task.phase)
     IN
     /\ \E committed \in BOOLEAN : recs' = AfterRejection(c, committed)
     /\ \/ /\ Phase = "settings"
           /\ task' = Next1 /\ transfer' = [transfer EXCEPT !.settingsFailed = TRUE] /\ UNCHANGED abandoned
        \/ /\ Phase = "source"   \* its credentials do not stay, and neither does it
           /\ task' = [task EXCEPT !.calls = TakeBack(ph[2], transfer.stored),
                                   !.phase = <<<<"takeBack", ph[2]>>, <<"detach", ph[2]>>>> \o Tail(@)]
           /\ transfer' = [transfer EXCEPT !.clean = FALSE] /\ UNCHANGED abandoned
        \/ /\ Phase = "takeBack" /\ c.do # "del"
           /\ task' = Next1 /\ abandoned' = abandoned \cup {c.id} /\ UNCHANGED transfer
        \/ /\ Phase = "takeBack" /\ c.do = "del"   \* the source stays, and its servers with it
           /\ task' = [task EXCEPT !.calls = <<>>, !.phase = <<Head(@)>> \o Tail(Tail(@))] /\ UNCHANGED <<abandoned, transfer>>
        \/ Phase = "detach" /\ task' = Next1 /\ UNCHANGED <<abandoned, transfer>>
        \/ /\ Phase \in {"wipe", "add", "links", "rules", "carry", "secrets"}
           /\ task' = IdleTask /\ transfer' = NoTransfer
           /\ abandoned' = IF c.do = "del" /\ KeepsSecrets(c.id) THEN abandoned \cup {c.id} ELSE abandoned
     /\ stale' = IF Phase \in {"wipe", "add", "links", "rules"} THEN stale \cup AllIds ELSE stale
  /\ spent' = [OneRev EXCEPT !.rejections = @ + 1, !.born = @ \cup {i \in AllIds : recs'[i].rev # 0}]
  /\ UNCHANGED <<keys, forms, file>>

------------------------------------------------------------------------------

\* completeReset()
Reset ==
  /\ Free /\ Occupied /\ LiveOf(AllIds) # {}
  /\ LET ss == EachOf(LiveOf(Servers))
         others == EachOf(LiveOf(Profiles)) \o EachOf(LiveOf(Sources))
         ts == EachOf(LiveOf(Templates))
     IN task' = [op |-> "reset", undo |-> <<>>, phase |-> <<>>,
                 calls |-> ForgetEach(ss) \o [n \in DOMAIN ss |-> Del(ss[n])] \o
                           RemoveEach(others) \o
                           [n \in DOMAIN ts |-> Del(ts[n])] \o <<[do |-> "settings", id |-> None]>>]
  /\ AtRest /\ UNCHANGED <<file, transfer>>

TransferNext ==
  \/ ExportBackup \/ ExportShare \/ ImportShare \/ ImportSessions \/ Import \/ Advance \/ SettingsCall
  \/ ImportStore \/ ImportRejected \/ Reset
  \/ Phase # "source" /\ StoreCall /\ UNCHANGED transfer
  \/ (CommandNext \/ PutCall \/ DelCall \/ RestoreCall \/ CallRejected) /\ UNCHANGED transfer
TransferSpec == TransferInit /\ [][TransferNext]_<<recordVars, transfer>>

------------------------------------------------------------------------------

AtEnd == Phase = "done"
FileConsistent == \A i \in InFile(AllIds) \ Data.bad : Data.recs[i].rev # 0 =>
                    \A x \in ({Data.recs[i].profile, Data.recs[i].gateway} \cup Data.recs[i].rules) \ {None} :
                      x \in InFile(AllIds) \ Data.bad
\* Templates and sources are saved with a revision of their own.
SameRecord(r, q) == [r EXCEPT !.rev = 1] = [q EXCEPT !.rev = 1] /\ (r.rev = 0) = (q.rev = 0)

\* The user dropped the login of a server while the import ran.
Dropped(i, f) == i \in abandoned /\ f = "login" /\ keys[i][f] = NoKey

\* A replacing import that met no error leaves what the file holds, secrets
\* included, and nothing else.
Restored ==
  (AtEnd /\ transfer.mode = "replace" /\ transfer.clean /\ FileConsistent) =>
    \A i \in AllIds :
      /\ SameRecord(recs[i], IF i \in Data.bad THEN Gone ELSE Data.recs[i])
      /\ \A f \in Fields : Data.kind = "backup" /\ recs[i].rev # 0 /\ Data.keys[i][f] # NoKey =>
           keys[i][f] = Data.keys[i][f] \/ Dropped(i, f)

\* A merging import leaves alone what was there: the secrets always, the records
\* but for links that lead nowhere.
Untouched ==
  (AtEnd /\ transfer.mode = "merge") =>
    \A i \in AllIds : transfer.before.recs[i].rev # 0 =>
      /\ \A f \in Fields : keys[i][f] = transfer.before.keys[i][f] \/ Dropped(i, f)
      /\ i \notin stale => SameRecord(recs[i], transfer.before.recs[i])

\* A source whose credentials could not be stored is gone, credentials and all,
\* and none of the servers that came with it names it as its owner.
TakenBack ==
  AtEnd => \A s \in Sources \cap transfer.imported : recs[s].rev = 0 =>
    /\ s \in abandoned \/ \A f \in Fields : keys[s][f] = NoKey
    /\ \A i \in Servers \cap transfer.imported : recs[i].owner # s

TransferSound == Restored /\ Untouched /\ TakenBack

\* Complete Reset "will permanently delete ALL servers, ... and saved passwords"
\* (configCommands.ts:3214): nothing is left in the vault when it ends.
PasswordsDeleted ==
  (task.op = "reset" /\ Len(task.calls) = 1) => \A i \in AllIds, f \in Fields : keys[i][f] = NoKey
===============================================================================
