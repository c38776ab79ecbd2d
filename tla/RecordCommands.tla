---------------------------- MODULE RecordCommands ----------------------------
(* The commands that change records.  A dialog is open for as long as the user *)
(* likes and remembers what it was opened with; its answer waits for the lock  *)
(* and has to make do with what is there by then.                              *)
EXTENDS Records

CONSTANT Overriding   \* the templates that override; the others fill

Quiet == UNCHANGED <<recs, keys, task, file, abandoned, stale>>

\* A dialog opens; at most two wait at a time.
Open(f) ==
  /\ spent.commands < MaxCommands
  /\ \E k \in 1..2 :
       /\ forms[k].op = "none" /\ \A j \in 1..(k - 1) : forms[j].op # "none"
       /\ forms' = [forms EXCEPT ![k] = f]
  /\ spent' = [spent EXCEPT !.commands = @ + 1]
  /\ Quiet

\* The dialog is answered, and the lock is free.
Answered(k, op) == forms[k].op = op /\ Free /\ forms' = [forms EXCEPT ![k] = NoForm]
Kept == UNCHANGED <<recs, keys, file, spent>>
Plain == Kept /\ UNCHANGED <<abandoned, stale>>
Refuse == Plain /\ UNCHANGED task

\* The profiles a form offers, as they are when it is opened.
Offers == [p \in LiveOf(Profiles) |-> recs[p].rev]
Newer(r) == [r EXCEPT !.rev = spent.revs + 1]

------------------------------------------------------------------------------
(* Servers *)

OpenServerForm ==
  \E s \in LiveOf(Servers) :
    Open([op |-> "server", id |-> s, seen |-> recs[s], offers |-> Offers, peers |-> LiveOf(Servers) \ {s}])

\* The form of a new server; its id is made when it is saved.
OpenNewServer == Open([op |-> "new", offers |-> Offers, peers |-> LiveOf(Servers)])

\* Mutant: the profile is not looked up again under the lock.
AcceptsAnyProfile(p) == FALSE

\* serverAuthProfileRejection(), inventoryAuthProfileRejection(): the profile is gone.
ProfileRejected(p) == p # None /\ recs[p].rev = 0

\* ... or it was edited after the form showed it; a new server does not mind.
ProfileChanged(f, p) == p # None /\ f.op # "new" /\ recs[p].rev # f.offers[p]

\* syncProxyPasswordSecret(): no proxy, no password; a blank one is left alone.
SyncProxyPassword(s, endpoint, typed) ==
  IF endpoint = None THEN <<Forget(s, "proxy")>> ELSE IF typed THEN <<Store(s, "proxy", endpoint)>> ELSE <<>>

\* The record and the password as they were.
UndoServer(s) ==
  IF recs[s].rev = 0 THEN <<Del(s), Forget(s, "proxy")>>
  ELSE <<Put(s, recs[s]), Store(s, "proxy", keys[s].proxy)>>

\* What the form does not show comes from the live record.
FormServer(s, p, g, endpoint) ==
  Newer([recs[s] EXCEPT !.profile = p, !.gateway = IF g # None /\ recs[g].rev = 0 THEN None ELSE g,
                        !.proxy = endpoint])

SaveServer(f, s) ==
  \E p \in {None} \cup DOMAIN f.offers, g \in {None} \cup f.peers, endpoint \in {None} \cup Endpoints, typed \in BOOLEAN :
    \/ (ProfileRejected(p) \/ ProfileChanged(f, p)) /\ Refuse
    \/ /\ ~ProfileRejected(p) /\ (endpoint = None => typed)
       /\ Busy("serverForm",
               <<Put(s, FormServer(s, p, g, endpoint))>> \o SyncProxyPassword(s, endpoint, typed),
               UndoServer(s))
       /\ abandoned' = IF typed \/ keys[s].proxy \in {NoKey, endpoint} THEN abandoned ELSE abandoned \cup {s}
       /\ Kept /\ UNCHANGED stale

SaveServerForm(k) == Answered(k, "server") /\ SaveServer(forms[k], forms[k].id)
SaveNewServer(k) == Answered(k, "new") /\ Unborn(Servers) # {} /\ SaveServer(forms[k], Lowest(Unborn(Servers)))

\* A Telnet form shows no login and no proxy: they stay as they are, or as they
\* were when the form was opened if the server is gone.
SaveTelnetForm(k) ==
  LET f == forms[k]
      base == IF recs[f.id].rev = 0 THEN f.seen ELSE recs[f.id]
  IN
  /\ Answered(k, "server")
  /\ Busy("serverForm", <<Put(f.id, Newer([base EXCEPT !.gateway = None]))>>, <<>>)
  /\ stale' = IF recs[f.id].rev = 0 THEN stale \cup {f.id} ELSE stale
  /\ Kept /\ UNCHANGED abandoned

OpenServerDialog ==
  \E s \in LiveOf(Servers), op \in {"remove", "duplicate", "rename"} : Open([op |-> op, id |-> s, seen |-> recs[s]])

\* serverConfigsEqual()
SameServer(f) == recs[f.id].rev # 0 /\ recs[f.id] = f.seen

RemoveServer(k) ==
  LET f == forms[k] IN
  /\ Answered(k, "remove")
  /\ \/ ~SameServer(f) /\ Refuse
     \/ /\ SameServer(f)
        /\ Busy("remove", ForgetAll(f.id) \o <<Del(f.id)>>, <<>>)
        /\ Kept /\ UNCHANGED <<abandoned, stale>>

\* The copy was made before the lock was asked for.
DuplicateServer(k) ==
  /\ Answered(k, "duplicate") /\ Unborn(Servers) # {}
  /\ LET s == Lowest(Unborn(Servers)) IN
     /\ Busy("duplicate", <<Put(s, Newer([forms[k].seen EXCEPT !.owner = None, !.was = None]))>>, <<>>)
     /\ stale' = stale \cup {s}
  /\ Kept /\ UNCHANGED abandoned

RenameServer(k) ==
  LET f == forms[k] IN
  /\ Answered(k, "rename")
  /\ \/ recs[f.id].rev # f.seen.rev /\ Refuse
     \/ recs[f.id].rev = f.seen.rev /\ Busy("rename", <<Put(f.id, Newer(recs[f.id]))>>, <<>>) /\ Plain

\* Deploy SSH Key: the key is on the machine, and the user has chosen a profile.
OpenDeploy ==
  \E s \in LiveOf(Servers), p \in {None} \cup LiveOf(Profiles) :
    Open([op |-> "deploy", id |-> s, seen |-> recs[s], pick |-> p])

\* isSameKeyDeployTarget()
SameTarget(f) == recs[f.id].rev # 0 /\ recs[f.id].proxy = f.seen.proxy

DeployKey(k) ==
  LET f == forms[k] IN
  /\ f.op = "deploy" /\ Free
  /\ \/ ~SameTarget(f) /\ forms' = [forms EXCEPT ![k] = NoForm] /\ Refuse
     \/ /\ SameTarget(f) /\ forms' = [forms EXCEPT ![k] = DropForm(f.id)]
        /\ Busy("deploy", <<Put(f.id, Newer([recs[f.id] EXCEPT !.profile = f.pick]))>>, <<>>)
        /\ stale' = IF f.pick \in {None} \cup LiveOf(Profiles) THEN stale ELSE stale \cup {f.id}
        /\ Kept /\ UNCHANGED abandoned

\* The stored password is no longer needed: it goes without the lock.
DropPassword(k) ==
  /\ forms[k].op = "dropPassword" /\ task.op # "deploy"
  /\ keys' = [keys EXCEPT ![forms[k].id].login = NoKey]
  /\ forms' = [forms EXCEPT ![k] = NoForm]
  /\ abandoned' = IF task.op = "import" THEN abandoned \cup {forms[k].id} ELSE abandoned
  /\ UNCHANGED <<recs, task, file, stale, spent>>

\* A folder is deleted with the server in it: its secrets are not.
RemoveFolder ==
  /\ Free /\ spent.commands < MaxCommands
  /\ \E s \in LiveOf(Servers) : Busy("folder", <<Del(s)>>, <<>>)
  /\ spent' = [spent EXCEPT !.commands = @ + 1]
  /\ UNCHANGED <<recs, keys, forms, file, abandoned, stale>>

\* A connection asks for the password of its proxy, and stores it when it is up.
OpenConnection ==
  \E s \in LiveOf(Servers) : recs[s].proxy # None /\ Open([op |-> "connect", id |-> s, seen |-> recs[s]])

\* Mutant: the password is stored without a look at the endpoint.
StoreForAnyEndpoint(f) == recs[f.id].rev # 0

SameEndpoint(f) == recs[f.id].rev # 0 /\ recs[f.id].proxy = f.seen.proxy

PersistProxyPassword(k) ==
  LET f == forms[k] IN
  /\ Answered(k, "connect")
  /\ \/ ~SameEndpoint(f) /\ Refuse
     \/ SameEndpoint(f) /\ Busy("connect", <<Store(f.id, "proxy", f.seen.proxy)>>, <<>>) /\ Plain

------------------------------------------------------------------------------
(* Auth profiles *)

OpenProfile ==
  \/ Unborn(Profiles) # {} /\ Open([op |-> "profile", id |-> None])
  \/ \E p \in LiveOf(Profiles) : Open([op |-> "profile", id |-> p])

DeletedMeanwhile(p) == p # None /\ recs[p].rev = 0

\* The editor's save: a password is stored, kept or dropped with the kind of login.
SaveProfile(k) ==
  LET f == forms[k]
      p == IF f.id = None THEN Lowest(Unborn(Profiles)) ELSE f.id
  IN
  /\ Answered(k, "profile") /\ (f.id = None => Unborn(Profiles) # {})
  /\ \/ DeletedMeanwhile(f.id) /\ Refuse
     \/ /\ ~DeletedMeanwhile(f.id)
        /\ \E secret \in {<<Forget(p, "login")>>, <<Store(p, "login", 1)>>, <<>>} :
             Busy("profile", <<Put(p, Newer(Gone))>> \o secret \o <<Forget(p, "proxy")>>, <<>>)
        /\ Plain

LinkedTo(p) == [servers |-> Cardinality({s \in LiveOf(Servers) : recs[s].profile = p}),
                sources |-> Cardinality({s \in LiveOf(Sources) : recs[s].profile = p})]

OpenDeleteProfile == \E p \in LiveOf(Profiles) : Open([op |-> "deleteProfile", id |-> p, shown |-> LinkedTo(p)])

DeleteProfile(k) ==
  LET f == forms[k]
      same == recs[f.id].rev # 0 /\ LinkedTo(f.id) = f.shown
  IN
  /\ Answered(k, "deleteProfile")
  /\ \/ ~same /\ Refuse
     \/ same /\ Busy("deleteProfile", ForgetAll(f.id) \o <<Del(f.id)>>, <<>>) /\ Plain

\* linkProfileToServers()
LinkAll(p, ss) ==
  LET q == EachOf({s \in ss : recs[s].profile # p})
  IN [i \in DOMAIN q |-> Put(q[i], Newer([recs[q[i]] EXCEPT !.profile = p]))]

\* Apply Auth Profile, to a server or to the folder that holds them all.
OpenLink ==
  \E p \in LiveOf(Profiles), ss \in {{s} : s \in LiveOf(Servers)} \cup {LiveOf(Servers)} :
    ss # {} /\ Open([op |-> "link", pick |-> p, servers |-> ss])

\* Mutant: the profile is linked without a look whether it is still there.
LinksTheMissing(f) == f.servers \subseteq LiveOf(Servers)

LinkValid(f) == recs[f.pick].rev # 0 /\ f.servers \subseteq LiveOf(Servers)

\* A folder that got another server, or a profile that was renamed, is refused.
LinkProfile(k) ==
  LET f == forms[k] IN
  /\ Answered(k, "link")
  /\ \/ Refuse
     \/ /\ LinkValid(f) /\ (Cardinality(f.servers) > 1 => f.servers = LiveOf(Servers))
        /\ LinkAll(f.pick, f.servers) # <<>> /\ Busy("link", LinkAll(f.pick, f.servers), <<>>) /\ Plain

------------------------------------------------------------------------------
(* Device templates and the rules of a source *)

OpenTemplate ==
  \/ Unborn(Templates) # {} /\ Open([op |-> "template", id |-> None, rev |-> 0, offers |-> Offers, peers |-> LiveOf(Servers)])
  \/ \E t \in LiveOf(Templates) :
       Open([op |-> "template", id |-> t, rev |-> recs[t].rev, offers |-> Offers, peers |-> LiveOf(Servers)])

\* Mutant: the profile of a template is not looked up again.
SavesAnyProfile(p) == TRUE

StillThere(p) == p # None => recs[p].rev # 0

SaveTemplate(k) ==
  LET f == forms[k]
      t == IF f.id = None THEN Lowest(Unborn(Templates)) ELSE f.id
      current == f.id # None => recs[f.id].rev = f.rev
  IN
  /\ Answered(k, "template") /\ (f.id = None => Unborn(Templates) # {})
  /\ \E p \in {None} \cup DOMAIN f.offers, g \in {None} \cup f.peers, endpoint \in {None} \cup Endpoints :
       \/ ~(current /\ StillThere(p)) /\ Refuse
       \/ current /\ StillThere(p) /\ Busy("template", <<Put(t, Rec(p, g, {}, None, endpoint, 1))>>, <<>>) /\ Plain

Referencing(t) == {s \in LiveOf(Sources) : t \in recs[s].rules}

OpenDeleteTemplate ==
  \E t \in LiveOf(Templates) :
    Open([op |-> "deleteTemplate", id |-> t, rev |-> recs[t].rev, sources |-> Referencing(t)])

DeleteTemplate(k) ==
  LET f == forms[k]
      same == recs[f.id].rev = f.rev /\ Referencing(f.id) = f.sources
  IN
  /\ Answered(k, "deleteTemplate")
  /\ \/ ~same /\ Refuse
     \/ same /\ Busy("deleteTemplate", <<Del(f.id)>>, <<>>) /\ Plain

\* A rule is added (no old one), replaced, or removed (no new one); rules that
\* apply the same template are not told apart.
OpenRule ==
  \E s \in LiveOf(Sources) : \E old \in recs[s].rules \cup {None}, new \in LiveOf(Templates) \cup {None} :
    old # new /\ Open([op |-> "rule", id |-> s, old |-> old, new |-> new])

\* Mutant: the template of a rule may be gone.
RuleUnchecked(f) == recs[f.id].rev # 0

RuleApplies(f) ==
  /\ recs[f.id].rev # 0
  /\ StillThere(f.new)
  /\ (f.old # None /\ f.new # None) => f.old \in recs[f.id].rules

SaveTemplateRules(k) ==
  LET f == forms[k] IN
  /\ Answered(k, "rule")
  /\ \/ ~RuleApplies(f) /\ Refuse
     \/ /\ RuleApplies(f)
        /\ Busy("rule", <<Put(f.id, [recs[f.id] EXCEPT !.rules = (@ \ {f.old}) \cup ({f.new} \ {None})])>>, <<>>)
        /\ Plain

\* planManualTemplateApply(): what a template writes; a link to a record that is
\* gone, or of a server to itself, is left out.  A profile fills only the login
\* an inventory source gave.
NewProxy(t, s) == recs[t].proxy # None /\ (t \in Overriding \/ recs[s].proxy = None)
NewGateway(t, s) ==
  LET g == recs[t].gateway IN g \notin {None, s} /\ recs[g].rev # 0 /\ (t \in Overriding \/ recs[s].gateway = None)
NewProfile(t, s) ==
  LET p == recs[t].profile IN
  p # None /\ recs[p].rev # 0 /\ (t \in Overriding \/ (recs[s].profile = None /\ recs[s].owner # None))

Written(t, s) ==
  [recs[s] EXCEPT !.proxy = IF NewProxy(t, s) THEN recs[t].proxy ELSE @,
                  !.gateway = IF NewGateway(t, s) THEN recs[t].gateway ELSE @,
                  !.profile = IF NewProfile(t, s) THEN recs[t].profile ELSE @]

\* buildConsentModalDetail(): of each field, how many servers get it.
Detail(t, ss) ==
  <<Cardinality({s \in ss : NewProxy(t, s)}), Cardinality({s \in ss : NewGateway(t, s)}),
    Cardinality({s \in ss : NewProfile(t, s)})>>

OpenApply ==
  \E t \in LiveOf(Templates) :
    LiveOf(Servers) # {} /\ Open([op |-> "apply", id |-> t, rev |-> recs[t].rev, servers |-> LiveOf(Servers),
                                  detail |-> Detail(t, LiveOf(Servers))])

\* Mutant: the passwords of the proxies that are replaced stay.
KeepsPasswords(t, ss) == {}

\* clearStaleProxyPasswordSecretsBeforeApply()
StalePasswords(t, ss) == {s \in ss : NewProxy(t, s) /\ recs[s].proxy # recs[t].proxy}

\* Passwords first, then servers; a failure stores again what still fits.
ApplyTemplate(k) ==
  LET f == forms[k]
      same == /\ recs[f.id].rev = f.rev /\ f.servers = LiveOf(Servers)
              /\ Detail(f.id, LiveOf(Servers)) = f.detail
      drop == EachOf(StalePasswords(f.id, f.servers))
      captured == EachOf({s \in StalePasswords(f.id, f.servers) : keys[s].proxy # NoKey})
      write == EachOf({s \in f.servers : NewProxy(f.id, s) \/ NewGateway(f.id, s) \/ NewProfile(f.id, s)})
  IN
  /\ Answered(k, "apply")
  /\ \/ ~same /\ Refuse
     \/ /\ same /\ write # <<>>
        /\ Busy("apply",
                [i \in DOMAIN drop |-> Forget(drop[i], "proxy")] \o
                [i \in DOMAIN write |-> Put(write[i], Newer(Written(f.id, write[i])))],
                [i \in DOMAIN captured |-> Restore(captured[i], keys[captured[i]].proxy, recs[captured[i]].proxy)])
        /\ Plain

OpenNewSource ==
  \E rules \in SUBSET LiveOf(Templates) :
    Unborn(Sources) # {} /\ Open([op |-> "source", offers |-> Offers, rules |-> rules])

\* persistNewInventorySource(): its credentials first; when its profile or a
\* template has gone, or a call fails, they are deleted again.
SaveNewSource(k) ==
  LET f == forms[k]
      i == Lowest(Unborn(Sources))
      cleanup == <<Forget(i, "login")>>
  IN
  /\ Answered(k, "source") /\ Unborn(Sources) # {}
  /\ \E p \in {None} \cup DOMAIN f.offers :
       Busy("source",
            <<Store(i, "login", 1)>> \o
            (IF ProfileRejected(p) \/ ProfileChanged(f, p) \/ \E t \in f.rules : recs[t].rev = 0 THEN cleanup
             ELSE <<Put(i, Rec(p, None, f.rules, None, None, 1))>>),
            cleanup)
  /\ Plain

\* The dialog is dismissed.
DismissDialog(k) ==
  /\ forms[k].op # "none" /\ forms' = [forms EXCEPT ![k] = NoForm]
  /\ UNCHANGED <<recs, keys, task, file, abandoned, stale, spent>>

CommandNext ==
  \/ OpenServerForm \/ OpenNewServer \/ OpenServerDialog \/ OpenDeploy \/ RemoveFolder \/ OpenConnection
  \/ OpenProfile \/ OpenDeleteProfile \/ OpenLink \/ OpenTemplate \/ OpenDeleteTemplate \/ OpenRule \/ OpenApply
  \/ OpenNewSource
  \/ \E k \in 1..2 :
       \/ SaveServerForm(k) \/ SaveNewServer(k) \/ SaveTelnetForm(k) \/ RemoveServer(k) \/ DuplicateServer(k)
       \/ RenameServer(k) \/ DeployKey(k) \/ DropPassword(k) \/ PersistProxyPassword(k)
       \/ SaveProfile(k) \/ DeleteProfile(k) \/ LinkProfile(k)
       \/ SaveTemplate(k) \/ DeleteTemplate(k) \/ SaveTemplateRules(k) \/ ApplyTemplate(k)
       \/ SaveNewSource(k) \/ DismissDialog(k)
===============================================================================
