------------------------------ MODULE RecordProofs ------------------------------
(* The records of the user and their secrets: Records, RecordCommands and      *)
(* ConfigTransfer, for any number of records, commands, imports and rejected   *)
(* calls.                                                                      *)
(*                                                                             *)
(* The invariant says what the calls still to be made will repair: of a secret *)
(* whose record is gone, of a password whose proxy has changed, of a link to a *)
(* record that is yet to come.  It is stated of records R, a vault K and the   *)
(* abandoned records A, so that a call is a step from one such triple to the   *)
(* next.                                                                       *)
EXTENDS ConfigTransfer, FiniteSetTheorems, SequenceTheorems, WellFoundedInduction, TLAPS

------------------------------------------------------------------------------
(* Types *)

KeyMaps == [AllIds -> [Fields -> Nat]]
Puts == {c \in [do : {"put"}, id : AllIds, rec : RecordsOf] : c.rec.rev # 0 /\ Shaped(c.id, c.rec)}
Dels == [do : {"del"}, id : AllIds]
Stores == [do : {"store"}, id : AllIds \ Templates, field : Fields, value : Nat]
Restores == [do : {"restore"}, id : Servers, value : Nat, endpoint : Endpoints \cup {None}]
SettingsCalls == [do : {"settings"}, id : {None}]
CallSet == Puts \cup Dels \cup Stores \cup Restores \cup SettingsCalls
CallLists == Seq(CallSet)

Ops == {"idle", "undo", "serverForm", "remove", "duplicate", "rename", "deploy", "folder", "connect", "profile",
        "deleteProfile", "link", "template", "deleteTemplate", "rule", "apply", "source", "share", "sessions",
        "import", "reset"}
PhaseNames == {"start", "wipe", "add", "links", "rules", "settings", "carry", "check", "secrets", "source",
               "takeBack", "detach", "done"}
PhaseLists == Seq(PhaseNames \X (Sources \cup {None}))
Tasks == [op : Ops, calls : CallLists, undo : CallLists, phase : PhaseLists]
Spending == [commands : Nat, rejections : Nat, revs : Nat, born : SUBSET AllIds]

Dead(R, i) == R[i].rev = 0

\* A record that is not there has no links, and its place is empty.
Whole(R) == R \in RecordMaps /\ \A i \in AllIds : Dead(R, i) => R[i] = Gone
Vault(K) == K \in KeyMaps /\ \A t \in Templates, f \in Fields : K[t][f] = NoKey

RecTypes ==
  /\ Whole(recs) /\ Vault(keys) /\ task \in Tasks
  /\ abandoned \in SUBSET AllIds /\ stale \in SUBSET AllIds /\ spent \in Spending
  /\ \A i \in AllIds : Dead(recs, i) \/ i \in spent.born
  /\ task.op = "idle" => task = IdleTask
  /\ task.op # "import" <=> task.phase = <<>>

\* What a program of this kind writes into a file.
FileTyped(data) == data.recs \in RecordMaps /\ data.keys \in KeyMaps /\ data.bad \in SUBSET AllIds

\* What a dialog remembers.
OffersOK(f) == DOMAIN f.offers \in SUBSET Profiles /\ f.peers \in SUBSET Servers
SeenOK(f) == f.id \in Servers /\ f.seen \in RecordsOf /\ Shaped(f.id, f.seen) /\ f.seen.rev # 0
FormOK(f) ==
  /\ f.op = "server" => SeenOK(f) /\ OffersOK(f)
  /\ f.op = "new" => OffersOK(f)
  /\ f.op \in {"remove", "duplicate", "rename", "connect"} => SeenOK(f)
  /\ f.op = "deploy" => SeenOK(f) /\ f.pick \in Profiles \cup {None}
  /\ f.op = "dropPassword" => f.id \in Servers
  /\ f.op = "profile" => f.id \in Profiles \cup {None}
  /\ f.op = "deleteProfile" => f.id \in Profiles
  /\ f.op = "link" => f.pick \in Profiles /\ f.servers \in SUBSET Servers
  /\ f.op = "template" => f.id \in Templates \cup {None} /\ OffersOK(f)
  /\ f.op = "deleteTemplate" => f.id \in Templates
  /\ f.op = "rule" => f.id \in Sources /\ {f.old, f.new} \subseteq Templates \cup {None}
  /\ f.op = "apply" => f.id \in Templates /\ f.servers \in SUBSET Servers
  /\ f.op = "source" => DOMAIN f.offers \in SUBSET Profiles /\ f.rules \in SUBSET Templates
FormsOK == DOMAIN forms = 1..2 /\ \A k \in 1..2 : FormOK(forms[k])

\* The phases of an import, in their order.
Follow(name) ==
  CASE name = "start" -> {"wipe", "add"}
    [] name = "wipe" -> {"add"}
    [] name = "add" -> {"links"}
    [] name = "links" -> {"rules"}
    [] name = "rules" -> {"settings"}
    [] name = "settings" -> {"carry", "check"}
    [] name = "carry" -> {"check"}
    [] name = "check" -> {"secrets", "done"}
    [] name = "takeBack" -> {"detach", "source", "done"}
    [] name = "done" -> {}
    [] OTHER -> {"source", "done"}

\* What is to come follows what was; each source has its phase once.
PhasesOK(ph) ==
  /\ ph # <<>>
  /\ \A k \in DOMAIN ph :
       /\ k + 1 \in DOMAIN ph => ph[k + 1][1] \in Follow(ph[k][1])
       /\ k + 1 \notin DOMAIN ph => ph[k][1] = "done"
       /\ ph[k][1] \in {"source", "takeBack", "detach"} => ph[k][2] \in Sources
  /\ \A j, k \in DOMAIN ph : ph[k][1] = "source" /\ ph[j][2] = ph[k][2] => j = k

Transfers ==
  [mode : {"none", "merge", "replace"}, data : {transfer.data}, imported : SUBSET AllIds,
   settingsFailed : BOOLEAN, clean : BOOLEAN, stored : CallLists, before : {transfer.before}]
TransferTyped ==
  /\ transfer \in Transfers
  /\ task.op # "import" => transfer = NoTransfer
  /\ task.op = "import" => FileTyped(transfer.data) /\ PhasesOK(task.phase)

TypeInv == RecTypes /\ FormsOK /\ FileTyped(file) /\ TransferTyped

------------------------------------------------------------------------------
(* The calls still to be made *)

IsPut(c, i) == c.do = "put" /\ c.id = i
IsForget(c, i, f) == c.do = "store" /\ c.id = i /\ c.field = f /\ c.value = NoKey
PutOf(q, i) == \E k \in DOMAIN q : IsPut(q[k], i)
DelOf(q, i) == \E k \in DOMAIN q : q[k].do = "del" /\ q[k].id = i
ForgetOf(q, i, f) == \E k \in DOMAIN q : IsForget(q[k], i, f)
PutBefore(q, k, i) == \E j \in DOMAIN q : j < k /\ IsPut(q[j], i)
ForgetBefore(q, k, i, f) == \E j \in DOMAIN q : j < k /\ IsForget(q[j], i, f)

\* The password of this proxy is going to be stored, or none.
SettledAfter(q, k, i, endpoint) ==
  \E j \in DOMAIN q :
    k < j /\ q[j].do = "store" /\ q[j].id = i /\ q[j].field = "proxy" /\ q[j].value \in {NoKey, endpoint}
Forms == {"serverForm", "undo"}

\* Either records are removed or written, each once, or passwords restored.
Orderly(q) ==
  \A j, k \in DOMAIN q :
    /\ q[j].do = "put" /\ q[k].do = "put" /\ q[j].id = q[k].id => j = k
    /\ q[j].do = "del" => q[k].do \in {"del", "settings"} \/ (q[k].do = "store" /\ q[k].value = NoKey)
    /\ q[j].do = "restore" => q[k].do = "restore"

PutsOK(op, q, K, A) ==
  \A k \in DOMAIN q : q[k].do = "put" /\ q[k].id \in Servers \ A =>
    \/ K[q[k].id]["proxy"] \in {NoKey, q[k].rec.proxy}
    \/ ForgetBefore(q, k, q[k].id, "proxy")
    \/ op \in Forms /\ SettledAfter(q, k, q[k].id, q[k].rec.proxy)

DelsOK(op, q, K, A) ==
  \A k \in DOMAIN q, f \in Fields : q[k].do = "del" =>
    \/ q[k].id \in Servers /\ op \in {"folder", "import"}
    \/ q[k].id \in A \/ K[q[k].id][f] = NoKey \/ ForgetBefore(q, k, q[k].id, f)
    \/ op = "undo" /\ ForgetOf(q, q[k].id, f)

\* The credential of a source that is not there yet.
Ahead(op, f) == op = "source" /\ f = "login"

StoresOK(op, q, R, A) ==
  \A k \in DOMAIN q : q[k].do = "store" /\ q[k].value # NoKey /\ q[k].id \notin A =>
    /\ \/ ~Dead(R, q[k].id) \/ PutBefore(q, k, q[k].id)
       \/ /\ Ahead(op, q[k].field)
          /\ \E j \in DOMAIN q : k < j /\ (IsPut(q[j], q[k].id) \/ IsForget(q[j], q[k].id, q[k].field))
    /\ q[k].id \in Servers /\ q[k].field = "proxy" =>
         \/ q[k].value = R[q[k].id].proxy /\ ~PutOf(q, q[k].id)
         \/ \E j \in DOMAIN q : j < k /\ IsPut(q[j], q[k].id) /\ q[j].rec.proxy = q[k].value

RestoresOK(q, A) ==
  \A k \in DOMAIN q : q[k].do = "restore" => q[k].id \in A \/ q[k].value \in {NoKey, q[k].endpoint}

CallsOK(op, q, R, K, A) ==
  Orderly(q) /\ PutsOK(op, q, K, A) /\ DelsOK(op, q, K, A) /\ StoresOK(op, q, R, A) /\ RestoresOK(q, A)

\* No secret outlives its record, but for what is still to be called.
VaultOK(op, q, R, K, A) ==
  \A i \in AllIds \ A, f \in Fields : Dead(R, i) =>
    \/ K[i][f] = NoKey
    \/ op = "undo" /\ ForgetOf(q, i, f)
    \/ Ahead(op, f) /\ (PutOf(q, i) \/ ForgetOf(q, i, f))

\* A password is that of the proxy, but for what is still to be called.
BoundOK(op, q, R, K, A) ==
  \A s \in Servers \ A : ~Dead(R, s) =>
    \/ K[s]["proxy"] \in {NoKey, R[s].proxy}
    \/ op \in Forms /\ SettledAfter(q, 0, s, R[s].proxy)
    \/ op = "undo" /\ (PutOf(q, s) \/ DelOf(q, s))

ListOK(op, q, R, K, A) == CallsOK(op, q, R, K, A) /\ VaultOK(op, q, R, K, A) /\ BoundOK(op, q, R, K, A)

\* A form saves one server, and the password of its proxy.
FormCalls(s, q) ==
  \A k \in DOMAIN q : q[k].id = s /\ (q[k].do = "put" \/ (q[k].do = "store" /\ q[k].field = "proxy"))

\* What a form saved is undone: the record and the password as they were, or
\* neither.
UndoesForm(s, u, K, A) ==
  \/ /\ Len(u) = 2 /\ IsPut(u[1], s) /\ u[2] = Store(s, "proxy", u[2].value)
     /\ s \in A \/ u[2].value \in {NoKey, u[1].rec.proxy}
  \/ /\ u = <<Del(s), Forget(s, "proxy")>>
     /\ s \in A \/ K[s]["login"] = NoKey

\* What is undone when a call of a form, an application or a new source fails.
UndoOK(op, q, u, K, A) ==
  /\ op = "serverForm" =>
       \E s \in Servers :
         /\ FormCalls(s, q)
         /\ (u = <<>> /\ \A k \in DOMAIN q : q[k].do = "put") \/ UndoesForm(s, u, K, A)
  /\ op = "apply" => (\A k \in DOMAIN u : u[k].do = "restore") /\ RestoresOK(u, A)
  /\ op = "source" => \E i \in Sources : u = <<Forget(i, "login")>> /\ \A k \in DOMAIN q : q[k].id = i
  /\ op \notin {"serverForm", "apply", "source"} => u = <<>>
  /\ op = "undo" => \A k \in DOMAIN q : q[k].do # "settings"

FileBound(data, A) == \A s \in Servers \ A : data.keys[s]["proxy"] \in {NoKey, data.recs[s].proxy}

------------------------------------------------------------------------------
(* The import *)

\* What kind of calls a phase makes.
PhaseCallsOK(ph, q, R, imported, data) ==
  \A k \in DOMAIN q : LET c == q[k] IN
    /\ ph[1] \notin {"start", "check", "done"}
    /\ ph[1] \in {"links", "rules", "carry", "detach"} => c.do = "put" /\ ~Dead(R, c.id) /\ c.rec.proxy = R[c.id].proxy
    /\ ph[1] = "add" => c.do = "put" /\ c.id \in imported /\ c.rec = data.recs[c.id]
    /\ ph[1] = "wipe" => c.do \in {"del", "store"}
    /\ ph[1] = "settings" => c.do = "settings"
    /\ ph[1] = "secrets" => c.do = "store" /\ c.id \in Servers \cup Profiles
    /\ ph[1] = "source" => c.do = "store" /\ c.id = ph[2] /\ c.id \in imported
    /\ ph[1] = "takeBack" => ((c.do = "store" /\ c.value = NoKey) \/ c.do = "del") /\ c.id = ph[2]

Early == {"start", "wipe", "add"}

\* The records the file brings are there, with the proxies they have in it.
Brought(name, q, R, tr) ==
  /\ name = "start" => R = tr.before.recs
  /\ name = "wipe" => \A i \in AllIds : Dead(R, i) \/ DelOf(q, i)
  /\ name \in {"start", "wipe"} => tr.imported = {}
  /\ name = "add" => \A i \in tr.imported : PutOf(q, i) \/ (~Dead(R, i) /\ R[i].proxy = tr.data.recs[i].proxy)
  /\ name \notin Early =>
       \A i \in tr.imported \cap (Servers \cup Profiles) : ~Dead(R, i) /\ R[i].proxy = tr.data.recs[i].proxy

\* The credentials of the sources it brings are not there yet, but for the one
\* at hand.
Fresh(s, f, K, A) == s \in A \/ K[s][f] = NoKey
SourcesOK(ph, R, K, A, tr) ==
  /\ \A k \in DOMAIN ph : ph[k][1] = "source" /\ ph[k][2] \in tr.imported =>
       /\ ph[1][1] \in Early \/ ~Dead(R, ph[k][2])
       /\ \A f \in Fields : Fresh(ph[k][2], f, K, A) \/ (k = 1 /\ ForgetOf(tr.stored, ph[k][2], f))
  /\ \A k \in DOMAIN tr.stored :
       tr.stored[k].do = "store" /\ tr.stored[k].value = NoKey /\ tr.stored[k].id = ph[1][2]

ImportOK ==
  task.op = "import" =>
    /\ transfer.mode # "none" /\ FileBound(transfer.data, abandoned)
    /\ \A i \in transfer.imported : transfer.data.recs[i].rev # 0
    /\ Phase = "start" /\ transfer.mode = "replace" => task.phase[2][1] = "wipe"
    /\ Phase = "takeBack" /\ task.calls # <<>> => task.phase[2][1] = "detach"
    /\ PhaseCallsOK(task.phase[1], task.calls, recs, transfer.imported, transfer.data)
    /\ Brought(Phase, task.calls, recs, transfer)
    /\ SourcesOK(task.phase, recs, keys, abandoned, transfer)

ListInv ==
  /\ ListOK(task.op, task.calls, recs, keys, abandoned)
  /\ UndoOK(task.op, task.calls, task.undo, keys, abandoned)
  /\ FileBound(file, abandoned)
  /\ ImportOK

------------------------------------------------------------------------------
(* Links *)

\* A link leads to a record, or to one that is yet to come.
LinksTo(op, q, k, i, r, R) ==
  \A x \in LinksOf(r) :
    \/ ~Dead(R, x) \/ (i \in Templates /\ x = r.gateway)
    \/ op = "share" /\ (PutBefore(q, k, x) \/ (x = r.gateway /\ PutOf(q, x)))

LinksOK(op, q, R, S) ==
  /\ \A i \in AllIds \ S : ~Dead(R, i) => LinksTo(op, q, 0, i, R[i], R)
  /\ \A k \in DOMAIN q : q[k].do = "put" /\ q[k].id \notin S => LinksTo(op, q, k, q[k].id, q[k].rec, R)

\* The record that a form would put back has its links, or is known to be old.
UndoLinks(u, R, S) ==
  \A k \in DOMAIN u : u[k].do = "put" /\ u[k].id \notin S => LinksTo("undo", u, k, u[k].id, u[k].rec, R)

\* The first two sweeps of an import.
Linked == Servers \cup Sources
FieldsLead(r, R) == \A x \in {r.profile, r.gateway} \ {None} : ~Dead(R, x)
AllLead(i, r, R) == \A x \in LinksOf(r) : ~Dead(R, x) \/ (i \in Templates /\ x = r.gateway)

SweepOK(name, q, R) ==
  /\ name = "links" =>
       /\ \A i \in Linked : Dead(R, i) \/ FieldsLead(R[i], R) \/ PutOf(q, i)
       /\ \A k \in DOMAIN q : q[k].id \in Linked => FieldsLead(q[k].rec, R)
  /\ name = "rules" =>
       /\ \A i \in Linked : Dead(R, i) \/ FieldsLead(R[i], R)
       /\ \A i \in AllIds : Dead(R, i) \/ AllLead(i, R[i], R) \/ PutOf(q, i)
       /\ \A k \in DOMAIN q : AllLead(q[k].id, q[k].rec, R)

LinkInv ==
  /\ task.op # "import" \/ Phase \notin Early \cup {"links", "rules"} => LinksOK(task.op, task.calls, recs, stale)
  /\ task.op = "import" => SweepOK(Phase, task.calls, recs)
  /\ UndoLinks(task.undo, recs, stale)

RecordInv == TypeInv /\ ListInv /\ LinkInv

------------------------------------------------------------------------------
(* Ids, calls and lists of calls *)

LEMMA Ids ==
  /\ \A i \in AllIds : i \in Nat /\ i # None
  /\ Servers \subseteq AllIds /\ Profiles \subseteq AllIds /\ Templates \subseteq AllIds /\ Sources \subseteq AllIds
  /\ \A i \in Servers : i \notin Profiles /\ i \notin Templates /\ i \notin Sources
  /\ \A i \in Profiles : i \notin Templates /\ i \notin Sources
  /\ \A i \in Templates : i \notin Sources
  /\ \A i \in AllIds : i \in Servers \/ i \in Profiles \/ i \in Templates \/ i \in Sources
  /\ \A e \in Endpoints : e \in Nat /\ e # None
BY RecordAssumption DEF AllIds, None

LEMMA CallKinds ==
  ASSUME NEW c \in CallSet
  PROVE  /\ c.do \in {"put", "del", "store", "restore", "settings"}
         /\ c.do = "put" => c.id \in AllIds /\ c.rec \in RecordsOf /\ c.rec.rev # 0 /\ Shaped(c.id, c.rec)
         /\ c.do = "del" => c.id \in AllIds
         /\ c.do = "store" => c.id \in AllIds /\ c.id \notin Templates /\ c.field \in Fields /\ c.value \in Nat
         /\ c.do = "restore" => c.id \in Servers /\ c.value \in Nat /\ c.endpoint \in Endpoints \cup {None}
         /\ c.do = "settings" => c.id = None
BY DEF CallSet, Puts, Dels, Stores, Restores, SettingsCalls

\* What is left of a list when its first call has been made.
LEMMA Rest ==
  ASSUME NEW q \in CallLists, q # <<>>
  PROVE  /\ Head(q) = q[1] /\ Len(q) \in Nat \ {0} /\ DOMAIN q = 1..Len(q) /\ 1 \in DOMAIN q
         /\ \A k \in DOMAIN q : q[k] \in CallSet
         /\ Tail(q) \in CallLists /\ DOMAIN Tail(q) = 1..(Len(q) - 1)
         /\ \A k \in DOMAIN Tail(q) : k + 1 \in DOMAIN q /\ Tail(q)[k] = q[k + 1]
         /\ \A k \in DOMAIN q : k = 1 \/ (k - 1 \in DOMAIN Tail(q) /\ Tail(q)[k - 1] = q[k])
         /\ Len(q) = 1 <=> Tail(q) = <<>>
<1>1. /\ Head(q) = q[1] /\ Len(q) \in Nat \ {0} /\ DOMAIN q = 1..Len(q) /\ 1 \in DOMAIN q
      /\ \A k \in DOMAIN q : q[k] \in CallSet
  BY DEF CallLists
<1>2. /\ Tail(q) \in CallLists /\ Len(Tail(q)) = Len(q) - 1 /\ DOMAIN Tail(q) = 1..(Len(q) - 1)
      /\ \A k \in 1..(Len(q) - 1) : Tail(q)[k] = q[k + 1]
  BY DEF CallLists
<1>3. Len(q) = 1 <=> Tail(q) = <<>>
  <2>1. Tail(q) # <<>> => Len(Tail(q)) \in Nat \ {0}
    BY <1>2, EmptySeq DEF CallLists
  <2>2. Tail(q) = <<>> => Len(Tail(q)) = 0
    BY EmptySeq
  <2> QED BY <1>1, <1>2, <2>1, <2>2
<1>4. \A k \in DOMAIN Tail(q) : k + 1 \in DOMAIN q /\ Tail(q)[k] = q[k + 1]
  BY <1>1, <1>2
<1>5. \A k \in DOMAIN q : k = 1 \/ (k - 1 \in DOMAIN Tail(q) /\ Tail(q)[k - 1] = q[k])
  BY <1>1, <1>2
<1> QED BY <1>1, <1>2, <1>3, <1>4, <1>5

LEMMA RestFinds ==
  ASSUME NEW q \in CallLists, q # <<>>, NEW t, t = Tail(q)
  PROVE  /\ \A i : PutOf(q, i) <=> IsPut(q[1], i) \/ PutOf(t, i)
         /\ \A i : DelOf(q, i) <=> (q[1].do = "del" /\ q[1].id = i) \/ DelOf(t, i)
         /\ \A i, f : ForgetOf(q, i, f) <=> IsForget(q[1], i, f) \/ ForgetOf(t, i, f)
<1>1. /\ \A k \in DOMAIN t : k + 1 \in DOMAIN q /\ t[k] = q[k + 1]
      /\ \A k \in DOMAIN q : k = 1 \/ (k - 1 \in DOMAIN t /\ t[k - 1] = q[k])
      /\ 1 \in DOMAIN q
  BY Rest
<1>2. ASSUME NEW i PROVE PutOf(q, i) <=> IsPut(q[1], i) \/ PutOf(t, i)
  BY <1>1 DEF PutOf
<1>3. ASSUME NEW i PROVE DelOf(q, i) <=> (q[1].do = "del" /\ q[1].id = i) \/ DelOf(t, i)
  BY <1>1 DEF DelOf
<1>4. ASSUME NEW i, NEW f PROVE ForgetOf(q, i, f) <=> IsForget(q[1], i, f) \/ ForgetOf(t, i, f)
  BY <1>1 DEF ForgetOf
<1> QED BY <1>2, <1>3, <1>4

LEMMA RestBefore ==
  ASSUME NEW q \in CallLists, q # <<>>, NEW t, t = Tail(q), NEW k \in DOMAIN t
  PROVE  /\ \A i : PutBefore(q, k + 1, i) => IsPut(q[1], i) \/ PutBefore(t, k, i)
         /\ \A i, f : ForgetBefore(q, k + 1, i, f) => IsForget(q[1], i, f) \/ ForgetBefore(t, k, i, f)
         /\ \A i, e : SettledAfter(q, k + 1, i, e) => SettledAfter(t, k, i, e)
<1>1. /\ \A j \in DOMAIN q : j \in Nat /\ (j = 1 \/ (j - 1 \in DOMAIN t /\ t[j - 1] = q[j]))
      /\ k \in Nat
  BY Rest
<1>2. ASSUME NEW i, PutBefore(q, k + 1, i) PROVE IsPut(q[1], i) \/ PutBefore(t, k, i)
  <2>1. PICK j \in DOMAIN q : j < k + 1 /\ IsPut(q[j], i)
    BY <1>2 DEF PutBefore
  <2>2. j = 1 \/ (j - 1 \in DOMAIN t /\ j - 1 < k /\ IsPut(t[j - 1], i))
    BY <1>1, <2>1
  <2> QED BY <2>1, <2>2 DEF PutBefore
<1>3. ASSUME NEW i, NEW f, ForgetBefore(q, k + 1, i, f) PROVE IsForget(q[1], i, f) \/ ForgetBefore(t, k, i, f)
  <2>1. PICK j \in DOMAIN q : j < k + 1 /\ IsForget(q[j], i, f)
    BY <1>3 DEF ForgetBefore
  <2>2. j = 1 \/ (j - 1 \in DOMAIN t /\ j - 1 < k /\ IsForget(t[j - 1], i, f))
    BY <1>1, <2>1
  <2> QED BY <2>1, <2>2 DEF ForgetBefore
<1>4. ASSUME NEW i, NEW e, SettledAfter(q, k + 1, i, e) PROVE SettledAfter(t, k, i, e)
  BY <1>4, <1>1 DEF SettledAfter
<1> QED BY <1>2, <1>3, <1>4

LEMMA RestSettled ==
  ASSUME NEW q \in CallLists, q # <<>>, NEW t, t = Tail(q)
  PROVE  /\ \A i, e : SettledAfter(q, 1, i, e) => SettledAfter(t, 0, i, e)
         /\ \A i, e : SettledAfter(q, 0, i, e) =>
              \/ SettledAfter(t, 0, i, e)
              \/ q[1].do = "store" /\ q[1].id = i /\ q[1].field = "proxy" /\ q[1].value \in {NoKey, e}
         /\ \A i, f : ~PutBefore(q, 1, i) /\ ~ForgetBefore(q, 1, i, f) /\ ~PutBefore(q, 0, i)
<1>1. \A j \in DOMAIN q : j \in Nat /\ j >= 1 /\ (j = 1 \/ (j - 1 \in DOMAIN t /\ 0 < j - 1 /\ t[j - 1] = q[j]))
  BY Rest
<1>2. ASSUME NEW i, NEW e, SettledAfter(q, 0, i, e)
      PROVE  \/ SettledAfter(t, 0, i, e)
             \/ q[1].do = "store" /\ q[1].id = i /\ q[1].field = "proxy" /\ q[1].value \in {NoKey, e}
  BY <1>1, <1>2 DEF SettledAfter
<1>3. ASSUME NEW i, NEW e, SettledAfter(q, 1, i, e) PROVE SettledAfter(t, 0, i, e)
  <2>1. PICK j \in DOMAIN q :
          1 < j /\ q[j].do = "store" /\ q[j].id = i /\ q[j].field = "proxy" /\ q[j].value \in {NoKey, e}
    BY <1>3 DEF SettledAfter
  <2>2. j - 1 \in DOMAIN t /\ 0 < j - 1 /\ t[j - 1] = q[j]
    BY <1>1, <2>1
  <2> QED BY <2>1, <2>2 DEF SettledAfter
<1>4. \A i, f : ~PutBefore(q, 1, i) /\ ~ForgetBefore(q, 1, i, f) /\ ~PutBefore(q, 0, i)
  BY <1>1 DEF PutBefore, ForgetBefore
<1> QED BY <1>2, <1>3, <1>4

------------------------------------------------------------------------------
(* A call is made: what held of the list holds of the rest of it *)

SameBut(R, R2, i) == \A j \in AllIds \ {i} : (Dead(R2, j) <=> Dead(R, j)) /\ R2[j].proxy = R[j].proxy

LEMMA PutMade ==
  ASSUME NEW op, NEW q \in CallLists, q # <<>>, NEW t, t = Tail(q), NEW R, NEW K, NEW A, NEW R2,
         ListOK(op, q, R, K, A), q[1].do = "put",
         ~Dead(R2, q[1].id), q[1].id \in Servers => R2[q[1].id].proxy = q[1].rec.proxy,
         SameBut(R, R2, q[1].id)
  PROVE  ListOK(op, t, R2, K, A)
<1> DEFINE c == q[1]
<1>1. /\ \A k \in DOMAIN t : k + 1 \in DOMAIN q /\ t[k] = q[k + 1] /\ k + 1 # 1
      /\ \A k \in DOMAIN q : q[k] \in CallSet
      /\ 1 \in DOMAIN q
  BY Rest
<1>2. \A f : ~(c.do = "store") /\ ~(c.do = "del") /\ \A i : ~IsForget(c, i, f)
  BY DEF IsForget
<1>3. Orderly(t)
  BY <1>1 DEF ListOK, CallsOK, Orderly
<1>4. PutsOK(op, t, K, A)
  <2> SUFFICES ASSUME NEW k \in DOMAIN t, t[k].do = "put", t[k].id \in Servers \ A
               PROVE  \/ K[t[k].id]["proxy"] \in {NoKey, t[k].rec.proxy}
                      \/ ForgetBefore(t, k, t[k].id, "proxy")
                      \/ op \in Forms /\ SettledAfter(t, k, t[k].id, t[k].rec.proxy)
    BY DEF PutsOK
  <2>1. \/ K[t[k].id]["proxy"] \in {NoKey, t[k].rec.proxy}
        \/ ForgetBefore(q, k + 1, t[k].id, "proxy")
        \/ op \in Forms /\ SettledAfter(q, k + 1, t[k].id, t[k].rec.proxy)
    BY <1>1 DEF ListOK, CallsOK, PutsOK
  <2> QED BY <2>1, <1>2, RestBefore
<1>5. DelsOK(op, t, K, A)
  <2> SUFFICES ASSUME NEW k \in DOMAIN t, NEW f \in Fields, t[k].do = "del"
               PROVE  \/ t[k].id \in Servers /\ op \in {"folder", "import"}
                      \/ t[k].id \in A \/ K[t[k].id][f] = NoKey \/ ForgetBefore(t, k, t[k].id, f)
                      \/ op = "undo" /\ ForgetOf(t, t[k].id, f)
    BY DEF DelsOK
  <2>1. \/ t[k].id \in Servers /\ op \in {"folder", "import"}
        \/ t[k].id \in A \/ K[t[k].id][f] = NoKey \/ ForgetBefore(q, k + 1, t[k].id, f)
        \/ op = "undo" /\ ForgetOf(q, t[k].id, f)
    BY <1>1 DEF ListOK, CallsOK, DelsOK
  <2> QED BY <2>1, <1>2, RestBefore, RestFinds
<1>6. StoresOK(op, t, R2, A)
  <2> SUFFICES ASSUME NEW k \in DOMAIN t, t[k].do = "store", t[k].value # NoKey, t[k].id \notin A
               PROVE  /\ \/ ~Dead(R2, t[k].id) \/ PutBefore(t, k, t[k].id)
                         \/ /\ Ahead(op, t[k].field)
                            /\ \E j \in DOMAIN t :
                                 k < j /\ (IsPut(t[j], t[k].id) \/ IsForget(t[j], t[k].id, t[k].field))
                      /\ t[k].id \in Servers /\ t[k].field = "proxy" =>
                           \/ t[k].value = R2[t[k].id].proxy /\ ~PutOf(t, t[k].id)
                           \/ \E j \in DOMAIN t : j < k /\ IsPut(t[j], t[k].id) /\ t[j].rec.proxy = t[k].value
    BY DEF StoresOK
  <2> DEFINE i == t[k].id
  <2>1. i \in AllIds
    BY <1>1, CallKinds
  <2>2. /\ \/ ~Dead(R, i) \/ PutBefore(q, k + 1, i)
           \/ /\ Ahead(op, t[k].field)
              /\ \E j \in DOMAIN q : k + 1 < j /\ (IsPut(q[j], i) \/ IsForget(q[j], i, t[k].field))
        /\ i \in Servers /\ t[k].field = "proxy" =>
             \/ t[k].value = R[i].proxy /\ ~PutOf(q, i)
             \/ \E j \in DOMAIN q : j < k + 1 /\ IsPut(q[j], i) /\ q[j].rec.proxy = t[k].value
    BY <1>1 DEF ListOK, CallsOK, StoresOK
  <2>3. ~Dead(R, i) => ~Dead(R2, i)
    BY <2>1 DEF SameBut
  <2>4. PutBefore(q, k + 1, i) => ~Dead(R2, i) \/ PutBefore(t, k, i)
    BY RestBefore DEF IsPut
  <2>5. ASSUME NEW j \in DOMAIN q, k + 1 < j
        PROVE  j - 1 \in DOMAIN t /\ k < j - 1 /\ t[j - 1] = q[j]
    BY <2>5, Rest
  <2>6. ASSUME i \in Servers, t[k].field = "proxy"
        PROVE  \/ t[k].value = R2[i].proxy /\ ~PutOf(t, i)
               \/ \E j \in DOMAIN t : j < k /\ IsPut(t[j], i) /\ t[j].rec.proxy = t[k].value
    <3>1. CASE t[k].value = R[i].proxy /\ ~PutOf(q, i)
      BY <3>1, <2>1, RestFinds DEF SameBut, IsPut
    <3>2. ASSUME NEW j \in DOMAIN q, j < k + 1, IsPut(q[j], i), q[j].rec.proxy = t[k].value
          PROVE  \/ t[k].value = R2[i].proxy /\ ~PutOf(t, i)
                 \/ \E l \in DOMAIN t : l < k /\ IsPut(t[l], i) /\ t[l].rec.proxy = t[k].value
      <4>1. CASE j = 1
        BY <1>1, <3>2, <4>1, <2>6 DEF IsPut, ListOK, CallsOK, Orderly, PutOf
      <4>2. CASE j # 1
        <5>1. j - 1 \in DOMAIN t /\ t[j - 1] = q[j] /\ j - 1 < k
          BY <3>2, <4>2, Rest
        <5> QED BY <5>1, <3>2
      <4> QED BY <4>1, <4>2
    <3> QED BY <2>2, <2>6, <3>1, <3>2
  <2>7. (\E j \in DOMAIN q : k + 1 < j /\ (IsPut(q[j], i) \/ IsForget(q[j], i, t[k].field)))
          => \E j \in DOMAIN t : k < j /\ (IsPut(t[j], i) \/ IsForget(t[j], i, t[k].field))
    BY <2>5
  <2> QED BY <2>2, <2>3, <2>4, <2>6, <2>7
<1>7. RestoresOK(t, A)
  BY <1>1 DEF ListOK, CallsOK, RestoresOK
<1>8. VaultOK(op, t, R2, K, A)
  BY <1>2, RestFinds DEF VaultOK, SameBut, ListOK, IsPut
<1>9. BoundOK(op, t, R2, K, A)
  <2> SUFFICES ASSUME NEW s \in Servers \ A, ~Dead(R2, s)
               PROVE  \/ K[s]["proxy"] \in {NoKey, R2[s].proxy}
                      \/ op \in Forms /\ SettledAfter(t, 0, s, R2[s].proxy)
                      \/ op = "undo" /\ (PutOf(t, s) \/ DelOf(t, s))
    BY DEF BoundOK
  <2>1. CASE s = c.id
    BY <1>1, <2>1, RestSettled DEF ListOK, CallsOK, PutsOK
  <2>2. CASE s # c.id
    <3>1. s \in AllIds
      BY Ids
    <3>2. ~Dead(R, s) /\ R2[s].proxy = R[s].proxy
      BY <2>2, <3>1 DEF SameBut
    <3>3. \/ K[s]["proxy"] \in {NoKey, R[s].proxy}
          \/ op \in Forms /\ SettledAfter(q, 0, s, R[s].proxy)
          \/ op = "undo" /\ (PutOf(q, s) \/ DelOf(q, s))
      BY <3>2 DEF ListOK, BoundOK
    <3>4. SettledAfter(q, 0, s, R[s].proxy) => SettledAfter(t, 0, s, R[s].proxy)
      BY ZenonT(30), <1>2, RestSettled
    <3>5. (PutOf(q, s) => PutOf(t, s)) /\ (DelOf(q, s) => DelOf(t, s))
      BY <2>2, <1>2, RestFinds DEF IsPut
    <3> QED BY <3>2, <3>3, <3>4, <3>5
  <2> QED BY <2>1, <2>2
<1> QED BY <1>3, <1>4, <1>5, <1>6, <1>7, <1>8, <1>9 DEF ListOK, CallsOK

LEMMA DelMade ==
  ASSUME NEW op, NEW q \in CallLists, q # <<>>, NEW t, t = Tail(q), NEW R, NEW K, NEW A, NEW R2, NEW A2,
         ListOK(op, q, R, K, A), q[1].do = "del",
         Dead(R2, q[1].id), SameBut(R, R2, q[1].id), A \subseteq A2,
         q[1].id \in Servers /\ op \in {"folder", "import"} => q[1].id \in A2
  PROVE  ListOK(op, t, R2, K, A2)
<1> DEFINE c == q[1]
<1>1. /\ \A k \in DOMAIN t : k + 1 \in DOMAIN q /\ t[k] = q[k + 1]
      /\ \A k \in DOMAIN q : q[k] \in CallSet
      /\ 1 \in DOMAIN q
  BY Rest
<1>2. ~(c.do = "store") /\ ~(c.do = "put") /\ (\A i, f : ~IsForget(c, i, f)) /\ \A i : ~IsPut(c, i)
  BY DEF IsForget, IsPut
\* A deletion is followed by deletions and by secrets that are forgotten.
<1>3. \A k \in DOMAIN q :
        /\ q[k].do # "put" /\ q[k].do # "restore"
        /\ q[k].do = "store" => q[k].value = NoKey
  BY <1>1 DEF ListOK, CallsOK, Orderly
<1>4. Orderly(t)
  BY <1>1 DEF ListOK, CallsOK, Orderly
<1>5. PutsOK(op, t, K, A2) /\ StoresOK(op, t, R2, A2) /\ RestoresOK(t, A2)
  BY <1>1, <1>3 DEF PutsOK, StoresOK, RestoresOK
<1>6. DelsOK(op, t, K, A2)
  <2> SUFFICES ASSUME NEW k \in DOMAIN t, NEW f \in Fields, t[k].do = "del"
               PROVE  \/ t[k].id \in Servers /\ op \in {"folder", "import"}
                      \/ t[k].id \in A2 \/ K[t[k].id][f] = NoKey \/ ForgetBefore(t, k, t[k].id, f)
                      \/ op = "undo" /\ ForgetOf(t, t[k].id, f)
    BY DEF DelsOK
  <2>1. \/ t[k].id \in Servers /\ op \in {"folder", "import"}
        \/ t[k].id \in A \/ K[t[k].id][f] = NoKey \/ ForgetBefore(q, k + 1, t[k].id, f)
        \/ op = "undo" /\ ForgetOf(q, t[k].id, f)
    BY <1>1 DEF ListOK, CallsOK, DelsOK
  <2> QED BY ZenonT(30), <2>1, <1>2, RestBefore, RestFinds
<1>7. VaultOK(op, t, R2, K, A2)
  <2> SUFFICES ASSUME NEW i \in AllIds \ A2, NEW f \in Fields, Dead(R2, i)
               PROVE  \/ K[i][f] = NoKey
                      \/ op = "undo" /\ ForgetOf(t, i, f)
                      \/ Ahead(op, f) /\ (PutOf(t, i) \/ ForgetOf(t, i, f))
    BY DEF VaultOK
  <2>1. CASE i = c.id
    <3>1. \/ K[i][f] = NoKey
          \/ ForgetBefore(q, 1, i, f)
          \/ op = "undo" /\ ForgetOf(q, i, f)
      BY <1>1, <2>1 DEF ListOK, CallsOK, DelsOK
    <3>2. ~ForgetBefore(q, 1, i, f) /\ (ForgetOf(q, i, f) => ForgetOf(t, i, f))
      BY <1>2, RestFinds, RestSettled
    <3> QED BY <3>1, <3>2
  <2>2. CASE i # c.id
    BY <2>2, <1>2, RestFinds DEF SameBut, ListOK, VaultOK
  <2> QED BY <2>1, <2>2
<1>8. BoundOK(op, t, R2, K, A2)
  <2> SUFFICES ASSUME NEW s \in Servers \ A2, ~Dead(R2, s)
               PROVE  \/ K[s]["proxy"] \in {NoKey, R2[s].proxy}
                      \/ op \in Forms /\ SettledAfter(t, 0, s, R2[s].proxy)
                      \/ op = "undo" /\ (PutOf(t, s) \/ DelOf(t, s))
    BY DEF BoundOK
  <2>1. s \in AllIds /\ s # c.id
    BY Ids
  <2>2. ~Dead(R, s) /\ R2[s].proxy = R[s].proxy
    BY <2>1 DEF SameBut
  <2>3. \/ K[s]["proxy"] \in {NoKey, R[s].proxy}
        \/ op \in Forms /\ SettledAfter(q, 0, s, R[s].proxy)
        \/ op = "undo" /\ (PutOf(q, s) \/ DelOf(q, s))
    BY <2>2 DEF ListOK, BoundOK
  <2>4. \A e : SettledAfter(q, 0, s, e) => SettledAfter(t, 0, s, e)
    BY <1>2, RestSettled
  <2>5. (PutOf(q, s) => PutOf(t, s)) /\ (DelOf(q, s) => DelOf(t, s))
    BY <2>1, <1>2, RestFinds
  <2> QED BY <2>2, <2>3, <2>4, <2>5
<1> QED BY <1>4, <1>5, <1>6, <1>7, <1>8 DEF ListOK, CallsOK

\* A secret is stored or forgotten.
LEMMA StoreMade ==
  ASSUME NEW op, NEW q \in CallLists, q # <<>>, NEW t, t = Tail(q), NEW R, NEW K \in KeyMaps, NEW A, NEW K2,
         ListOK(op, q, R, K, A), q[1].do = "store", K2 = [K EXCEPT ![q[1].id][q[1].field] = q[1].value]
  PROVE  ListOK(op, t, R, K2, A)
<1> DEFINE c == q[1]
<1>1. /\ \A k \in DOMAIN t : k + 1 \in DOMAIN q /\ t[k] = q[k + 1] /\ k + 1 # 1
      /\ \A k \in DOMAIN q : q[k] \in CallSet
      /\ 1 \in DOMAIN q
  BY Rest
<1>2. ~(c.do = "put") /\ ~(c.do = "del") /\ \A i : ~IsPut(c, i)
  BY DEF IsPut
<1>3. c.id \in AllIds /\ c.field \in Fields
  BY <1>1, CallKinds
<1>4. \A i \in AllIds, f \in Fields : K2[i][f] = IF i = c.id /\ f = c.field THEN c.value ELSE K[i][f]
  BY <1>3 DEF KeyMaps
<1>5. "proxy" \in Fields
  BY DEF Fields
<1>6. Orderly(t)
  BY <1>1 DEF ListOK, CallsOK, Orderly
<1>7. PutsOK(op, t, K2, A)
  <2> SUFFICES ASSUME NEW k \in DOMAIN t, t[k].do = "put", t[k].id \in Servers \ A
               PROVE  \/ K2[t[k].id]["proxy"] \in {NoKey, t[k].rec.proxy}
                      \/ ForgetBefore(t, k, t[k].id, "proxy")
                      \/ op \in Forms /\ SettledAfter(t, k, t[k].id, t[k].rec.proxy)
    BY DEF PutsOK
  <2> DEFINE i == t[k].id
  <2>1. \/ K[i]["proxy"] \in {NoKey, t[k].rec.proxy}
        \/ ForgetBefore(q, k + 1, i, "proxy")
        \/ op \in Forms /\ SettledAfter(q, k + 1, i, t[k].rec.proxy)
    BY <1>1 DEF ListOK, CallsOK, PutsOK
  <2>2. i \in AllIds
    BY Ids
  <2>3. CASE i = c.id /\ c.field = "proxy"
    BY <1>1, Rest, <2>3, <1>4, <1>5, <2>2 DEF PutOf, IsPut, ListOK, CallsOK, StoresOK
  <2>4. CASE ~(i = c.id /\ c.field = "proxy")
    <3>1. K2[i]["proxy"] = K[i]["proxy"]
      BY <1>4, <1>5, <2>2, <2>4
    <3>2. ~IsForget(c, i, "proxy")
      BY <2>4 DEF IsForget
    <3> QED BY <2>1, <3>1, <3>2, RestBefore
  <2> QED BY <2>3, <2>4
<1>8. DelsOK(op, t, K2, A)
  <2> SUFFICES ASSUME NEW k \in DOMAIN t, NEW f \in Fields, t[k].do = "del"
               PROVE  \/ t[k].id \in Servers /\ op \in {"folder", "import"}
                      \/ t[k].id \in A \/ K2[t[k].id][f] = NoKey \/ ForgetBefore(t, k, t[k].id, f)
                      \/ op = "undo" /\ ForgetOf(t, t[k].id, f)
    BY DEF DelsOK
  <2> DEFINE i == t[k].id
  <2>1. \/ i \in Servers /\ op \in {"folder", "import"}
        \/ i \in A \/ K[i][f] = NoKey \/ ForgetBefore(q, k + 1, i, f)
        \/ op = "undo" /\ ForgetOf(q, i, f)
    BY <1>1 DEF ListOK, CallsOK, DelsOK
  <2>2. i \in AllIds
    BY <1>1, CallKinds
  <2>3. c.value = NoKey
    BY <1>1 DEF ListOK, CallsOK, Orderly
  <2>4. CASE i = c.id /\ f = c.field
    BY <1>4, <2>2, <2>3, <2>4
  <2>5. CASE ~(i = c.id /\ f = c.field)
    <3>1. K2[i][f] = K[i][f]
      BY <1>4, <2>2, <2>5
    <3>2. ~IsForget(c, i, f)
      BY <2>5 DEF IsForget
    <3> QED BY <2>1, <3>1, <3>2, RestBefore, RestFinds
  <2> QED BY <2>4, <2>5
<1>9. StoresOK(op, t, R, A)
  <2> SUFFICES ASSUME NEW k \in DOMAIN t, t[k].do = "store", t[k].value # NoKey, t[k].id \notin A
               PROVE  /\ \/ ~Dead(R, t[k].id) \/ PutBefore(t, k, t[k].id)
                         \/ /\ Ahead(op, t[k].field)
                            /\ \E j \in DOMAIN t :
                                 k < j /\ (IsPut(t[j], t[k].id) \/ IsForget(t[j], t[k].id, t[k].field))
                      /\ t[k].id \in Servers /\ t[k].field = "proxy" =>
                           \/ t[k].value = R[t[k].id].proxy /\ ~PutOf(t, t[k].id)
                           \/ \E j \in DOMAIN t : j < k /\ IsPut(t[j], t[k].id) /\ t[j].rec.proxy = t[k].value
    BY DEF StoresOK
  <2> DEFINE i == t[k].id
  <2>1. /\ \/ ~Dead(R, i) \/ PutBefore(q, k + 1, i)
           \/ /\ Ahead(op, t[k].field)
              /\ \E j \in DOMAIN q : k + 1 < j /\ (IsPut(q[j], i) \/ IsForget(q[j], i, t[k].field))
        /\ i \in Servers /\ t[k].field = "proxy" =>
             \/ t[k].value = R[i].proxy /\ ~PutOf(q, i)
             \/ \E j \in DOMAIN q : j < k + 1 /\ IsPut(q[j], i) /\ q[j].rec.proxy = t[k].value
    BY <1>1 DEF ListOK, CallsOK, StoresOK
  <2>2. PutBefore(q, k + 1, i) => PutBefore(t, k, i)
    BY <1>2, RestBefore
  <2>3. ASSUME NEW j \in DOMAIN q, k + 1 < j
        PROVE  j - 1 \in DOMAIN t /\ k < j - 1 /\ t[j - 1] = q[j]
    BY <2>3, Rest
  <2>4. ASSUME NEW j \in DOMAIN q, j < k + 1, IsPut(q[j], i)
        PROVE  j - 1 \in DOMAIN t /\ j - 1 < k /\ t[j - 1] = q[j]
    BY <1>2, <2>4, Rest
  <2>5. PutOf(t, i) => PutOf(q, i)
    BY RestFinds
  <2>6. (\E j \in DOMAIN q : j < k + 1 /\ IsPut(q[j], i) /\ q[j].rec.proxy = t[k].value)
          => \E j \in DOMAIN t : j < k /\ IsPut(t[j], i) /\ t[j].rec.proxy = t[k].value
    BY <2>4
  <2>7. (\E j \in DOMAIN q : k + 1 < j /\ (IsPut(q[j], i) \/ IsForget(q[j], i, t[k].field)))
          => \E j \in DOMAIN t : k < j /\ (IsPut(t[j], i) \/ IsForget(t[j], i, t[k].field))
    BY <2>3
  <2> QED BY <2>1, <2>2, <2>5, <2>6, <2>7
<1>10. RestoresOK(t, A)
  BY <1>1 DEF ListOK, CallsOK, RestoresOK
<1>11. VaultOK(op, t, R, K2, A)
  <2> SUFFICES ASSUME NEW i \in AllIds \ A, NEW f \in Fields, Dead(R, i)
               PROVE  \/ K2[i][f] = NoKey
                      \/ op = "undo" /\ ForgetOf(t, i, f)
                      \/ Ahead(op, f) /\ (PutOf(t, i) \/ ForgetOf(t, i, f))
    BY DEF VaultOK
  <2>1. \/ K[i][f] = NoKey
        \/ op = "undo" /\ ForgetOf(q, i, f)
        \/ Ahead(op, f) /\ (PutOf(q, i) \/ ForgetOf(q, i, f))
    BY DEF ListOK, VaultOK
  <2>2. CASE i = c.id /\ f = c.field /\ c.value # NoKey
    <3>1. \/ PutBefore(q, 1, i)
          \/ /\ Ahead(op, f)
             /\ \E j \in DOMAIN q : 1 < j /\ (IsPut(q[j], i) \/ IsForget(q[j], i, f))
      BY <1>1, <2>2 DEF ListOK, CallsOK, StoresOK
    <3>2. ~PutBefore(q, 1, i)
      BY RestSettled
    <3>3. PICK j \in DOMAIN q : 1 < j /\ (IsPut(q[j], i) \/ IsForget(q[j], i, f))
      BY <3>1, <3>2
    <3>4. j - 1 \in DOMAIN t /\ t[j - 1] = q[j]
      BY <3>3, Rest
    <3> QED BY <3>1, <3>2, <3>3, <3>4 DEF PutOf, ForgetOf
  <2>3. CASE i = c.id /\ f = c.field /\ c.value = NoKey
    BY <1>4, <2>3
  <2>4. CASE ~(i = c.id /\ f = c.field)
    <3>1. K2[i][f] = K[i][f]
      BY <1>4, <2>4
    <3>2. ~IsForget(c, i, f)
      BY <2>4 DEF IsForget
    <3> QED BY <1>2, <2>1, <3>1, <3>2, RestFinds
  <2> QED BY <2>2, <2>3, <2>4
<1>12. BoundOK(op, t, R, K2, A)
  <2> SUFFICES ASSUME NEW s \in Servers \ A, ~Dead(R, s)
               PROVE  \/ K2[s]["proxy"] \in {NoKey, R[s].proxy}
                      \/ op \in Forms /\ SettledAfter(t, 0, s, R[s].proxy)
                      \/ op = "undo" /\ (PutOf(t, s) \/ DelOf(t, s))
    BY DEF BoundOK
  <2>1. s \in AllIds
    BY Ids
  <2>2. \/ K[s]["proxy"] \in {NoKey, R[s].proxy}
        \/ op \in Forms /\ SettledAfter(q, 0, s, R[s].proxy)
        \/ op = "undo" /\ (PutOf(q, s) \/ DelOf(q, s))
    BY DEF ListOK, BoundOK
  <2>3. CASE s = c.id /\ c.field = "proxy"
    BY Rest, <1>1, <2>3, <1>4, <1>5, <2>1 DEF ListOK, CallsOK, StoresOK
  <2>4. CASE ~(s = c.id /\ c.field = "proxy")
    <3>1. K2[s]["proxy"] = K[s]["proxy"]
      BY <1>4, <1>5, <2>1, <2>4
    <3>2. \A e : SettledAfter(q, 0, s, e) => SettledAfter(t, 0, s, e)
      BY <2>4, RestSettled
    <3>3. (PutOf(q, s) => PutOf(t, s)) /\ (DelOf(q, s) => DelOf(t, s))
      BY <1>2, RestFinds
    <3> QED BY <2>2, <3>1, <3>2, <3>3
  <2> QED BY <2>3, <2>4
<1> QED BY <1>6, <1>7, <1>8, <1>9, <1>10, <1>11, <1>12 DEF ListOK, CallsOK

\* A captured password goes back to the proxy it was for.
LEMMA RestoreMade ==
  ASSUME NEW op, NEW q \in CallLists, q # <<>>, NEW t, t = Tail(q), NEW R, Whole(R), NEW K \in KeyMaps, NEW A, NEW K2,
         ListOK(op, q, R, K, A), q[1].do = "restore",
         K2 = IF R[q[1].id].proxy = q[1].endpoint /\ q[1].endpoint # None THEN [K EXCEPT ![q[1].id]["proxy"] = q[1].value] ELSE K
  PROVE  ListOK(op, t, R, K2, A)
<1> DEFINE c == q[1]
<1>1. /\ \A k \in DOMAIN t : k + 1 \in DOMAIN q /\ t[k] = q[k + 1]
      /\ \A k \in DOMAIN q : q[k] \in CallSet
      /\ 1 \in DOMAIN q
  BY Rest
<1>2. \A k \in DOMAIN q : q[k].do = "restore"
  BY <1>1 DEF ListOK, CallsOK, Orderly
<1>3. /\ \A i : ~PutOf(q, i) /\ ~DelOf(q, i)
      /\ \A i, f : ~ForgetOf(q, i, f)
      /\ \A i, e : ~SettledAfter(q, 0, i, e)
  BY <1>2 DEF PutOf, DelOf, ForgetOf, SettledAfter, IsPut, IsForget
<1>4. c.id \in Servers /\ c.id \in AllIds /\ "proxy" \in Fields
  BY <1>1, <1>2, CallKinds, Ids DEF Fields
<1>5. \A i \in AllIds, f \in Fields :
        K2[i][f] = IF i = c.id /\ f = "proxy" /\ R[i].proxy = c.endpoint /\ c.endpoint # None THEN c.value ELSE K[i][f]
  BY <1>4 DEF KeyMaps
<1>6. Orderly(t) /\ PutsOK(op, t, K2, A) /\ DelsOK(op, t, K2, A) /\ StoresOK(op, t, R, A) /\ RestoresOK(t, A)
  BY <1>1, <1>2 DEF ListOK, CallsOK, Orderly, PutsOK, DelsOK, StoresOK, RestoresOK
<1>7. VaultOK(op, t, R, K2, A)
  BY <1>3, <1>5 DEF VaultOK, ListOK, Whole, Gone, Rec
<1>8. BoundOK(op, t, R, K2, A)
  BY <1>3, <1>1, <1>4, <1>5, Ids DEF BoundOK, ListOK, CallsOK, RestoresOK
<1> QED BY <1>6, <1>7, <1>8 DEF ListOK, CallsOK

\* A call is skipped: its record is one of the abandoned.
LEMMA CallSkipped ==
  ASSUME NEW op, NEW q \in CallLists, q # <<>>, NEW t, t = Tail(q), NEW R, NEW K, NEW A, NEW R2, NEW A2,
         ListOK(op, q, R, K, A), A \subseteq A2, q[1].id \in A2, SameBut(R, R2, q[1].id)
  PROVE  ListOK(op, t, R2, K, A2)
<1> DEFINE c == q[1]
<1>1. /\ \A k \in DOMAIN t : k + 1 \in DOMAIN q /\ t[k] = q[k + 1] /\ k + 1 # 1
      /\ \A k \in DOMAIN q : q[k] \in CallSet
      /\ 1 \in DOMAIN q
  BY Rest
<1>2. \A i : i # c.id => ~IsPut(c, i) /\ \A f : ~IsForget(c, i, f)
  BY DEF IsPut, IsForget
<1>3. Orderly(t) /\ RestoresOK(t, A2)
  BY <1>1 DEF ListOK, CallsOK, Orderly, RestoresOK
<1>4. PutsOK(op, t, K, A2)
  <2> SUFFICES ASSUME NEW k \in DOMAIN t, t[k].do = "put", t[k].id \in Servers \ A2
               PROVE  \/ K[t[k].id]["proxy"] \in {NoKey, t[k].rec.proxy}
                      \/ ForgetBefore(t, k, t[k].id, "proxy")
                      \/ op \in Forms /\ SettledAfter(t, k, t[k].id, t[k].rec.proxy)
    BY DEF PutsOK
  <2>1. \/ K[t[k].id]["proxy"] \in {NoKey, t[k].rec.proxy}
        \/ ForgetBefore(q, k + 1, t[k].id, "proxy")
        \/ op \in Forms /\ SettledAfter(q, k + 1, t[k].id, t[k].rec.proxy)
    BY <1>1 DEF ListOK, CallsOK, PutsOK
  <2> QED BY <2>1, <1>2, RestBefore
<1>5. DelsOK(op, t, K, A2)
  <2> SUFFICES ASSUME NEW k \in DOMAIN t, NEW f \in Fields, t[k].do = "del", t[k].id \notin A2
               PROVE  \/ t[k].id \in Servers /\ op \in {"folder", "import"}
                      \/ K[t[k].id][f] = NoKey \/ ForgetBefore(t, k, t[k].id, f)
                      \/ op = "undo" /\ ForgetOf(t, t[k].id, f)
    BY DEF DelsOK
  <2>1. \/ t[k].id \in Servers /\ op \in {"folder", "import"}
        \/ K[t[k].id][f] = NoKey \/ ForgetBefore(q, k + 1, t[k].id, f)
        \/ op = "undo" /\ ForgetOf(q, t[k].id, f)
    BY <1>1 DEF ListOK, CallsOK, DelsOK
  <2> QED BY <2>1, <1>2, RestBefore, RestFinds
<1>6. StoresOK(op, t, R2, A2)
  <2> SUFFICES ASSUME NEW k \in DOMAIN t, t[k].do = "store", t[k].value # NoKey, t[k].id \notin A2
               PROVE  /\ \/ ~Dead(R2, t[k].id) \/ PutBefore(t, k, t[k].id)
                         \/ /\ Ahead(op, t[k].field)
                            /\ \E j \in DOMAIN t :
                                 k < j /\ (IsPut(t[j], t[k].id) \/ IsForget(t[j], t[k].id, t[k].field))
                      /\ t[k].id \in Servers /\ t[k].field = "proxy" =>
                           \/ t[k].value = R2[t[k].id].proxy /\ ~PutOf(t, t[k].id)
                           \/ \E j \in DOMAIN t : j < k /\ IsPut(t[j], t[k].id) /\ t[j].rec.proxy = t[k].value
    BY DEF StoresOK
  <2> DEFINE i == t[k].id
  <2>1. i \in AllIds /\ i # c.id
    BY <1>1, CallKinds
  <2>2. /\ \/ ~Dead(R, i) \/ PutBefore(q, k + 1, i)
           \/ /\ Ahead(op, t[k].field)
              /\ \E j \in DOMAIN q : k + 1 < j /\ (IsPut(q[j], i) \/ IsForget(q[j], i, t[k].field))
        /\ i \in Servers /\ t[k].field = "proxy" =>
             \/ t[k].value = R[i].proxy /\ ~PutOf(q, i)
             \/ \E j \in DOMAIN q : j < k + 1 /\ IsPut(q[j], i) /\ q[j].rec.proxy = t[k].value
    BY <1>1 DEF ListOK, CallsOK, StoresOK
  <2>3. (Dead(R2, i) <=> Dead(R, i)) /\ R2[i].proxy = R[i].proxy
    BY <2>1 DEF SameBut
  <2>4. (PutBefore(q, k + 1, i) => PutBefore(t, k, i)) /\ (PutOf(t, i) => PutOf(q, i))
    BY <1>2, <2>1, RestBefore, RestFinds
  <2>5. ASSUME NEW j \in DOMAIN q, k + 1 < j
        PROVE  j - 1 \in DOMAIN t /\ k < j - 1 /\ t[j - 1] = q[j]
    BY <2>5, Rest
  <2>6. ASSUME NEW j \in DOMAIN q, j < k + 1, IsPut(q[j], i)
        PROVE  j - 1 \in DOMAIN t /\ j - 1 < k /\ t[j - 1] = q[j]
    BY <1>2, <2>1, <2>6, Rest
  <2>7. (\E j \in DOMAIN q : j < k + 1 /\ IsPut(q[j], i) /\ q[j].rec.proxy = t[k].value)
          => \E j \in DOMAIN t : j < k /\ IsPut(t[j], i) /\ t[j].rec.proxy = t[k].value
    BY <2>6
  <2>8. (\E j \in DOMAIN q : k + 1 < j /\ (IsPut(q[j], i) \/ IsForget(q[j], i, t[k].field)))
          => \E j \in DOMAIN t : k < j /\ (IsPut(t[j], i) \/ IsForget(t[j], i, t[k].field))
    BY <2>5
  <2> QED BY <2>2, <2>3, <2>4, <2>7, <2>8
<1>7. VaultOK(op, t, R2, K, A2)
  BY <1>2, RestFinds DEF VaultOK, SameBut, ListOK
<1>8. BoundOK(op, t, R2, K, A2)
  <2> SUFFICES ASSUME NEW s \in Servers \ A2, ~Dead(R2, s)
               PROVE  \/ K[s]["proxy"] \in {NoKey, R2[s].proxy}
                      \/ op \in Forms /\ SettledAfter(t, 0, s, R2[s].proxy)
                      \/ op = "undo" /\ (PutOf(t, s) \/ DelOf(t, s))
    BY DEF BoundOK
  <2>1. s \in AllIds /\ s # c.id
    BY Ids
  <2>2. ~Dead(R, s) /\ R2[s].proxy = R[s].proxy
    BY <2>1 DEF SameBut
  <2>3. \/ K[s]["proxy"] \in {NoKey, R[s].proxy}
        \/ op \in Forms /\ SettledAfter(q, 0, s, R[s].proxy)
        \/ op = "undo" /\ (PutOf(q, s) \/ DelOf(q, s))
    BY <2>2 DEF ListOK, BoundOK
  <2>4. \A e : SettledAfter(q, 0, s, e) => SettledAfter(t, 0, s, e)
    BY <2>1, RestSettled
  <2>5. (PutOf(q, s) => PutOf(t, s)) /\ (DelOf(q, s) => DelOf(t, s))
    BY <2>1, <1>2, RestFinds
  <2> QED BY <2>2, <2>3, <2>4, <2>5
<1> QED BY <1>3, <1>4, <1>5, <1>6, <1>7, <1>8 DEF ListOK, CallsOK

------------------------------------------------------------------------------
(* A call is rejected *)

\* What a list leaves behind when nothing is left to call.
Tidy(R, K, A) ==
  /\ \A i \in AllIds \ A, f \in Fields : Dead(R, i) => K[i][f] = NoKey
  /\ \A s \in Servers \ A : ~Dead(R, s) => K[s]["proxy"] \in {NoKey, R[s].proxy}

LEMMA TidyList ==
  ASSUME NEW op, NEW q, NEW R, NEW K, NEW A, Tidy(R, K, A), CallsOK(op, q, R, K, A)
  PROVE  ListOK(op, q, R, K, A)
BY DEF Tidy, ListOK, VaultOK, BoundOK

LEMMA NothingLeft ==
  ASSUME NEW op, NEW R, NEW K, NEW A
  PROVE  ListOK(op, <<>>, R, K, A) <=> Tidy(R, K, A)
<1>1. DOMAIN <<>> = {}
  BY EmptySeq
<1>2. /\ \A i : ~PutOf(<<>>, i) /\ ~DelOf(<<>>, i)
      /\ \A i, f : ~ForgetOf(<<>>, i, f)
      /\ \A i, e : ~SettledAfter(<<>>, 0, i, e)
  BY <1>1 DEF PutOf, DelOf, ForgetOf, SettledAfter
<1>3. CallsOK(op, <<>>, R, K, A)
  BY <1>1 DEF CallsOK, Orderly, PutsOK, DelsOK, StoresOK, RestoresOK
<1>4. ListOK(op, <<>>, R, K, A) => Tidy(R, K, A)
  BY <1>2 DEF ListOK, VaultOK, BoundOK, Tidy
<1> QED BY <1>3, <1>4, TidyList

\* A list that is neither a form's nor an undo's, nor a source's, keeps the
\* vault in order all the time.
LEMMA KeptTidy ==
  ASSUME NEW op, NEW q, NEW R, NEW K, NEW A, ListOK(op, q, R, K, A), op \notin Forms \cup {"source"}
  PROVE  Tidy(R, K, A)
BY DEF ListOK, VaultOK, BoundOK, Tidy, Forms, Ahead

\* What a rejected call leaves in memory: nothing, or the change.
RejectedAs(op, c, R, R2, A2) ==
  /\ SameBut(R, R2, c.id)
  /\ \/ c.id \in AllIds => (Dead(R2, c.id) <=> Dead(R, c.id)) /\ R2[c.id].proxy = R[c.id].proxy
     \/ c.do = "put" /\ ~Dead(R2, c.id) /\ (c.id \in Servers => R2[c.id].proxy = c.rec.proxy)
     \/ c.do = "del" /\ Dead(R2, c.id) /\ (c.id \in Servers /\ op \in {"folder", "import"} => c.id \in A2)

LEMMA RejectedTidy ==
  ASSUME NEW op, NEW q \in CallLists, q # <<>>, NEW R, NEW K, NEW A, NEW R2, NEW A2,
         ListOK(op, q, R, K, A), A \subseteq A2, RejectedAs(op, q[1], R, R2, A2), op \notin Forms \cup {"source"}
  PROVE  Tidy(R2, K, A2)
<1> DEFINE c == q[1]
<1>1. 1 \in DOMAIN q /\ (\A k \in DOMAIN q : q[k] \in CallSet) /\ op \notin Forms /\ op # "undo"
  BY Rest DEF Forms
<1>2. Tidy(R, K, A)
  BY KeptTidy
<1>3. \A i, f : ~ForgetBefore(q, 1, i, f)
  BY RestSettled
<1>4. ASSUME NEW i \in AllIds \ A2, NEW f \in Fields, Dead(R2, i)
      PROVE  K[i][f] = NoKey
  BY <1>2, <1>4, <1>1, <1>3 DEF Tidy, RejectedAs, SameBut, ListOK, CallsOK, DelsOK
<1>5. ASSUME NEW s \in Servers \ A2, ~Dead(R2, s)
      PROVE  K[s]["proxy"] \in {NoKey, R2[s].proxy}
  BY Ids, <1>2, <1>5, <1>1, <1>3 DEF Tidy, RejectedAs, SameBut, ListOK, CallsOK, PutsOK
<1> QED BY <1>4, <1>5 DEF Tidy

\* A form's record could not be saved: its server is one of the abandoned.
LEMMA FormRejected ==
  ASSUME NEW q \in CallLists, q # <<>>, NEW s \in Servers, FormCalls(s, q), NEW R, NEW K, NEW A, NEW R2, NEW A2,
         ListOK("serverForm", q, R, K, A), A \subseteq A2, SameBut(R, R2, s), s \in A2
  PROVE  Tidy(R2, K, A2)
BY Ids DEF FormCalls, SettledAfter, SameBut, ListOK, VaultOK, Ahead, BoundOK, Tidy

\* A form's password could not be stored: record and password go back.
LEMMA FormUndone ==
  ASSUME NEW q \in CallLists, NEW u \in CallLists, NEW s \in Servers, FormCalls(s, q), NEW R, NEW K, NEW A,
         ListOK("serverForm", q, R, K, A), UndoesForm(s, u, K, A)
  PROVE  ListOK("undo", u, R, K, A)
<1>1. \A x \in Servers : x # s => \A e : ~SettledAfter(q, 0, x, e)
  BY DEF FormCalls, SettledAfter
<1>2. VaultOK("undo", u, R, K, A)
  BY DEF ListOK, VaultOK, Ahead
<1>3. "proxy" \in Fields /\ "undo" \in Forms /\ "undo" \notin {"folder", "import"} /\ Fields = {"login", "proxy"}
  BY DEF Fields, Forms
<1>4. CASE /\ Len(u) = 2 /\ IsPut(u[1], s) /\ u[2] = Store(s, "proxy", u[2].value)
           /\ s \in A \/ u[2].value \in {NoKey, u[1].rec.proxy}
  <2>1. DOMAIN u = {1, 2} /\ u[1].do = "put" /\ u[1].id = s /\ u[2].do = "store" /\ u[2].id = s /\ u[2].field = "proxy"
    BY <1>4 DEF CallLists, IsPut, Store
  <2>2. Orderly(u) /\ DelsOK("undo", u, K, A) /\ RestoresOK(u, A)
    BY <2>1 DEF Orderly, DelsOK, RestoresOK
  <2>3. PutsOK("undo", u, K, A)
    BY <1>4, <2>1, <1>3 DEF SettledAfter, PutsOK
  <2>4. StoresOK("undo", u, R, A)
    BY <1>4, <2>1 DEF PutBefore, StoresOK
  <2>5. BoundOK("undo", u, R, K, A)
    BY <1>4, <2>1, <1>1 DEF PutOf, ListOK, BoundOK
  <2> QED BY <1>2, <2>2, <2>3, <2>4, <2>5 DEF ListOK, CallsOK
<1>5. CASE u = <<Del(s), Forget(s, "proxy")>> /\ (s \in A \/ K[s]["login"] = NoKey)
  <2>1. /\ DOMAIN u = {1, 2} /\ u[1].do = "del" /\ u[1].id = s /\ u[2].do = "store" /\ u[2].value = NoKey
        /\ IsForget(u[2], s, "proxy")
    BY <1>5 DEF Del, Forget, IsForget
  <2>2. Orderly(u) /\ PutsOK("undo", u, K, A) /\ StoresOK("undo", u, R, A) /\ RestoresOK(u, A)
    BY <2>1 DEF Orderly, PutsOK, StoresOK, RestoresOK
  <2>3. DelsOK("undo", u, K, A)
    BY <2>1, <1>3, <1>5 DEF ForgetOf, DelsOK
  <2>4. BoundOK("undo", u, R, K, A)
    BY <2>1, <1>1 DEF DelOf, ListOK, BoundOK
  <2> QED BY <1>2, <2>2, <2>3, <2>4 DEF ListOK, CallsOK
<1> QED BY <1>4, <1>5 DEF UndoesForm

LEMMA ApplyUndone ==
  ASSUME NEW u, NEW R, NEW K, NEW A, Tidy(R, K, A), \A k \in DOMAIN u : u[k].do = "restore", RestoresOK(u, A)
  PROVE  ListOK("undo", u, R, K, A)
BY TidyList DEF CallsOK, Orderly, PutsOK, DelsOK, StoresOK

\* The credential of a source that is not to be is forgotten.
LEMMA SourceUndone ==
  ASSUME NEW q \in CallLists, q # <<>>, NEW i \in Sources, \A k \in DOMAIN q : q[k].id = i,
         NEW R, NEW K, NEW A, NEW R2, NEW A2,
         ListOK("source", q, R, K, A), A \subseteq A2, RejectedAs("source", q[1], R, R2, A2)
  PROVE  ListOK("undo", <<Forget(i, "login")>>, R2, K, A2)
<1> DEFINE c == q[1]
           u == <<Forget(i, "login")>>
<1>1. 1 \in DOMAIN q /\ c.id = i /\ i \in AllIds /\ i \notin Servers
  BY Rest, Ids
<1>2. DOMAIN u = {1} /\ IsForget(u[1], i, "login") /\ u[1].do = "store" /\ u[1].value = NoKey
  BY DEF Forget, IsForget
<1>3. CallsOK("undo", u, R2, K, A2)
  BY <1>2 DEF CallsOK, Orderly, PutsOK, DelsOK, StoresOK, RestoresOK
<1>4. VaultOK("undo", u, R2, K, A2)
  <2> SUFFICES ASSUME NEW x \in AllIds \ A2, NEW f \in Fields, Dead(R2, x)
               PROVE  K[x][f] = NoKey \/ ForgetOf(u, x, f)
    BY DEF VaultOK
  <2>1. CASE Dead(R, x)
    BY <2>1, <1>2 DEF ListOK, VaultOK, Ahead, PutOf, ForgetOf, IsPut, IsForget
  <2>2. CASE ~Dead(R, x)
    <3>1. x = c.id /\ c.do = "del"
      BY <2>2 DEF RejectedAs, SameBut
    <3>2. ~ForgetBefore(q, 1, x, f)
      BY RestSettled
    <3> QED BY <1>1, <3>1, <3>2 DEF ListOK, CallsOK, DelsOK
  <2> QED BY <2>1, <2>2
<1>5. BoundOK("undo", u, R2, K, A2)
  BY <1>1, Ids DEF BoundOK, RejectedAs, SameBut, ListOK, Forms
<1> QED BY <1>3, <1>4, <1>5 DEF ListOK

------------------------------------------------------------------------------
(* What the calls do to the records *)

LEMMA GoneTypes == Gone \in RecordsOf /\ (\A i : Shaped(i, Gone)) /\ Gone.rev = 0 /\ LinksOf(Gone) = {} /\ Gone.proxy = None
BY DEF Gone, Rec, RecordsOf, Shaped, LinksOf, None

LEMMA MintedIs ==
  ASSUME NEW i, NEW r \in RecordsOf, spent \in Spending
  PROVE  /\ Minted(i, r) \in RecordsOf /\ Minted(i, r).proxy = r.proxy
         /\ Minted(i, r).profile = r.profile /\ Minted(i, r).gateway = r.gateway
         /\ LinksOf(Minted(i, r)) = LinksOf(r) /\ (Minted(i, r).rev = 0 <=> r.rev = 0)
         /\ Shaped(i, r) => Shaped(i, Minted(i, r))
         /\ i \in Servers => Minted(i, r) = r
BY Ids DEF Spending, RecordsOf, Minted, LinksOf, Shaped

LEMMA UnlinkIs ==
  ASSUME NEW i, NEW r \in RecordsOf, NEW j, Shaped(j, r)
  PROVE  LET u == Unlink(r, i) IN
         /\ u \in RecordsOf /\ Shaped(j, u) /\ u.proxy = r.proxy /\ u.rev = r.rev /\ u.gateway = r.gateway
         /\ LinksOf(u) \subseteq LinksOf(r)
         /\ i \in LinksOf(u) => i = u.gateway
BY DEF Unlink, RecordsOf, Shaped, LinksOf, None

\* Record i is gone, and nothing of its kind leads to it any more.
Removed(R, W, i) ==
  /\ Whole(W) /\ W[i] = Gone
  /\ \A j \in AllIds \ {i} :
       /\ (Dead(W, j) <=> Dead(R, j)) /\ W[j].proxy = R[j].proxy
       /\ LinksOf(W[j]) \subseteq LinksOf(R[j])
       /\ j \in Templates => W[j].gateway = R[j].gateway
       /\ i \in LinksOf(W[j]) => j \in Templates /\ i = W[j].gateway

LEMMA WithoutServerIs ==
  ASSUME NEW R, Whole(R), NEW i \in Servers
  PROVE  Removed(R, WithoutServer(R, i), i)
<1> DEFINE W == WithoutServer(R, i)
<1>1. i \in AllIds /\ \A j \in AllIds : R[j] \in RecordsOf /\ Shaped(j, R[j]) /\ (Dead(R, j) => R[j] = Gone)
  BY Ids DEF Whole, RecordMaps
<1>2. W[i] = Gone
  BY <1>1 DEF WithoutServer
<1>3. ASSUME NEW j \in AllIds \ {i}
      PROVE  /\ W[j] \in RecordsOf /\ Shaped(j, W[j]) /\ (Dead(W, j) => W[j] = Gone)
             /\ (Dead(W, j) <=> Dead(R, j)) /\ W[j].proxy = R[j].proxy
             /\ LinksOf(W[j]) \subseteq LinksOf(R[j])
             /\ j \in Templates => W[j].gateway = R[j].gateway
             /\ i \in LinksOf(W[j]) => j \in Templates /\ i = W[j].gateway
  BY <1>1, Ids DEF LinksOf, Shaped, RecordsOf, None, WithoutServer, Gone, Rec, Dead
<1>4. W \in [AllIds -> RecordsOf]
  BY <1>2, <1>3, GoneTypes DEF WithoutServer
<1>5. Whole(W)
  BY <1>2, <1>3, <1>4, GoneTypes DEF Whole, RecordMaps
<1> QED BY <1>2, <1>3, <1>5 DEF Removed

LEMMA WithoutOtherIs ==
  ASSUME NEW R, Whole(R), NEW i \in AllIds \ Servers, spent \in Spending
  PROVE  Removed(R, WithoutOther(R, i), i)
<1> DEFINE W == WithoutOther(R, i)
<1>1. \A j \in AllIds : R[j] \in RecordsOf /\ Shaped(j, R[j]) /\ (Dead(R, j) => R[j] = Gone)
  BY DEF Whole, RecordMaps
<1>2. W[i] = Gone
  BY DEF WithoutOther
<1>3. ASSUME NEW j \in AllIds \ {i}
      PROVE  /\ W[j] \in RecordsOf /\ Shaped(j, W[j]) /\ (Dead(W, j) => W[j] = Gone)
             /\ (Dead(W, j) <=> Dead(R, j)) /\ W[j].proxy = R[j].proxy
             /\ LinksOf(W[j]) \subseteq LinksOf(R[j])
             /\ j \in Templates => W[j].gateway = R[j].gateway
             /\ i \in LinksOf(W[j]) => j \in Templates /\ i = W[j].gateway
  <2> DEFINE u == Unlink(R[j], i)
  <2>1. R[j] \in RecordsOf /\ Shaped(j, R[j]) /\ (Dead(R, j) => R[j] = Gone)
    BY <1>1
  <2>2. /\ u \in RecordsOf /\ Shaped(j, u) /\ u.proxy = R[j].proxy /\ u.rev = R[j].rev /\ u.gateway = R[j].gateway
        /\ LinksOf(u) \subseteq LinksOf(R[j])
        /\ i \in LinksOf(u) => i = u.gateway
    BY <2>1, UnlinkIs
  <2>3. R[j].gateway \in Servers \cup {None} /\ i # None
    BY <2>1, Ids DEF RecordsOf
  <2>4. i \notin LinksOf(u)
    BY <2>2, <2>3
  <2>5. CASE u = R[j]
    BY <2>5, <2>1, <2>4 DEF WithoutOther, Dead
  <2>6. CASE u # R[j]
    <3>1. W[j] = Minted(j, u)
      BY <2>6 DEF WithoutOther
    <3>2. /\ Minted(j, u) \in RecordsOf /\ Minted(j, u).proxy = u.proxy /\ Minted(j, u).gateway = u.gateway
          /\ LinksOf(Minted(j, u)) = LinksOf(u) /\ (Minted(j, u).rev = 0 <=> u.rev = 0)
          /\ Shaped(j, Minted(j, u))
      BY <2>2, MintedIs
    <3>3. R[j] # Gone
      <4> DEFINE g == Unlink(Gone, i)
      <4>1. g \in RecordsOf /\ Gone \in RecordsOf
        BY GoneTypes, UnlinkIs
      <4>2. /\ g.profile = Gone.profile /\ g.gateway = Gone.gateway /\ g.rules = Gone.rules /\ g.owner = Gone.owner
            /\ g.was = Gone.was /\ g.proxy = Gone.proxy /\ g.rev = Gone.rev
        BY <2>3 DEF Unlink, Gone, Rec
      <4>3. g = Gone
        BY <4>1, <4>2 DEF RecordsOf
      <4> QED BY <2>6, <4>3
    <3> QED BY <2>1, <2>2, <2>4, <3>1, <3>2, <3>3 DEF Dead
  <2> QED BY <2>5, <2>6
<1>4. W \in [AllIds -> RecordsOf]
  BY <1>2, <1>3, GoneTypes DEF WithoutOther
<1>5. Whole(W)
  BY <1>2, <1>3, <1>4, GoneTypes DEF Whole, RecordMaps
<1> QED BY <1>2, <1>3, <1>5 DEF Removed

LEMMA WithoutIs ==
  ASSUME NEW R, Whole(R), NEW i \in AllIds, spent \in Spending
  PROVE  Removed(R, Without(R, i), i)
BY WithoutServerIs, WithoutOtherIs DEF Without

\* Record i is saved.
Saved(R, R2, i, r) ==
  /\ Whole(R2) /\ ~Dead(R2, i)
  /\ R2[i].proxy = r.proxy /\ R2[i].profile = r.profile /\ R2[i].gateway = r.gateway
  /\ LinksOf(R2[i]) = LinksOf(r)
  /\ \A j \in AllIds \ {i} : R2[j] = R[j]

LEMMA SavedIs ==
  ASSUME NEW R, Whole(R), NEW i \in AllIds, NEW r \in RecordsOf, Shaped(i, r), r.rev # 0,
         NEW R2, R2 = [R EXCEPT ![i] = r]
  PROVE  Saved(R, R2, i, r)
BY DEF Whole, RecordMaps, Dead, Saved

LEMMA MintedSaved ==
  ASSUME NEW R, Whole(R), NEW c \in CallSet, c.do = "put", spent \in Spending,
         NEW R2, R2 = [R EXCEPT ![c.id] = Minted(c.id, c.rec)]
  PROVE  Saved(R, R2, c.id, c.rec)
<1> DEFINE m == Minted(c.id, c.rec)
<1>1. c.id \in AllIds /\ c.rec \in RecordsOf /\ c.rec.rev # 0 /\ Shaped(c.id, c.rec)
  BY CallKinds
<1>2. /\ m \in RecordsOf /\ m.proxy = c.rec.proxy /\ m.profile = c.rec.profile /\ m.gateway = c.rec.gateway
      /\ LinksOf(m) = LinksOf(c.rec) /\ m.rev # 0 /\ Shaped(c.id, m)
  BY <1>1, MintedIs
<1>3. Saved(R, R2, c.id, m)
  BY <1>1, <1>2, SavedIs
<1> QED BY <1>2, <1>3 DEF Saved

LEMMA SavedSame ==
  ASSUME NEW R, NEW R2, NEW i, NEW r, Saved(R, R2, i, r)
  PROVE  SameBut(R, R2, i) /\ \A j \in AllIds : ~Dead(R, j) => ~Dead(R2, j)
BY DEF Saved, SameBut, Dead

LEMMA RemovedSame ==
  ASSUME NEW R, NEW W, NEW i, Removed(R, W, i)
  PROVE  SameBut(R, W, i) /\ Dead(W, i)
BY GoneTypes DEF Removed, SameBut, Dead

\* A profile is gone, and of the sources and templates some still lead to it.
HalfRemoved(R, W, i) ==
  /\ Whole(W) /\ W[i] = Gone /\ i \in Profiles
  /\ \A j \in AllIds \ {i} :
       /\ (Dead(W, j) <=> Dead(R, j)) /\ W[j].proxy = R[j].proxy
       /\ LinksOf(W[j]) \subseteq LinksOf(R[j])
       /\ j \in Templates => W[j].gateway = R[j].gateway
       /\ i \in LinksOf(W[j]) => R[j].profile = i

LEMMA HalfSame ==
  ASSUME NEW R, NEW W, NEW i, HalfRemoved(R, W, i)
  PROVE  SameBut(R, W, i) /\ Dead(W, i)
BY GoneTypes DEF HalfRemoved, SameBut, Dead

\* The two halves of a deletion put together.
LEMMA HalfIs ==
  ASSUME NEW R, Whole(R), NEW i \in Profiles, spent \in Spending,
         NEW W, W = [j \in AllIds |-> IF j \in Servers \cup Profiles THEN Without(R, i)[j] ELSE R[j]]
  PROVE  HalfRemoved(R, W, i)
<1> DEFINE V == Without(R, i)
<1>1. i \in AllIds /\ i \notin Servers /\ i \notin Templates
  BY Ids
<1>2. Removed(R, V, i)
  BY <1>1, WithoutIs
<1>3. \A j \in AllIds : R[j] \in RecordsOf /\ Shaped(j, R[j]) /\ (Dead(R, j) => R[j] = Gone)
  BY DEF Whole, RecordMaps
<1>4. \A j \in AllIds : V[j] \in RecordsOf /\ Shaped(j, V[j]) /\ (Dead(V, j) => V[j] = Gone)
  BY <1>2 DEF Whole, RecordMaps, Removed
<1>5. W[i] = Gone
  BY <1>1, <1>2 DEF Removed
<1>6. ASSUME NEW j \in AllIds
      PROVE  W[j] \in RecordsOf /\ Shaped(j, W[j]) /\ (Dead(W, j) => W[j] = Gone)
  BY <1>3, <1>4 DEF Dead
<1>7. Whole(W)
  BY <1>6 DEF Whole, RecordMaps
<1>8. ASSUME NEW j \in AllIds \ {i}
      PROVE  /\ (Dead(W, j) <=> Dead(R, j)) /\ W[j].proxy = R[j].proxy
             /\ LinksOf(W[j]) \subseteq LinksOf(R[j])
             /\ j \in Templates => W[j].gateway = R[j].gateway
             /\ i \in LinksOf(W[j]) => R[j].profile = i
  BY Ids, <1>2, <1>1, <1>3 DEF Removed, Dead, LinksOf, RecordsOf
<1> QED BY <1>5, <1>7, <1>8 DEF HalfRemoved

\* What a rejected call may leave.
LEMMA AfterRejectionIs ==
  ASSUME Whole(recs), spent \in Spending, NEW c \in CallSet, NEW committed \in BOOLEAN,
         NEW R2, R2 = AfterRejection(c, committed)
  PROVE  \/ R2 = recs /\ (c.do = "put" => c.id \notin Servers \cup Profiles)
         \/ c.do = "put" /\ c.id \in Servers \cup Profiles /\ Saved(recs, R2, c.id, c.rec)
         \/ c.do = "del" /\ (Removed(recs, R2, c.id) \/ HalfRemoved(recs, R2, c.id))
BY CallKinds, SavedIs, WithoutIs, HalfIs DEF AfterRejection, Whole, RecordMaps

LEMMA RejectedKept ==
  ASSUME NEW R, Whole(R), NEW c \in CallSet, NEW R2, NEW op, NEW A2,
         \/ R2 = R
         \/ c.do = "put" /\ Saved(R, R2, c.id, c.rec)
         \/ c.do = "del" /\ (Removed(R, R2, c.id) \/ HalfRemoved(R, R2, c.id)),
         c.do = "del" /\ c.id \in Servers /\ op \in {"folder", "import"} => c.id \in A2
  PROVE  Whole(R2) /\ SameBut(R, R2, c.id) /\ RejectedAs(op, c, R, R2, A2)
<1>1. CASE R2 = R
  BY <1>1 DEF SameBut, RejectedAs
<1>2. CASE c.do = "put" /\ Saved(R, R2, c.id, c.rec)
  BY <1>2, SavedSame DEF Saved, RejectedAs
<1>3. CASE c.do = "del" /\ Removed(R, R2, c.id)
  BY <1>3, RemovedSame DEF Removed, RejectedAs
<1>4. CASE c.do = "del" /\ HalfRemoved(R, R2, c.id)
  BY <1>4, HalfSame DEF HalfRemoved, RejectedAs
<1> QED BY <1>1, <1>2, <1>3, <1>4

------------------------------------------------------------------------------
(* Links, call by call *)

LinksKept(R, S) == \A i \in AllIds \ S : ~Dead(R, i) => Resolved(R, i)

LEMMA LinksAtEnd ==
  ASSUME NEW op, NEW R, NEW S
  PROVE  LinksOK(op, <<>>, R, S) <=> LinksKept(R, S)
BY EmptySeq DEF PutOf, PutBefore, LinksOK, LinksTo, LinksKept, Resolved, Dead

LEMMA LinksWhole ==
  ASSUME NEW op, NEW q, NEW R, NEW S, LinksOK(op, q, R, S), op # "share"
  PROVE  LinksKept(R, S)
BY DEF LinksOK, LinksTo, LinksKept, Resolved, Dead

LEMMA LinkIds ==
  ASSUME NEW r \in RecordsOf
  PROVE  LinksOf(r) \subseteq AllIds /\ (r.gateway \in LinksOf(r) => r.gateway \in Servers)
BY Ids DEF LinksOf, RecordsOf, None

LEMMA LinksAfterPut ==
  ASSUME NEW op, NEW q \in CallLists, q # <<>>, NEW t, t = Tail(q), NEW R, Whole(R), NEW S, NEW R2,
         LinksOK(op, q, R, S), q[1].do = "put", Saved(R, R2, q[1].id, q[1].rec)
  PROVE  LinksOK(op, t, R2, S)
<1> DEFINE c == q[1]
<1>1. /\ \A k \in DOMAIN t : k + 1 \in DOMAIN q /\ t[k] = q[k + 1]
      /\ \A k \in DOMAIN q : q[k] \in CallSet
      /\ 1 \in DOMAIN q
  BY Rest
<1>2. /\ \A x \in AllIds : ~Dead(R, x) => ~Dead(R2, x)
      /\ ~Dead(R2, c.id)
  BY DEF Saved, Dead
<1>3. \A x : (PutOf(q, x) => x = c.id \/ PutOf(t, x)) /\ ~PutBefore(q, 0, x) /\ ~PutBefore(q, 1, x)
  BY RestFinds, RestSettled DEF IsPut
<1>4. \A k \in DOMAIN t : \A x : PutBefore(q, k + 1, x) => x = c.id \/ PutBefore(t, k, x)
  BY RestBefore DEF IsPut
<1>5. /\ R2[c.id].gateway = c.rec.gateway /\ LinksOf(R2[c.id]) = LinksOf(c.rec)
      /\ \A j \in AllIds \ {c.id} : R2[j] = R[j]
  BY DEF Saved
<1>6. c.id \in AllIds /\ c.rec \in RecordsOf
  BY <1>1, CallKinds
<1>7. ASSUME NEW i \in AllIds \ S, ~Dead(R2, i) PROVE LinksTo(op, t, 0, i, R2[i], R2)
  BY <1>5, <1>6, LinkIds, <1>1, <1>3, <1>2, <1>7 DEF LinksTo, LinksOK, Dead, Whole, RecordMaps
<1>8. ASSUME NEW k \in DOMAIN t, t[k].do = "put", t[k].id \notin S PROVE LinksTo(op, t, k, t[k].id, t[k].rec, R2)
  BY <1>1, <1>8, CallKinds, LinkIds, <1>2, <1>3, <1>4 DEF LinksTo, LinksOK
<1> QED BY <1>7, <1>8 DEF LinksOK

LEMMA LinksAfterOther ==
  ASSUME NEW op, NEW q \in CallLists, q # <<>>, NEW t, t = Tail(q), NEW R, NEW S,
         LinksOK(op, q, R, S), q[1].do # "put"
  PROVE  LinksOK(op, t, R, S)
<1>1. \A k \in DOMAIN t : k + 1 \in DOMAIN q /\ t[k] = q[k + 1]
  BY Rest
<1>2. \A x : (PutOf(q, x) => PutOf(t, x)) /\ ~PutBefore(q, 0, x)
  BY RestFinds, RestSettled DEF IsPut
<1>3. \A k \in DOMAIN t : \A x : PutBefore(q, k + 1, x) => PutBefore(t, k, x)
  BY RestBefore DEF IsPut
<1>4. ASSUME NEW i \in AllIds \ S, ~Dead(R, i) PROVE LinksTo(op, t, 0, i, R[i], R)
  BY <1>4, <1>2 DEF LinksOK, LinksTo
<1>5. ASSUME NEW k \in DOMAIN t, t[k].do = "put", t[k].id \notin S PROVE LinksTo(op, t, k, t[k].id, t[k].rec, R)
  BY <1>1, <1>5, <1>2, <1>3 DEF LinksOK, LinksTo
<1> QED BY <1>4, <1>5 DEF LinksOK

\* A deletion, all of it or the half that leaves old links behind.
LEMMA KeptAfterDel ==
  ASSUME NEW R, Whole(R), NEW R2, NEW S, NEW S2, NEW i \in AllIds, LinksKept(R, S), S \subseteq S2,
         Removed(R, R2, i) \/ (HalfRemoved(R, R2, i) /\ \A j \in AllIds : R[j].profile = i => j \in S2)
  PROVE  LinksKept(R2, S2)
BY RemovedSame, HalfSame, LinkIds DEF LinksKept, Resolved, Dead, Removed, HalfRemoved, Whole, RecordMaps

LEMMA LinksAfterDel ==
  ASSUME NEW op, NEW q \in CallLists, q # <<>>, NEW t, t = Tail(q), NEW R, Whole(R), NEW R2, NEW S,
         LinksOK(op, q, R, S), Orderly(q), q[1].do = "del", Removed(R, R2, q[1].id)
  PROVE  LinksOK(op, t, R2, S)
<1>1. /\ \A k \in DOMAIN t : k + 1 \in DOMAIN q /\ t[k] = q[k + 1]
      /\ \A k \in DOMAIN q : q[k] \in CallSet
      /\ 1 \in DOMAIN q
  BY Rest
<1>2. \A k \in DOMAIN q : q[k].do # "put"
  BY <1>1 DEF Orderly
<1>3. \A x : ~PutOf(q, x) /\ ~PutBefore(q, 0, x)
  BY <1>2 DEF PutOf, PutBefore, IsPut
<1>4. LinksKept(R, S)
  BY <1>3 DEF LinksOK, LinksTo, LinksKept, Resolved, Dead
<1>5. q[1].id \in AllIds
  BY <1>1, CallKinds
<1>6. LinksKept(R2, S)
  BY <1>4, <1>5, KeptAfterDel
<1> QED BY <1>1, <1>2, <1>6 DEF LinksOK, LinksTo, LinksKept, Resolved, Dead

\* The servers of a share file whose gateways are still to be saved.
Awaiting(q, R) == {j \in AllIds : \E n \in 2..Len(q) : R[j].gateway = q[n].id}

\* What a rejection may leave of the records.
Rejection(R, c, R2) ==
  \/ R2 = R /\ (c.do = "put" => c.id \notin Servers \cup Profiles)
  \/ c.do = "put" /\ c.id \in Servers \cup Profiles /\ Saved(R, R2, c.id, c.rec)
  \/ c.do = "del" /\ (Removed(R, R2, c.id) \/ HalfRemoved(R, R2, c.id))

LEMMA KeptAfterRejection ==
  ASSUME NEW op, NEW q \in CallLists, q # <<>>, NEW R, Whole(R), NEW R2, NEW S, NEW S2,
         LinksOK(op, q, R, S), Orderly(q), Rejection(R, q[1], R2), S \subseteq S2,
         q[1].do = "del" => {j \in AllIds : R[j].profile = q[1].id} \subseteq S2,
         q[1].do # "del" /\ op = "share" => Awaiting(q, R2) \subseteq S2
  PROVE  LinksKept(R2, S2)
<1> DEFINE c == q[1]
<1>1. /\ 1 \in DOMAIN q /\ DOMAIN q = 1..Len(q) /\ Len(q) \in Nat
      /\ \A k \in DOMAIN q : q[k] \in CallSet
  BY Rest
<1>2. \A x : ~PutBefore(q, 0, x) /\ ~PutBefore(q, 1, x)
  BY RestSettled
<1>3. CASE c.do = "del"
  <2>1. \A k \in DOMAIN q : q[k].do # "put"
    BY <1>1, <1>3 DEF Orderly
  <2>2. \A x : ~PutOf(q, x)
    BY <2>1 DEF PutOf, IsPut
  <2>3. LinksKept(R, S)
    BY <1>2, <2>2 DEF LinksOK, LinksTo, LinksKept, Resolved, Dead
  <2>4. c.id \in AllIds
    BY <1>1, <1>3, CallKinds
  <2>5. CASE R2 = R
    BY <2>3, <2>5 DEF LinksKept
  <2>6. CASE R2 # R
    BY ZenonT(30), <1>3, <2>6, <2>3, <2>4, KeptAfterDel DEF Rejection
  <2> QED BY <2>5, <2>6
<1>4. CASE c.do # "del"
  BY <1>4, LinkIds, <1>1, <1>2 DEF LinksKept, Resolved, Dead, Rejection, Saved, Whole, RecordMaps, PutOf, Awaiting,
     IsPut, LinksOK, LinksTo
<1> QED BY <1>3, <1>4

\* The links of the records still to be written, after a rejection.
LEMMA PutsAfterRejection ==
  ASSUME NEW op, op # "share", NEW q \in CallLists, q # <<>>, NEW t, t = Tail(q), NEW R, Whole(R), NEW R2, NEW S, NEW S2,
         LinksOK(op, q, R, S), Orderly(q), Rejection(R, q[1], R2), S \subseteq S2, LinksKept(R2, S2)
  PROVE  LinksOK(op, t, R2, S2)
BY Rest, CallKinds, LinkIds DEF LinksKept, Resolved, LinksTo, Dead, Orderly, Rejection, Saved, LinksOK

------------------------------------------------------------------------------
(* The holder of the lock goes on *)

LEMMA TaskTypes ==
  ASSUME RecTypes
  PROVE  /\ task \in Tasks /\ task.calls \in CallLists /\ task.undo \in CallLists /\ task.op \in Ops
         /\ task.phase \in PhaseLists
         /\ task.calls # <<>> => task.op # "idle"
         /\ \A k \in DOMAIN task.undo : task.undo[k] \in CallSet
BY DEF RecTypes, Tasks, IdleTask, CallLists

LEMMA Next1Is ==
  ASSUME RecTypes, task.calls # <<>>, task' = Next1
  PROVE  /\ task' \in Tasks /\ task'.calls = Tail(task.calls) /\ task'.phase = task.phase
         /\ \/ task'.op = task.op /\ task'.undo = task.undo
            \/ task' = IdleTask /\ Tail(task.calls) = <<>> /\ task.phase = <<>> /\ task.op # "import"
         /\ task'.op = "idle" => task' = IdleTask
         /\ task'.op # "import" <=> task'.phase = <<>>
BY TaskTypes, Rest DEF Next1, CallLists, PhaseLists, IdleTask, Tasks, Ops, RecTypes

\* What the rest of the list is good for, the task is.
LEMMA ListGoesOn ==
  ASSUME RecTypes, task.calls # <<>>, task' = Next1, NEW R, NEW K, NEW A, NEW S,
         ListOK(task.op, Tail(task.calls), R, K, A)
  PROVE  /\ ListOK(task'.op, task'.calls, R, K, A)
         /\ LinksOK(task.op, Tail(task.calls), R, S) => LinksOK(task'.op, task'.calls, R, S)
<1>1. CASE task'.op = task.op /\ task'.calls = Tail(task.calls)
  BY <1>1
<1>2. CASE task' = IdleTask /\ Tail(task.calls) = <<>>
  <2>1. task'.op = "idle" /\ task'.calls = <<>>
    BY <1>2 DEF IdleTask
  <2>2. Tidy(R, K, A) /\ (LinksOK(task.op, Tail(task.calls), R, S) => LinksKept(R, S))
    BY <1>2, NothingLeft, LinksAtEnd
  <2>3. ListOK("idle", <<>>, R, K, A) /\ (LinksKept(R, S) => LinksOK("idle", <<>>, R, S))
    BY <2>2, NothingLeft, LinksAtEnd
  <2> QED BY <2>1, <2>2, <2>3
<1> QED BY <1>1, <1>2, Next1Is

LEMMA UndoKept ==
  ASSUME NEW op, NEW q \in CallLists, q # <<>>, NEW t, t = Tail(q), NEW u, NEW K, NEW A, NEW K2, NEW A2,
         UndoOK(op, q, u, K, A), A \subseteq A2,
         \A s \in Servers : FormCalls(s, q) => K2[s]["login"] = K[s]["login"]
  PROVE  UndoOK(op, t, u, K2, A2)
BY Rest DEF UndoOK, FormCalls, UndoesForm, RestoresOK

\* No undo but a form's puts a record back.
LEMMA UndoPuts ==
  ASSUME NEW op, NEW q, NEW u, NEW K, NEW A, UndoOK(op, q, u, K, A), op # "serverForm"
  PROVE  \A k \in DOMAIN u : u[k].do # "put"
BY EmptySeq DEF Forget, UndoOK

LEMMA UndoLinksKept ==
  ASSUME NEW u, NEW R, NEW S, NEW R2, NEW S2, UndoLinks(u, R, S), S \subseteq S2,
         \A k \in DOMAIN u : u[k].do = "put" => u[k].rec \in RecordsOf,
         \A i \in AllIds : ~Dead(R, i) => ~Dead(R2, i)
  PROVE  UndoLinks(u, R2, S2)
BY LinkIds DEF UndoLinks, LinksTo

\* The task when a call of it has been made; what it undoes goes along.
LEMMA UndoGoesOn ==
  ASSUME RecTypes, task.calls # <<>>, task' = Next1, NEW K, NEW A, NEW R, NEW S,
         UndoOK(task.op, Tail(task.calls), task.undo, K, A), UndoLinks(task.undo, R, S)
  PROVE  UndoOK(task'.op, task'.calls, task'.undo, K, A) /\ UndoLinks(task'.undo, R, S)
<1>1. CASE task'.op = task.op /\ task'.calls = Tail(task.calls) /\ task'.undo = task.undo
  BY <1>1
<1>2. CASE task' = IdleTask
  BY EmptySeq, <1>2 DEF IdleTask, UndoOK, UndoLinks
<1> QED BY <1>1, <1>2, Next1Is

LEMMA FormsKept ==
  ASSUME FormsOK, forms' = forms
  PROVE  FormsOK'
BY DEF FormsOK, FormOK, OffersOK, SeenOK

\* The types, when a call has been made.
LEMMA CallTypes ==
  ASSUME TypeInv, task.calls # <<>>, task' = Next1, Whole(recs'), Vault(keys'),
         abandoned' \in SUBSET AllIds, stale' \in SUBSET AllIds, spent' \in Spending,
         \A i \in AllIds : Dead(recs', i) \/ i \in spent'.born,
         FormsOK', file' = file,
         transfer' = transfer \/ (task.op = "import" /\ transfer' \in Transfers' /\ transfer'.data = transfer.data)
  PROVE  TypeInv'
BY Next1Is DEF TypeInv, RecTypes, TransferTyped, Transfers

------------------------------------------------------------------------------
(* An import makes a call *)

SameImport(tr, tr2) == tr2.mode = tr.mode /\ tr2.data = tr.data /\ tr2.imported = tr.imported /\ tr2.before = tr.before
Sweeping == {"links", "rules", "carry", "detach"}
KeepsProxies(R, R2) == \A i \in AllIds : ~Dead(R, i) => ~Dead(R2, i) /\ R2[i].proxy = R[i].proxy

LEMMA PhaseCallsRest ==
  ASSUME NEW ph, NEW q \in CallLists, q # <<>>, NEW t, t = Tail(q), NEW R, NEW R2, NEW imported, NEW data,
         PhaseCallsOK(ph, q, R, imported, data), ph[1] \in Sweeping => KeepsProxies(R, R2)
  PROVE  PhaseCallsOK(ph, t, R2, imported, data)
BY Rest, CallKinds DEF PhaseCallsOK, Sweeping, KeepsProxies

LEMMA SweepKeeps ==
  ASSUME NEW ph, NEW q \in CallLists, q # <<>>, NEW R, NEW R2, NEW imported, NEW data,
         PhaseCallsOK(ph, q, R, imported, data), ph[1] \in Sweeping, Saved(R, R2, q[1].id, q[1].rec)
  PROVE  KeepsProxies(R, R2)
BY Rest DEF PhaseCallsOK, Sweeping, Saved, KeepsProxies, Dead

\* A record that was to be imported is saved as it is in the file.
LEMMA BroughtPut ==
  ASSUME NEW ph, NEW q \in CallLists, q # <<>>, NEW t, t = Tail(q), NEW R, NEW R2, NEW tr, tr.imported \subseteq AllIds,
         PhaseCallsOK(ph, q, R, tr.imported, tr.data), Brought(ph[1], q, R, tr), ph[1] \in PhaseNames,
         q[1].do = "put", Saved(R, R2, q[1].id, q[1].rec)
  PROVE  Brought(ph[1], t, R2, tr)
<1>1. 1 \in DOMAIN q /\ \A i : PutOf(q, i) => i = q[1].id \/ PutOf(t, i)
  BY Rest, RestFinds DEF IsPut
<1>2. ph[1] \in Sweeping \cup {"add"}
  BY <1>1 DEF PhaseCallsOK, Sweeping, PhaseNames
<1>3. CASE ph[1] = "add"
  BY <1>3, <1>1 DEF Brought, Early, PhaseCallsOK, Saved, Dead
<1>4. CASE ph[1] \in Sweeping
  BY <1>4, SweepKeeps DEF Brought, Early, Sweeping, KeepsProxies
<1> QED BY <1>2, <1>3, <1>4

LEMMA BroughtDel ==
  ASSUME NEW ph, NEW q \in CallLists, q # <<>>, NEW t, t = Tail(q), NEW R, NEW R2, NEW tr, tr.imported \subseteq AllIds,
         PhaseCallsOK(ph, q, R, tr.imported, tr.data), Brought(ph[1], q, R, tr), ph[1] \in PhaseNames,
         ph[1] = "takeBack" => ph[2] \in Sources,
         q[1].do = "del", SameBut(R, R2, q[1].id), Dead(R2, q[1].id)
  PROVE  Brought(ph[1], t, R2, tr)
<1>1. 1 \in DOMAIN q /\ \A i : DelOf(q, i) => i = q[1].id \/ DelOf(t, i)
  BY Rest, RestFinds
<1>2. ph[1] \in {"wipe", "takeBack"}
  BY <1>1 DEF PhaseCallsOK, PhaseNames
<1>3. CASE ph[1] = "wipe"
  BY <1>1, <1>3 DEF Brought, Early, SameBut
<1>4. CASE ph[1] = "takeBack"
  BY <1>1, <1>4, Ids DEF PhaseCallsOK, Brought, Early, SameBut
<1> QED BY <1>2, <1>3, <1>4

LEMMA BroughtOther ==
  ASSUME NEW name, NEW q \in CallLists, q # <<>>, NEW t, t = Tail(q), NEW R, NEW tr, NEW tr2, SameImport(tr, tr2),
         Brought(name, q, R, tr), q[1].do \notin {"put", "del"} \/ name \notin Early
  PROVE  Brought(name, t, R, tr2)
BY RestFinds DEF Brought, SameImport, Early, IsPut

\* The credentials of the sources to come are as they were.
LEMMA SourcesKept ==
  ASSUME NEW ph, NEW R, NEW R2, NEW K, NEW K2, NEW A, NEW A2, NEW tr, NEW tr2, SameImport(tr, tr2),
         SourcesOK(ph, R, K, A, tr), A \subseteq A2,
         \A k \in DOMAIN ph : ph[k][1] = "source" /\ ph[k][2] \in tr.imported =>
           /\ ph[1][1] \notin Early /\ ~Dead(R, ph[k][2]) => ~Dead(R2, ph[k][2])
           /\ \A f \in Fields : Fresh(ph[k][2], f, K, A) => Fresh(ph[k][2], f, K2, A2)
         , tr2.stored = tr.stored
  PROVE  SourcesOK(ph, R2, K2, A2, tr2)
BY DEF SourcesOK, SameImport

\* A phase other than the first is not that of the source at hand.
LEMMA OtherSource ==
  ASSUME NEW ph, PhasesOK(ph), NEW k \in DOMAIN ph, ph[k][1] = "source", ph[1][2] = ph[k][2], 1 \in DOMAIN ph
  PROVE  k = 1
BY DEF PhasesOK

LEMMA Appended ==
  ASSUME NEW s \in CallLists, NEW c
  PROVE  /\ DOMAIN Append(s, c) = 1..(Len(s) + 1) /\ DOMAIN s = 1..Len(s) /\ Len(s) \in Nat
         /\ Append(s, c)[Len(s) + 1] = c
         /\ \A k \in DOMAIN s : Append(s, c)[k] = s[k] /\ k \in DOMAIN Append(s, c)
BY DEF CallLists

LEMMA AppendFinds ==
  ASSUME NEW s \in CallLists, NEW c, NEW x, NEW f
  PROVE  /\ ForgetOf(s, x, f) => ForgetOf(Append(s, c), x, f)
         /\ IsForget(c, x, f) => ForgetOf(Append(s, c), x, f)
BY Appended DEF ForgetOf

\* A secret is stored: of the source whose phase it is, or of another record.
LEMMA SourcesStored ==
  ASSUME NEW ph, PhasesOK(ph), 1 \in DOMAIN ph, NEW q \in CallLists, q # <<>>, NEW R, NEW K \in KeyMaps, NEW K2, NEW A,
         NEW tr, NEW tr2, SameImport(tr, tr2), tr.stored \in CallLists,
         PhaseCallsOK(ph[1], q, R, tr.imported, tr.data), ph[1] \in PhaseNames \X (Sources \cup {None}),
         ph[1][1] = "wipe" => tr.imported = {},
         SourcesOK(ph, R, K, A, tr), q[1].do = "store", K2 = [K EXCEPT ![q[1].id][q[1].field] = q[1].value],
         tr2.stored = IF ph[1][1] = "source" THEN Append(tr.stored, Forget(q[1].id, q[1].field)) ELSE tr.stored
  PROVE  SourcesOK(ph, R, K2, A, tr2)
<1> DEFINE c == q[1]
           name == ph[1][1]
<1>1. 1 \in DOMAIN q /\ c \in CallSet /\ c.id \in AllIds /\ c.field \in Fields
  BY Rest, CallKinds
<1>2. name \in {"wipe", "secrets", "source", "takeBack"} /\ name \in PhaseNames
  BY <1>1 DEF PhaseCallsOK, PhaseNames
<1>3. \A i \in AllIds, f \in Fields : K2[i][f] = IF i = c.id /\ f = c.field THEN c.value ELSE K[i][f]
  BY <1>1 DEF KeyMaps
<1> DEFINE e == Forget(c.id, c.field)
<1>4. e.do = "store" /\ e.id = c.id /\ e.field = c.field /\ e.value = NoKey
  BY DEF Forget
<1>5. \A k \in DOMAIN tr2.stored :
        tr2.stored[k].do = "store" /\ tr2.stored[k].value = NoKey /\ tr2.stored[k].id = ph[1][2]
  BY <1>1, Appended, <1>4 DEF SourcesOK, PhaseCallsOK
<1>6. ASSUME NEW x, NEW f, ForgetOf(tr.stored, x, f) PROVE ForgetOf(tr2.stored, x, f)
  BY <1>6, AppendFinds
<1>7. name = "source" => ForgetOf(tr2.stored, c.id, c.field)
  BY <1>4, AppendFinds DEF IsForget
<1>8. ASSUME NEW k \in DOMAIN ph, ph[k][1] = "source", ph[k][2] \in tr.imported
      PROVE  /\ name \in Early \/ ~Dead(R, ph[k][2])
             /\ \A f \in Fields : Fresh(ph[k][2], f, K2, A) \/ (k = 1 /\ ForgetOf(tr2.stored, ph[k][2], f))
  BY <1>8, Ids, <1>3, <1>6, <1>1, OtherSource, <1>7, <1>2 DEF SourcesOK, PhasesOK, Fresh, PhaseCallsOK
<1> QED BY <1>5, <1>8 DEF SourcesOK, SameImport

\* A sweep goes on as it was planned.
LEMMA SweepPut ==
  ASSUME NEW ph, NEW q \in CallLists, q # <<>>, NEW t, t = Tail(q), NEW R, Whole(R), NEW R2, NEW imported, NEW data,
         PhaseCallsOK(ph, q, R, imported, data), SweepOK(ph[1], q, R), Saved(R, R2, q[1].id, q[1].rec), q[1].do = "put"
  PROVE  SweepOK(ph[1], t, R2)
<1> DEFINE c == q[1]
<1>1. /\ 1 \in DOMAIN q /\ \A k \in DOMAIN q : q[k] \in CallSet
      /\ \A k \in DOMAIN t : k + 1 \in DOMAIN q /\ t[k] = q[k + 1]
      /\ \A i : PutOf(q, i) => i = c.id \/ PutOf(t, i)
  BY Rest, RestFinds DEF IsPut
<1>2. c.id \in AllIds /\ c.rec \in RecordsOf
  BY <1>1, CallKinds
<1>3. \A i \in AllIds : (~Dead(R, i) => ~Dead(R2, i)) /\ R[i] \in RecordsOf
  BY SavedSame DEF Whole, RecordMaps
<1>4. \A r \in RecordsOf : (r.profile # None => r.profile \in AllIds) /\ (r.gateway # None => r.gateway \in AllIds)
  BY Ids DEF RecordsOf
<1>5. \A r \in RecordsOf : FieldsLead(r, R) => FieldsLead(r, R2)
  BY <1>3, <1>4 DEF FieldsLead
<1>6. \A i, r : r \in RecordsOf /\ AllLead(i, r, R) => AllLead(i, r, R2)
  BY <1>3, LinkIds DEF AllLead
<1>7. /\ FieldsLead(c.rec, R2) => FieldsLead(R2[c.id], R2)
      /\ \A i : AllLead(i, c.rec, R2) => AllLead(i, R2[c.id], R2)
      /\ \A i \in AllIds \ {c.id} : R2[i] = R[i] /\ (Dead(R2, i) <=> Dead(R, i))
  BY DEF Saved, FieldsLead, AllLead, Dead
<1>8. \A k \in DOMAIN q : q[k].do = "put" => q[k].id \in AllIds /\ q[k].rec \in RecordsOf
  BY <1>1, CallKinds
<1>9. CASE ph[1] = "links"
  BY Ids, <1>9, <1>1, <1>2, <1>3, <1>5, <1>7, <1>8 DEF Linked, SweepOK, PhaseCallsOK
<1>10. CASE ph[1] = "rules"
  <2>1. ASSUME NEW i \in Linked PROVE Dead(R2, i) \/ FieldsLead(R2[i], R2)
    BY Ids, <1>10, <1>1, <1>2, <1>3, <1>5, <1>7 DEF Linked, SweepOK, AllLead, FieldsLead, LinksOf
  <2>2. ASSUME NEW i \in AllIds PROVE Dead(R2, i) \/ AllLead(i, R2[i], R2) \/ PutOf(t, i)
    BY <1>10, <1>1, <1>2, <1>3, <1>6, <1>7 DEF SweepOK
  <2>3. ASSUME NEW k \in DOMAIN t PROVE AllLead(t[k].id, t[k].rec, R2)
    BY <1>1, <1>8, <1>10, <1>6 DEF SweepOK, PhaseCallsOK
  <2> QED BY <1>10, <2>1, <2>2, <2>3 DEF SweepOK
<1>11. CASE ph[1] \notin {"links", "rules"}
  BY <1>11 DEF SweepOK
<1> QED BY <1>9, <1>10, <1>11

------------------------------------------------------------------------------
(* The calls of a task *)

LEMMA CallFacts ==
  ASSUME RecordInv, task.calls # <<>>
  PROVE  /\ task.calls \in CallLists /\ Head(task.calls) = task.calls[1] /\ 1 \in DOMAIN task.calls
         /\ task.calls[1] \in CallSet
         /\ Whole(recs) /\ recs \in [AllIds -> RecordsOf] /\ keys \in KeyMaps /\ spent \in Spending
         /\ \A k \in DOMAIN task.undo : task.undo[k].do = "put" => task.undo[k].rec \in RecordsOf
         /\ Orderly(task.calls) /\ RecTypes
BY TaskTypes, Rest, CallKinds DEF RecordInv, TypeInv, RecTypes, Whole, RecordMaps, Vault, ListInv, ListOK, CallsOK

\* The bounds and the ids, when a call has been made or rejected or a command given.
LEMMA SpentIs ==
  ASSUME spent \in Spending
  PROVE  /\ OneRev \in Spending /\ OneRev.born = spent.born
         /\ \A B \in SUBSET AllIds :
              /\ [OneRev EXCEPT !.born = @ \cup B] \in Spending
              /\ [OneRev EXCEPT !.born = @ \cup B].born = spent.born \cup B
              /\ [OneRev EXCEPT !.rejections = @ + 1, !.born = @ \cup B] \in Spending
              /\ [OneRev EXCEPT !.rejections = @ + 1, !.born = @ \cup B].born = spent.born \cup B
         /\ [spent EXCEPT !.commands = @ + 1] \in Spending /\ [spent EXCEPT !.commands = @ + 1].born = spent.born
<1>1. OneRev \in Spending /\ OneRev.born = spent.born
  BY DEF OneRev, Spending
<1>2. ASSUME NEW B \in SUBSET AllIds
      PROVE  /\ [OneRev EXCEPT !.born = @ \cup B] \in Spending
             /\ [OneRev EXCEPT !.born = @ \cup B].born = spent.born \cup B
             /\ [OneRev EXCEPT !.rejections = @ + 1, !.born = @ \cup B] \in Spending
             /\ [OneRev EXCEPT !.rejections = @ + 1, !.born = @ \cup B].born = spent.born \cup B
  <2>1. OneRev.rejections + 1 \in Nat /\ OneRev.born \cup B \in SUBSET AllIds
    BY <1>1 DEF Spending
  <2> QED BY <1>1, <2>1 DEF Spending
<1>3. [spent EXCEPT !.commands = @ + 1] \in Spending /\ [spent EXCEPT !.commands = @ + 1].born = spent.born
  BY DEF Spending
<1> QED BY <1>1, <1>2, <1>3

LEMMA ImportFacts ==
  ASSUME RecordInv, task.op = "import"
  PROVE  /\ PhasesOK(task.phase) /\ task.phase # <<>> /\ 1 \in DOMAIN task.phase /\ task.phase \in PhaseLists
         /\ Phase = task.phase[1][1] /\ Phase \in PhaseNames /\ Head(task.phase) = task.phase[1]
         /\ task.phase[1] \in PhaseNames \X (Sources \cup {None})
         /\ transfer.imported \subseteq AllIds /\ transfer.stored \in CallLists /\ transfer \in Transfers
         /\ Phase = "wipe" => transfer.imported = {}
         /\ Phase \in {"source", "takeBack", "detach"} => task.phase[1][2] \in Sources
BY TaskTypes DEF RecordInv, TypeInv, TransferTyped, PhasesOK, PhaseLists, Phase, ListInv, ImportOK, Brought,
   Transfers

LEMMA ImportGoesOn ==
  ASSUME RecordInv, task.calls # <<>>, task' = Next1, SameImport(transfer, transfer'), abandoned \subseteq abandoned',
         task.op = "import" =>
           /\ PhaseCallsOK(task.phase[1], Tail(task.calls), recs', transfer.imported, transfer.data)
           /\ Brought(Phase, Tail(task.calls), recs', transfer')
           /\ SourcesOK(task.phase, recs', keys', abandoned', transfer')
  PROVE  ImportOK' /\ Phase' = Phase
BY CallFacts, Next1Is DEF IdleTask, Phase, FileBound, SameImport, RecordInv, ListInv, ImportOK

\* The links, when the call has been made.
LEMMA LinksGoOn ==
  ASSUME RecordInv, task.calls # <<>>, task' = Next1, Phase' = Phase,
         NEW R, NEW S, recs' = R, stale' = S,
         LinksOK(task.op, task.calls, recs, stale) => LinksOK(task.op, Tail(task.calls), R, S),
         ListOK(task.op, Tail(task.calls), R, keys', abandoned'),
         task.op = "import" => SweepOK(Phase, Tail(task.calls), R),
         UndoOK(task.op, Tail(task.calls), task.undo, keys', abandoned'), UndoLinks(task.undo, R, S)
  PROVE  LinkInv' /\ UndoOK(task.op, task.calls, task.undo, keys, abandoned)'
         /\ ListOK(task.op, task.calls, recs, keys, abandoned)'
BY CallFacts, Next1Is, ListGoesOn, UndoGoesOn DEF IdleTask, RecordInv, LinkInv

LEMMA PutStep ==
  ASSUME RecordInv, PutCall, UNCHANGED transfer
  PROVE  RecordInv'
<1> DEFINE q == task.calls
           t == Tail(task.calls)
           c == task.calls[1]
<1>1. /\ q # <<>> /\ task' = Next1 /\ UNCHANGED <<keys, forms, file, abandoned, stale, transfer>>
      /\ Head(q).do = "put" /\ recs' = [recs EXCEPT ![Head(q).id] = Minted(Head(q).id, Head(q).rec)]
      /\ spent' = [OneRev EXCEPT !.born = @ \cup {Head(q).id}]
  BY DEF PutCall, Calling
<1>2. /\ q \in CallLists /\ Head(q) = c /\ 1 \in DOMAIN q /\ c \in CallSet
      /\ Whole(recs) /\ keys \in KeyMaps /\ spent \in Spending /\ RecTypes
  BY <1>1, CallFacts
<1>3. c.do = "put" /\ c.id \in AllIds
  BY <1>1, <1>2, CallKinds
<1>4. Saved(recs, recs', c.id, c.rec)
  BY <1>1, <1>2, <1>3, MintedSaved
<1>5. SameBut(recs, recs', c.id) /\ (\A j \in AllIds : ~Dead(recs, j) => ~Dead(recs', j)) /\ Whole(recs')
  BY <1>4, SavedSame DEF Saved
<1>6. TypeInv'
  <2>1. spent' \in Spending /\ spent'.born = spent.born \cup {c.id}
    BY <1>1, <1>2, <1>3, SpentIs
  <2>2. \A i \in AllIds : Dead(recs', i) \/ i \in spent'.born
    BY <1>2, <1>5, <2>1 DEF RecTypes, SameBut
  <2> QED BY <1>1, <1>5, <2>1, <2>2, CallTypes, FormsKept DEF RecordInv, TypeInv, RecTypes
<1>7. ListOK(task.op, t, recs', keys', abandoned')
  <2>1. ListOK(task.op, q, recs, keys, abandoned)
    BY DEF RecordInv, ListInv
  <2>2. ~Dead(recs', c.id) /\ recs'[c.id].proxy = c.rec.proxy
    BY <1>4 DEF Saved
  <2>3. q \in CallLists /\ q # <<>>
    BY <1>1, <1>2
  <2>4. ListOK(task.op, t, recs', keys, abandoned)
    BY <1>3, <1>5, <2>1, <2>2, <2>3, PutMade
  <2> QED BY <1>1, <2>4
<1>8. LinksOK(task.op, q, recs, stale) => LinksOK(task.op, t, recs', stale')
  BY <1>1, <1>2, <1>3, <1>4, LinksAfterPut
<1>9. UndoOK(task.op, t, task.undo, keys', abandoned') /\ UndoLinks(task.undo, recs', stale')
  BY <1>1, <1>2, <1>5, UndoKept, UndoLinksKept, CallFacts DEF RecordInv, ListInv, LinkInv
<1>10. ASSUME task.op = "import"
       PROVE  /\ PhaseCallsOK(task.phase[1], t, recs', transfer.imported, transfer.data)
              /\ Brought(Phase, t, recs', transfer')
              /\ SourcesOK(task.phase, recs', keys', abandoned', transfer')
              /\ SweepOK(Phase, t, recs')
  <2>1. /\ PhaseCallsOK(task.phase[1], q, recs, transfer.imported, transfer.data)
        /\ Brought(Phase, q, recs, transfer) /\ SweepOK(Phase, q, recs)
        /\ SourcesOK(task.phase, recs, keys, abandoned, transfer)
    BY <1>10 DEF RecordInv, ListInv, LinkInv, ImportOK
  <2>2. /\ Phase = task.phase[1][1] /\ Phase \in PhaseNames /\ transfer.imported \subseteq AllIds
        /\ PhasesOK(task.phase)
    BY <1>10, ImportFacts
  <2>3. task.phase[1][1] \in Sweeping => KeepsProxies(recs, recs')
    BY <1>1, <1>2, <1>4, <2>1, SweepKeeps
  <2>4. PhaseCallsOK(task.phase[1], t, recs', transfer.imported, transfer.data)
    <3>1. q \in CallLists /\ q # <<>>
      BY <1>1, <1>2
    <3> HIDE DEF q, t, c
    <3>2. t = Tail(q)
      BY DEF q, t
    <3> QED BY <2>1, <2>3, <3>1, <3>2, PhaseCallsRest
  <2>5. Brought(Phase, t, recs', transfer')
    BY <1>1, <1>2, <1>3, <1>4, <2>1, <2>2, BroughtPut
  <2>6. SweepOK(Phase, t, recs')
    BY <1>1, <1>2, <1>3, <1>4, <2>1, <2>2, SweepPut
  <2>7. \A k \in DOMAIN task.phase : task.phase[k][1] = "source" => task.phase[k][2] \in AllIds
    BY <2>2, Ids DEF PhasesOK
  <2>8. SourcesOK(task.phase, recs', keys', abandoned', transfer')
    BY <1>1, <1>5, <2>1, <2>7, SourcesKept DEF SameImport
  <2> QED BY <2>4, <2>5, <2>6, <2>8
<1>11. ImportOK' /\ Phase' = Phase
  BY <1>1, <1>10, ImportGoesOn DEF SameImport
<1>12. LinkInv' /\ UndoOK(task.op, task.calls, task.undo, keys, abandoned)'
       /\ ListOK(task.op, task.calls, recs, keys, abandoned)'
  BY <1>1, <1>7, <1>8, <1>9, <1>10, <1>11, LinksGoOn
<1>13. FileBound(file, abandoned)'
  BY <1>1 DEF RecordInv, ListInv
<1> QED BY <1>6, <1>11, <1>12, <1>13 DEF RecordInv, ListInv

LEMMA DelStep ==
  ASSUME RecordInv, DelCall, UNCHANGED transfer
  PROVE  RecordInv'
<1> DEFINE q == task.calls
           t == Tail(task.calls)
           c == task.calls[1]
<1>1. /\ q # <<>> /\ task' = Next1 /\ UNCHANGED <<keys, forms, file, stale, transfer>>
      /\ Head(q).do = "del" /\ recs' = Without(recs, Head(q).id) /\ spent' = OneRev
      /\ abandoned' = IF KeepsSecrets(Head(q).id) THEN abandoned \cup {Head(q).id} ELSE abandoned
  BY DEF DelCall, Calling
<1>2. /\ q \in CallLists /\ Head(q) = c /\ 1 \in DOMAIN q /\ c \in CallSet
      /\ Whole(recs) /\ keys \in KeyMaps /\ spent \in Spending /\ RecTypes /\ Orderly(q)
  BY <1>1, CallFacts
<1>3. c.do = "del" /\ c.id \in AllIds
  BY <1>1, <1>2, CallKinds
<1>4. Removed(recs, recs', c.id)
  BY <1>1, <1>2, <1>3, WithoutIs
<1>5. SameBut(recs, recs', c.id) /\ Dead(recs', c.id) /\ Whole(recs')
  <2>1. Whole(recs')
    BY <1>4 DEF Removed
  <2> QED BY <1>4, <2>1, RemovedSame
<1>6. /\ abandoned \subseteq abandoned' /\ abandoned' \in SUBSET AllIds
      /\ c.id \in Servers /\ task.op \in {"folder", "import"} => c.id \in abandoned'
  BY <1>1, <1>2, <1>3 DEF KeepsSecrets, RecTypes
<1>7. TypeInv'
  BY <1>1, <1>2, SpentIs, <1>5, <1>6, CallTypes, FormsKept DEF RecTypes, SameBut, RecordInv, TypeInv
<1>8. ListOK(task.op, t, recs', keys', abandoned')
  <2>1. ListOK(task.op, q, recs, keys, abandoned)
    BY DEF RecordInv, ListInv
  <2>2. q \in CallLists /\ q # <<>>
    BY <1>1, <1>2
  <2>3. ListOK(task.op, t, recs', keys, abandoned')
    BY <1>3, <1>5, <1>6, <2>1, <2>2, DelMade
  <2> QED BY <1>1, <2>3
<1>9. LinksOK(task.op, q, recs, stale) => LinksOK(task.op, t, recs', stale')
  BY <1>1, <1>2, <1>3, <1>4, LinksAfterDel
<1>10. UndoOK(task.op, t, task.undo, keys', abandoned') /\ UndoLinks(task.undo, recs', stale')
  <2>1. UndoOK(task.op, q, task.undo, keys, abandoned)
    BY DEF RecordInv, ListInv
  <2>2. UndoOK(task.op, t, task.undo, keys', abandoned')
    <3>1. q \in CallLists /\ q # <<>>
      BY <1>1, <1>2
    <3>2. UndoOK(task.op, t, task.undo, keys, abandoned')
      BY <1>6, <2>1, <3>1, UndoKept
    <3> QED BY <1>1, <3>2
  <2>3. task.op # "serverForm"
    BY <1>2, <1>3, <2>1 DEF UndoOK, FormCalls
  <2> QED BY <2>1, <2>2, <2>3, UndoPuts DEF UndoLinks
<1>11. ASSUME task.op = "import"
       PROVE  /\ PhaseCallsOK(task.phase[1], t, recs', transfer.imported, transfer.data)
              /\ Brought(Phase, t, recs', transfer')
              /\ SourcesOK(task.phase, recs', keys', abandoned', transfer')
              /\ SweepOK(Phase, t, recs')
  <2>1. /\ PhaseCallsOK(task.phase[1], q, recs, transfer.imported, transfer.data)
        /\ Brought(Phase, q, recs, transfer)
        /\ SourcesOK(task.phase, recs, keys, abandoned, transfer)
    BY <1>11 DEF RecordInv, ListInv, ImportOK
  <2>2. /\ Phase = task.phase[1][1] /\ Phase \in PhaseNames /\ transfer.imported \subseteq AllIds
        /\ PhasesOK(task.phase) /\ 1 \in DOMAIN task.phase
        /\ Phase = "takeBack" => task.phase[1][2] \in Sources
    BY <1>11, ImportFacts
  <2>3. Phase \in {"wipe", "takeBack"} /\ (Phase = "takeBack" => c.id = task.phase[1][2])
    BY <1>2, <1>3, <2>1, <2>2 DEF PhaseCallsOK, PhaseNames
  <2>4. PhaseCallsOK(task.phase[1], t, recs', transfer.imported, transfer.data)
    <3>1. q \in CallLists /\ q # <<>> /\ task.phase[1][1] \notin Sweeping
      BY <1>1, <1>2, <2>2, <2>3 DEF Sweeping
    <3> HIDE DEF q, t, c
    <3>2. t = Tail(q)
      BY DEF q, t
    <3> QED BY <2>1, <3>1, <3>2, PhaseCallsRest
  <2>5. Brought(Phase, t, recs', transfer')
    BY <1>1, <1>2, <1>3, <1>5, <2>1, <2>2, BroughtDel
  <2>6. SweepOK(Phase, t, recs')
    BY <2>3 DEF SweepOK
  <2>7. ASSUME NEW k \in DOMAIN task.phase, task.phase[k][1] = "source",
               Phase \notin Early, ~Dead(recs, task.phase[k][2])
        PROVE  ~Dead(recs', task.phase[k][2])
    BY <2>2, <2>7, Ids, <2>3, OtherSource, <1>5 DEF PhasesOK, Early, SameBut
  <2>8. SourcesOK(task.phase, recs', keys', abandoned', transfer')
    BY <1>1, <1>6, <2>1, <2>2, <2>7, SourcesKept DEF SameImport, Fresh
  <2> QED BY <2>4, <2>5, <2>6, <2>8
<1>12. ImportOK' /\ Phase' = Phase
  BY <1>1, <1>6, <1>11, ImportGoesOn DEF SameImport
<1>13. LinkInv' /\ UndoOK(task.op, task.calls, task.undo, keys, abandoned)'
       /\ ListOK(task.op, task.calls, recs, keys, abandoned)'
  BY <1>1, <1>8, <1>9, <1>10, <1>11, <1>12, LinksGoOn
<1>14. FileBound(file, abandoned)'
  BY <1>1, <1>6 DEF RecordInv, ListInv, FileBound
<1> QED BY <1>7, <1>12, <1>13, <1>14 DEF RecordInv, ListInv

LEMMA TransferWith ==
  ASSUME transfer \in Transfers, NEW x \in CallLists, NEW b \in BOOLEAN,
         transfer' \in {[transfer EXCEPT !.stored = x], [transfer EXCEPT !.settingsFailed = b],
                        [transfer EXCEPT !.clean = b], transfer}
  PROVE  /\ transfer' \in Transfers' /\ SameImport(transfer, transfer')
         /\ transfer' # [transfer EXCEPT !.stored = x] => transfer'.stored = transfer.stored
BY DEF Transfers, SameImport

LEMMA StoreStep ==
  ASSUME RecordInv, ImportStore \/ (Phase # "source" /\ StoreCall /\ UNCHANGED transfer)
  PROVE  RecordInv'
<1> DEFINE q == task.calls
           t == Tail(task.calls)
           c == task.calls[1]
<1>1. /\ q # <<>> /\ task' = Next1 /\ UNCHANGED <<recs, forms, file, abandoned, stale, spent>>
      /\ Head(q).do = "store" /\ keys' = [keys EXCEPT ![Head(q).id][Head(q).field] = Head(q).value]
      /\ \/ Phase # "source" /\ transfer' = transfer
         \/ Phase = "source" /\ transfer' = [transfer EXCEPT !.stored = Append(@, Forget(Head(q).id, Head(q).field))]
  BY DEF ImportStore, StoreCall, Calling
<1>2. /\ q \in CallLists /\ Head(q) = c /\ 1 \in DOMAIN q /\ c \in CallSet
      /\ Whole(recs) /\ keys \in KeyMaps /\ spent \in Spending /\ RecTypes /\ Orderly(q)
  BY <1>1, CallFacts
<1>3. c.do = "store" /\ c.id \in AllIds /\ c.id \notin Templates /\ c.field \in Fields /\ c.value \in Nat
  BY <1>1, <1>2, CallKinds
<1>4. \A i \in AllIds, f \in Fields : keys'[i][f] = IF i = c.id /\ f = c.field THEN c.value ELSE keys[i][f]
  BY <1>1, <1>2, <1>3 DEF KeyMaps
<1>5. keys' \in KeyMaps
  BY <1>1, <1>2, <1>3 DEF KeyMaps
<1>6. Vault(keys')
  BY <1>2, <1>3, <1>4, <1>5, Ids DEF Vault, RecTypes
<1>7. transfer'.stored = IF Phase = "source" THEN Append(transfer.stored, Forget(c.id, c.field)) ELSE transfer.stored
  BY <1>1, <1>2 DEF RecordInv, TypeInv, TransferTyped, Transfers
<1>8. /\ SameImport(transfer, transfer')
      /\ transfer' = transfer \/ (task.op = "import" /\ transfer' \in Transfers' /\ transfer'.data = transfer.data)
  <2>1. CASE transfer' = transfer
    BY <2>1 DEF SameImport
  <2>2. CASE Phase = "source" /\ transfer' = [transfer EXCEPT !.stored = Append(@, Forget(Head(q).id, Head(q).field))]
    <3>1. task.op = "import"
      BY <1>2, <2>2 DEF Phase, RecTypes
    <3>2. transfer \in Transfers /\ transfer.stored \in CallLists
      BY <3>1, ImportFacts
    <3>3. Forget(c.id, c.field) \in CallSet
      BY <1>3 DEF Forget, NoKey, CallSet, Stores
    <3>4. Append(transfer.stored, Forget(c.id, c.field)) \in CallLists
      BY <3>2, <3>3 DEF CallLists
    <3>5. transfer' = [transfer EXCEPT !.stored = Append(transfer.stored, Forget(c.id, c.field))]
      BY <1>2, <2>2
    <3>6. transfer' \in Transfers' /\ SameImport(transfer, transfer')
      BY <3>2, <3>4, <3>5, TransferWith
    <3> QED BY <3>1, <3>6 DEF SameImport
  <2> QED BY <1>1, <2>1, <2>2
<1>9. TypeInv'
  BY <1>1, <1>2, <1>6, <1>8, CallTypes, FormsKept DEF RecordInv, TypeInv, RecTypes
<1>10. ListOK(task.op, t, recs', keys', abandoned')
  BY <1>1, <1>2, <1>3, StoreMade DEF RecordInv, ListInv
<1>11. LinksOK(task.op, q, recs, stale) => LinksOK(task.op, t, recs', stale')
  BY <1>1, <1>2, <1>3, LinksAfterOther
<1>12. UndoOK(task.op, t, task.undo, keys', abandoned') /\ UndoLinks(task.undo, recs', stale')
  <2>1. UndoOK(task.op, q, task.undo, keys, abandoned)
    BY DEF RecordInv, ListInv
  <2>2. ASSUME NEW s \in Servers, FormCalls(s, q) PROVE keys'[s]["login"] = keys[s]["login"]
    BY <1>2, <1>3, <2>2, Ids, <1>4 DEF FormCalls, Fields
  <2>3. UndoOK(task.op, t, task.undo, keys', abandoned')
    <3>1. q \in CallLists /\ q # <<>> /\ abandoned \subseteq abandoned
      BY <1>1, <1>2
    <3>2. UndoOK(task.op, t, task.undo, keys', abandoned)
      BY <2>1, <2>2, <3>1, UndoKept
    <3> QED BY <1>1, <3>2
  <2> QED BY <1>1, <2>3 DEF RecordInv, LinkInv
<1>13. ASSUME task.op = "import"
       PROVE  /\ PhaseCallsOK(task.phase[1], t, recs', transfer.imported, transfer.data)
              /\ Brought(Phase, t, recs', transfer')
              /\ SourcesOK(task.phase, recs', keys', abandoned', transfer')
              /\ SweepOK(Phase, t, recs')
  <2>1. /\ PhaseCallsOK(task.phase[1], q, recs, transfer.imported, transfer.data)
        /\ Brought(Phase, q, recs, transfer)
        /\ SourcesOK(task.phase, recs, keys, abandoned, transfer)
    BY <1>13 DEF RecordInv, ListInv, ImportOK
  <2>2. /\ Phase = task.phase[1][1] /\ Phase \in PhaseNames /\ transfer.stored \in CallLists
        /\ PhasesOK(task.phase) /\ 1 \in DOMAIN task.phase
        /\ task.phase[1] \in PhaseNames \X (Sources \cup {None})
        /\ Phase = "wipe" => transfer.imported = {}
    BY <1>13, ImportFacts
  <2>3. Phase \notin Sweeping
    BY <1>2, <1>3, <2>1, <2>2 DEF PhaseCallsOK, Sweeping
  <2>4. PhaseCallsOK(task.phase[1], t, recs', transfer.imported, transfer.data)
    BY <1>1, <1>2, <2>2, <2>3, <2>1, PhaseCallsRest DEF q, t
  <2>5. Brought(Phase, t, recs', transfer')
    BY <1>1, <1>2, <1>3, <1>8, <2>1, BroughtOther
  <2>6. SweepOK(Phase, t, recs')
    BY <2>3 DEF SweepOK, Sweeping
  <2>7. SourcesOK(task.phase, recs', keys', abandoned', transfer')
    <3>1. /\ q \in CallLists /\ q # <<>> /\ keys' = [keys EXCEPT ![q[1].id][q[1].field] = q[1].value]
          /\ q[1].do = "store" /\ keys \in KeyMaps
      BY <1>1, <1>2, <1>3
    <3>2. transfer'.stored =
            IF task.phase[1][1] = "source" THEN Append(transfer.stored, Forget(q[1].id, q[1].field)) ELSE transfer.stored
      BY <1>7, <2>2
    <3>3. SourcesOK(task.phase, recs, keys', abandoned, transfer')
      BY <1>8, <2>1, <2>2, <3>1, <3>2, SourcesStored
    <3> QED BY <1>1, <3>3
  <2> QED BY <2>4, <2>5, <2>6, <2>7
<1>14. ImportOK' /\ Phase' = Phase
  BY <1>1, <1>8, <1>13, ImportGoesOn
<1>15. LinkInv' /\ UndoOK(task.op, task.calls, task.undo, keys, abandoned)'
       /\ ListOK(task.op, task.calls, recs, keys, abandoned)'
  BY <1>1, <1>10, <1>11, <1>12, <1>13, <1>14, LinksGoOn
<1>16. FileBound(file, abandoned)'
  BY <1>1 DEF RecordInv, ListInv, FileBound
<1> QED BY <1>9, <1>14, <1>15, <1>16 DEF RecordInv, ListInv

\* A call that no record and no secret depends on.
LEMMA SettingsMade ==
  ASSUME NEW op, NEW q \in CallLists, q # <<>>, NEW t, t = Tail(q), NEW R, NEW K, NEW A,
         ListOK(op, q, R, K, A), q[1].do = "settings"
  PROVE  ListOK(op, t, R, K, A)
<1> DEFINE A2 == A \cup {q[1].id}
<1>1. /\ \A k \in DOMAIN q : q[k] \in CallSet
      /\ \A k \in DOMAIN t : k + 1 \in DOMAIN q /\ t[k] = q[k + 1]
      /\ 1 \in DOMAIN q
  BY Rest
<1>2. q[1].id = None
  BY <1>1, CallKinds
<1>3. ListOK(op, t, R, K, A2)
  <2>1. SameBut(R, R, q[1].id)
    BY DEF SameBut
  <2>2. A \subseteq A2 /\ q[1].id \in A2
    OBVIOUS
  <2> HIDE DEF A2
  <2> QED BY <2>1, <2>2, CallSkipped
<1>4. \A i \in AllIds : i \in A2 <=> i \in A
  BY <1>2, Ids
<1>5. \A k \in DOMAIN t : t[k].do # "settings" => t[k].id \in AllIds /\ (t[k].id \in A2 <=> t[k].id \in A)
  BY <1>1, <1>4, CallKinds, Ids
<1> HIDE DEF A2
<1>6. PutsOK(op, t, K, A)
  BY <1>3, <1>5 DEF ListOK, CallsOK, PutsOK
<1>7. DelsOK(op, t, K, A) /\ StoresOK(op, t, R, A) /\ RestoresOK(t, A)
  BY <1>3, <1>5 DEF ListOK, CallsOK, DelsOK, StoresOK, RestoresOK
<1>8. VaultOK(op, t, R, K, A)
  BY <1>3, <1>4 DEF ListOK, VaultOK
<1>9. BoundOK(op, t, R, K, A)
  BY <1>3, <1>4, Ids DEF ListOK, BoundOK
<1> QED BY <1>3, <1>6, <1>7, <1>8, <1>9 DEF ListOK, CallsOK

\* A call that leaves the records as they are and stores no secret of a source:
\* one that restores a password or changes a setting.
LEMMA OtherStep ==
  ASSUME RecordInv, task.calls # <<>>, task' = Next1, task.calls[1].do \notin {"put", "del", "store"},
         UNCHANGED <<recs, forms, file, abandoned, stale>>, spent' \in Spending, spent.born \subseteq spent'.born,
         Vault(keys'), \A i \in AllIds : keys'[i]["login"] = keys[i]["login"],
         ListOK(task.op, Tail(task.calls), recs, keys', abandoned),
         task.op = "import" => keys' = keys,
         SameImport(transfer, transfer'), transfer'.stored = transfer.stored,
         transfer' = transfer \/ (task.op = "import" /\ transfer' \in Transfers' /\ transfer'.data = transfer.data)
  PROVE  RecordInv'
<1> DEFINE q == task.calls
           t == Tail(task.calls)
<1>1. q \in CallLists /\ 1 \in DOMAIN q /\ Whole(recs) /\ RecTypes
  BY CallFacts
<1>2. TypeInv'
  BY <1>1, CallTypes, FormsKept DEF RecordInv, TypeInv, RecTypes
<1>3. LinksOK(task.op, q, recs, stale) => LinksOK(task.op, t, recs', stale')
  BY <1>1, LinksAfterOther
<1>4. UndoOK(task.op, t, task.undo, keys', abandoned') /\ UndoLinks(task.undo, recs', stale')
  <2>1. UndoOK(task.op, q, task.undo, keys, abandoned)
    BY DEF RecordInv, ListInv
  <2>2. \A s \in Servers : keys'[s]["login"] = keys[s]["login"]
    BY Ids
  <2>3. UndoOK(task.op, t, task.undo, keys', abandoned)
    BY ZenonT(30), <1>1, <2>1, <2>2, UndoKept
  <2> QED BY <2>3 DEF RecordInv, LinkInv
<1>5. ASSUME task.op = "import"
      PROVE  /\ PhaseCallsOK(task.phase[1], t, recs', transfer.imported, transfer.data)
             /\ Brought(Phase, t, recs', transfer')
             /\ SourcesOK(task.phase, recs', keys', abandoned', transfer')
             /\ SweepOK(Phase, t, recs')
  <2>1. /\ PhaseCallsOK(task.phase[1], q, recs, transfer.imported, transfer.data)
        /\ Brought(Phase, q, recs, transfer)
        /\ SourcesOK(task.phase, recs, keys, abandoned, transfer)
    BY <1>5 DEF RecordInv, ListInv, ImportOK
  <2>2. Phase = task.phase[1][1] /\ Phase \in PhaseNames
    BY <1>5, ImportFacts
  <2>3. Phase \notin Sweeping
    BY <1>1, <2>1, <2>2 DEF PhaseCallsOK, Sweeping
  <2>4. PhaseCallsOK(task.phase[1], t, recs, transfer.imported, transfer.data)
    BY <1>1, <2>2, <2>3, <2>1, PhaseCallsRest DEF q, t
  <2>5. Brought(Phase, t, recs, transfer')
    BY <1>1, <2>1, BroughtOther
  <2>6. SweepOK(Phase, t, recs)
    BY <2>3 DEF SweepOK, Sweeping
  <2>7. SourcesOK(task.phase, recs, keys, abandoned, transfer')
    BY <2>1, SourcesKept
  <2> QED BY <1>5, <2>4, <2>5, <2>6, <2>7
<1>6. ImportOK' /\ Phase' = Phase
  BY <1>5, ImportGoesOn
<1>7. LinkInv' /\ UndoOK(task.op, task.calls, task.undo, keys, abandoned)'
       /\ ListOK(task.op, task.calls, recs, keys, abandoned)'
  BY <1>3, <1>4, <1>5, <1>6, LinksGoOn
<1>8. FileBound(file, abandoned)'
  BY DEF RecordInv, ListInv, FileBound
<1> QED BY <1>2, <1>6, <1>7, <1>8 DEF RecordInv, ListInv

LEMMA RestoreStep ==
  ASSUME RecordInv, RestoreCall, UNCHANGED transfer
  PROVE  RecordInv'
<1> DEFINE q == task.calls
           t == Tail(task.calls)
           c == task.calls[1]
<1>1. /\ q # <<>> /\ task' = Next1 /\ UNCHANGED <<recs, forms, file, abandoned, stale, spent, transfer>>
      /\ Head(q).do = "restore"
      /\ keys' = IF recs[Head(q).id].proxy = Head(q).endpoint /\ Head(q).endpoint # None
                 THEN [keys EXCEPT ![Head(q).id]["proxy"] = Head(q).value] ELSE keys
  BY DEF RestoreCall, Calling
<1>2. /\ q \in CallLists /\ Head(q) = c /\ 1 \in DOMAIN q /\ c \in CallSet
      /\ Whole(recs) /\ keys \in KeyMaps /\ spent \in Spending /\ RecTypes
  BY <1>1, CallFacts
<1>3. c.do = "restore" /\ c.id \in Servers /\ c.value \in Nat
  BY <1>1, <1>2, CallKinds
<1>4. task.op # "import"
  BY ImportFacts, <1>2, <1>3 DEF RecordInv, ListInv, ImportOK, PhaseCallsOK, PhaseNames
<1>5. /\ Vault(keys')
      /\ \A i \in AllIds : keys'[i]["login"] = keys[i]["login"]
  BY <1>2, <1>3, Ids, <1>1 DEF RecTypes, Fields, KeyMaps, Vault
<1>6. ListOK(task.op, t, recs, keys', abandoned)
  <2>1. ListOK(task.op, q, recs, keys, abandoned)
    BY DEF RecordInv, ListInv
  <2>2. keys' = IF recs[q[1].id].proxy = q[1].endpoint /\ q[1].endpoint # None
                THEN [keys EXCEPT ![q[1].id]["proxy"] = q[1].value] ELSE keys
    BY <1>1, <1>2
  <2> QED BY <1>1, <1>2, <1>3, <2>1, <2>2, RestoreMade
<1> QED BY <1>1, <1>2, <1>3, <1>4, <1>5, <1>6, OtherStep DEF SameImport

LEMMA SettingsStep ==
  ASSUME RecordInv, task.calls # <<>>, task.calls[1].do = "settings", task' = Next1,
         UNCHANGED <<recs, keys, forms, file, abandoned, stale>>, spent' \in Spending, spent.born \subseteq spent'.born,
         SameImport(transfer, transfer'), transfer'.stored = transfer.stored,
         transfer' = transfer \/ (task.op = "import" /\ transfer' \in Transfers' /\ transfer'.data = transfer.data)
  PROVE  RecordInv'
BY CallFacts, SettingsMade, OtherStep DEF RecTypes, RecordInv, ListInv

LEMMA SettingsCallStep ==
  ASSUME RecordInv, SettingsCall
  PROVE  RecordInv'
BY CallFacts, SettingsStep DEF SettingsCall, Calling, SameImport

------------------------------------------------------------------------------
(* A call is rejected *)

\* The lock is free, and all that is left is in order.
LEMMA Settled ==
  ASSUME NEW op, op \notin {"import", "serverForm", "apply", "source"},
         Tidy(recs', keys', abandoned'), LinksKept(recs', stale'), FileBound(file', abandoned'),
         task'.op = op, task'.calls = <<>>, task'.undo = <<>>
  PROVE  ListInv' /\ LinkInv'
BY EmptySeq, NothingLeft, LinksAtEnd DEF UndoOK, UndoLinks, ListInv, LinkInv, ImportOK

\* What was done is to be undone, or what is left of that.
LEMMA Undoing ==
  ASSUME ListOK("undo", task'.calls, recs', keys', abandoned'), LinksKept(recs', stale'),
         UndoLinks(task'.calls, recs', stale'), FileBound(file', abandoned'), task'.op = "undo", task'.undo = <<>>,
         \A k \in DOMAIN task'.calls : task'.calls[k].do # "settings"
  PROVE  ListInv' /\ LinkInv'
BY EmptySeq DEF LinksOK, LinksTo, LinksKept, Resolved, UndoLinks, Dead, UndoOK, ListInv, LinkInv, ImportOK

\* What a rejected call does to the records, the history and the ids.
LEMMA RejectedFacts ==
  ASSUME RecordInv, task.calls # <<>>, NEW committed \in BOOLEAN, recs' = AfterRejection(Head(task.calls), committed),
         abandoned \subseteq abandoned',
         Head(task.calls).do = "del" /\ Head(task.calls).id \in Servers /\ task.op \in {"folder", "import"} =>
           Head(task.calls).id \in abandoned',
         spent' = [OneRev EXCEPT !.rejections = @ + 1, !.born = @ \cup {i \in AllIds : recs'[i].rev # 0}]
  PROVE  LET c == task.calls[1] IN
         /\ Rejection(recs, c, recs') /\ Whole(recs') /\ SameBut(recs, recs', c.id)
         /\ RejectedAs(task.op, c, recs, recs', abandoned')
         /\ c.do \notin {"put", "del"} => recs' = recs
         /\ spent' \in Spending /\ \A i \in AllIds : Dead(recs', i) \/ i \in spent'.born
<1> DEFINE c == task.calls[1]
<1>1. /\ Head(task.calls) = c /\ c \in CallSet /\ Whole(recs) /\ spent \in Spending /\ RecTypes
  BY CallFacts
<1>2. recs' = AfterRejection(c, committed)
  BY <1>1
<1>3. Rejection(recs, c, recs')
  BY <1>1, <1>2, AfterRejectionIs DEF Rejection
<1>4. Whole(recs') /\ SameBut(recs, recs', c.id) /\ RejectedAs(task.op, c, recs, recs', abandoned')
  BY <1>1, <1>3, RejectedKept DEF Rejection
<1>5. c.do \notin {"put", "del"} => recs' = recs
  BY <1>3 DEF Rejection
<1> DEFINE B == {i \in AllIds : recs'[i].rev # 0}
<1>6. B \in SUBSET AllIds /\ spent' = [OneRev EXCEPT !.rejections = @ + 1, !.born = @ \cup B]
  OBVIOUS
<1>7. spent' \in Spending /\ spent'.born = spent.born \cup B
  BY <1>1, <1>6, SpentIs
<1>8. \A i \in AllIds : Dead(recs', i) \/ i \in spent'.born
  BY <1>7 DEF Dead
<1> QED BY <1>3, <1>4, <1>5, <1>7, <1>8

LEMMA RejectedStep ==
  ASSUME RecordInv, CallRejected, UNCHANGED transfer
  PROVE  RecordInv'
<1> DEFINE q == task.calls
           t == Tail(task.calls)
           c == task.calls[1]
<1>1. /\ q # <<>> /\ task.phase = <<>> /\ UNCHANGED <<keys, file, transfer>>
      /\ \E committed \in BOOLEAN : recs' = AfterRejection(Head(q), committed)
      /\ spent' = [OneRev EXCEPT !.rejections = @ + 1, !.born = @ \cup {i \in AllIds : recs'[i].rev # 0}]
  BY DEF CallRejected
<1>2. /\ q \in CallLists /\ Head(q) = c /\ 1 \in DOMAIN q /\ c \in CallSet
      /\ Whole(recs) /\ RecTypes /\ task.op # "import" /\ task.op # "idle" /\ Orderly(q)
  BY <1>1, CallFacts, TaskTypes DEF RecTypes
<1>3. /\ abandoned \subseteq abandoned'
      /\ task.op = "undo" => c.id \in abandoned'
      /\ c.do = "put" /\ task.op = "serverForm" => c.id \in abandoned'
      /\ c.do = "del" /\ c.id \in Servers /\ task.op \in {"folder", "import"} => c.id \in abandoned'
      /\ abandoned' \subseteq abandoned \cup {c.id}
  BY <1>1, <1>2 DEF CallRejected, KeepsSecrets
<1>4. /\ stale \subseteq stale'
      /\ c.do = "del" => {j \in AllIds : recs[j].profile = c.id} \subseteq stale'
      /\ c.do # "del" /\ task.op = "share" => Awaiting(q, recs') \subseteq stale'
      /\ stale' \in SUBSET AllIds
  BY <1>1, <1>2 DEF CallRejected, NotReached, Awaiting, RecTypes
<1>5. /\ Rejection(recs, c, recs') /\ Whole(recs') /\ SameBut(recs, recs', c.id)
      /\ RejectedAs(task.op, c, recs, recs', abandoned')
      /\ c.do \notin {"put", "del"} => recs' = recs
      /\ spent' \in Spending /\ \A i \in AllIds : Dead(recs', i) \/ i \in spent'.born
  BY <1>1, <1>2, <1>3, RejectedFacts
<1>6. /\ ListOK(task.op, q, recs, keys, abandoned) /\ LinksOK(task.op, q, recs, stale)
      /\ UndoOK(task.op, q, task.undo, keys, abandoned) /\ UndoLinks(task.undo, recs, stale)
      /\ FileBound(file', abandoned')
  BY <1>1, <1>2, <1>3 DEF RecordInv, ListInv, LinkInv, FileBound
<1>7. LinksKept(recs', stale')
  BY <1>1, <1>2, <1>4, <1>5, <1>6, KeptAfterRejection
<1>8. abandoned' \in SUBSET AllIds
  BY <1>2, CallKinds, Ids, <1>3, <1>6, <1>1 DEF RecTypes, UndoOK, CallRejected
<1>9. FormsOK'
  BY ZenonT(30), <1>1, <1>2 DEF CallRejected, RecordInv, TypeInv, FormOK, NoForm, FormsOK, OffersOK, SeenOK
<1>10. CASE task.op = "undo"
  <2>1. task' = Next1
    BY <1>10 DEF CallRejected
  <2>2. ListOK(task.op, t, recs', keys', abandoned')
    BY <1>1, <1>2, <1>3, <1>10, <1>5, <1>6, CallSkipped
  <2>3. LinksOK(task.op, t, recs', stale')
    BY <1>10, <1>1, <1>2, <1>4, <1>5, <1>6, <1>7, PutsAfterRejection
  <2>4. UndoOK(task.op, t, task.undo, keys', abandoned') /\ UndoLinks(task.undo, recs', stale')
    BY <1>1, <1>2, <1>3, <1>6, UndoKept, <1>10, UndoPuts DEF UndoLinks
  <2>5. TypeInv'
    BY <1>1, <1>2, <1>4, <1>5, <1>8, <1>9, <2>1, CallTypes DEF RecordInv, TypeInv, RecTypes
  <2>6. ImportOK' /\ Phase' = Phase
    BY <1>1, <1>2, <1>3, <2>1, ImportGoesOn DEF SameImport
  <2>7. LinkInv' /\ UndoOK(task.op, task.calls, task.undo, keys, abandoned)'
        /\ ListOK(task.op, task.calls, recs, keys, abandoned)'
    BY <1>1, <1>2, <2>1, <2>2, <2>3, <2>4, <2>6, LinksGoOn
  <2> QED BY <1>6, <2>5, <2>6, <2>7 DEF RecordInv, ListInv
<1>11. CASE task.op # "undo" /\ Undoes(c)
  <2> DEFINE u == task.undo
  <2>1. task' = [IdleTask EXCEPT !.op = "undo", !.calls = u] /\ u # <<>> /\ (task.op = "serverForm" => c.do = "store")
    BY <1>2, <1>11 DEF CallRejected, Undoes
  <2>2. task'.op = "undo" /\ task'.calls = u /\ task'.undo = <<>> /\ task'.phase = <<>>
    BY <2>1 DEF IdleTask
  <2>3. task.op \in {"serverForm", "apply", "source"} /\ u \in CallLists
    BY <1>2, <1>6, <2>1, TaskTypes DEF UndoOK
  <2>4. TypeInv'
    <3>1. task' \in Tasks
      <4>1. <<>> \in CallLists /\ <<>> \in PhaseLists
        BY DEF CallLists, PhaseLists
      <4> HIDE DEF u
      <4>2. task' = [op |-> "undo", calls |-> u, undo |-> <<>>, phase |-> <<>>]
        BY <2>1 DEF IdleTask
      <4> QED BY <2>3, <4>1, <4>2 DEF Tasks, Ops
    <3>2. RecTypes'
      BY <1>1, <1>2, <1>4, <1>5, <1>8, <2>2, <3>1 DEF RecTypes
    <3>3. TransferTyped'
      BY <1>1, <1>2, <2>2 DEF RecordInv, TypeInv, TransferTyped, Transfers
    <3> QED BY <1>1, <1>9, <3>2, <3>3 DEF RecordInv, TypeInv
  <2>5. /\ ListOK("undo", u, recs', keys', abandoned') /\ UndoLinks(u, recs', stale')
        /\ \A k \in DOMAIN u : u[k].do # "settings"
    <3>1. CASE task.op = "serverForm"
      <4>1. PICK s \in Servers : FormCalls(s, q) /\ UndoesForm(s, u, keys, abandoned)
        BY <1>6, <2>1, <3>1 DEF UndoOK
      <4>2. recs' = recs /\ abandoned' = abandoned
        BY <1>1, <1>2, <1>5, <2>1, <3>1 DEF CallRejected
      <4>3. ListOK("undo", u, recs, keys, abandoned)
        BY <1>2, <1>6, <2>3, <3>1, <4>1, FormUndone
      <4>4. \A k \in DOMAIN u : u[k].do # "settings"
        BY <2>3, <4>1 DEF Del, Forget, CallLists, Store, IsPut, UndoesForm
      <4> QED BY <1>1, <1>4, <1>6, <4>2, <4>3, <4>4 DEF UndoLinks
    <3>2. CASE task.op = "apply"
      BY <1>3, <1>6, <3>2, <1>1, <1>2, <1>5, RejectedTidy, ApplyUndone DEF UndoOK, RestoresOK, Forms, UndoLinks
    <3>3. CASE task.op = "source"
      <4>1. PICK i \in Sources : u = <<Forget(i, "login")>> /\ \A k \in DOMAIN q : q[k].id = i
        BY <1>6, <3>3 DEF UndoOK
      <4>2. ListOK("undo", <<Forget(i, "login")>>, recs', keys, abandoned')
        BY <1>1, <1>2, <1>3, <1>5, <1>6, <3>3, <4>1, SourceUndone
      <4>3. DOMAIN u = {1} /\ u[1].do = "store"
        BY <4>1 DEF Forget
      <4> QED BY <1>1, <4>1, <4>2, <4>3 DEF UndoLinks
    <3> QED BY <2>3, <3>1, <3>2, <3>3
  <2>6. ListInv' /\ LinkInv'
    BY <1>6, <1>7, <2>2, <2>5, Undoing
  <2> QED BY <2>4, <2>6 DEF RecordInv
<1>12. CASE task.op # "undo" /\ ~Undoes(c)
  <2>1. task' = IdleTask
    BY <1>2, <1>12 DEF CallRejected
  <2>2. task'.op = "idle" /\ task'.calls = <<>> /\ task'.undo = <<>> /\ task'.phase = <<>>
    BY <2>1 DEF IdleTask
  <2>3. TypeInv'
    BY <2>1, <1>1, <1>2, <1>4, <1>5, <1>8, <2>2, <1>9 DEF IdleTask, Tasks, Ops, CallLists, PhaseLists, RecTypes,
       RecordInv, TypeInv, TransferTyped, Transfers
  <2>4. Tidy(recs', keys, abandoned')
    <3>1. CASE task.op = "serverForm"
      BY <1>6, <3>1, <1>2, <1>12, <1>1, <1>3, <1>5, FormRejected DEF UndoOK, UndoesForm, Undoes, FormCalls
    <3>2. CASE task.op = "source"
      BY <1>6, <3>2, <1>12 DEF UndoOK, Undoes
    <3>3. CASE task.op \notin Forms \cup {"source"}
      BY <1>1, <1>2, <1>3, <1>5, <1>6, <3>3, RejectedTidy
    <3> QED BY <1>12, <3>1, <3>2, <3>3 DEF Forms
  <2>5. ListInv' /\ LinkInv'
    BY <1>1, <1>6, <1>7, <2>2, <2>4, Settled
  <2> QED BY <2>3, <2>5 DEF RecordInv
<1> QED BY <1>10, <1>11, <1>12

------------------------------------------------------------------------------
(* The phases of an import *)

LEMMA PhaseTail ==
  ASSUME NEW ph \in PhaseLists, PhasesOK(ph), ph[1][1] # "done", NEW t, t = Tail(ph)
  PROVE  /\ t \in PhaseLists /\ PhasesOK(t) /\ Head(t) = t[1]
         /\ 1 \in DOMAIN t /\ 1 \in DOMAIN ph /\ DOMAIN ph = 1..Len(ph) /\ DOMAIN t = 1..(Len(ph) - 1) /\ Len(ph) \in Nat
         /\ t[1][1] \in Follow(ph[1][1]) /\ t[1][1] \in PhaseNames
         /\ \A k \in DOMAIN t : t[k] = ph[k + 1] /\ k + 1 \in DOMAIN ph
<1>1. DOMAIN ph = 1..Len(ph) /\ Len(ph) \in Nat \ {0} /\ 1 \in DOMAIN ph
  BY DEF PhasesOK, PhaseLists
<1>2. 2 \in DOMAIN ph /\ ph[2][1] \in Follow(ph[1][1])
  BY <1>1 DEF PhasesOK
<1>3. t \in PhaseLists /\ Len(t) = Len(ph) - 1 /\ DOMAIN t = 1..(Len(ph) - 1)
  BY <1>1 DEF PhaseLists
<1>4. \A k \in DOMAIN t : t[k] = ph[k + 1] /\ k + 1 \in DOMAIN ph
  BY <1>1, <1>3 DEF PhaseLists
<1>5. 1 \in DOMAIN t /\ t # <<>> /\ Head(t) = t[1]
  <2>1. 1 \in DOMAIN t
    BY <1>1, <1>2, <1>3
  <2>2. t # <<>>
    BY <2>1, EmptySeq
  <2> QED BY <1>3, <2>1, <2>2 DEF PhaseLists
<1>6. PhasesOK(t)
  BY <1>1, <1>3, <1>4, <1>5 DEF PhasesOK
<1>7. t[1] = ph[2]
  BY <1>4, <1>5
<1>8. t[1][1] \in PhaseNames
  BY <1>3, <1>5 DEF PhaseLists
<1> QED BY <1>1, <1>2, <1>3, <1>4, <1>5, <1>6, <1>7, <1>8

\* A source is taken back: two more phases.
LEMMA TakeBackPhases ==
  ASSUME NEW ph \in PhaseLists, PhasesOK(ph), ph[1][1] = "source",
         NEW n, n = <<<<"takeBack", ph[1][2]>>, <<"detach", ph[1][2]>>>> \o Tail(ph)
  PROVE  /\ n \in PhaseLists /\ PhasesOK(n) /\ n # <<>>
         /\ n[1] = <<"takeBack", ph[1][2]>> /\ n[2] = <<"detach", ph[1][2]>> /\ 1 \in DOMAIN n
         /\ \A k \in DOMAIN n : k = 1 \/ k = 2 \/ (k - 1 \in DOMAIN ph /\ k - 1 # 1 /\ n[k] = ph[k - 1])
<1> DEFINE t == Tail(ph)
           s == ph[1][2]
<1>1. /\ t \in PhaseLists /\ DOMAIN t = 1..(Len(ph) - 1) /\ Len(ph) \in Nat /\ DOMAIN ph = 1..Len(ph)
      /\ 1 \in DOMAIN ph /\ 1 \in DOMAIN t /\ t[1][1] \in Follow(ph[1][1])
      /\ \A k \in DOMAIN t : t[k] = ph[k + 1] /\ k + 1 \in DOMAIN ph
  BY PhaseTail
<1>2. s \in Sources
  BY <1>1 DEF PhasesOK
<1>3. Len(t) = Len(ph) - 1
  BY <1>1 DEF PhaseLists
<1> HIDE DEF t
<1>4. n = <<<<"takeBack", s>>, <<"detach", s>>>> \o t
  BY DEF t
<1>5. n \in PhaseLists
  BY <1>1, <1>2, <1>4 DEF PhaseLists, PhaseNames
<1>6. /\ DOMAIN n = 1..(Len(ph) + 1) /\ n[1] = <<"takeBack", s>> /\ n[2] = <<"detach", s>>
      /\ \A k \in 3..(Len(ph) + 1) : n[k] = t[k - 2]
  BY <1>1, <1>3, <1>4 DEF PhaseLists
<1>7. ASSUME NEW k \in DOMAIN n, k # 1, k # 2 PROVE k - 1 \in DOMAIN ph /\ k - 1 # 1 /\ n[k] = ph[k - 1]
  BY <1>1, <1>6, <1>7
<1>8. PhasesOK(n)
  <2>1. ASSUME NEW k \in DOMAIN n
        PROVE  /\ k + 1 \in DOMAIN n => n[k + 1][1] \in Follow(n[k][1])
               /\ k + 1 \notin DOMAIN n => n[k][1] = "done"
               /\ n[k][1] \in {"source", "takeBack", "detach"} => n[k][2] \in Sources
    <3>0. 2 \in DOMAIN n /\ 3 \in DOMAIN n /\ 2 \in DOMAIN ph
      BY <1>1, <1>6
    <3>1. CASE k = 1
      BY <1>2, <1>6, <3>0, <3>1 DEF Follow
    <3>2. CASE k = 2
      <4>1. n[3] = ph[2]
        BY <1>7, <3>0
      <4>2. t[1] = ph[2]
        BY <1>1
      <4>3. ph[2][1] \in {"source", "done"}
        BY <1>1, <4>2 DEF Follow
      <4> QED BY <1>2, <1>6, <3>0, <3>2, <4>1, <4>3 DEF Follow
    <3>3. CASE k # 1 /\ k # 2
      BY SMTT(30), <1>7, <3>3, <1>1, <1>6 DEF PhasesOK
    <3> QED BY <3>1, <3>2, <3>3
  <2>2. ASSUME NEW j \in DOMAIN n, NEW k \in DOMAIN n, n[k][1] = "source", n[j][2] = n[k][2]
        PROVE  j = k
    <3>1. k # 1 /\ k # 2
      BY <1>6, <2>2
    <3>2. k - 1 \in DOMAIN ph /\ k - 1 # 1 /\ n[k] = ph[k - 1]
      BY <1>7, <3>1
    <3>3. CASE j = 1 \/ j = 2
      BY <1>6, <2>2, <3>2, <3>3, <1>1 DEF PhasesOK
    <3>4. CASE j # 1 /\ j # 2
      <4>1. j - 1 \in DOMAIN ph /\ n[j] = ph[j - 1]
        BY <1>7, <3>4
      <4>2. j - 1 = k - 1
        BY <2>2, <3>2, <4>1 DEF PhasesOK
      <4> QED BY <1>1, <1>6, <4>2
    <3> QED BY <3>3, <3>4
  <2>3. n # <<>>
    BY <1>1, <1>6, EmptySeq
  <2> QED BY <2>1, <2>2, <2>3 DEF PhasesOK
<1>9. 1 \in DOMAIN n /\ n # <<>>
  BY <1>1, <1>6, <1>8 DEF PhasesOK
<1> QED BY <1>5, <1>6, <1>7, <1>8, <1>9

LEMMA Prepended ==
  ASSUME NEW S, NEW x \in S, NEW v \in Seq(S)
  PROVE  LET n == <<x>> \o v IN
         /\ n \in Seq(S) /\ DOMAIN n = 1..(Len(v) + 1) /\ n[1] = x
         /\ \A k \in 2..(Len(v) + 1) : n[k] = v[k - 1]
OBVIOUS

\* A source could not be taken back: its servers stay with it.
LEMMA SkippedPhases ==
  ASSUME NEW ph \in PhaseLists, PhasesOK(ph), ph[1][1] = "takeBack", ph[2][1] = "detach", 3 \in DOMAIN ph,
         NEW n \in PhaseLists, DOMAIN n = 1..(Len(ph) - 1), n[1] = ph[1],
         \A k \in 2..(Len(ph) - 1) : n[k] = ph[k + 1]
  PROVE  /\ PhasesOK(n) /\ n # <<>> /\ 1 \in DOMAIN n
         /\ \A k \in DOMAIN n : k = 1 \/ (k + 1 \in DOMAIN ph /\ k + 1 # 1 /\ n[k] = ph[k + 1])
<1>1. DOMAIN ph = 1..Len(ph) /\ Len(ph) \in Nat /\ Len(ph) >= 3
  BY DEF PhaseLists
<1>2. 1 \in DOMAIN n /\ 2 \in DOMAIN n /\ n # <<>> /\ 1 \in DOMAIN ph /\ 2 \in DOMAIN ph
  BY <1>1, EmptySeq
<1>3. ASSUME NEW k \in DOMAIN n, k # 1 PROVE k + 1 \in DOMAIN ph /\ k + 1 # 1 /\ n[k] = ph[k + 1]
  BY <1>1, <1>3
<1>4. ASSUME NEW k \in DOMAIN n
      PROVE  /\ k + 1 \in DOMAIN n => n[k + 1][1] \in Follow(n[k][1])
             /\ k + 1 \notin DOMAIN n => n[k][1] = "done"
             /\ n[k][1] \in {"source", "takeBack", "detach"} => n[k][2] \in Sources
  BY <1>1, <1>2, <1>3 DEF PhasesOK, Follow
<1>5. ASSUME NEW j \in DOMAIN n, NEW k \in DOMAIN n, n[k][1] = "source", n[j][2] = n[k][2]
      PROVE  j = k
  <2>1. k # 1
    BY <1>5
  <2>2. k + 1 \in DOMAIN ph /\ k + 1 # 1 /\ n[k] = ph[k + 1]
    BY <1>3, <2>1
  <2>3. CASE j = 1
    BY <1>2, <1>5, <2>2, <2>3 DEF PhasesOK
  <2>4. CASE j # 1
    BY <1>3, <2>4, <1>5, <2>2, <1>1 DEF PhasesOK
  <2> QED BY <2>3, <2>4
<1> QED BY <1>2, <1>3, <1>4, <1>5 DEF PhasesOK

LEMMA SkipDetach ==
  ASSUME NEW ph \in PhaseLists, PhasesOK(ph), ph[1][1] = "takeBack", ph[2][1] = "detach"
  PROVE  LET n == <<Head(ph)>> \o Tail(Tail(ph)) IN
         /\ n \in PhaseLists /\ PhasesOK(n) /\ n # <<>> /\ n[1] = ph[1] /\ 1 \in DOMAIN n
         /\ \A k \in DOMAIN n : k = 1 \/ (k + 1 \in DOMAIN ph /\ k + 1 # 1 /\ n[k] = ph[k + 1])
<1> DEFINE t == Tail(ph)
           v == Tail(t)
           n == <<Head(ph)>> \o v
           P == PhaseNames \X (Sources \cup {None})
<1>1. /\ t \in PhaseLists /\ PhasesOK(t) /\ DOMAIN t = 1..(Len(ph) - 1) /\ Len(ph) \in Nat /\ DOMAIN ph = 1..Len(ph)
      /\ 1 \in DOMAIN ph /\ 1 \in DOMAIN t
      /\ \A k \in DOMAIN t : t[k] = ph[k + 1] /\ k + 1 \in DOMAIN ph
  BY PhaseTail
<1>2. t[1][1] = "detach" /\ Len(t) = Len(ph) - 1
  BY <1>1 DEF PhaseLists
<1>3. /\ v \in PhaseLists /\ DOMAIN v = 1..(Len(t) - 1) /\ 1 \in DOMAIN v
      /\ \A k \in DOMAIN v : v[k] = t[k + 1] /\ k + 1 \in DOMAIN t
  BY <1>1, <1>2, PhaseTail
<1>4. Head(ph) = ph[1] /\ ph[1] \in P
  BY <1>1 DEF PhaseLists
<1>5. \A k \in DOMAIN v : v[k] = ph[k + 2] /\ k + 2 \in DOMAIN ph
  BY <1>1, <1>2, <1>3
<1>6. Len(v) + 1 = Len(ph) - 1 /\ Len(v) \in Nat /\ DOMAIN v = 1..(Len(ph) - 2) /\ v \in Seq(P)
  BY <1>1, <1>2, <1>3 DEF PhaseLists
<1>7. 3 \in DOMAIN ph
  BY <1>1, <1>3, <1>5
<1> HIDE DEF t, v, P
<1>8. /\ n \in Seq(P) /\ DOMAIN n = 1..(Len(ph) - 1) /\ n[1] = ph[1]
      /\ \A k \in 2..(Len(ph) - 1) : n[k] = v[k - 1]
  BY <1>4, <1>6, Prepended
<1> HIDE DEF n
<1>9. \A k \in 2..(Len(ph) - 1) : n[k] = ph[k + 1]
  <2> SUFFICES ASSUME NEW k \in 2..(Len(ph) - 1) PROVE n[k] = ph[k + 1]
    OBVIOUS
  <2>1. k - 1 \in DOMAIN v /\ (k - 1) + 2 = k + 1
    BY <1>1, <1>6
  <2> QED BY <1>5, <1>8, <2>1
<1>10. n \in PhaseLists
  BY <1>8 DEF P, PhaseLists
<1> QED BY <1>7, <1>8, <1>9, <1>10, SkippedPhases DEF n, v, t

\* Records are saved with the proxies they have.
LEMMA PlainPuts ==
  ASSUME NEW op, NEW q, NEW R, NEW K, NEW A, Tidy(R, K, A),
         \A k \in DOMAIN q : q[k].do = "put" /\ q[k].id \in AllIds /\ ~Dead(R, q[k].id) /\ q[k].rec.proxy = R[q[k].id].proxy,
         \A j, k \in DOMAIN q : q[j].id = q[k].id => j = k
  PROVE  ListOK(op, q, R, K, A)
BY TidyList DEF Orderly, DelsOK, StoresOK, RestoresOK, PutsOK, Tidy, CallsOK

------------------------------------------------------------------------------
(* An import turns to its next calls, or ends *)

\* An import has nothing to undo.
LEMMA ImportTask ==
  ASSUME RecordInv, task.op = "import", NEW q \in CallLists, NEW n \in PhaseLists, PhasesOK(n)
  PROVE  LET w == [task EXCEPT !.calls = q, !.phase = n] IN
         /\ w \in Tasks /\ w.op = "import" /\ w.calls = q /\ w.undo = <<>> /\ w.phase = n /\ w.phase # <<>>
BY DEF RecordInv, TypeInv, RecTypes, ListInv, UndoOK, Tasks, PhasesOK

LEMMA NextCalls ==
  ASSUME RecordInv, task.op = "import", UNCHANGED <<recs, keys, forms, file, abandoned, stale>>,
         spent' \in Spending, spent.born \subseteq spent'.born,
         NEW q \in CallLists, NEW n \in PhaseLists, PhasesOK(n), task' = [task EXCEPT !.calls = q, !.phase = n],
         transfer' \in Transfers', transfer'.data = transfer.data, transfer'.mode = transfer.mode,
         \A i \in transfer'.imported : transfer.data.recs[i].rev # 0,
         n[1][1] # "start", n[1][1] = "takeBack" /\ q # <<>> => n[2][1] = "detach",
         ListOK("import", q, recs, keys, abandoned),
         PhaseCallsOK(n[1], q, recs, transfer'.imported, transfer.data),
         Brought(n[1][1], q, recs, transfer'),
         SourcesOK(n, recs, keys, abandoned, transfer'),
         n[1][1] \notin Early \cup {"links", "rules"} => LinksOK("import", q, recs, stale),
         SweepOK(n[1][1], q, recs)
  PROVE  RecordInv'
<1>1. /\ task' \in Tasks /\ task'.op = "import" /\ task'.calls = q /\ task'.undo = <<>> /\ task'.phase = n
      /\ task'.phase # <<>>
  BY ImportTask
<1>2. Phase' = n[1][1] /\ Phase' # "start"
  BY <1>1 DEF PhaseLists, Phase
<1>3. TypeInv'
  BY <1>1, FormsKept DEF RecordInv, TypeInv, RecTypes, TransferTyped, FileTyped
<1>4. DOMAIN <<>> = {}
  BY EmptySeq
<1>5. ListInv'
  BY <1>1, <1>2 DEF UndoOK, RecordInv, ListInv, ImportOK
<1>6. LinkInv'
  BY <1>4, <1>1, <1>2 DEF UndoLinks, LinkInv
<1> QED BY <1>3, <1>5, <1>6 DEF RecordInv

\* Of the links, an import does not care for what is yet to be called.
LEMMA ImportLinks ==
  ASSUME NEW q, NEW q2, NEW R, NEW S, LinksOK("import", q, R, S),
         \A k \in DOMAIN q2 : q2[k].do = "put" /\ q2[k].id \notin S => LinksTo("import", <<>>, 0, q2[k].id, q2[k].rec, R)
  PROVE  LinksOK("import", q2, R, S)
BY DEF LinksOK, LinksTo

\* The forgetting of what was stored, then the record itself.
LEMMA Followed ==
  ASSUME NEW u \in CallLists, NEW d \in CallSet
  PROVE  LET n == u \o <<d>> IN
         /\ n \in CallLists /\ n # <<>> /\ DOMAIN n = 1..(Len(u) + 1) /\ DOMAIN u = 1..Len(u) /\ Len(u) \in Nat
         /\ n[Len(u) + 1] = d
         /\ \A k \in DOMAIN u : n[k] = u[k]
BY EmptySeq DEF CallLists

\* A source whose credentials were stored, or are not there, may be taken back.
LEMMA TakeBackList ==
  ASSUME NEW s \in Sources, NEW u \in CallLists, NEW R, NEW K, NEW A, Tidy(R, K, A),
         \A k \in DOMAIN u : u[k].do = "store" /\ u[k].value = NoKey /\ u[k].id = s,
         \A f \in Fields : Fresh(s, f, K, A) \/ ForgetOf(u, s, f)
  PROVE  LET n == u \o <<Del(s)>> IN
         /\ n \in CallLists /\ n # <<>> /\ ListOK("import", n, R, K, A)
         /\ \A k \in DOMAIN n : n[k].id = s /\ (n[k].do = "del" \/ (n[k].do = "store" /\ n[k].value = NoKey))
<1> DEFINE n == u \o <<Del(s)>>
           m == Len(u) + 1
<1>1. Del(s) \in CallSet /\ Del(s).do = "del" /\ Del(s).id = s
  BY Ids DEF Del, CallSet, Dels
<1>2. /\ n \in CallLists /\ n # <<>> /\ DOMAIN n = 1..m /\ DOMAIN u = 1..Len(u) /\ Len(u) \in Nat /\ n[m] = Del(s)
      /\ \A k \in DOMAIN u : n[k] = u[k]
  BY <1>1, Followed
<1>3. \A k \in DOMAIN n : k = m \/ k \in DOMAIN u
  BY <1>2
<1>4. \A k \in DOMAIN n : n[k].id = s /\ (n[k].do = "del" \/ (n[k].do = "store" /\ n[k].value = NoKey))
  BY <1>1, <1>2, <1>3
<1>5. \A k \in DOMAIN n : n[k].do = "del" => k = m
  BY <1>2, <1>3
<1> HIDE DEF n
<1>6. DelsOK("import", n, K, A)
  BY <1>4, <1>5, <1>2 DEF DelsOK, ForgetOf, ForgetBefore, Fresh
<1>7. CallsOK("import", n, R, K, A)
  BY <1>4, <1>6 DEF CallsOK, Orderly, PutsOK, StoresOK, RestoresOK, NoKey
<1>8. ListOK("import", n, R, K, A)
  BY <1>7, TidyList
<1> QED BY <1>2, <1>4, <1>8 DEF n

\* What a rejected call of an import finds, and what it does in every phase.
LEMMA ImportRejectedFacts ==
  ASSUME RecordInv, ImportRejected
  PROVE  LET c == task.calls[1] IN
         /\ task.op = "import" /\ task.calls # <<>> /\ task.calls \in CallLists /\ c \in CallSet
         /\ Head(task.calls) = c /\ Head(task.phase) = task.phase[1] /\ 1 \in DOMAIN task.calls
         /\ UNCHANGED <<keys, forms, file>> /\ Whole(recs) /\ RecTypes
         /\ abandoned \subseteq abandoned' /\ stale \subseteq stale'
         /\ Rejection(recs, c, recs') /\ Whole(recs') /\ SameBut(recs, recs', c.id)
         /\ RejectedAs("import", c, recs, recs', abandoned')
         /\ c.do \notin {"put", "del"} => recs' = recs
         /\ c.do = "del" /\ c.id \in Sources => recs' = recs
         /\ spent' \in Spending /\ spent.born \subseteq spent'.born
         /\ \A i \in AllIds : Dead(recs', i) \/ i \in spent'.born
         /\ PhaseCallsOK(task.phase[1], task.calls, recs, transfer.imported, transfer.data)
         /\ ListOK("import", task.calls, recs, keys, abandoned)
         /\ Tidy(recs, keys, abandoned)
<1> DEFINE c == task.calls[1]
<1>1. /\ task.op = "import" /\ task.calls # <<>> /\ UNCHANGED <<keys, forms, file>>
      /\ \E committed \in BOOLEAN : recs' = AfterRejection(Head(task.calls), committed)
      /\ spent' = [OneRev EXCEPT !.rejections = @ + 1, !.born = @ \cup {i \in AllIds : recs'[i].rev # 0}]
  BY DEF ImportRejected
<1>2. /\ task.calls \in CallLists /\ Head(task.calls) = c /\ 1 \in DOMAIN task.calls /\ c \in CallSet
      /\ Whole(recs) /\ RecTypes /\ spent \in Spending
  BY <1>1, CallFacts
<1>3. Head(task.phase) = task.phase[1] /\ Phase = task.phase[1][1]
      /\ (Phase = "takeBack" => task.phase[1][2] \in Sources)
  BY <1>1, ImportFacts
<1>4. PhaseCallsOK(task.phase[1], task.calls, recs, transfer.imported, transfer.data)
  BY <1>1 DEF RecordInv, ListInv, ImportOK
<1>5. /\ abandoned \subseteq abandoned' /\ stale \subseteq stale'
      /\ c.do = "del" /\ c.id \in Servers => c.id \in abandoned'
  BY <1>1, ImportFacts, <1>2, <1>3, <1>4, Ids DEF ImportRejected, KeepsSecrets, PhaseCallsOK, PhaseNames
<1>6. PICK committed \in BOOLEAN : recs' = AfterRejection(Head(task.calls), committed)
  BY <1>1
<1>7. /\ Rejection(recs, c, recs') /\ Whole(recs') /\ SameBut(recs, recs', c.id)
      /\ RejectedAs(task.op, c, recs, recs', abandoned')
      /\ c.do \notin {"put", "del"} => recs' = recs
      /\ spent' \in Spending /\ \A i \in AllIds : Dead(recs', i) \/ i \in spent'.born
  BY <1>2, <1>5, <1>1, <1>6, RejectedFacts DEF c
<1>8. c.do = "del" /\ c.id \in Sources => recs' = recs
  BY <1>2, <1>6, Ids DEF AfterRejection
<1>9. spent.born \subseteq spent'.born
  BY <1>1, <1>2, SpentIs
<1>10. ListOK("import", task.calls, recs, keys, abandoned)
  BY <1>1 DEF RecordInv, ListInv
<1>11. Tidy(recs, keys, abandoned)
  BY <1>10, KeptTidy DEF Forms
<1> QED BY <1>1, <1>2, <1>3, <1>4, <1>5, <1>7, <1>8, <1>9, <1>10, <1>11

\* A setting that could not be stored is reported later.
LEMMA SettingsRejected ==
  ASSUME RecordInv, ImportRejected, Phase = "settings"
  PROVE  RecordInv'
BY ImportRejectedFacts, ImportFacts, TransferWith, SettingsStep DEF PhaseCallsOK, ImportRejected, Transfers,
   SameImport

\* A credential that could not be deleted again is abandoned.
LEMMA TakeBackRejected ==
  ASSUME RecordInv, ImportRejected, Phase = "takeBack", Head(task.calls).do # "del"
  PROVE  RecordInv'
<1> DEFINE q == task.calls
           t == Tail(task.calls)
           c == task.calls[1]
<1>1. /\ task.op = "import" /\ q # <<>> /\ q \in CallLists /\ c \in CallSet /\ Head(q) = c /\ 1 \in DOMAIN q
      /\ UNCHANGED <<keys, forms, file>> /\ Whole(recs) /\ RecTypes
      /\ c.do \notin {"put", "del"} => recs' = recs
      /\ spent' \in Spending /\ spent.born \subseteq spent'.born
      /\ \A i \in AllIds : Dead(recs', i) \/ i \in spent'.born
      /\ PhaseCallsOK(task.phase[1], q, recs, transfer.imported, transfer.data)
      /\ ListOK("import", q, recs, keys, abandoned)
  BY ImportRejectedFacts
<1>2. /\ Phase = task.phase[1][1] /\ Phase \in PhaseNames /\ transfer.imported \subseteq AllIds
      /\ PhasesOK(task.phase) /\ task.phase[1][2] \in Sources
  BY <1>1, ImportFacts
<1>3. c.do = "store" /\ c.id = task.phase[1][2]
  BY <1>1, <1>2 DEF PhaseCallsOK
<1>4. task' = Next1 /\ abandoned' = abandoned \cup {c.id} /\ UNCHANGED <<transfer, stale>>
  BY <1>1 DEF ImportRejected
<1>5. recs' = recs /\ c.id \in AllIds /\ abandoned' \in SUBSET AllIds
  BY <1>1, <1>2, <1>3, <1>4, Ids DEF RecTypes
<1>6. TypeInv'
  BY <1>1, FormsKept, <1>4, <1>5, CallTypes DEF RecordInv, TypeInv, RecTypes
<1>7. ListOK(task.op, t, recs', keys', abandoned')
  <2>1. q \in CallLists /\ q # <<>> /\ SameBut(recs, recs, q[1].id) /\ q[1].id \in abandoned'
        /\ abandoned \subseteq abandoned'
    BY <1>1, <1>4 DEF SameBut
  <2>2. ListOK("import", t, recs, keys, abandoned')
    BY <1>1, <2>1, CallSkipped
  <2> QED BY <1>1, <1>5, <2>2
<1>8. LinksOK(task.op, q, recs, stale) => LinksOK(task.op, t, recs', stale')
  BY <1>1, <1>3, <1>4, <1>5, LinksAfterOther
<1>9. UndoOK(task.op, t, task.undo, keys', abandoned') /\ UndoLinks(task.undo, recs', stale')
  <2>1. UndoOK(task.op, q, task.undo, keys, abandoned) /\ UndoLinks(task.undo, recs, stale) /\ abandoned \subseteq abandoned'
    BY <1>4 DEF RecordInv, ListInv, LinkInv
  <2>2. UndoOK(task.op, t, task.undo, keys, abandoned')
    BY <1>1, <2>1, UndoKept
  <2> QED BY <1>1, <1>4, <1>5, <2>1, <2>2
<1>10. /\ PhaseCallsOK(task.phase[1], t, recs', transfer.imported, transfer.data)
       /\ Brought(Phase, t, recs', transfer')
       /\ SourcesOK(task.phase, recs', keys', abandoned', transfer')
       /\ SweepOK(Phase, t, recs')
  BY <1>1, <1>2, <1>5, PhaseCallsRest, <1>3, <1>4, BroughtOther, SourcesKept DEF RecordInv, ListInv, ImportOK,
     Sweeping, q, t, SameImport, Fresh, SweepOK
<1>11. ImportOK' /\ Phase' = Phase
  BY <1>1, <1>4, <1>10, ImportGoesOn DEF SameImport
<1>12. LinkInv' /\ UndoOK(task.op, task.calls, task.undo, keys, abandoned)'
       /\ ListOK(task.op, task.calls, recs, keys, abandoned)'
  BY <1>1, <1>4, <1>7, <1>8, <1>9, <1>10, <1>11, LinksGoOn
<1>13. FileBound(file, abandoned)'
  BY <1>1, <1>4 DEF RecordInv, ListInv, FileBound
<1> QED BY <1>6, <1>11, <1>12, <1>13 DEF RecordInv, ListInv

\* A server could not be marked as detached from the source that was taken back.
LEMMA DetachRejected ==
  ASSUME RecordInv, ImportRejected, Phase = "detach"
  PROVE  RecordInv'
<1> DEFINE q == task.calls
           t == Tail(task.calls)
           c == task.calls[1]
<1>1. /\ task.op = "import" /\ q # <<>> /\ q \in CallLists /\ c \in CallSet /\ Head(q) = c /\ 1 \in DOMAIN q
      /\ UNCHANGED <<keys, forms, file>> /\ Whole(recs) /\ RecTypes
      /\ Rejection(recs, c, recs') /\ Whole(recs') /\ SameBut(recs, recs', c.id)
      /\ spent' \in Spending /\ spent.born \subseteq spent'.born
      /\ \A i \in AllIds : Dead(recs', i) \/ i \in spent'.born
      /\ PhaseCallsOK(task.phase[1], q, recs, transfer.imported, transfer.data)
      /\ ListOK("import", q, recs, keys, abandoned)
  BY ImportRejectedFacts
<1>2. /\ Phase = task.phase[1][1] /\ Phase \in PhaseNames /\ transfer.imported \subseteq AllIds
      /\ PhasesOK(task.phase)
  BY <1>1, ImportFacts
<1>3. c.do = "put" /\ c.id \in AllIds /\ ~Dead(recs, c.id) /\ c.rec.proxy = recs[c.id].proxy
  BY <1>1, <1>2, CallKinds DEF PhaseCallsOK
<1>4. task' = Next1 /\ UNCHANGED <<transfer, stale, abandoned>>
  BY <1>1 DEF ImportRejected
<1>5. recs' = recs \/ Saved(recs, recs', c.id, c.rec)
  BY <1>1, <1>3 DEF Rejection
<1>6. /\ ~Dead(recs', c.id) /\ recs'[c.id].proxy = c.rec.proxy
      /\ \A j \in AllIds : ~Dead(recs, j) => ~Dead(recs', j)
  BY <1>3, <1>5, SavedSame DEF Saved
<1>7. TypeInv'
  BY <1>1, FormsKept, <1>4, CallTypes DEF RecordInv, TypeInv, RecTypes
<1>8. ListOK(task.op, t, recs', keys', abandoned')
  <2>1. ListOK("import", t, recs', keys, abandoned)
    BY <1>1, <1>3, <1>6, PutMade
  <2> QED BY <1>1, <1>4, <2>1
<1>9. LinksOK(task.op, q, recs, stale) /\ LinksOK(task.op, t, recs', stale')
  <2>1. LinksOK("import", q, recs, stale)
    BY <1>1, <1>2 DEF RecordInv, LinkInv, Early
  <2>2. Orderly(q)
    BY <1>1 DEF ListOK, CallsOK
  <2>3. LinksKept(recs', stale)
    BY <1>1, <1>3, <2>1, <2>2, KeptAfterRejection
  <2>4. LinksOK("import", t, recs', stale)
    BY <1>1, <2>1, <2>2, <2>3, PutsAfterRejection
  <2> QED BY <1>1, <1>4, <2>1, <2>4
<1>10. UndoOK(task.op, t, task.undo, keys', abandoned') /\ UndoLinks(task.undo, recs', stale')
  BY <1>1, UndoKept, EmptySeq, <1>4 DEF RecordInv, ListInv, UndoOK, UndoLinks
<1>11. /\ PhaseCallsOK(task.phase[1], t, recs', transfer.imported, transfer.data)
       /\ Brought(Phase, t, recs', transfer')
       /\ SourcesOK(task.phase, recs', keys', abandoned', transfer')
       /\ SweepOK(Phase, t, recs')
  <2>1. /\ Brought(Phase, q, recs, transfer) /\ SourcesOK(task.phase, recs, keys, abandoned, transfer)
    BY <1>1 DEF RecordInv, ListInv, ImportOK
  <2>2. PhaseCallsOK(task.phase[1], t, recs', transfer.imported, transfer.data)
    <3>1. KeepsProxies(recs, recs')
      BY <1>1, <1>2, SweepKeeps, <1>5 DEF KeepsProxies, Sweeping
    <3>2. q \in CallLists /\ q # <<>>
      BY <1>1
    <3> HIDE DEF q, t, c
    <3>3. t = Tail(q)
      BY DEF q, t
    <3> QED BY <1>1, <3>1, <3>2, <3>3, PhaseCallsRest
  <2>3. Brought(Phase, t, recs', transfer')
    <3>1. CASE recs' = recs
      BY <1>1, <1>2, <1>4, <2>1, <3>1, BroughtOther DEF SameImport, Early
    <3>2. CASE Saved(recs, recs', c.id, c.rec)
      BY <1>1, <1>2, <1>3, <1>4, <2>1, <3>2, BroughtPut
    <3> QED BY <1>5, <3>1, <3>2
  <2>4. SourcesOK(task.phase, recs', keys', abandoned', transfer')
    BY <1>2, Ids, <1>1, <1>4, <1>6, <2>1, SourcesKept DEF PhasesOK, SameImport
  <2> QED BY <1>2, <2>2, <2>3, <2>4 DEF SweepOK
<1>12. ImportOK' /\ Phase' = Phase
  BY <1>1, <1>4, <1>11, ImportGoesOn DEF SameImport
<1>13. LinkInv' /\ UndoOK(task.op, task.calls, task.undo, keys, abandoned)'
       /\ ListOK(task.op, task.calls, recs, keys, abandoned)'
  BY <1>1, <1>4, <1>8, <1>9, <1>10, <1>11, <1>12, LinksGoOn
<1>14. FileBound(file, abandoned)'
  BY <1>1, <1>4 DEF RecordInv, ListInv, FileBound
<1> QED BY <1>7, <1>12, <1>13, <1>14 DEF RecordInv, ListInv

\* A credential of a source could not be stored: the source is to be taken back.
LEMMA SourceRejected ==
  ASSUME RecordInv, ImportRejected, Phase = "source"
  PROVE  RecordInv'
<1> DEFINE ph == task.phase
           s == task.phase[1][2]
           u == transfer.stored
           n == u \o <<Del(s)>>
           m == <<<<"takeBack", s>>, <<"detach", s>>>> \o Tail(ph)
<1>1. /\ task.op = "import" /\ task.calls # <<>> /\ Head(ph) = ph[1]
      /\ UNCHANGED <<keys, forms, file>>
      /\ task.calls[1].do \notin {"put", "del"} => recs' = recs
      /\ spent' \in Spending /\ spent.born \subseteq spent'.born /\ 1 \in DOMAIN task.calls
      /\ PhaseCallsOK(ph[1], task.calls, recs, transfer.imported, transfer.data)
      /\ Tidy(recs, keys, abandoned)
  BY ImportRejectedFacts
<1>2. /\ Phase = ph[1][1] /\ s \in Sources /\ PhasesOK(ph) /\ ph \in PhaseLists /\ u \in CallLists /\ transfer \in Transfers
      /\ 1 \in DOMAIN ph
  BY <1>1, ImportFacts
<1>3. task.calls[1].do = "store" /\ s \in transfer.imported
  BY <1>1, <1>2 DEF PhaseCallsOK
<1>4. /\ task' = [task EXCEPT !.calls = n, !.phase = m]
      /\ transfer' = [transfer EXCEPT !.clean = FALSE] /\ UNCHANGED <<recs, abandoned, stale>>
  BY <1>1, <1>3 DEF ImportRejected, TakeBack
<1>5. /\ m \in PhaseLists /\ PhasesOK(m) /\ m[1] = <<"takeBack", s>> /\ m[2] = <<"detach", s>>
      /\ \A k \in DOMAIN m : k = 1 \/ k = 2 \/ (k - 1 \in DOMAIN ph /\ k - 1 # 1 /\ m[k] = ph[k - 1])
  BY <1>2, TakeBackPhases
<1>6. SourcesOK(ph, recs, keys, abandoned, transfer) /\ Brought("source", task.calls, recs, transfer)
      /\ \A i \in transfer.imported : transfer.data.recs[i].rev # 0
  BY <1>1 DEF RecordInv, ListInv, ImportOK
<1>7. /\ \A k \in DOMAIN u : u[k].do = "store" /\ u[k].value = NoKey /\ u[k].id = s
      /\ \A f \in Fields : Fresh(s, f, keys, abandoned) \/ ForgetOf(u, s, f)
  BY <1>2, <1>3, <1>6 DEF SourcesOK
<1>8. /\ n \in CallLists /\ n # <<>> /\ ListOK("import", n, recs, keys, abandoned)
      /\ \A k \in DOMAIN n : n[k].id = s /\ (n[k].do = "del" \/ (n[k].do = "store" /\ n[k].value = NoKey))
  BY <1>1, <1>2, <1>7, TakeBackList
<1>9. transfer' \in Transfers' /\ SameImport(transfer, transfer') /\ transfer'.stored = u
  BY <1>2, <1>4, TransferWith DEF Transfers
<1>10. m[1][1] = "takeBack" /\ m[1][2] = s /\ m[2][1] = "detach"
  BY <1>5
<1>11. PhaseCallsOK(m[1], n, recs, transfer'.imported, transfer.data)
  BY <1>8, <1>10 DEF PhaseCallsOK
<1>12. Brought(m[1][1], n, recs, transfer')
  BY <1>6, <1>9, <1>10 DEF Brought, SameImport, Early
<1>13. SourcesOK(m, recs, keys, abandoned, transfer')
  BY <1>2, <1>6, <1>10, <1>5, <1>9, <1>7 DEF Early, SourcesOK, SameImport
<1>14. LinksOK("import", n, recs, stale)
  <2>1. LinksOK("import", task.calls, recs, stale)
    BY <1>1 DEF RecordInv, LinkInv, Early
  <2>2. \A k \in DOMAIN n : n[k].do # "put"
    BY <1>8
  <2> HIDE DEF n
  <2> QED BY <2>1, <2>2, ImportLinks
<1>15. SweepOK(m[1][1], n, recs)
  BY <1>10 DEF SweepOK
<1> HIDE DEF n, m, s, ph, u
<1> QED BY <1>1, <1>4, <1>5, <1>6, <1>8, <1>9, <1>10, <1>11, <1>12, <1>13, <1>14, <1>15, NextCalls DEF SameImport

\* A source that was to be taken back could not be: it stays, with its servers.
LEMMA StaysRejected ==
  ASSUME RecordInv, ImportRejected, Phase = "takeBack", Head(task.calls).do = "del"
  PROVE  RecordInv'
<1> DEFINE ph == task.phase
           m == <<Head(ph)>> \o Tail(Tail(ph))
<1>1. /\ task.op = "import" /\ task.calls # <<>> /\ Head(task.calls) = task.calls[1] /\ 1 \in DOMAIN task.calls
      /\ UNCHANGED <<keys, forms, file>>
      /\ task.calls[1].do = "del" /\ task.calls[1].id \in Sources => recs' = recs
      /\ spent' \in Spending /\ spent.born \subseteq spent'.born
      /\ PhaseCallsOK(ph[1], task.calls, recs, transfer.imported, transfer.data)
      /\ Tidy(recs, keys, abandoned)
  BY ImportRejectedFacts
<1>2. /\ Phase = ph[1][1] /\ ph[1][2] \in Sources /\ PhasesOK(ph) /\ ph \in PhaseLists /\ transfer \in Transfers
  BY <1>1, ImportFacts
<1>3. task' = [task EXCEPT !.calls = <<>>, !.phase = m] /\ UNCHANGED <<transfer, abandoned, stale>>
  BY <1>1 DEF ImportRejected
<1>4. recs' = recs
  BY <1>1, <1>2 DEF PhaseCallsOK
<1>5. /\ SourcesOK(ph, recs, keys, abandoned, transfer) /\ Brought("takeBack", task.calls, recs, transfer)
      /\ \A i \in transfer.imported : transfer.data.recs[i].rev # 0
      /\ ph[2][1] = "detach"
  BY <1>1 DEF RecordInv, ListInv, ImportOK
<1>6. /\ m \in PhaseLists /\ PhasesOK(m) /\ m[1] = ph[1]
      /\ \A k \in DOMAIN m : k = 1 \/ (k + 1 \in DOMAIN ph /\ k + 1 # 1 /\ m[k] = ph[k + 1])
  BY <1>2, <1>5, SkipDetach
<1>7. DOMAIN <<>> = {} /\ <<>> \in CallLists
  BY EmptySeq DEF CallLists
<1> HIDE DEF m
<1>8. PhaseCallsOK(m[1], <<>>, recs, transfer'.imported, transfer.data)
  BY <1>7 DEF PhaseCallsOK
<1>9. Brought(m[1][1], <<>>, recs, transfer')
  BY <1>2, <1>3, <1>5, <1>6 DEF Brought, Early
<1>10. SourcesOK(m, recs, keys, abandoned, transfer')
  BY <1>2, <1>5, <1>6, <1>3 DEF Early, SourcesOK
<1>11. LinksOK("import", <<>>, recs, stale)
  BY <1>1, <1>7, ImportLinks DEF RecordInv, LinkInv, Early
<1>12. SweepOK(m[1][1], <<>>, recs)
  BY <1>2, <1>6 DEF SweepOK
<1>13. ListOK("import", <<>>, recs, keys, abandoned)
  BY <1>1, NothingLeft
<1>14. transfer' \in Transfers'
  BY <1>2, <1>3 DEF Transfers
<1>15. m[1][1] # "start"
  BY <1>2, <1>6
<1> HIDE DEF ph
<1> QED BY <1>1, <1>3, <1>4, <1>5, <1>6, <1>7, <1>8, <1>9, <1>10, <1>11, <1>12, <1>13, <1>14, <1>15, NextCalls

\* The import ends with an error.
LEMMA ImportGivenUp ==
  ASSUME RecordInv, ImportRejected, Phase \notin {"settings", "source", "takeBack", "detach"}
  PROVE  RecordInv'
<1> DEFINE q == task.calls
           c == task.calls[1]
<1>1. /\ task.op = "import" /\ q # <<>> /\ q \in CallLists /\ c \in CallSet /\ Head(q) = c /\ 1 \in DOMAIN q
      /\ UNCHANGED <<keys, forms, file>> /\ Whole(recs) /\ RecTypes
      /\ abandoned \subseteq abandoned' /\ stale \subseteq stale'
      /\ Rejection(recs, c, recs') /\ Whole(recs') /\ SameBut(recs, recs', c.id)
      /\ RejectedAs("import", c, recs, recs', abandoned')
      /\ spent' \in Spending /\ spent.born \subseteq spent'.born
      /\ \A i \in AllIds : Dead(recs', i) \/ i \in spent'.born
      /\ PhaseCallsOK(task.phase[1], q, recs, transfer.imported, transfer.data)
      /\ ListOK("import", q, recs, keys, abandoned)
  BY ImportRejectedFacts
<1>2. Phase = task.phase[1][1]
  BY <1>1, ImportFacts
<1>3. /\ task' = IdleTask /\ transfer' = NoTransfer
      /\ Phase \in {"wipe", "add", "links", "rules", "carry", "secrets"}
      /\ abandoned' \in {abandoned, abandoned \cup {c.id}}
      /\ c.do # "del" => abandoned' = abandoned
      /\ stale' = IF Phase \in {"wipe", "add", "links", "rules"} THEN stale \cup AllIds ELSE stale
  BY <1>1 DEF ImportRejected
<1>4. abandoned' \in SUBSET AllIds /\ stale' \in SUBSET AllIds
  BY <1>1, CallKinds, <1>3 DEF RecTypes
<1>5. TypeInv'
  BY <1>3, <1>1, <1>4, FormsKept DEF IdleTask, Tasks, Ops, CallLists, PhaseLists, RecTypes, RecordInv, TypeInv,
     TransferTyped, NoTransfer, Transfers, FileTyped
<1>6. Tidy(recs', keys', abandoned')
  BY <1>1, RejectedTidy DEF Forms
<1>7. LinksKept(recs', stale')
  BY <1>3, <1>1, <1>2, KeptAfterRejection DEF LinksKept, RecordInv, LinkInv, Early, ListOK, CallsOK, PhaseCallsOK
<1>8. FileBound(file', abandoned')
  BY <1>1 DEF RecordInv, ListInv, FileBound
<1>9. ListInv' /\ LinkInv'
  <2>1. task'.op = "idle" /\ task'.calls = <<>> /\ task'.undo = <<>>
    BY <1>3 DEF IdleTask
  <2> QED BY <1>6, <1>7, <1>8, <2>1, Settled
<1> QED BY <1>5, <1>9 DEF RecordInv

LEMMA ImportRejectedStep ==
  ASSUME RecordInv, ImportRejected
  PROVE  RecordInv'
BY SettingsRejected, TakeBackRejected, DetachRejected, SourceRejected, StaysRejected, ImportGivenUp

------------------------------------------------------------------------------
(* Lists made of sets of records *)

\* EachOf() names every element once.
LEMMA EachOfLists ==
  ASSUME NEW S, IsFiniteSet(S)
  PROVE  LET q == EachOf(S) IN
         /\ Cardinality(S) \in Nat /\ q \in Seq(S) /\ DOMAIN q = 1..Cardinality(S) /\ Len(q) = Cardinality(S)
         /\ \A k \in DOMAIN q : q[k] \in S
         /\ \A j, k \in DOMAIN q : q[j] = q[k] => j = k
         /\ \A x \in S : \E k \in DOMAIN q : q[k] = x
<1> DEFINE N == Cardinality(S)
           q == EachOf(S)
<1>1. N \in Nat /\ ExistsBijection(1..N, S)
  BY FS_CardinalityType
<1>2. PICK g \in Bijection(1..N, S) : TRUE
  BY <1>1 DEF ExistsBijection
<1>3. g \in [1..N -> S] /\ IsInjective(g)
  BY <1>2 DEF Bijection, Injection
<1>4. q \in [1..N -> S] /\ IsInjective(q)
  BY <1>3 DEF EachOf
<1>5. q \in Injection(1..N, S)
  BY <1>4 DEF Injection
<1>6. Cardinality(1..N) = N
  BY <1>1, FS_Interval
<1>7. q \in Surjection(1..N, S)
  BY <1>5, <1>6, FS_Injection
<1>8. \A x \in S : \E k \in 1..N : q[k] = x
  BY <1>7 DEF Surjection
<1>9. \A j, k \in DOMAIN q : q[j] = q[k] => j = k
  BY <1>4 DEF IsInjective
<1> HIDE DEF q
<1>10. DOMAIN q = 1..N /\ q \in Seq(S) /\ Len(q) = N
  BY <1>1, <1>4
<1>11. \A k \in DOMAIN q : q[k] \in S
  BY <1>4
<1> HIDE DEF N
<1> QED BY <1>1, <1>8, <1>9, <1>10, <1>11 DEF q, N

LEMMA FiniteIds ==
  /\ \A S \in SUBSET AllIds : IsFiniteSet(S)
  /\ \A S \in SUBSET (AllIds \X Fields) : IsFiniteSet(S)
<1>1. IsFiniteSet(AllIds)
  BY RecordAssumption
<1>2. IsFiniteSet(Fields)
  <2>1. IsFiniteSet({}) /\ IsFiniteSet({} \cup {"login"}) /\ IsFiniteSet(({} \cup {"login"}) \cup {"proxy"})
    BY FS_EmptySet, FS_AddElement
  <2>2. ({} \cup {"login"}) \cup {"proxy"} = Fields
    BY DEF Fields
  <2> QED BY <2>1, <2>2
<1>3. IsFiniteSet(AllIds \X Fields)
  BY <1>1, <1>2, FS_Product
<1> QED BY <1>1, <1>3, FS_Subset

\* One list after the other.
LEMMA Joined ==
  ASSUME NEW l \in CallLists, NEW m \in CallLists
  PROVE  LET n == l \o m IN
         /\ n \in CallLists /\ DOMAIN n = 1..(Len(l) + Len(m)) /\ Len(l) \in Nat /\ Len(m) \in Nat
         /\ DOMAIN l = 1..Len(l) /\ DOMAIN m = 1..Len(m)
         /\ \A k \in DOMAIN l : k \in DOMAIN n /\ n[k] = l[k]
         /\ \A k \in DOMAIN m : k + Len(l) \in DOMAIN n /\ n[k + Len(l)] = m[k]
         /\ \A k \in DOMAIN n : k \in DOMAIN l \/ (k - Len(l) \in DOMAIN m /\ n[k] = m[k - Len(l)])
BY DEF CallLists

\* One call for each of these records.
Covers(l, S) ==
  /\ l \in CallLists
  /\ \A k \in DOMAIN l : l[k].id \in S
  /\ \A j, k \in DOMAIN l : l[j].id = l[k].id => j = k
  /\ \A x \in S : \E k \in DOMAIN l : l[k].id = x

\* What a list says of all its calls, l \o m says too.
LEMMA BothCover ==
  ASSUME NEW l \in CallLists, NEW m \in CallLists, NEW S, NEW T, Covers(l, S), Covers(m, T), S \cap T = {}
  PROVE  /\ Covers(l \o m, S \cup T)
         /\ \A k \in DOMAIN (l \o m) :
              (\E j \in DOMAIN l : (l \o m)[k] = l[j]) \/ (\E j \in DOMAIN m : (l \o m)[k] = m[j])
<1> DEFINE n == l \o m
<1>2. /\ n \in CallLists /\ DOMAIN n = 1..(Len(l) + Len(m)) /\ Len(l) \in Nat /\ Len(m) \in Nat
      /\ DOMAIN l = 1..Len(l) /\ DOMAIN m = 1..Len(m)
      /\ \A k \in DOMAIN l : k \in DOMAIN n /\ n[k] = l[k]
      /\ \A k \in DOMAIN m : k + Len(l) \in DOMAIN n /\ n[k + Len(l)] = m[k]
      /\ \A k \in DOMAIN n : k \in DOMAIN l \/ (k - Len(l) \in DOMAIN m /\ n[k] = m[k - Len(l)])
  BY Joined
<1> HIDE DEF n
<1>3. \A k \in DOMAIN n : n[k].id \in S \cup T
  BY <1>2 DEF Covers
<1>4. ASSUME NEW j \in DOMAIN n, NEW k \in DOMAIN n, n[j].id = n[k].id PROVE j = k
  <2>1. CASE j \in DOMAIN l /\ k \in DOMAIN l
    BY <1>2, <1>4, <2>1 DEF Covers
  <2>2. CASE j \notin DOMAIN l /\ k \notin DOMAIN l
    <3>1. j - Len(l) = k - Len(l)
      BY <1>2, <1>4, <2>2 DEF Covers
    <3> QED BY <1>2, <3>1
  <2>3. CASE j \in DOMAIN l /\ k \notin DOMAIN l
    BY <1>2, <1>4, <2>3 DEF Covers
  <2>4. CASE j \notin DOMAIN l /\ k \in DOMAIN l
    BY <1>2, <1>4, <2>4 DEF Covers
  <2> QED BY <2>1, <2>2, <2>3, <2>4
<1>5. ASSUME NEW x \in S \cup T PROVE \E k \in DOMAIN n : n[k].id = x
  BY <1>2 DEF Covers
<1>6. \A k \in DOMAIN n : (\E j \in DOMAIN l : n[k] = l[j]) \/ (\E j \in DOMAIN m : n[k] = m[j])
  BY <1>2
<1> QED BY <1>2, <1>3, <1>4, <1>5, <1>6 DEF Covers, n

------------------------------------------------------------------------------
(* Lists that only delete *)

Clears(c) == c.do \in {"del", "settings"} \/ (c.do = "store" /\ c.value = NoKey)

LEMMA ClearingOK ==
  ASSUME NEW op, NEW q, NEW R, NEW K, NEW A, Tidy(R, K, A), \A k \in DOMAIN q : Clears(q[k]), DelsOK(op, q, K, A)
  PROVE  ListOK(op, q, R, K, A)
BY TidyList DEF CallsOK, Clears, Orderly, PutsOK, StoresOK, RestoresOK

\* The entries of these records are deleted before them.
ForgottenFirst(q, S) ==
  \A k \in DOMAIN q, f \in Fields : q[k].do = "del" /\ q[k].id \in S => ForgetBefore(q, k, q[k].id, f)

LEMMA ForgottenJoined ==
  ASSUME NEW l \in CallLists, NEW m \in CallLists, NEW S, ForgottenFirst(l, S),
         ForgottenFirst(m, S) \/ \A i \in S, f \in Fields : DelOf(m, i) => ForgetOf(l, i, f)
  PROVE  ForgottenFirst(l \o m, S)
<1> DEFINE n == l \o m
<1>1. /\ n \in CallLists /\ DOMAIN n = 1..(Len(l) + Len(m)) /\ Len(l) \in Nat /\ Len(m) \in Nat
      /\ DOMAIN l = 1..Len(l) /\ DOMAIN m = 1..Len(m)
      /\ \A k \in DOMAIN l : k \in DOMAIN n /\ n[k] = l[k]
      /\ \A k \in DOMAIN m : k + Len(l) \in DOMAIN n /\ n[k + Len(l)] = m[k]
      /\ \A k \in DOMAIN n : k \in DOMAIN l \/ (k - Len(l) \in DOMAIN m /\ n[k] = m[k - Len(l)])
  BY Joined
<1> HIDE DEF n
<1> SUFFICES ASSUME NEW k \in DOMAIN n, NEW f \in Fields, n[k].do = "del", n[k].id \in S
             PROVE  ForgetBefore(n, k, n[k].id, f)
  BY DEF ForgottenFirst, n
<1> DEFINE i == n[k].id
<1>2. CASE k \in DOMAIN l
  BY <1>1, <1>2 DEF ForgottenFirst, ForgetBefore
<1>3. CASE k \notin DOMAIN l
  <2>1. k - Len(l) \in DOMAIN m /\ n[k] = m[k - Len(l)]
    BY <1>1, <1>3
  <2>2. CASE ForgottenFirst(m, S)
    <3>1. ForgetBefore(m, k - Len(l), i, f)
      BY <2>1, <2>2 DEF ForgottenFirst
    <3>2. PICK j \in DOMAIN m : j < k - Len(l) /\ IsForget(m[j], i, f)
      BY <3>1 DEF ForgetBefore
    <3>3. j + Len(l) \in DOMAIN n /\ n[j + Len(l)] = m[j] /\ j + Len(l) < k
      BY <1>1, <3>2
    <3> QED BY <3>2, <3>3 DEF ForgetBefore
  <2>3. CASE \A x \in S, g \in Fields : DelOf(m, x) => ForgetOf(l, x, g)
    <3>1. DelOf(m, i)
      BY <2>1 DEF DelOf
    <3>2. ForgetOf(l, i, f)
      BY <2>3, <3>1
    <3>3. PICK j \in DOMAIN l : IsForget(l[j], i, f)
      BY <3>2 DEF ForgetOf
    <3>4. j \in DOMAIN n /\ n[j] = l[j] /\ j < k
      BY <1>1, <1>3, <3>3
    <3> QED BY <3>3, <3>4 DEF ForgetBefore
  <2> QED BY <2>2, <2>3
<1> QED BY <1>2, <1>3

LEMMA Thirds == \A n \in Nat : \E j \in Nat : n = 3 * j \/ n = 3 * j + 1 \/ n = 3 * j + 2
<1> SUFFICES ASSUME NEW n \in Nat PROVE \E j \in Nat : n = 3 * j \/ n = 3 * j + 1 \/ n = 3 * j + 2
  OBVIOUS
<1>1. n \div 3 \in Nat /\ (n = 3 * (n \div 3) \/ n = 3 * (n \div 3) + 1 \/ n = 3 * (n \div 3) + 2)
  OBVIOUS
<1> QED BY <1>1

LEMMA Halves ==
  \A j \in Nat : (2 * j) \div 2 = j /\ (2 * j) % 2 = 0 /\ (2 * j + 1) \div 2 = j /\ (2 * j + 1) % 2 = 1
OBVIOUS

LEMMA ForgetIs ==
  ASSUME NEW i \in AllIds \ Templates, NEW f \in Fields
  PROVE  Forget(i, f) \in CallSet /\ IsForget(Forget(i, f), i, f) /\ Clears(Forget(i, f)) /\ Forget(i, f).do = "store"
BY DEF Forget, CallSet, Stores, IsForget, Clears, NoKey

LEMMA DelIs ==
  ASSUME NEW i \in AllIds
  PROVE  Del(i) \in CallSet /\ Del(i).do = "del" /\ Del(i).id = i /\ Clears(Del(i))
BY DEF Del, CallSet, Dels, Clears

\* Every record of the list goes, its two entries first.
LEMMA Removing ==
  ASSUME NEW ids \in Seq(AllIds \ Templates)
  PROVE  LET r == RemoveEach(ids) IN
         /\ r \in CallLists
         /\ \A k \in DOMAIN r : Clears(r[k]) /\ r[k].do \in {"del", "store"}
         /\ ForgottenFirst(r, AllIds)
         /\ \A j \in DOMAIN ids : DelOf(r, ids[j])
<1> DEFINE r == RemoveEach(ids)
           L == Len(ids)
<1>1. L \in Nat /\ DOMAIN ids = 1..L /\ \A j \in 1..L : ids[j] \in AllIds \ Templates
  OBVIOUS
<1>2. DOMAIN r = 1..(3 * L)
  BY DEF RemoveEach
<1>3. ASSUME NEW j \in 1..L
      PROVE  /\ r[3 * j - 2] = Forget(ids[j], "login") /\ r[3 * j - 1] = Forget(ids[j], "proxy") /\ r[3 * j] = Del(ids[j])
             /\ 3 * j - 2 \in 1..(3 * L) /\ 3 * j - 1 \in 1..(3 * L) /\ 3 * j \in 1..(3 * L)
  <2> DEFINE w == <<Forget(ids[j], "login"), Forget(ids[j], "proxy"), Del(ids[j])>>
             p == j - 1
  <2>1. p \in Nat /\ 3 * j - 2 = 3 * p + 1 /\ 3 * j - 1 = 3 * p + 2 /\ 3 * j = 3 * p + 3 /\ j = p + 1
    BY <1>1
  <2>2. 3 * j - 2 \in 1..(3 * L) /\ 3 * j - 1 \in 1..(3 * L) /\ 3 * j \in 1..(3 * L)
    BY <1>1
  <2>3. \A n \in 1..(3 * L) : r[n] = (LET i == ids[(n + 2) \div 3] IN <<Forget(i, "login"), Forget(i, "proxy"), Del(i)>>[((n - 1) % 3) + 1])
    BY DEF RemoveEach
  <2>4. /\ ((3 * j - 2) + 2) \div 3 = j /\ (((3 * j - 2) - 1) % 3) + 1 = 1
        /\ ((3 * j - 1) + 2) \div 3 = j /\ (((3 * j - 1) - 1) % 3) + 1 = 2
        /\ ((3 * j) + 2) \div 3 = j /\ (((3 * j) - 1) % 3) + 1 = 3
    BY <1>1
  <2>5. w[1] = Forget(ids[j], "login") /\ w[2] = Forget(ids[j], "proxy") /\ w[3] = Del(ids[j])
    OBVIOUS
  <2> HIDE DEF r
  <2> QED BY <2>2, <2>3, <2>4, <2>5
<1>4. ASSUME NEW k \in 1..(3 * L)
      PROVE  \E j \in 1..L : k = 3 * j - 2 \/ k = 3 * j - 1 \/ k = 3 * j
  <2>1. k - 1 \in Nat
    BY <1>1
  <2>2. PICK p \in Nat : k - 1 = 3 * p \/ k - 1 = 3 * p + 1 \/ k - 1 = 3 * p + 2
    BY <2>1, Thirds
  <2>3. p + 1 \in 1..L /\ (k = 3 * (p + 1) - 2 \/ k = 3 * (p + 1) - 1 \/ k = 3 * (p + 1))
    BY <1>1, <2>2
  <2> QED BY <2>3
<1> HIDE DEF r
<1>5. "login" \in Fields /\ "proxy" \in Fields /\ \A f \in Fields : f = "login" \/ f = "proxy"
  BY DEF Fields
<1>6. \A k \in DOMAIN r : r[k] \in CallSet /\ Clears(r[k]) /\ r[k].do \in {"del", "store"}
  <2> SUFFICES ASSUME NEW k \in 1..(3 * L) PROVE r[k] \in CallSet /\ Clears(r[k]) /\ r[k].do \in {"del", "store"}
    BY <1>2
  <2>1. PICK j \in 1..L : k = 3 * j - 2 \/ k = 3 * j - 1 \/ k = 3 * j
    BY <1>4
  <2>2. ids[j] \in AllIds \ Templates
    BY <1>1
  <2>3. r[k] \in {Forget(ids[j], "login"), Forget(ids[j], "proxy"), Del(ids[j])}
    BY <1>3, <2>1
  <2> QED BY <1>5, <2>2, <2>3, ForgetIs, DelIs
<1>7. r \in CallLists
  BY <1>1, <1>2, <1>6 DEF r, RemoveEach, CallLists
<1>8. ForgottenFirst(r, AllIds)
  <2> SUFFICES ASSUME NEW k \in 1..(3 * L), NEW f \in Fields, r[k].do = "del"
               PROVE  ForgetBefore(r, k, r[k].id, f)
    BY <1>2 DEF ForgottenFirst
  <2>1. PICK j \in 1..L : k = 3 * j - 2 \/ k = 3 * j - 1 \/ k = 3 * j
    BY <1>4
  <2>2. ids[j] \in AllIds \ Templates /\ ids[j] \in AllIds
    BY <1>1
  <2>3. k = 3 * j /\ r[k].id = ids[j]
    <3>1. k = 3 * j
      BY ZenonT(30), <1>3, <1>5, <2>1, <2>2, ForgetIs
    <3> QED BY <1>3, <2>2, <3>1, DelIs
  <2>4. IsForget(r[3 * j - 2], ids[j], "login") /\ IsForget(r[3 * j - 1], ids[j], "proxy")
    BY <1>3, <1>5, <2>2, ForgetIs
  <2>5. 3 * j - 2 \in DOMAIN r /\ 3 * j - 1 \in DOMAIN r /\ 3 * j - 2 < k /\ 3 * j - 1 < k
    BY <1>1, <1>2, <1>3, <2>3
  <2> QED BY <1>5, <2>3, <2>4, <2>5 DEF ForgetBefore
<1>9. \A j \in DOMAIN ids : DelOf(r, ids[j])
  BY <1>1, <1>2, <1>3, DelIs DEF DelOf
<1> QED BY <1>6, <1>7, <1>8, <1>9 DEF r

\* The entries of every record of the list go.
LEMMA Forgetting ==
  ASSUME NEW ids \in Seq(AllIds \ Templates)
  PROVE  LET r == ForgetEach(ids) IN
         /\ r \in CallLists
         /\ \A k \in DOMAIN r : Clears(r[k]) /\ r[k].do = "store"
         /\ \A j \in DOMAIN ids, f \in Fields : ForgetOf(r, ids[j], f)
<1> DEFINE r == ForgetEach(ids)
           L == Len(ids)
<1>1. L \in Nat /\ DOMAIN ids = 1..L /\ \A j \in 1..L : ids[j] \in AllIds \ Templates
  OBVIOUS
<1>2. DOMAIN r = 1..(2 * L) /\ \A n \in 1..(2 * L) : r[n] = Forget(ids[(n + 1) \div 2], IF n % 2 = 1 THEN "login" ELSE "proxy")
  BY DEF ForgetEach
<1>3. r = [k \in 1..(2 * L) |-> r[k]]
  BY DEF ForgetEach
<1> HIDE DEF r
<1>4. "login" \in Fields /\ "proxy" \in Fields /\ \A f \in Fields : f = "login" \/ f = "proxy"
  BY DEF Fields
<1>5. \A k \in 1..(2 * L) : (k + 1) \div 2 \in 1..L
  BY <1>1
<1>6. \A k \in DOMAIN r : r[k] \in CallSet /\ Clears(r[k]) /\ r[k].do = "store"
  BY <1>2, <1>1, <1>4, <1>5, ForgetIs
<1>7. r \in CallLists
  BY <1>1, <1>2, <1>3, <1>6 DEF CallLists
<1>8. ASSUME NEW j \in DOMAIN ids, NEW f \in Fields PROVE ForgetOf(r, ids[j], f)
  <2>1. j \in 1..L /\ ids[j] \in AllIds \ Templates
    BY <1>1
  <2>2. /\ 2 * j \in 1..(2 * L) /\ 2 * j - 1 \in 1..(2 * L)
        /\ (2 * j + 1) \div 2 = j /\ (2 * j) % 2 = 0 /\ ((2 * j - 1) + 1) \div 2 = j /\ (2 * j - 1) % 2 = 1
    <3>1. j \in Nat /\ j - 1 \in Nat /\ 2 * j - 1 = 2 * (j - 1) + 1
      BY <1>1, <2>1
    <3>2. (2 * j + 1) \div 2 = j /\ (2 * j) % 2 = 0 /\ (2 * j) \div 2 = j /\ (2 * (j - 1) + 1) % 2 = 1
      BY <3>1, Halves
    <3>3. (2 * j - 1) + 1 = 2 * j
      BY <3>1
    <3>4. 2 * j \in 1..(2 * L) /\ 2 * j - 1 \in 1..(2 * L)
      BY <1>1, <2>1
    <3> QED BY <3>1, <3>2, <3>3, <3>4
  <2> DEFINE a == 2 * j
             b == 2 * j - 1
  <2>3. r[2 * j] = Forget(ids[j], "proxy")
    <3>1. a \in 1..(2 * L) /\ (a + 1) \div 2 = j /\ a % 2 = 0
      BY <2>2
    <3> HIDE DEF a
    <3>2. r[a] = Forget(ids[j], "proxy")
      BY <1>2, <3>1
    <3> QED BY <3>2 DEF a
  <2>4. r[2 * j - 1] = Forget(ids[j], "login")
    BY <2>2, <1>2 DEF b
  <2>5. IsForget(r[2 * j], ids[j], "proxy") /\ IsForget(r[2 * j - 1], ids[j], "login")
    BY <1>4, <2>1, <2>3, <2>4, ForgetIs
  <2> QED BY <1>2, <1>4, <2>2, <2>5 DEF ForgetOf
<1> QED BY <1>6, <1>7, <1>8 DEF r

\* The records themselves go.
LEMMA Deleting ==
  ASSUME NEW ids \in Seq(AllIds)
  PROVE  LET r == [n \in DOMAIN ids |-> Del(ids[n])] IN
         /\ r \in CallLists /\ DOMAIN r = DOMAIN ids
         /\ \A k \in DOMAIN r : Clears(r[k]) /\ r[k].do = "del" /\ r[k].id = ids[k]
         /\ \A j \in DOMAIN ids : DelOf(r, ids[j])
BY DelIs DEF CallLists, DelOf

LEMMA JoinedFinds ==
  ASSUME NEW l \in CallLists, NEW m \in CallLists
  PROVE  /\ \A i : PutOf(l \o m, i) <=> PutOf(l, i) \/ PutOf(m, i)
         /\ \A i : DelOf(l \o m, i) <=> DelOf(l, i) \/ DelOf(m, i)
         /\ \A i, f : ForgetOf(l \o m, i, f) <=> ForgetOf(l, i, f) \/ ForgetOf(m, i, f)
         /\ \A k \in DOMAIN (l \o m) :
              (\E j \in DOMAIN l : (l \o m)[k] = l[j]) \/ (\E j \in DOMAIN m : (l \o m)[k] = m[j])
<1> DEFINE n == l \o m
<1>1. /\ \A k \in DOMAIN l : k \in DOMAIN n /\ n[k] = l[k]
      /\ \A k \in DOMAIN m : k + Len(l) \in DOMAIN n /\ n[k + Len(l)] = m[k]
      /\ \A k \in DOMAIN n : k \in DOMAIN l \/ (k - Len(l) \in DOMAIN m /\ n[k] = m[k - Len(l)])
  BY Joined
<1> HIDE DEF n
<1>2. ASSUME NEW i PROVE PutOf(n, i) <=> PutOf(l, i) \/ PutOf(m, i)
  BY <1>1 DEF PutOf
<1>3. ASSUME NEW i PROVE DelOf(n, i) <=> DelOf(l, i) \/ DelOf(m, i)
  BY <1>1 DEF DelOf
<1>4. ASSUME NEW i, NEW f PROVE ForgetOf(n, i, f) <=> ForgetOf(l, i, f) \/ ForgetOf(m, i, f)
  BY <1>1 DEF ForgetOf
<1>5. \A k \in DOMAIN n : (\E j \in DOMAIN l : n[k] = l[j]) \/ (\E j \in DOMAIN m : n[k] = m[j])
  BY <1>1
<1> QED BY <1>2, <1>3, <1>4, <1>5 DEF n

\* The profiles and the sources that a wipe and a reset remove.
Others == EachOf(LiveOf(Profiles)) \o EachOf(LiveOf(Sources))

LEMMA LiveIds == \A K \in SUBSET AllIds : LiveOf(K) \in SUBSET AllIds /\ LiveOf(K) \subseteq K /\ IsFiniteSet(LiveOf(K))
BY FiniteIds DEF LiveOf

LEMMA OthersAre ==
  /\ Others \in Seq(AllIds \ Templates)
  /\ \A i \in LiveOf(Profiles \cup Sources) : \E j \in DOMAIN Others : Others[j] = i
<1> DEFINE l == EachOf(LiveOf(Profiles))
           m == EachOf(LiveOf(Sources))
<1>1. /\ IsFiniteSet(LiveOf(Profiles)) /\ IsFiniteSet(LiveOf(Sources))
      /\ LiveOf(Profiles) \subseteq AllIds \ Templates /\ LiveOf(Sources) \subseteq AllIds \ Templates
  BY Ids, LiveIds
<1>2. l \in Seq(LiveOf(Profiles)) /\ \A x \in LiveOf(Profiles) : \E k \in DOMAIN l : l[k] = x
  BY <1>1, EachOfLists
<1>3. m \in Seq(LiveOf(Sources)) /\ \A x \in LiveOf(Sources) : \E k \in DOMAIN m : m[k] = x
  BY <1>1, EachOfLists
<1> HIDE DEF l, m
<1>4. l \in Seq(AllIds \ Templates) /\ m \in Seq(AllIds \ Templates)
  BY <1>1, <1>2, <1>3
<1>5. Others = l \o m
  BY DEF Others, l, m
<1>6. /\ \A k \in DOMAIN l : k \in DOMAIN (l \o m) /\ (l \o m)[k] = l[k]
      /\ \A k \in DOMAIN m : Len(l) + k \in DOMAIN (l \o m) /\ (l \o m)[Len(l) + k] = m[k]
  BY <1>4
<1>7. LiveOf(Profiles \cup Sources) = LiveOf(Profiles) \cup LiveOf(Sources)
  BY DEF LiveOf
<1>8. ASSUME NEW i \in LiveOf(Profiles) PROVE \E j \in DOMAIN Others : Others[j] = i
  BY <1>2, <1>5, <1>6
<1>9. ASSUME NEW i \in LiveOf(Sources) PROVE \E j \in DOMAIN Others : Others[j] = i
  BY <1>3, <1>5, <1>6
<1>10. Others \in Seq(AllIds \ Templates)
  BY <1>4, <1>5
<1> QED BY <1>7, <1>8, <1>9, <1>10

DeleteEach(K) == LET ids == EachOf(LiveOf(K)) IN [n \in DOMAIN ids |-> Del(ids[n])]

LEMMA DeleteEachIs ==
  ASSUME NEW K \in SUBSET AllIds
  PROVE  /\ DeleteEach(K) \in CallLists
         /\ \A k \in DOMAIN DeleteEach(K) :
              Clears(DeleteEach(K)[k]) /\ DeleteEach(K)[k].do = "del" /\ DeleteEach(K)[k].id \in K
         /\ \A i : DelOf(DeleteEach(K), i) <=> i \in LiveOf(K)
<1> DEFINE ids == EachOf(LiveOf(K))
           r == [n \in DOMAIN ids |-> Del(ids[n])]
<1>1. LiveOf(K) \subseteq AllIds /\ IsFiniteSet(LiveOf(K)) /\ LiveOf(K) \subseteq K
  BY LiveIds
<1>2. /\ ids \in Seq(LiveOf(K)) /\ \A x \in LiveOf(K) : \E k \in DOMAIN ids : ids[k] = x
      /\ \A k \in DOMAIN ids : ids[k] \in LiveOf(K)
  BY <1>1, EachOfLists
<1>3. DeleteEach(K) = r
  BY DEF DeleteEach
<1> HIDE DEF ids
<1>4. ids \in Seq(AllIds)
  BY <1>1, <1>2
<1>5. /\ r \in CallLists /\ DOMAIN r = DOMAIN ids
      /\ \A k \in DOMAIN r : Clears(r[k]) /\ r[k].do = "del" /\ r[k].id = ids[k]
      /\ \A j \in DOMAIN ids : DelOf(r, ids[j])
  BY <1>4, Deleting
<1> HIDE DEF r
<1>6. \A k \in DOMAIN r : r[k].id \in K
  BY <1>1, <1>2, <1>5
<1>7. \A i : DelOf(r, i) => i \in LiveOf(K)
  BY <1>2, <1>5 DEF DelOf
<1>8. \A i \in LiveOf(K) : DelOf(r, i)
  BY <1>2, <1>5
<1> QED BY <1>3, <1>5, <1>6, <1>7, <1>8

\* What a wipe and a reset have in common.
RemoveAll(first) == (first \o RemoveEach(Others)) \o DeleteEach(Templates)

LEMMA RemoveAllIs ==
  ASSUME NEW first \in CallLists, \A k \in DOMAIN first : Clears(first[k]),
         \A i \in LiveOf(Servers) : DelOf(first, i),
         NEW S \in SUBSET (AllIds \ Templates), ForgottenFirst(first, S)
  PROVE  LET n == RemoveAll(first) IN
         /\ n \in CallLists /\ \A k \in DOMAIN n : Clears(n[k])
         /\ (\A k \in DOMAIN first : first[k].do \in {"del", "store"}) => \A k \in DOMAIN n : n[k].do \in {"del", "store"}
         /\ ForgottenFirst(n, S)
         /\ \A i \in AllIds : Dead(recs, i) \/ DelOf(n, i)
<1> DEFINE r == RemoveEach(Others)
           d == DeleteEach(Templates)
           m == first \o r
           n == m \o d
<1>1. /\ r \in CallLists /\ \A k \in DOMAIN r : Clears(r[k]) /\ r[k].do \in {"del", "store"}
      /\ ForgottenFirst(r, AllIds) /\ \A j \in DOMAIN Others : DelOf(r, Others[j])
  BY OthersAre, Removing
<1>2. /\ d \in CallLists /\ \A k \in DOMAIN d : Clears(d[k]) /\ d[k].do = "del" /\ d[k].id \in Templates
      /\ \A i : DelOf(d, i) <=> i \in LiveOf(Templates)
  BY Ids, DeleteEachIs
<1> HIDE DEF r, d
<1>3. /\ m \in CallLists /\ \A i : DelOf(m, i) <=> DelOf(first, i) \/ DelOf(r, i)
      /\ \A k \in DOMAIN m : (\E j \in DOMAIN first : m[k] = first[j]) \/ (\E j \in DOMAIN r : m[k] = r[j])
  BY <1>1, Joined, JoinedFinds
<1>4. ForgottenFirst(m, S)
  BY <1>1, ForgottenJoined DEF ForgottenFirst
<1> HIDE DEF m
<1>5. /\ n \in CallLists /\ \A i : DelOf(n, i) <=> DelOf(m, i) \/ DelOf(d, i)
      /\ \A k \in DOMAIN n : (\E j \in DOMAIN m : n[k] = m[j]) \/ (\E j \in DOMAIN d : n[k] = d[j])
  BY <1>2, <1>3, Joined, JoinedFinds
<1>6. ForgottenFirst(n, S)
  BY <1>2, <1>3, <1>4, ForgottenJoined DEF ForgottenFirst
<1>7. n = RemoveAll(first)
  BY DEF RemoveAll, m, r, d
<1> HIDE DEF n
<1>8. \A k \in DOMAIN n : Clears(n[k])
  BY <1>1, <1>2, <1>3, <1>5
<1>9. (\A k \in DOMAIN first : first[k].do \in {"del", "store"}) => \A k \in DOMAIN n : n[k].do \in {"del", "store"}
  BY <1>1, <1>2, <1>3, <1>5
<1>10. ASSUME NEW i \in AllIds, ~Dead(recs, i) PROVE DelOf(n, i)
  BY <1>10, Ids, <1>1, OthersAre, <1>2, <1>3, <1>5 DEF LiveOf, Dead
<1> QED BY <1>5, <1>6, <1>7, <1>8, <1>9, <1>10

LEMMA WipeList ==
  ASSUME RecordInv, Tidy(recs, keys, abandoned)
  PROVE  /\ WipeCalls \in CallLists /\ ListOK("import", WipeCalls, recs, keys, abandoned)
         /\ \A k \in DOMAIN WipeCalls : WipeCalls[k].do \in {"del", "store"}
         /\ \A i \in AllIds : Dead(recs, i) \/ DelOf(WipeCalls, i)
<1> DEFINE first == DeleteEach(Servers)
           n == RemoveAll(first)
           S == Profiles \cup Sources
<1>1. /\ first \in CallLists /\ \A k \in DOMAIN first : Clears(first[k]) /\ first[k].do = "del" /\ first[k].id \in Servers
      /\ \A i \in LiveOf(Servers) : DelOf(first, i)
  BY Ids, DeleteEachIs
<1> HIDE DEF first
<1>2. S \in SUBSET (AllIds \ Templates) /\ ForgottenFirst(first, S)
  BY <1>1, Ids DEF ForgottenFirst
<1>3. /\ n \in CallLists /\ \A k \in DOMAIN n : Clears(n[k]) /\ n[k].do \in {"del", "store"}
      /\ ForgottenFirst(n, S)
      /\ \A i \in AllIds : Dead(recs, i) \/ DelOf(n, i)
  BY <1>1, <1>2, RemoveAllIs
<1>4. n = WipeCalls
  BY DEF RemoveAll, WipeCalls, Others, DeleteEach, first
<1> HIDE DEF n
<1>5. DelsOK("import", n, keys, abandoned)
  BY <1>3, CallKinds, Ids DEF DelsOK, CallLists, RecordInv, TypeInv, RecTypes, Vault, ForgottenFirst
<1>6. ListOK("import", n, recs, keys, abandoned)
  BY <1>3, <1>5, ClearingOK
<1> QED BY <1>3, <1>4, <1>6

------------------------------------------------------------------------------
(* Lists that write *)

PutEach(S, F) == LET ids == EachOf(S) IN [n \in DOMAIN ids |-> Put(ids[n], F[ids[n]])]

LEMMA PutIs ==
  ASSUME NEW i \in AllIds, NEW r \in RecordsOf, r.rev # 0, Shaped(i, r)
  PROVE  /\ Put(i, r) \in CallSet /\ Put(i, r).do = "put" /\ Put(i, r).id = i /\ Put(i, r).rec = r
         /\ IsPut(Put(i, r), i)
BY DEF Put, CallSet, Puts, IsPut

LEMMA PutEachIs ==
  ASSUME NEW S \in SUBSET AllIds, NEW F, \A i \in S : F[i] \in RecordsOf /\ F[i].rev # 0 /\ Shaped(i, F[i])
  PROVE  LET q == PutEach(S, F) IN
         /\ Covers(q, S)
         /\ \A k \in DOMAIN q : q[k].do = "put" /\ q[k].rec = F[q[k].id]
         /\ q = <<>> <=> S = {}
<1> DEFINE ids == EachOf(S)
           q == [n \in DOMAIN ids |-> Put(ids[n], F[ids[n]])]
           N == Cardinality(S)
<1>1. IsFiniteSet(S)
  BY FiniteIds
<1>2. /\ N \in Nat /\ DOMAIN ids = 1..N /\ \A k \in DOMAIN ids : ids[k] \in S
      /\ \A j, k \in DOMAIN ids : ids[j] = ids[k] => j = k
      /\ \A x \in S : \E k \in DOMAIN ids : ids[k] = x
  BY <1>1, EachOfLists
<1> HIDE DEF ids, N
<1>3. DOMAIN q = 1..N /\ \A k \in 1..N : q[k] = Put(ids[k], F[ids[k]])
  BY <1>2
<1>4. q = [k \in 1..N |-> q[k]]
  BY <1>2
<1>5. q = PutEach(S, F)
  BY DEF PutEach, ids
<1> HIDE DEF q
<1>6. \A k \in 1..N : q[k] \in CallSet /\ q[k].do = "put" /\ q[k].id = ids[k] /\ q[k].rec = F[ids[k]] /\ ids[k] \in S
  BY <1>2, <1>3, PutIs
<1>7. q \in CallLists
  BY <1>3, <1>4, <1>6, <1>2 DEF CallLists
<1>8. Covers(q, S)
  BY <1>2, <1>3, <1>6, <1>7 DEF Covers
<1>9. \A k \in DOMAIN q : q[k].do = "put" /\ q[k].rec = F[q[k].id]
  BY <1>3, <1>6
<1>10. q = <<>> <=> S = {}
  BY EmptySeq, <1>8, <1>7, Rest DEF Covers
<1> QED BY <1>5, <1>8, <1>9, <1>10

\* Writing live records with the proxies they have leaves the vault alone.
LEMMA CoversPlain ==
  ASSUME NEW op, NEW q, NEW S \in SUBSET AllIds, Covers(q, S), NEW R, NEW K, NEW A, Tidy(R, K, A),
         \A k \in DOMAIN q : q[k].do = "put" /\ ~Dead(R, q[k].id) /\ q[k].rec.proxy = R[q[k].id].proxy
  PROVE  q \in CallLists /\ ListOK(op, q, R, K, A)
BY PlainPuts DEF Covers

------------------------------------------------------------------------------
(* Lists that store *)

LEMMA StoreIs ==
  ASSUME NEW i \in AllIds \ Templates, NEW f \in Fields, NEW v \in Nat
  PROVE  LET c == Store(i, f, v) IN c \in CallSet /\ c.do = "store" /\ c.id = i /\ c.field = f /\ c.value = v
BY DEF Store, CallSet, Stores

LEMMA SecretCallsAre ==
  ASSUME NEW K \in SUBSET (AllIds \ Templates), Data.keys \in KeyMaps
  PROVE  LET q == SecretCalls(K) IN
         /\ q \in CallLists
         /\ \A k \in DOMAIN q : /\ q[k].do = "store" /\ q[k].id \in K \cap transfer.imported /\ q[k].field \in Fields
                                /\ q[k].value = Data.keys[q[k].id][q[k].field]
<1> DEFINE S == {x \in K \X Fields : x[1] \in transfer.imported /\ Data.keys[x[1]][x[2]] # NoKey}
           es == EachOf(S)
           q == [n \in DOMAIN es |-> Store(es[n][1], es[n][2], Data.keys[es[n][1]][es[n][2]])]
           N == Cardinality(S)
<1>1. IsFiniteSet(S)
  BY FiniteIds
<1>2. N \in Nat /\ DOMAIN es = 1..N /\ \A k \in DOMAIN es : es[k] \in S
  BY <1>1, EachOfLists
<1>3. \A x \in S : x[1] \in K /\ x[1] \in transfer.imported /\ x[2] \in Fields /\ Data.keys[x[1]][x[2]] \in Nat
  BY DEF KeyMaps
<1> HIDE DEF S, es, N
<1>4. q = SecretCalls(K)
  BY DEF SecretCalls, S, es
<1>5. /\ DOMAIN q = 1..N /\ q = [k \in 1..N |-> q[k]]
      /\ \A k \in 1..N : q[k] = Store(es[k][1], es[k][2], Data.keys[es[k][1]][es[k][2]])
  BY <1>2
<1> HIDE DEF q
<1>6. \A k \in 1..N : /\ q[k] \in CallSet /\ q[k].do = "store" /\ q[k].id = es[k][1] /\ q[k].field = es[k][2]
                      /\ q[k].value = Data.keys[es[k][1]][es[k][2]] /\ es[k] \in S
  BY <1>2, <1>3, <1>5, StoreIs
<1>7. q \in CallLists
  BY <1>5, <1>6, <1>2 DEF CallLists
<1> QED BY <1>3, <1>4, <1>5, <1>6, <1>7

\* A secret of a live record, and of the proxy it has, may be stored.
LEMMA StoringOK ==
  ASSUME NEW op, NEW q, NEW R, NEW K, NEW A, Tidy(R, K, A),
         \A k \in DOMAIN q : q[k].do = "store" /\ q[k].id \in AllIds /\ ~Dead(R, q[k].id),
         \A k \in DOMAIN q : q[k].id \in Servers \ A /\ q[k].field = "proxy" => q[k].value \in {NoKey, R[q[k].id].proxy}
  PROVE  ListOK(op, q, R, K, A)
BY TidyList DEF PutOf, IsPut, CallsOK, Orderly, PutsOK, DelsOK, StoresOK, RestoresOK

------------------------------------------------------------------------------
(* The next phase of an import *)

LEMMA FollowsOnly ==
  ASSUME NEW a \in PhaseNames, NEW b, b \in Follow(a)
  PROVE  /\ b \notin {"start", "takeBack"}
         /\ b = "wipe" => a = "start"
         /\ b = "add" => a \in {"start", "wipe"}
         /\ b = "links" => a = "add"
         /\ b = "rules" => a = "links"
         /\ b = "settings" => a = "rules"
         /\ b = "detach" => a = "takeBack"
         /\ a = "start" => b \in {"wipe", "add"}
         /\ b \in {"carry", "check", "secrets", "source", "done"} =>
              a \in {"settings", "carry", "check", "secrets", "source", "takeBack", "detach"}
BY DEF Follow, PhaseNames

\* An import between two phases.
LEMMA PhaseAhead ==
  ASSUME RecordInv, task.op = "import", Phase # "done", NEW t, t = Tail(task.phase)
  PROVE  /\ t \in PhaseLists /\ PhasesOK(t) /\ Head(t) = t[1] /\ 1 \in DOMAIN t /\ 1 \in DOMAIN task.phase
         /\ \A k \in DOMAIN t : t[k] = task.phase[k + 1] /\ k + 1 \in DOMAIN task.phase /\ k + 1 # 1
         /\ t[1][1] \in Follow(Phase) /\ Phase \in PhaseNames /\ Phase = task.phase[1][1]
         /\ t[1][1] \in {"source", "detach"} => t[1][2] \in Sources
         /\ Phase = "start" /\ transfer.mode = "replace" => t[1][1] = "wipe"
<1> DEFINE ph == task.phase
<1>1. /\ PhasesOK(ph) /\ 1 \in DOMAIN ph /\ ph \in PhaseLists /\ Phase = ph[1][1] /\ Phase \in PhaseNames
  BY ImportFacts
<1>2. /\ t \in PhaseLists /\ PhasesOK(t) /\ Head(t) = t[1]
      /\ 1 \in DOMAIN t /\ DOMAIN ph = 1..Len(ph) /\ DOMAIN t = 1..(Len(ph) - 1) /\ Len(ph) \in Nat
      /\ t[1][1] \in Follow(ph[1][1])
      /\ \A k \in DOMAIN t : t[k] = ph[k + 1] /\ k + 1 \in DOMAIN ph
  BY <1>1, PhaseTail
<1>3. Phase = "start" /\ transfer.mode = "replace" => ph[2][1] = "wipe"
  BY DEF RecordInv, ListInv, ImportOK
<1> HIDE DEF ph
<1>4. \A k \in DOMAIN t : k + 1 # 1
  BY <1>2
<1>5. t[1][1] \in {"source", "detach"} => t[1][2] \in Sources
  BY <1>2 DEF PhasesOK
<1>6. t[1] = ph[2]
  <2>1. t[1] = ph[1 + 1]
    BY <1>2
  <2>2. 1 + 1 = 2
    OBVIOUS
  <2> QED BY <2>1, <2>2, Zenon
<1> QED BY <1>1, <1>2, <1>3, <1>4, <1>5, <1>6 DEF ph

LEMMA RestIsTidy ==
  ASSUME NEW op, NEW q, q = <<>>, NEW R, NEW K, NEW A, ListOK(op, q, R, K, A)
  PROVE  Tidy(R, K, A)
BY NothingLeft

LEMMA BetweenPhases ==
  ASSUME RecordInv, task.op = "import", task.calls = <<>>
  PROVE  /\ Tidy(recs, keys, abandoned) /\ Whole(recs) /\ keys \in KeyMaps /\ spent \in Spending
         /\ Data = transfer.data /\ FileTyped(transfer.data) /\ FileBound(transfer.data, abandoned)
         /\ transfer \in Transfers /\ transfer.imported \subseteq AllIds
         /\ transfer.mode \in {"merge", "replace"}
         /\ Brought(Phase, <<>>, recs, transfer)
         /\ SourcesOK(task.phase, recs, keys, abandoned, transfer)
         /\ SweepOK(Phase, <<>>, recs)
         /\ Phase \notin Early \cup {"links", "rules"} => LinksKept(recs, stale)
         /\ \A i \in transfer.imported : transfer.data.recs[i].rev # 0
BY ImportFacts, RestIsTidy, LinksAtEnd DEF RecordInv, ListInv, ImportOK, LinkInv, TypeInv, RecTypes, Vault,
   TransferTyped, Data, Transfers

Writes(l, S, F) == Covers(l, S) /\ \A k \in DOMAIN l : l[k].do = "put" /\ l[k].rec = F[l[k].id]

LEMMA BothWrite ==
  ASSUME NEW F, NEW l \in CallLists, NEW m \in CallLists, NEW S, NEW T, Writes(l, S, F), Writes(m, T, F), S \cap T = {}
  PROVE  Writes(l \o m, S \cup T, F) /\ l \o m \in CallLists
<1> DEFINE n == l \o m
<1>1. /\ Covers(n, S \cup T)
      /\ \A k \in DOMAIN n : (\E j \in DOMAIN l : n[k] = l[j]) \/ (\E j \in DOMAIN m : n[k] = m[j])
  BY BothCover DEF Writes
<1> HIDE DEF n
<1>2. \A k \in DOMAIN n : n[k].do = "put" /\ n[k].rec = F[n[k].id]
  BY <1>1 DEF Writes
<1>3. Writes(n, S \cup T, F) /\ n \in CallLists
  BY <1>1, <1>2 DEF Writes, Covers
<1> QED BY <1>3 DEF n

\* The records that are imported are not there before.
LEMMA AddList ==
  ASSUME RecordInv, task.op = "import", task.calls = <<>>, Phase # "done", Tail(task.phase)[1][1] = "add"
  PROVE  LET S == {i \in AllIds : ToImport(i)} IN
         /\ Covers(AddCalls, S) /\ \A i \in S : Dead(recs, i) /\ transfer.data.recs[i].rev # 0
         /\ \A k \in DOMAIN AddCalls : AddCalls[k].do = "put" /\ AddCalls[k].rec = transfer.data.recs[AddCalls[k].id]
         /\ ListOK("import", AddCalls, recs, keys, abandoned)
<1> DEFINE S == {i \in AllIds : ToImport(i)}
           F == transfer.data.recs
           P(K) == {i \in K : ToImport(i)}
<1>1. /\ Data = transfer.data /\ FileTyped(transfer.data) /\ FileBound(transfer.data, abandoned)
      /\ transfer.mode \in {"merge", "replace"} /\ Brought(Phase, <<>>, recs, transfer)
      /\ Tidy(recs, keys, abandoned)
  BY BetweenPhases
<1>2. Phase \in {"start", "wipe"} /\ (Phase = "start" => transfer.mode = "merge")
  <2> DEFINE t == Tail(task.phase)
  <2>1. /\ t[1][1] \in Follow(Phase) /\ Phase \in PhaseNames
        /\ Phase = "start" /\ transfer.mode = "replace" => t[1][1] = "wipe"
    BY PhaseAhead
  <2> QED BY <1>1, <2>1, FollowsOnly
<1>3. \A i \in S : F[i].rev # 0
  BY <1>1 DEF ToImport, InFile
<1>4. \A i \in S : Dead(recs, i)
  BY <1>1, <1>2, EmptySeq DEF Brought, ToImport, Dead, DelOf
<1>5. \A i \in S : F[i] \in RecordsOf /\ F[i].rev # 0 /\ Shaped(i, F[i])
  BY <1>1, <1>3 DEF FileTyped, RecordMaps
<1>6. ASSUME NEW K \in SUBSET AllIds
      PROVE  Writes(AddEach(K), P(K), F) /\ AddEach(K) \in CallLists
  <2>1. AddEach(K) = PutEach(P(K), F)
    BY <1>1 DEF AddEach, PutEach
  <2>2. P(K) \in SUBSET AllIds /\ P(K) \subseteq S
    OBVIOUS
  <2> HIDE DEF F
  <2>3. \A i \in P(K) : F[i] \in RecordsOf /\ F[i].rev # 0 /\ Shaped(i, F[i])
    BY <1>5, <2>2
  <2> HIDE DEF P, S
  <2>4. LET q == PutEach(P(K), F) IN Covers(q, P(K)) /\ \A k \in DOMAIN q : q[k].do = "put" /\ q[k].rec = F[q[k].id]
    BY ZenonT(30), <2>2, <2>3, PutEachIs
  <2> QED BY <2>1, <2>4 DEF Writes, Covers
<1> DEFINE a == AddEach(Servers)
           b == AddEach(Sources)
           c == AddEach(Profiles)
           d == AddEach(Templates)
<1> HIDE DEF F
<1>7. /\ Writes(a, P(Servers), F) /\ Writes(b, P(Sources), F) /\ Writes(c, P(Profiles), F) /\ Writes(d, P(Templates), F)
      /\ a \in CallLists /\ b \in CallLists /\ c \in CallLists /\ d \in CallLists
  BY <1>6, Ids
<1>8. AddCalls = ((a \o b) \o c) \o d
  BY DEF AddCalls
<1> HIDE DEF a, b, c, d
<1>9. /\ P(Servers) \cap P(Sources) = {} /\ (P(Servers) \cup P(Sources)) \cap P(Profiles) = {}
      /\ (P(Servers) \cup P(Sources) \cup P(Profiles)) \cap P(Templates) = {}
      /\ P(Servers) \cup P(Sources) \cup P(Profiles) \cup P(Templates) = S
  BY Ids
<1>11. Writes(AddCalls, S, F)
  <2> HIDE DEF P, S
  <2>1. Writes(a \o b, P(Servers) \cup P(Sources), F) /\ a \o b \in CallLists
    BY <1>7, <1>9, BothWrite
  <2>2. Writes((a \o b) \o c, P(Servers) \cup P(Sources) \cup P(Profiles), F) /\ (a \o b) \o c \in CallLists
    BY <1>7, <1>9, <2>1, BothWrite
  <2>3. Writes(((a \o b) \o c) \o d, P(Servers) \cup P(Sources) \cup P(Profiles) \cup P(Templates), F)
    BY <1>7, <1>9, <2>2, BothWrite
  <2> QED BY <1>8, <1>9, <2>3
<1> DEFINE q == AddCalls
<1> HIDE DEF q
<1>12. \A k \in DOMAIN q : q[k].do = "put" /\ q[k].rec = F[q[k].id] /\ q[k].id \in S
  BY <1>11 DEF q, Writes, Covers
<1>13. PutsOK("import", q, keys, abandoned)
  BY <1>4, <1>12, <1>1 DEF PutsOK, Tidy, Fields
<1>14. \A j, k \in DOMAIN q : q[j].id = q[k].id => j = k
  BY <1>11 DEF q, Writes, Covers
<1>15. CallsOK("import", q, recs, keys, abandoned)
  BY <1>12, <1>13, <1>14 DEF CallsOK, Orderly, DelsOK, StoresOK, RestoresOK
<1>16. ListOK("import", q, recs, keys, abandoned)
  BY <1>1, <1>15, TidyList
<1> QED BY <1>3, <1>4, <1>11, <1>16 DEF q, F, Writes

\* Records that are written again, with some links fewer.
LEMMA RewriteList ==
  ASSUME NEW op, NEW S \in SUBSET AllIds, Whole(recs), Tidy(recs, keys, abandoned), NEW F,
         \A i \in S : /\ ~Dead(recs, i) /\ F[i] \in RecordsOf /\ F[i].rev = recs[i].rev /\ Shaped(i, F[i])
                      /\ F[i].proxy = recs[i].proxy
  PROVE  LET q == PutEach(S, F) IN
         /\ Writes(q, S, F) /\ q \in CallLists /\ ListOK(op, q, recs, keys, abandoned)
         /\ \A k \in DOMAIN q : q[k].do = "put" /\ ~Dead(recs, q[k].id) /\ q[k].rec.proxy = recs[q[k].id].proxy
<1> DEFINE q == PutEach(S, F)
<1>1. \A i \in S : F[i] \in RecordsOf /\ F[i].rev # 0 /\ Shaped(i, F[i])
  BY DEF Dead
<1>2. Covers(q, S) /\ \A k \in DOMAIN q : q[k].do = "put" /\ q[k].rec = F[q[k].id]
  BY <1>1, PutEachIs
<1> HIDE DEF q
<1>3. \A k \in DOMAIN q : q[k].id \in S
  BY <1>2 DEF Covers
<1>4. \A k \in DOMAIN q : q[k].do = "put" /\ ~Dead(recs, q[k].id) /\ q[k].rec.proxy = recs[q[k].id].proxy
  BY <1>2, <1>3
<1>5. q \in CallLists /\ ListOK(op, q, recs, keys, abandoned)
  BY <1>2, <1>4, CoversPlain
<1> QED BY <1>2, <1>4, <1>5 DEF q, Writes

LEMMA SweptLinksIs ==
  ASSUME Whole(recs), NEW i \in AllIds
  PROVE  LET r == SweptLinks(i) IN
         /\ r \in RecordsOf /\ r.rev = recs[i].rev /\ Shaped(i, r) /\ r.proxy = recs[i].proxy
         /\ i \in Linked => FieldsLead(r, recs) /\ (r = recs[i] => FieldsLead(recs[i], recs))
<1> DEFINE r == SweptLinks(i)
<1>1. recs[i] \in RecordsOf /\ Shaped(i, recs[i])
  BY DEF Whole, RecordMaps
<1>2. /\ r \in RecordsOf /\ r.rev = recs[i].rev /\ r.proxy = recs[i].proxy /\ r.rules = recs[i].rules
      /\ r.profile = IF i \in Servers \cup Sources /\ Dangles(recs[i].profile) THEN None ELSE recs[i].profile
      /\ r.gateway = IF i \in Servers /\ Dangles(recs[i].gateway) THEN None ELSE recs[i].gateway
  BY <1>1 DEF SweptLinks, RecordsOf
<1> HIDE DEF r
<1>3. Shaped(i, r)
  BY <1>1, <1>2 DEF Shaped
<1>4. i \in Linked => FieldsLead(r, recs)
  BY <1>2, <1>3, Ids DEF FieldsLead, Dead, Linked, Dangles, Shaped
<1> QED BY <1>2, <1>3, <1>4 DEF r

LEMMA LinksList ==
  ASSUME Whole(recs), Tidy(recs, keys, abandoned)
  PROVE  LET q == SweepCalls([i \in AllIds |-> SweptLinks(i)]) IN
         /\ q \in CallLists /\ ListOK("import", q, recs, keys, abandoned)
         /\ \A k \in DOMAIN q : q[k].do = "put" /\ ~Dead(recs, q[k].id) /\ q[k].rec.proxy = recs[q[k].id].proxy
         /\ SweepOK("links", q, recs)
<1> DEFINE F == [i \in AllIds |-> SweptLinks(i)]
           S == {i \in LiveOf(AllIds) : F[i] # recs[i]}
           q == PutEach(S, F)
<1>1. SweepCalls(F) = q
  BY DEF SweepCalls, PutEach
<1>2. \A i \in AllIds : /\ F[i] \in RecordsOf /\ F[i].rev = recs[i].rev /\ Shaped(i, F[i]) /\ F[i].proxy = recs[i].proxy
                        /\ i \in Linked => FieldsLead(F[i], recs)
  BY SweptLinksIs
<1>3. S \in SUBSET AllIds /\ \A i \in S : ~Dead(recs, i)
  BY DEF LiveOf, Dead
<1>4. \A i \in AllIds : i \in S \/ Dead(recs, i) \/ F[i] = recs[i]
  BY DEF LiveOf, Dead
<1>8. F = [i \in AllIds |-> SweptLinks(i)]
  OBVIOUS
<1> HIDE DEF F, S
<1>5. /\ Writes(q, S, F) /\ q \in CallLists /\ ListOK("import", q, recs, keys, abandoned)
      /\ \A k \in DOMAIN q : q[k].do = "put" /\ ~Dead(recs, q[k].id) /\ q[k].rec.proxy = recs[q[k].id].proxy
  <2>1. \A i \in S : /\ ~Dead(recs, i) /\ F[i] \in RecordsOf /\ F[i].rev = recs[i].rev /\ Shaped(i, F[i])
                     /\ F[i].proxy = recs[i].proxy
    BY <1>2, <1>3
  <2> HIDE DEF q
  <2>2. q = PutEach(S, F)
    BY DEF q
  <2> QED BY <1>3, <2>1, <2>2, RewriteList
<1> HIDE DEF q
<1>6. ASSUME NEW i \in Linked PROVE Dead(recs, i) \/ FieldsLead(recs[i], recs) \/ PutOf(q, i)
  BY Ids, <1>5, <1>2, <1>4 DEF Linked, Writes, Covers, PutOf, IsPut
<1>7. \A k \in DOMAIN q : q[k].id \in Linked => FieldsLead(q[k].rec, recs)
  BY <1>2, <1>3, <1>5 DEF Writes, Covers
<1>9. SweepOK("links", q, recs)
  BY <1>6, <1>7 DEF SweepOK
<1> QED BY <1>1, <1>5, <1>8, <1>9

LEMMA SweptRulesIs ==
  ASSUME Whole(recs), NEW i \in AllIds, i \in Linked => FieldsLead(recs[i], recs)
  PROVE  LET r == SweptRules(i) IN
         /\ r \in RecordsOf /\ r.rev = recs[i].rev /\ Shaped(i, r) /\ r.proxy = recs[i].proxy
         /\ AllLead(i, r, recs)
<1> DEFINE r == SweptRules(i)
<1>1. recs[i] \in RecordsOf /\ Shaped(i, recs[i])
  BY DEF Whole, RecordMaps
<1>2. /\ r \in RecordsOf /\ r.rev = recs[i].rev /\ r.proxy = recs[i].proxy /\ r.gateway = recs[i].gateway
      /\ r.profile = IF i \in Templates /\ Dangles(recs[i].profile) THEN None ELSE recs[i].profile
      /\ r.rules = {t \in recs[i].rules : ~Dangles(t)}
  BY <1>1 DEF SweptRules, RecordsOf
<1> HIDE DEF r
<1>3. Shaped(i, r)
  BY <1>1, <1>2 DEF Shaped
<1>4. AllLead(i, r, recs)
  BY <1>2, <1>3, Ids DEF AllLead, Dead, LinksOf, Dangles, Shaped, Linked, FieldsLead
<1> QED BY <1>2, <1>3, <1>4 DEF r

LEMMA RulesList ==
  ASSUME Whole(recs), Tidy(recs, keys, abandoned), SweepOK("links", <<>>, recs)
  PROVE  LET q == SweepCalls([i \in AllIds |-> SweptRules(i)]) IN
         /\ q \in CallLists /\ ListOK("import", q, recs, keys, abandoned)
         /\ \A k \in DOMAIN q : q[k].do = "put" /\ ~Dead(recs, q[k].id) /\ q[k].rec.proxy = recs[q[k].id].proxy
         /\ SweepOK("rules", q, recs)
<1> DEFINE F == [i \in AllIds |-> SweptRules(i)]
           S == {i \in LiveOf(AllIds) : F[i] # recs[i]}
           q == PutEach(S, F)
<1>1. SweepCalls(F) = q
  BY DEF SweepCalls, PutEach
<1>2. \A i \in Linked : Dead(recs, i) \/ FieldsLead(recs[i], recs)
  BY EmptySeq DEF PutOf, SweepOK
<1>3. \A i \in AllIds : Dead(recs, i) \/
        (/\ F[i] \in RecordsOf /\ F[i].rev = recs[i].rev /\ Shaped(i, F[i]) /\ F[i].proxy = recs[i].proxy
         /\ AllLead(i, F[i], recs))
  BY <1>2, SweptRulesIs
<1>4. S \in SUBSET AllIds /\ \A i \in S : ~Dead(recs, i)
  BY DEF LiveOf, Dead
<1>5. \A i \in AllIds : i \in S \/ Dead(recs, i) \/ F[i] = recs[i]
  BY DEF LiveOf, Dead
<1>6. F = [i \in AllIds |-> SweptRules(i)]
  OBVIOUS
<1> HIDE DEF F, S
<1>7. /\ Writes(q, S, F) /\ q \in CallLists /\ ListOK("import", q, recs, keys, abandoned)
      /\ \A k \in DOMAIN q : q[k].do = "put" /\ ~Dead(recs, q[k].id) /\ q[k].rec.proxy = recs[q[k].id].proxy
  BY <1>3, <1>4, RewriteList
<1> HIDE DEF q
<1>8. ASSUME NEW i \in AllIds PROVE Dead(recs, i) \/ AllLead(i, recs[i], recs) \/ PutOf(q, i)
  BY <1>7, <1>3, <1>5 DEF Writes, Covers, PutOf, IsPut
<1>9. \A k \in DOMAIN q : AllLead(q[k].id, q[k].rec, recs)
  BY <1>3, <1>4, <1>7 DEF Writes, Covers
<1>10. SweepOK("rules", q, recs)
  BY <1>2, <1>8, <1>9 DEF SweepOK
<1> QED BY <1>1, <1>6, <1>7, <1>10

------------------------------------------------------------------------------
(* An import goes on with its next phase *)

LEMMA FollowsNext ==
  ASSUME NEW a, NEW b, b \in Follow(a)
  PROVE  /\ a = "start" => b \in {"wipe", "add"}
         /\ a = "wipe" => b = "add"
         /\ a = "add" => b = "links"
         /\ a = "links" => b = "rules"
BY DEF Follow

\* What an import knows when its next phase begins.
Ahead1(t) ==
  /\ task.op = "import" /\ task.calls = <<>> /\ Phase # "done" /\ t = Tail(task.phase)
  /\ transfer' = [transfer EXCEPT !.imported = IF t[1][1] = "add" THEN {i \in AllIds : ToImport(i)} ELSE @,
                                  !.stored = <<>>]

LEMMA NextTransfer ==
  ASSUME RecordInv, NEW t, Ahead1(t)
  PROVE  /\ transfer' \in Transfers' /\ transfer'.data = transfer.data /\ transfer'.mode = transfer.mode
         /\ transfer'.stored = <<>>
         /\ t[1][1] = "add" => transfer'.imported = {i \in AllIds : ToImport(i)}
         /\ t[1][1] # "add" => transfer'.imported = transfer.imported
         /\ \A i \in transfer'.imported : transfer.data.recs[i].rev # 0
<1>1. /\ transfer \in Transfers /\ transfer.imported \subseteq AllIds
      /\ \A i \in transfer.imported : transfer.data.recs[i].rev # 0
  BY BetweenPhases DEF Ahead1
<1>2. <<>> \in CallLists
  BY DEF CallLists
<1>3. t[1][1] = "add" => \A i \in AllIds : ToImport(i) => transfer.data.recs[i].rev # 0
  BY AddList DEF Ahead1
<1>4. {i \in AllIds : ToImport(i)} \in SUBSET AllIds
  OBVIOUS
<1>5. /\ t[1][1] = "add" => transfer' = [transfer EXCEPT !.imported = {i \in AllIds : ToImport(i)}, !.stored = <<>>]
      /\ t[1][1] # "add" => transfer' = [transfer EXCEPT !.stored = <<>>]
  BY <1>1 DEF Ahead1, Transfers
<1>6. ASSUME t[1][1] = "add"
      PROVE  /\ transfer' \in Transfers' /\ transfer'.data = transfer.data /\ transfer'.mode = transfer.mode
             /\ transfer'.stored = <<>> /\ transfer'.imported = {i \in AllIds : ToImport(i)}
  BY <1>4, <1>5, <1>6, <1>1, <1>2 DEF Transfers
<1>7. ASSUME t[1][1] # "add"
      PROVE  /\ transfer' \in Transfers' /\ transfer'.data = transfer.data /\ transfer'.mode = transfer.mode
             /\ transfer'.stored = <<>> /\ transfer'.imported = transfer.imported
  BY <1>1, <1>2, <1>5, <1>7 DEF Transfers
<1> QED BY <1>1, <1>3, <1>6, <1>7

LEMMA NextSources ==
  ASSUME RecordInv, NEW t, Ahead1(t)
  PROVE  SourcesOK(t, recs, keys, abandoned, transfer')
<1> DEFINE ph == task.phase
<1>1. /\ \A k \in DOMAIN t : t[k] = ph[k + 1] /\ k + 1 \in DOMAIN ph /\ k + 1 # 1
      /\ t[1][1] \in Follow(Phase) /\ Phase \in PhaseNames /\ Phase = ph[1][1] /\ t \in PhaseLists
  BY PhaseAhead DEF Ahead1
<1>2. /\ Tidy(recs, keys, abandoned) /\ Brought(Phase, <<>>, recs, transfer) /\ transfer.imported \subseteq AllIds
      /\ SourcesOK(ph, recs, keys, abandoned, transfer)
  BY BetweenPhases DEF Ahead1
<1>3. DOMAIN transfer'.stored = {} /\ \A i : ~PutOf(<<>>, i)
  BY NextTransfer, EmptySeq DEF PutOf
<1> HIDE DEF ph
<1>4. ASSUME NEW k \in DOMAIN t, t[k][1] = "source", t[k][2] \in transfer'.imported
      PROVE  /\ t[1][1] \in Early \/ ~Dead(recs, t[k][2])
             /\ \A f \in Fields : Fresh(t[k][2], f, keys, abandoned)
  <2>1. CASE t[1][1] = "add"
    BY <1>4, <2>1, NextTransfer, AddList, <1>2 DEF Ahead1, Early, Tidy, Fresh
  <2>2. CASE t[1][1] # "add"
    BY <1>1, <1>4, <2>2, NextTransfer, <1>2, FollowsNext, <1>3 DEF SourcesOK, Early, Brought
  <2> QED BY <2>1, <2>2
<1> QED BY <1>3, <1>4 DEF SourcesOK

LEMMA NextBrought ==
  ASSUME RecordInv, NEW t, Ahead1(t), NEW q,
         t[1][1] = "wipe" => \A i \in AllIds : Dead(recs, i) \/ DelOf(q, i),
         t[1][1] = "add" => \A i \in transfer'.imported : PutOf(q, i)
  PROVE  Brought(t[1][1], q, recs, transfer')
<1>1. t[1][1] \in Follow(Phase) /\ Phase \in PhaseNames
  BY PhaseAhead DEF Ahead1
<1>2. Brought(Phase, <<>>, recs, transfer) /\ \A i : ~PutOf(<<>>, i)
  BY BetweenPhases, EmptySeq DEF Ahead1, PutOf
<1>3. transfer'.data = transfer.data /\ (t[1][1] # "add" => transfer'.imported = transfer.imported)
  BY NextTransfer
<1>4. t[1][1] # "start" /\ (t[1][1] = "wipe" => Phase = "start")
  BY <1>1, FollowsOnly
<1>5. t[1][1] \notin Early => Phase = "add" \/ Phase \notin Early
  BY <1>1, FollowsNext DEF Early
<1> QED BY <1>2, <1>3, <1>4, <1>5 DEF Brought, Early

LEMMA NextLinks ==
  ASSUME RecordInv, NEW t, Ahead1(t), t[1][1] \notin Early \cup {"links", "rules"}
  PROVE  LinksKept(recs, stale)
BY PhaseAhead, BetweenPhases, EmptySeq, FollowsNext DEF Ahead1, PutOf, Early, SweepOK, AllLead, LinksKept, Resolved,
   Dead

\* The calls of the next phase, whichever it is.
LEMMA PhaseBegins ==
  ASSUME RecordInv, NEW t, Ahead1(t), NEW q \in CallLists, task' = [task EXCEPT !.phase = t, !.calls = q],
         UNCHANGED <<recs, keys, forms, file, abandoned, stale, spent>>,
         ListOK("import", q, recs, keys, abandoned),
         PhaseCallsOK(t[1], q, recs, transfer'.imported, transfer.data),
         t[1][1] = "wipe" => \A i \in AllIds : Dead(recs, i) \/ DelOf(q, i),
         t[1][1] = "add" => \A i \in transfer'.imported : PutOf(q, i),
         t[1][1] \notin Early \cup {"links", "rules"} =>
           \A k \in DOMAIN q : q[k].do = "put" /\ q[k].id \notin stale =>
             ~Dead(recs, q[k].id) /\ q[k].id \in AllIds /\ LinksOf(q[k].rec) = LinksOf(recs[q[k].id])
             /\ q[k].rec.gateway = recs[q[k].id].gateway,
         SweepOK(t[1][1], q, recs)
  PROVE  RecordInv'
<1>1. t \in PhaseLists /\ PhasesOK(t) /\ t[1][1] \in Follow(Phase) /\ Phase \in PhaseNames
  BY PhaseAhead DEF Ahead1
<1>2. t[1][1] \notin {"start", "takeBack"}
  BY <1>1, FollowsOnly
<1>3. /\ transfer' \in Transfers' /\ transfer'.data = transfer.data /\ transfer'.mode = transfer.mode
      /\ \A i \in transfer'.imported : transfer.data.recs[i].rev # 0
  BY NextTransfer
<1>4. SourcesOK(t, recs, keys, abandoned, transfer') /\ Brought(t[1][1], q, recs, transfer')
  BY NextSources, NextBrought
<1>5. ASSUME t[1][1] \notin Early \cup {"links", "rules"} PROVE LinksOK("import", q, recs, stale)
  <2>1. LinksKept(recs, stale)
    BY <1>5, NextLinks
  <2>2. LinksOK("import", <<>>, recs, stale)
    BY <2>1, LinksAtEnd
  <2>3. \A k \in DOMAIN q : q[k].do = "put" /\ q[k].id \notin stale => LinksTo("import", <<>>, 0, q[k].id, q[k].rec, recs)
    BY <1>5, <2>1 DEF LinksKept, Resolved, LinksTo, Dead
  <2> QED BY <2>2, <2>3, ImportLinks
<1>6. task.op = "import" /\ task' = [task EXCEPT !.calls = q, !.phase = t]
  BY DEF RecordInv, TypeInv, RecTypes, Ahead1, Tasks
<1>7. spent' \in Spending /\ spent.born \subseteq spent'.born
  BY DEF RecordInv, TypeInv, RecTypes
<1> QED BY <1>1, <1>2, <1>3, <1>4, <1>5, <1>6, <1>7, NextCalls

Turns(t) ==
  /\ Ahead1(t) /\ task' = [task EXCEPT !.phase = t, !.calls = PhaseCalls(t[1])]
  /\ UNCHANGED <<recs, keys, forms, file, abandoned, stale, spent>>

LEMMA WipeBegins ==
  ASSUME RecordInv, NEW t, Turns(t), t[1][1] = "wipe"
  PROVE  RecordInv'
BY BetweenPhases, WipeList, PhaseBegins DEF Turns, PhaseCalls, Ahead1, PhaseCallsOK, SweepOK, Early

LEMMA AddBegins ==
  ASSUME RecordInv, NEW t, Turns(t), t[1][1] = "add"
  PROVE  RecordInv'
<1> DEFINE q == AddCalls
           S == {i \in AllIds : ToImport(i)}
<1>1. Ahead1(t) /\ task' = [task EXCEPT !.phase = t, !.calls = q]
      /\ UNCHANGED <<recs, keys, forms, file, abandoned, stale, spent>>
  BY DEF Turns, PhaseCalls
<1>2. /\ Covers(q, S)
      /\ \A k \in DOMAIN q : q[k].do = "put" /\ q[k].rec = transfer.data.recs[q[k].id]
      /\ ListOK("import", q, recs, keys, abandoned)
  BY <1>1, AddList DEF Ahead1
<1>3. transfer'.imported = S
  BY <1>1, NextTransfer
<1> HIDE DEF q, S
<1>4. q \in CallLists /\ (\A k \in DOMAIN q : q[k].id \in S) /\ \A i \in transfer'.imported : PutOf(q, i)
  BY <1>2, <1>3 DEF Covers, PutOf, IsPut
<1>5. PhaseCallsOK(t[1], q, recs, transfer'.imported, transfer.data) /\ SweepOK(t[1][1], q, recs)
  BY <1>2, <1>3, <1>4 DEF PhaseCallsOK, SweepOK
<1>6. t[1][1] \in Early /\ t[1][1] # "wipe"
  BY DEF Early
<1> QED BY <1>1, <1>2, <1>4, <1>5, <1>6, PhaseBegins

LEMMA LinksBegins ==
  ASSUME RecordInv, NEW t, Turns(t), t[1][1] = "links"
  PROVE  RecordInv'
BY BetweenPhases, LinksList, PhaseBegins DEF Turns, PhaseCalls, Ahead1, PhaseCallsOK

LEMMA RulesBegins ==
  ASSUME RecordInv, NEW t, Turns(t), t[1][1] = "rules"
  PROVE  RecordInv'
<1> DEFINE q == SweepCalls([i \in AllIds |-> SweptRules(i)])
<1>1. Ahead1(t) /\ task' = [task EXCEPT !.phase = t, !.calls = q]
      /\ UNCHANGED <<recs, keys, forms, file, abandoned, stale, spent>>
  BY DEF Turns, PhaseCalls
<1>2. /\ q \in CallLists /\ ListOK("import", q, recs, keys, abandoned)
      /\ \A k \in DOMAIN q : q[k].do = "put" /\ ~Dead(recs, q[k].id) /\ q[k].rec.proxy = recs[q[k].id].proxy
      /\ SweepOK("rules", q, recs)
  BY <1>1, BetweenPhases, PhaseAhead, FollowsOnly, RulesList DEF Ahead1
<1> HIDE DEF q
<1>3. PhaseCallsOK(t[1], q, recs, transfer'.imported, transfer.data) /\ SweepOK(t[1][1], q, recs)
  BY <1>2 DEF PhaseCallsOK
<1> QED BY <1>1, <1>2, <1>3, PhaseBegins

LEMMA SettingsBegins ==
  ASSUME RecordInv, NEW t, Turns(t), t[1][1] = "settings"
  PROVE  RecordInv'
<1> DEFINE c == [do |-> "settings", id |-> None]
           q == <<c>>
<1>1. Ahead1(t) /\ task' = [task EXCEPT !.phase = t, !.calls = q]
      /\ UNCHANGED <<recs, keys, forms, file, abandoned, stale, spent>>
  BY DEF Turns, PhaseCalls
<1>2. c \in CallSet /\ c.do = "settings"
  BY DEF CallSet, SettingsCalls
<1> HIDE DEF c
<1>3. q \in CallLists /\ \A k \in DOMAIN q : q[k] = c
  BY <1>2 DEF CallLists
<1> HIDE DEF q
<1>4. ListOK("import", q, recs, keys, abandoned)
  BY <1>1, BetweenPhases, <1>2, <1>3, ClearingOK DEF Ahead1, Clears, DelsOK
<1>5. PhaseCallsOK(t[1], q, recs, transfer'.imported, transfer.data) /\ SweepOK(t[1][1], q, recs)
  BY <1>2, <1>3 DEF PhaseCallsOK, SweepOK
<1>6. \A k \in DOMAIN q : q[k].do # "put"
  BY <1>2, <1>3
<1> QED BY <1>1, <1>3, <1>4, <1>5, <1>6, PhaseBegins

\* Nothing is called.
LEMMA QuietBegins ==
  ASSUME RecordInv, NEW t, Turns(t), t[1][1] \in {"check", "done"}
  PROVE  RecordInv'
<1> DEFINE q == <<>>
<1>1. Ahead1(t) /\ task' = [task EXCEPT !.phase = t, !.calls = q]
      /\ UNCHANGED <<recs, keys, forms, file, abandoned, stale, spent>>
  BY DEF Turns, PhaseCalls
<1>2. q \in CallLists /\ DOMAIN q = {}
  BY DEF CallLists
<1> HIDE DEF q
<1>3. ListOK("import", q, recs, keys, abandoned)
  BY <1>1, BetweenPhases, <1>2, ClearingOK DEF Ahead1, DelsOK
<1>4. PhaseCallsOK(t[1], q, recs, transfer'.imported, transfer.data) /\ SweepOK(t[1][1], q, recs)
  BY <1>2 DEF PhaseCallsOK, SweepOK
<1>5. t[1][1] \notin {"wipe", "add"}
  OBVIOUS
<1> QED BY <1>1, <1>2, <1>3, <1>4, <1>5, PhaseBegins

LEMMA CarryBegins ==
  ASSUME RecordInv, NEW t, Turns(t), t[1][1] = "carry"
  PROVE  RecordInv'
<1> DEFINE S == LiveOf(Sources) \cap transfer.imported
           q == PutEach(S, recs)
<1>1. Ahead1(t) /\ task' = [task EXCEPT !.phase = t, !.calls = q]
      /\ UNCHANGED <<recs, keys, forms, file, abandoned, stale, spent>>
  BY DEF Turns, PhaseCalls, CarryCalls, PutEach
<1>2. Tidy(recs, keys, abandoned) /\ Whole(recs)
  BY <1>1, BetweenPhases DEF Ahead1
<1>3. S \in SUBSET AllIds /\ \A i \in S : ~Dead(recs, i)
  BY Ids DEF LiveOf, Dead
<1>4. \A i \in S : recs[i] \in RecordsOf /\ Shaped(i, recs[i])
  BY <1>2, <1>3 DEF Whole, RecordMaps
<1> HIDE DEF S
<1>5. /\ Writes(q, S, recs) /\ q \in CallLists /\ ListOK("import", q, recs, keys, abandoned)
      /\ \A k \in DOMAIN q : q[k].do = "put" /\ ~Dead(recs, q[k].id) /\ q[k].rec.proxy = recs[q[k].id].proxy
  BY <1>2, <1>3, <1>4, RewriteList DEF q
<1> HIDE DEF q
<1>6. PhaseCallsOK(t[1], q, recs, transfer'.imported, transfer.data) /\ SweepOK(t[1][1], q, recs)
  BY <1>5 DEF PhaseCallsOK, SweepOK
<1>7. \A k \in DOMAIN q : q[k].id \in AllIds /\ q[k].rec = recs[q[k].id]
  BY <1>3, <1>5 DEF Writes, Covers
<1> QED BY <1>1, <1>5, <1>6, <1>7, PhaseBegins

LEMMA DetachBegins ==
  ASSUME RecordInv, NEW t, Turns(t), t[1][1] = "detach"
  PROVE  RecordInv'
<1> DEFINE s == t[1][2]
           S == Detached(s)
           F == [i \in AllIds |-> [recs[i] EXCEPT !.owner = None, !.was = s]]
           q == PutEach(S, F)
<1>1. Ahead1(t) /\ UNCHANGED <<recs, keys, forms, file, abandoned, stale, spent>>
  BY DEF Turns
<1>2. Tidy(recs, keys, abandoned) /\ Whole(recs) /\ s \in Sources
  BY <1>1, BetweenPhases, PhaseAhead DEF Ahead1
<1>3. S \in SUBSET AllIds /\ S \subseteq Servers /\ \A i \in S : ~Dead(recs, i)
  BY Ids DEF Detached, Dead
<1>4. q = DetachCalls(s)
  BY <1>3, FiniteIds, EachOfLists DEF DetachCalls, PutEach
<1>5. task' = [task EXCEPT !.phase = t, !.calls = q]
  BY <1>4 DEF Turns, PhaseCalls
<1>6. ASSUME NEW i \in AllIds
      PROVE  /\ F[i] \in RecordsOf /\ Shaped(i, F[i]) /\ F[i].rev = recs[i].rev /\ F[i].proxy = recs[i].proxy
             /\ LinksOf(F[i]) = LinksOf(recs[i]) /\ F[i].gateway = recs[i].gateway
  BY <1>2 DEF Whole, RecordMaps, RecordsOf, Shaped, LinksOf
<1> HIDE DEF S, F
<1>7. /\ Writes(q, S, F) /\ q \in CallLists /\ ListOK("import", q, recs, keys, abandoned)
      /\ \A k \in DOMAIN q : q[k].do = "put" /\ ~Dead(recs, q[k].id) /\ q[k].rec.proxy = recs[q[k].id].proxy
  <2> HIDE DEF q
  <2>1. q = PutEach(S, F)
    BY DEF q
  <2>2. \A i \in S : /\ ~Dead(recs, i) /\ F[i] \in RecordsOf /\ F[i].rev = recs[i].rev /\ Shaped(i, F[i])
                     /\ F[i].proxy = recs[i].proxy
    BY <1>3, <1>6
  <2> QED BY SMTT(30), <1>2, <1>3, <2>1, <2>2, RewriteList
<1> HIDE DEF q
<1>8. PhaseCallsOK(t[1], q, recs, transfer'.imported, transfer.data) /\ SweepOK(t[1][1], q, recs)
  BY <1>7 DEF PhaseCallsOK, SweepOK
<1>9. \A k \in DOMAIN q : q[k].id \in AllIds /\ LinksOf(q[k].rec) = LinksOf(recs[q[k].id])
                          /\ q[k].rec.gateway = recs[q[k].id].gateway
  BY <1>3, <1>6, <1>7 DEF Writes, Covers
<1> QED BY <1>1, <1>5, <1>7, <1>8, <1>9, PhaseBegins

\* The secrets of records that were imported, of these kinds.
LEMMA SecretsList ==
  ASSUME RecordInv, NEW t, Ahead1(t), NEW K \in SUBSET (AllIds \ Templates), t[1][1] \in {"secrets", "source"},
         \A i \in K \cap transfer.imported : ~Dead(recs, i),
         \A s \in K \cap transfer.imported \cap Servers : recs[s].proxy = transfer.data.recs[s].proxy
  PROVE  LET q == SecretCalls(K) IN
         /\ q \in CallLists /\ ListOK("import", q, recs, keys, abandoned)
         /\ \A k \in DOMAIN q : q[k].do = "store" /\ q[k].id \in K \cap transfer.imported
BY BetweenPhases, SecretCallsAre, StoringOK DEF Ahead1, FileTyped, FileBound

LEMMA SecretsBegins ==
  ASSUME RecordInv, NEW t, Turns(t), t[1][1] = "secrets"
  PROVE  RecordInv'
<1> DEFINE K == Servers \cup Profiles
           q == SecretCalls(K)
<1>1. Ahead1(t) /\ task' = [task EXCEPT !.phase = t, !.calls = q]
      /\ UNCHANGED <<recs, keys, forms, file, abandoned, stale, spent>>
  BY DEF Turns, PhaseCalls
<1>2. K \in SUBSET (AllIds \ Templates)
  BY Ids
<1>3. \A i \in K \cap transfer.imported : ~Dead(recs, i) /\ recs[i].proxy = transfer.data.recs[i].proxy
  BY <1>1, BetweenPhases, PhaseAhead, FollowsOnly DEF Ahead1, Early, Brought
<1> HIDE DEF K
<1>4. /\ q \in CallLists /\ ListOK("import", q, recs, keys, abandoned)
      /\ \A k \in DOMAIN q : q[k].do = "store" /\ q[k].id \in K \cap transfer.imported
  BY <1>1, <1>2, <1>3, SecretsList
<1> HIDE DEF q
<1>5. PhaseCallsOK(t[1], q, recs, transfer'.imported, transfer.data) /\ SweepOK(t[1][1], q, recs)
  BY <1>4 DEF PhaseCallsOK, SweepOK, K
<1>6. \A k \in DOMAIN q : q[k].do # "put"
  BY <1>4
<1> QED BY <1>1, <1>4, <1>5, <1>6, PhaseBegins

LEMMA SourceBegins ==
  ASSUME RecordInv, NEW t, Turns(t), t[1][1] = "source"
  PROVE  RecordInv'
<1> DEFINE s == t[1][2]
           K == {s}
           q == SecretCalls(K)
<1>1. Ahead1(t) /\ task' = [task EXCEPT !.phase = t, !.calls = q]
      /\ UNCHANGED <<recs, keys, forms, file, abandoned, stale, spent>>
  BY DEF Turns, PhaseCalls
<1>2. s \in Sources /\ 1 \in DOMAIN t
  BY <1>1, PhaseAhead DEF Ahead1
<1>3. K \in SUBSET (AllIds \ Templates) /\ K \cap transfer.imported \cap Servers = {}
  BY <1>2, Ids
<1>4. transfer'.imported = transfer.imported
  BY <1>1, NextTransfer
<1>5. \A i \in K \cap transfer.imported : ~Dead(recs, i)
  BY <1>1, NextSources, <1>2, <1>4 DEF SourcesOK, Early
<1> HIDE DEF K
<1>6. /\ q \in CallLists /\ ListOK("import", q, recs, keys, abandoned)
      /\ \A k \in DOMAIN q : q[k].do = "store" /\ q[k].id \in K \cap transfer.imported
  BY <1>1, <1>3, <1>5, SecretsList
<1> HIDE DEF q
<1>7. PhaseCallsOK(t[1], q, recs, transfer'.imported, transfer.data) /\ SweepOK(t[1][1], q, recs)
  BY <1>4, <1>6 DEF PhaseCallsOK, SweepOK, K
<1>8. \A k \in DOMAIN q : q[k].do # "put"
  BY <1>6
<1> QED BY <1>1, <1>6, <1>7, <1>8, PhaseBegins

LEMMA ImportEnds ==
  ASSUME RecordInv, task.op = "import", task.calls = <<>>, task' = IdleTask, transfer' = NoTransfer,
         Phase \in {"done", "check"}, UNCHANGED <<recs, keys, forms, file, abandoned, stale, spent>>
  PROVE  RecordInv'
<1>1. Tidy(recs, keys, abandoned) /\ LinksKept(recs, stale)
  BY BetweenPhases DEF Early
<1>2. TypeInv'
  BY FormsKept DEF IdleTask, Tasks, Ops, CallLists, PhaseLists, RecordInv, TypeInv, RecTypes, TransferTyped,
     NoTransfer, Transfers, FileTyped
<1>3. FileBound(file', abandoned')
  BY DEF RecordInv, ListInv
<1>4. ListInv' /\ LinkInv'
  BY <1>1, <1>3, Settled DEF IdleTask
<1> QED BY <1>2, <1>4 DEF RecordInv

LEMMA AdvanceStep ==
  ASSUME RecordInv, Advance
  PROVE  RecordInv'
<1> DEFINE t == Tail(task.phase)
<1>1. /\ task.op = "import" /\ task.calls = <<>>
      /\ UNCHANGED <<recs, keys, forms, file, abandoned, stale, spent>>
  BY DEF Advance
<1>2. CASE task' = IdleTask /\ transfer' = NoTransfer /\ Phase \in {"done", "check"}
  BY <1>1, <1>2, ImportEnds
<1>3. CASE /\ Phase # "done" /\ task' = [task EXCEPT !.phase = t, !.calls = PhaseCalls(Head(t))]
           /\ transfer' = [transfer EXCEPT !.imported = IF Head(t)[1] = "add" THEN {i \in AllIds : ToImport(i)} ELSE @,
                                           !.stored = <<>>]
  <2>1. /\ Head(t) = t[1] /\ t[1][1] \in Follow(Phase) /\ Phase \in PhaseNames
        /\ t \in PhaseLists /\ 1 \in DOMAIN t
    BY <1>1, <1>3, PhaseAhead
  <2>2. t[1][1] \in PhaseNames \ {"start", "takeBack"}
    BY <2>1, FollowsOnly DEF PhaseLists
  <2>3. Turns(t)
    BY <1>1, <1>3, <2>1 DEF Turns, Ahead1
  <2> HIDE DEF t
  <2> QED BY <2>2, <2>3, WipeBegins, AddBegins, LinksBegins, RulesBegins, SettingsBegins, QuietBegins, CarryBegins,
             DetachBegins, SecretsBegins, SourceBegins DEF PhaseNames
<1> QED BY <1>2, <1>3 DEF Advance

------------------------------------------------------------------------------
(* Commands *)

LEMMA WhenFree ==
  ASSUME RecordInv, Free
  PROVE  /\ task = IdleTask /\ transfer = NoTransfer
         /\ Tidy(recs, keys, abandoned) /\ LinksKept(recs, stale) /\ FileBound(file, abandoned)
BY RestIsTidy, LinksAtEnd DEF RecordInv, TypeInv, RecTypes, TransferTyped, Free, IdleTask, ListInv, LinkInv

LEMMA RecordFacts ==
  ASSUME RecordInv
  PROVE  /\ Whole(recs) /\ Vault(keys) /\ keys \in KeyMaps /\ spent \in Spending /\ FormsOK
         /\ abandoned \in SUBSET AllIds /\ stale \in SUBSET AllIds
         /\ \A i \in AllIds : recs[i] \in RecordsOf /\ Shaped(i, recs[i])
         /\ \A i \in AllIds : Dead(recs, i) \/ i \in spent.born
         /\ FileTyped(file)
BY DEF RecordInv, TypeInv, RecTypes, Vault, Whole, RecordMaps

\* A command that was given the lock starts its calls.
LEMMA Started ==
  ASSUME RecordInv, Free, NEW op \in Ops \ {"idle", "import", "undo"}, NEW q \in CallLists, NEW u \in CallLists,
         task' = [op |-> op, calls |-> q, undo |-> u, phase |-> <<>>], UNCHANGED <<recs, keys, file, transfer>>,
         FormsOK', abandoned \subseteq abandoned', abandoned' \in SUBSET AllIds,
         stale \subseteq stale', stale' \in SUBSET AllIds, spent' \in Spending, spent.born \subseteq spent'.born,
         CallsOK(op, q, recs, keys, abandoned'), UndoOK(op, q, u, keys, abandoned'),
         \A k \in DOMAIN q : q[k].do = "put" /\ q[k].id \notin stale' => LinksTo(op, q, k, q[k].id, q[k].rec, recs),
         UndoLinks(u, recs, stale')
  PROVE  RecordInv'
<1>1. /\ task'.op = op /\ task'.calls = q /\ task'.undo = u /\ task'.phase = <<>> /\ task' \in Tasks
  BY DEF Tasks, PhaseLists
<1>2. /\ Tidy(recs, keys, abandoned) /\ LinksKept(recs, stale) /\ FileBound(file, abandoned) /\ transfer = NoTransfer
  BY WhenFree
<1>3. TypeInv'
  BY <1>1, <1>2 DEF RecordInv, TypeInv, RecTypes, TransferTyped, Transfers, FileTyped
<1>4. ListInv'
  BY <1>2, TidyList, <1>1 DEF Tidy, FileBound, ListInv, ImportOK
<1>5. LinkInv'
  BY <1>2, <1>1 DEF LinksKept, Resolved, LinksTo, Dead, LinksOK, LinkInv
<1> QED BY <1>3, <1>4, <1>5 DEF RecordInv

\* Nothing that the invariant is about changes, but for a dialog or the file.
LEMMA Beside ==
  ASSUME RecordInv, UNCHANGED <<recs, keys, task, abandoned, stale, transfer>>, FormsOK',
         FileTyped(file'), FileBound(file', abandoned), spent' \in Spending, spent.born \subseteq spent'.born
  PROVE  RecordInv'
BY DEF RecordInv, TypeInv, RecTypes, TransferTyped, Transfers, FileTyped, Phase, ListInv, ImportOK, LinkInv

LEMMA FormChanged ==
  ASSUME FormsOK, NEW k \in 1..2, NEW f, FormOK(f), forms' = [forms EXCEPT ![k] = f]
  PROVE  FormsOK'
BY DEF FormsOK

LEMMA FormDropped ==
  ASSUME FormsOK, NEW k \in 1..2, forms' = [forms EXCEPT ![k] = NoForm]
  PROVE  FormsOK'
BY FormChanged DEF FormOK, NoForm

LEMMA OpenStep ==
  ASSUME RecordInv, NEW f, FormOK(f), Open(f), UNCHANGED transfer
  PROVE  RecordInv'
BY FormChanged, SpentIs, Beside DEF Open, RecordInv, TypeInv, Quiet, RecTypes, ListInv

LEMMA RefuseStep ==
  ASSUME RecordInv, NEW k \in 1..2, forms' = [forms EXCEPT ![k] = NoForm], Refuse, UNCHANGED transfer
  PROVE  RecordInv'
BY FormDropped, Beside DEF RecordInv, TypeInv, Refuse, Plain, Kept, RecTypes, ListInv

Opens ==
  \/ OpenServerForm \/ OpenNewServer \/ OpenServerDialog \/ OpenDeploy \/ OpenConnection
  \/ OpenProfile \/ OpenDeleteProfile \/ OpenLink \/ OpenTemplate \/ OpenDeleteTemplate \/ OpenRule \/ OpenApply
  \/ OpenNewSource

LEMMA OpensStep ==
  ASSUME RecordInv, Opens, UNCHANGED transfer
  PROVE  RecordInv'
<1>1. /\ \A i \in AllIds : recs[i] \in RecordsOf /\ Shaped(i, recs[i])
      /\ Servers \subseteq AllIds /\ Profiles \subseteq AllIds /\ Templates \subseteq AllIds /\ Sources \subseteq AllIds
  BY RecordFacts, Ids
<1>2. /\ DOMAIN Offers = LiveOf(Profiles) /\ \A K : LiveOf(K) \subseteq K
      /\ \A K : \A i \in LiveOf(K) : recs[i].rev # 0
  BY DEF Offers, LiveOf
<1> HIDE DEF Offers
<1>3. \A s \in LiveOf(Servers) : s \in Servers /\ recs[s] \in RecordsOf /\ Shaped(s, recs[s]) /\ recs[s].rev # 0
  BY <1>1, <1>2
<1>4. SUFFICES ASSUME NEW f, Open(f) PROVE FormOK(f) => RecordInv'
  <2>1. CASE OpenServerForm
    BY <2>1, <1>2, <1>3, <1>4 DEF OpenServerForm, FormOK, SeenOK, OffersOK
  <2>2. CASE OpenNewServer
    BY <1>2, <1>4, <2>2 DEF FormOK, OffersOK, OpenNewServer
  <2>3. CASE OpenServerDialog
    BY <2>3, <1>3, <1>4 DEF OpenServerDialog, FormOK, SeenOK
  <2>4. CASE OpenDeploy
    BY <2>4, <1>2, <1>3, <1>4 DEF OpenDeploy, FormOK, SeenOK
  <2>5. CASE OpenConnection
    BY <2>5, <1>3, <1>4 DEF OpenConnection, FormOK, SeenOK
  <2>6. CASE OpenProfile
    BY <2>6, <1>2, <1>4 DEF OpenProfile, FormOK
  <2>7. CASE OpenDeleteProfile
    BY <2>7, <1>2, <1>4 DEF OpenDeleteProfile, FormOK
  <2>8. CASE OpenLink
    BY <2>8, <1>2, <1>4 DEF OpenLink, FormOK
  <2>9. CASE OpenTemplate
    BY <1>2, <1>4, <2>9 DEF FormOK, OffersOK, OpenTemplate
  <2>10. CASE OpenDeleteTemplate
    BY <2>10, <1>2, <1>4 DEF OpenDeleteTemplate, FormOK
  <2>11. CASE OpenRule
    BY <2>11, <1>1, <1>2, <1>4 DEF OpenRule, RecordsOf, FormOK
  <2>12. CASE OpenApply
    BY <2>12, <1>2, <1>4 DEF OpenApply, FormOK
  <2>13. CASE OpenNewSource
    BY <2>13, <1>2, <1>4 DEF OpenNewSource, FormOK
  <2> QED BY <2>1, <2>2, <2>3, <2>4, <2>5, <2>6, <2>7, <2>8, <2>9, <2>10, <2>11, <2>12, <2>13 DEF Opens
<1> QED BY <1>4, OpenStep

LEMMA DismissStep ==
  ASSUME RecordInv, NEW k \in 1..2, DismissDialog(k), UNCHANGED transfer
  PROVE  RecordInv'
BY RefuseStep DEF DismissDialog, Refuse, Plain, Kept

------------------------------------------------------------------------------
(* A login goes while others hold the lock *)

\* More is given up, and logins have gone.
LEMMA FewerSecrets ==
  ASSUME NEW op, NEW q, NEW R, NEW K, NEW A, ListOK(op, q, R, K, A), NEW K2, NEW A2, A \subseteq A2,
         \A i \in AllIds : K2[i]["proxy"] = K[i]["proxy"] /\ K2[i]["login"] \in {NoKey, K[i]["login"]},
         \A k \in DOMAIN q : q[k].do = "del" => q[k].id \in AllIds
  PROVE  ListOK(op, q, R, K2, A2)
BY Ids DEF Fields, ListOK, CallsOK, PutsOK, DelsOK, StoresOK, RestoresOK, VaultOK, BoundOK

LEMMA DropStep ==
  ASSUME RecordInv, NEW k \in 1..2, DropPassword(k), UNCHANGED transfer
  PROVE  RecordInv'
<1> DEFINE s == forms[k].id
<1>1. /\ keys' = [keys EXCEPT ![s].login = NoKey] /\ forms' = [forms EXCEPT ![k] = NoForm]
      /\ abandoned' \in {abandoned, abandoned \cup {s}} /\ UNCHANGED <<recs, task, file, stale, spent>>
      /\ forms[k].op = "dropPassword"
  BY DEF DropPassword
<1>2. /\ Whole(recs) /\ Vault(keys) /\ keys \in KeyMaps /\ spent \in Spending /\ FormsOK
      /\ abandoned \in SUBSET AllIds /\ stale \in SUBSET AllIds
  BY RecordFacts
<1>3. s \in Servers /\ s \in AllIds /\ s \notin Templates
  BY <1>1, <1>2, Ids DEF FormsOK, FormOK
<1> HIDE DEF s
<1>4. /\ \A i \in AllIds : keys'[i]["proxy"] = keys[i]["proxy"] /\ keys'[i]["login"] \in {NoKey, keys[i]["login"]}
      /\ \A i \in AllIds \ {s} : keys'[i] = keys[i]
      /\ keys' \in KeyMaps
  BY <1>1, <1>2, <1>3 DEF KeyMaps, Fields, NoKey
<1>5. abandoned \subseteq abandoned' /\ abandoned' \in SUBSET AllIds
  BY <1>1, <1>2, <1>3
<1>6. TypeInv'
  <2>1. Vault(keys')
    BY <1>2, <1>3, <1>4, Ids DEF Vault
  <2>2. RecTypes'
    BY <1>1, <1>5, <2>1 DEF RecordInv, TypeInv, RecTypes
  <2>3. FormsOK'
    BY <1>1, <1>2, FormDropped
  <2>4. TransferTyped'
    BY <1>1 DEF RecordInv, TypeInv, TransferTyped, Transfers
  <2> QED BY <1>1, <2>2, <2>3, <2>4 DEF RecordInv, TypeInv, FileTyped
<1>7. Phase' = Phase
  BY <1>1 DEF Phase
<1>8. ListOK(task.op, task.calls, recs, keys', abandoned')
  BY TaskTypes, CallKinds, <1>4, <1>5, FewerSecrets DEF RecordInv, TypeInv, CallLists, ListInv
<1>9. UndoOK(task.op, task.calls, task.undo, keys', abandoned')
  BY <1>4, Ids, <1>5 DEF RecordInv, ListInv, UndoesForm, RestoresOK, UndoOK
<1>10. FileBound(file, abandoned')
  BY <1>5 DEF RecordInv, ListInv, FileBound
<1>11. ImportOK'
  <2> SUFFICES ASSUME task.op = "import" PROVE ImportOK'
    BY <1>1 DEF ImportOK
  <2>1. FileBound(transfer.data, abandoned')
    BY <1>5 DEF RecordInv, ListInv, ImportOK, FileBound
  <2>2. SourcesOK(task.phase, recs, keys', abandoned', transfer)
    BY <1>4, <1>5, ImportFacts, SourcesKept DEF RecordInv, ListInv, ImportOK, Fresh, Fields, SameImport
  <2> QED BY <1>1, <1>7, <2>1, <2>2 DEF RecordInv, ListInv, ImportOK
<1>12. ListInv'
  BY <1>1, <1>8, <1>9, <1>10, <1>11 DEF ListInv
<1>13. LinkInv'
  BY <1>1, <1>7 DEF RecordInv, LinkInv
<1> QED BY <1>6, <1>12, <1>13 DEF RecordInv

------------------------------------------------------------------------------
(* Exports *)

LEMMA BackupStep ==
  ASSUME RecordInv, ExportBackup
  PROVE  RecordInv'
BY RecordFacts, WhenFree, Ids, FormsKept, SpentIs, Beside DEF ExportBackup, AtRest, Occupied, NoKeys, NoKey,
   KeyMaps, Tidy, Dead, Fields, FileTyped, FileBound, Whole

LEMMA ShareStep ==
  ASSUME RecordInv, ExportShare
  PROVE  RecordInv'
<1> DEFINE K == [i \in AllIds |-> NoKeys]
           R == Sanitized(recs)
<1>1. /\ Whole(recs) /\ spent \in Spending /\ FormsOK
      /\ \A i \in AllIds : recs[i] \in RecordsOf /\ Shaped(i, recs[i])
  BY RecordFacts
<1>2. /\ file'.recs = R /\ file'.bad = {} /\ file'.keys = K
      /\ UNCHANGED <<recs, keys, task, abandoned, stale, transfer, forms>> /\ spent' = [spent EXCEPT !.commands = @ + 1]
  BY DEF ExportShare, AtRest, Occupied
<1>3. K \in KeyMaps /\ \A s \in Servers : K[s]["proxy"] = NoKey
  BY Ids DEF KeyMaps, NoKeys, NoKey, Fields
<1>4. ASSUME NEW i \in AllIds PROVE R[i] \in RecordsOf /\ Shaped(i, R[i])
  BY <1>1 DEF Gone, Rec, RecordsOf, Shaped, None, Sanitized
<1>5. R \in RecordMaps
  BY <1>4 DEF Sanitized, RecordMaps
<1> HIDE DEF K, R
<1>6. FileTyped(file') /\ FileBound(file', abandoned)
  BY <1>2, <1>3, <1>5 DEF FileTyped, FileBound
<1>7. FormsOK' /\ spent' \in Spending /\ spent.born \subseteq spent'.born
  BY <1>1, <1>2, FormsKept, SpentIs
<1> QED BY <1>2, <1>6, <1>7, Beside

------------------------------------------------------------------------------
(* Commands that write or remove one record *)

LEMMA LowestIs ==
  ASSUME NEW S \in SUBSET AllIds, S # {}
  PROVE  Lowest(S) \in S
<1>1. S \in SUBSET Nat
  BY Ids
<1> DEFINE L == OpToRel(<, Nat)
<1>2. PICK x \in S : \A y \in S : <<y, x>> \notin L
  BY NatLessThanWellFounded, <1>1, WFMin
<1>3. \A y \in S : ~(y < x)
  BY <1>1, <1>2 DEF OpToRel
<1>4. \A y \in S : x <= y
  BY <1>1, <1>3
<1> QED BY <1>4 DEF Lowest

\* An id that was never used has no record and no secret.
LEMMA NewIdIs ==
  ASSUME RecordInv, Free, NEW K \in SUBSET AllIds, Unborn(K) # {}
  PROVE  LET i == Lowest(Unborn(K)) IN
         /\ i \in K /\ i \in AllIds /\ Dead(recs, i)
         /\ \A f \in Fields : i \in abandoned \/ keys[i][f] = NoKey
BY LowestIs, RecordFacts, WhenFree DEF Unborn, Tidy

LEMMA NewerIs ==
  ASSUME spent \in Spending, NEW i \in AllIds, NEW r \in RecordsOf, Shaped(i, r)
  PROVE  LET n == Newer(r) IN
         /\ n \in RecordsOf /\ n.rev # 0 /\ Shaped(i, n) /\ LinksOf(n) = LinksOf(r)
         /\ n.proxy = r.proxy /\ n.gateway = r.gateway /\ n.profile = r.profile /\ n.rules = r.rules
BY DEF Spending, Newer, RecordsOf, Shaped, LinksOf

\* Nothing to undo.
LEMMA NoUndo ==
  ASSUME NEW op \in Ops \ {"serverForm", "apply", "source", "undo"}, NEW q, NEW R, NEW K, NEW A, NEW S
  PROVE  UndoOK(op, q, <<>>, K, A) /\ UndoLinks(<<>>, R, S)
BY EmptySeq DEF UndoOK, UndoLinks

PlainOps == Ops \ {"idle", "import", "undo", "serverForm", "apply", "source"}

LEMMA StartedPlain ==
  ASSUME RecordInv, Free, NEW op \in PlainOps, NEW q \in CallLists, Busy(op, q, <<>>),
         UNCHANGED <<recs, keys, file, transfer, abandoned>>, FormsOK', stale \subseteq stale', stale' \in SUBSET AllIds,
         spent' \in Spending, spent.born \subseteq spent'.born,
         CallsOK(op, q, recs, keys, abandoned),
         \A k \in DOMAIN q : q[k].do = "put" /\ q[k].id \notin stale' => LinksTo(op, q, k, q[k].id, q[k].rec, recs)
  PROVE  RecordInv'
<1>1. <<>> \in CallLists
  BY DEF CallLists
<1>2. UndoOK(op, q, <<>>, keys, abandoned') /\ UndoLinks(<<>>, recs, stale')
  BY NoUndo DEF PlainOps
<1>3. op \in Ops \ {"idle", "import", "undo"}
  BY DEF PlainOps
<1>4. abandoned' \in SUBSET AllIds /\ abandoned \subseteq abandoned' /\ CallsOK(op, q, recs, keys, abandoned')
  BY RecordFacts
<1>5. task' = [op |-> op, calls |-> q, undo |-> <<>>, phase |-> <<>>]
  BY DEF Busy
<1> QED BY <1>1, <1>2, <1>3, <1>4, <1>5, Started

\* Records that are written, with the password of their proxy or without one.
LEMMA PutsAlone ==
  ASSUME NEW op, NEW q, NEW R, NEW K, NEW A,
         \A k \in DOMAIN q : /\ q[k].do = "put"
                             /\ q[k].id \in Servers \ A => K[q[k].id]["proxy"] \in {NoKey, q[k].rec.proxy},
         \A j, k \in DOMAIN q : q[j].id = q[k].id => j = k
  PROVE  CallsOK(op, q, R, K, A)
BY DEF CallsOK, Orderly, PutsOK, DelsOK, StoresOK, RestoresOK

\* The links of a record lead to records now.
Leads(i, r, R) == \A x \in LinksOf(r) : ~Dead(R, x) \/ (i \in Templates /\ x = r.gateway)

LEMMA StartedPut ==
  ASSUME RecordInv, Free, NEW op \in PlainOps, NEW i \in AllIds, NEW r \in RecordsOf, r.rev # 0, Shaped(i, r),
         Busy(op, <<Put(i, r)>>, <<>>),
         UNCHANGED <<recs, keys, file, transfer, abandoned>>, FormsOK', stale \subseteq stale', stale' \in SUBSET AllIds,
         spent' \in Spending, spent.born \subseteq spent'.born,
         i \in Servers \ abandoned => keys[i]["proxy"] \in {NoKey, r.proxy},
         i \in stale' \/ Leads(i, r, recs)
  PROVE  RecordInv'
<1> DEFINE c == Put(i, r)
           q == <<c>>
<1>1. c \in CallSet /\ c.do = "put" /\ c.id = i /\ c.rec = r
  BY PutIs
<1>2. Busy(op, q, <<>>)
  OBVIOUS
<1> HIDE DEF c
<1>3. q \in CallLists /\ DOMAIN q = {1} /\ q[1] = c
  BY <1>1 DEF CallLists
<1> HIDE DEF q
<1>4. CallsOK(op, q, recs, keys, abandoned)
  BY <1>1, <1>3, PutsAlone
<1>5. \A k \in DOMAIN q : q[k].do = "put" /\ q[k].id \notin stale' => LinksTo(op, q, k, q[k].id, q[k].rec, recs)
  BY <1>1, <1>3 DEF Leads, LinksTo
<1> QED BY <1>2, <1>3, <1>4, <1>5, StartedPlain

\* What the live record says of itself.
LEMMA LiveRecord ==
  ASSUME RecordInv, Free, NEW i \in AllIds, ~Dead(recs, i)
  PROVE  /\ recs[i] \in RecordsOf /\ Shaped(i, recs[i])
         /\ i \in stale \/ Leads(i, recs[i], recs)
         /\ i \in Servers \ abandoned => keys[i]["proxy"] \in {NoKey, recs[i].proxy}
BY RecordFacts, WhenFree DEF Tidy, LinksKept, Resolved, Leads, Dead

LEMMA AnsweredIs ==
  ASSUME RecordInv, NEW k \in 1..2, NEW op, Answered(k, op)
  PROVE  forms[k].op = op /\ Free /\ FormOK(forms[k]) /\ FormsOK' /\ forms' = [forms EXCEPT ![k] = NoForm]
BY FormDropped DEF RecordInv, TypeInv, Answered, FormsOK

LEMMA DuplicateStep ==
  ASSUME RecordInv, NEW k \in 1..2, DuplicateServer(k), UNCHANGED transfer
  PROVE  RecordInv'
<1> DEFINE s == Lowest(Unborn(Servers))
           r0 == [forms[k].seen EXCEPT !.owner = None, !.was = None]
           r == Newer(r0)
<1>1. /\ Answered(k, "duplicate") /\ Unborn(Servers) # {} /\ Busy("duplicate", <<Put(s, r)>>, <<>>)
      /\ stale' = stale \cup {s} /\ UNCHANGED <<recs, keys, file, spent, abandoned>>
  BY DEF DuplicateServer, Kept
<1>2. Free /\ FormsOK' /\ SeenOK(forms[k])
  BY <1>1, AnsweredIs DEF FormOK
<1>3. s \in Servers /\ s \in AllIds /\ (s \in abandoned \/ keys[s]["proxy"] = NoKey)
  BY <1>1, <1>2, NewIdIs, Ids DEF Fields
<1>4. r0 \in RecordsOf /\ Shaped(s, r0)
  BY <1>2, <1>3, Ids DEF SeenOK, RecordsOf, Shaped
<1> HIDE DEF s, r0
<1>5. spent \in Spending /\ stale \in SUBSET AllIds
  BY RecordFacts
<1>6. r \in RecordsOf /\ r.rev # 0 /\ Shaped(s, r)
  BY <1>3, <1>4, <1>5, NewerIs
<1> HIDE DEF r
<1>7. "duplicate" \in PlainOps
  BY DEF PlainOps, Ops
<1>8. stale' \in SUBSET AllIds /\ stale \subseteq stale' /\ s \in stale'
  BY <1>1, <1>3, <1>5
<1> QED BY <1>1, <1>2, <1>3, <1>5, <1>6, <1>7, <1>8, StartedPut

LEMMA RenameStep ==
  ASSUME RecordInv, NEW k \in 1..2, RenameServer(k), UNCHANGED transfer
  PROVE  RecordInv'
BY AnsweredIs, RefuseStep, Ids, LiveRecord, RecordFacts, NewerIs, StartedPut DEF RenameServer, FormOK, SeenOK, Dead,
   Plain, Kept, Leads, PlainOps, Ops

LEMMA OnePut ==
  ASSUME NEW i \in AllIds, NEW r \in RecordsOf, r.rev # 0, Shaped(i, r)
  PROVE  LET q == <<Put(i, r)>> IN
         /\ q \in CallLists /\ DOMAIN q = {1} /\ \A k \in DOMAIN q : q[k].do = "put" /\ q[k].id = i /\ q[k].rec = r
BY PutIs DEF CallLists

LEMMA DeployStep ==
  ASSUME RecordInv, NEW k \in 1..2, DeployKey(k), UNCHANGED transfer
  PROVE  RecordInv'
<1> DEFINE f == forms[k]
           i == f.id
           r0 == [recs[i] EXCEPT !.profile = f.pick]
           r == Newer(r0)
<1>1. /\ Free /\ f.op = "deploy"
      /\ \/ forms' = [forms EXCEPT ![k] = NoForm] /\ Refuse
         \/ /\ SameTarget(f) /\ forms' = [forms EXCEPT ![k] = DropForm(i)]
            /\ Busy("deploy", <<Put(i, r)>>, <<>>)
            /\ stale' = IF f.pick \in {None} \cup LiveOf(Profiles) THEN stale ELSE stale \cup {i}
            /\ Kept /\ UNCHANGED abandoned
  BY DEF DeployKey
<1>2. SeenOK(f) /\ f.pick \in Profiles \cup {None} /\ FormsOK
  BY <1>1, RecordFacts DEF FormsOK, FormOK
<1>3. CASE forms' = [forms EXCEPT ![k] = NoForm] /\ Refuse
  BY <1>3, RefuseStep
<1>4. CASE /\ SameTarget(f) /\ forms' = [forms EXCEPT ![k] = DropForm(i)]
           /\ Busy("deploy", <<Put(i, r)>>, <<>>)
           /\ stale' = IF f.pick \in {None} \cup LiveOf(Profiles) THEN stale ELSE stale \cup {i}
           /\ Kept /\ UNCHANGED abandoned
  <2>1. i \in Servers /\ i \in AllIds /\ ~Dead(recs, i)
    BY <1>2, <1>4, Ids DEF SeenOK, Dead, SameTarget
  <2>2. UNCHANGED <<recs, keys, file, spent, abandoned>> /\ Busy("deploy", <<Put(i, r)>>, <<>>)
    BY <1>4 DEF Kept
  <2>3. /\ recs[i] \in RecordsOf /\ Shaped(i, recs[i])
        /\ i \in stale \/ Leads(i, recs[i], recs)
        /\ i \in Servers \ abandoned => keys[i]["proxy"] \in {NoKey, recs[i].proxy}
        /\ spent \in Spending /\ stale \in SUBSET AllIds
    BY <1>1, <2>1, LiveRecord, RecordFacts
  <2>4. /\ r0 \in RecordsOf /\ Shaped(i, r0) /\ r0.proxy = recs[i].proxy /\ r0.gateway = recs[i].gateway
        /\ LinksOf(r0) \subseteq LinksOf(recs[i]) \cup ({f.pick} \ {None})
    BY <1>2, <2>3, <2>1, Ids DEF RecordsOf, Shaped, LinksOf
  <2>5. stale' \in SUBSET AllIds /\ stale \subseteq stale'
    BY <1>4, <2>1, <2>3
  <2>6. i \in stale' \/ Leads(i, r0, recs)
    BY <1>4, <2>3, <2>4 DEF LiveOf, Dead, Leads
  <2>7. FormsOK'
    BY <2>1, <1>2, <1>4, FormChanged DEF FormOK, DropForm
  <2> HIDE DEF i, r0
  <2>8. /\ r \in RecordsOf /\ r.rev # 0 /\ Shaped(i, r) /\ LinksOf(r) = LinksOf(r0)
        /\ r.proxy = r0.proxy /\ r.gateway = r0.gateway
    BY <2>1, <2>3, <2>4, NewerIs
  <2> HIDE DEF r
  <2>9. i \in stale' \/ Leads(i, r, recs)
    BY <2>6, <2>8 DEF Leads
  <2>10. "deploy" \in PlainOps
    BY DEF PlainOps, Ops
  <2> QED BY <1>1, <2>1, <2>2, <2>3, <2>4, <2>5, <2>7, <2>8, <2>9, <2>10, StartedPut
<1> QED BY <1>1, <1>3, <1>4

LEMMA TemplateStep ==
  ASSUME RecordInv, NEW k \in 1..2, SaveTemplate(k), UNCHANGED transfer
  PROVE  RecordInv'
<1> DEFINE f == forms[k]
           i == IF f.id = None THEN Lowest(Unborn(Templates)) ELSE f.id
<1>1. Answered(k, "template") /\ (f.id = None => Unborn(Templates) # {})
  BY DEF SaveTemplate
<1>2. /\ Free /\ FormsOK' /\ f.id \in Templates \cup {None} /\ OffersOK(f) /\ forms' = [forms EXCEPT ![k] = NoForm]
  BY <1>1, AnsweredIs DEF FormOK
<1>3. i \in Templates /\ i \in AllIds
  BY <1>2, <1>1, Ids, NewIdIs
<1> HIDE DEF i
<1>4. PICK p \in {None} \cup DOMAIN f.offers, g \in {None} \cup f.peers, endpoint \in {None} \cup Endpoints :
        Refuse \/ (StillThere(p) /\ Busy("template", <<Put(i, Rec(p, g, {}, None, endpoint, 1))>>, <<>>) /\ Plain)
  BY DEF SaveTemplate, i
<1>5. CASE Refuse
  BY <1>2, <1>5, RefuseStep
<1>6. CASE StillThere(p) /\ Busy("template", <<Put(i, Rec(p, g, {}, None, endpoint, 1))>>, <<>>) /\ Plain
  <2> DEFINE r == Rec(p, g, {}, None, endpoint, 1)
  <2>1. p \in Profiles \cup {None} /\ g \in Servers \cup {None}
    BY <1>2, <1>4 DEF OffersOK
  <2>2. /\ r \in RecordsOf /\ r.rev # 0 /\ r.gateway = g /\ LinksOf(r) = {p, g} \ {None} /\ Shaped(i, r)
    BY <1>3, <1>4, <2>1, Ids DEF Rec, RecordsOf, LinksOf, Shaped, None
  <2>3. UNCHANGED <<recs, keys, file, spent, abandoned, stale>> /\ Busy("template", <<Put(i, r)>>, <<>>)
    BY <1>6 DEF Plain, Kept
  <2> HIDE DEF r
  <2>4. Leads(i, r, recs)
    BY <1>3, <1>6, <2>2 DEF Leads, StillThere, Dead
  <2>5. spent \in Spending /\ stale \in SUBSET AllIds /\ i \notin Servers
    BY <1>3, RecordFacts, Ids
  <2>6. "template" \in PlainOps
    BY DEF PlainOps, Ops
  <2> QED BY <1>2, <1>3, <2>2, <2>3, <2>4, <2>5, <2>6, StartedPut
<1> QED BY <1>4, <1>5, <1>6

LEMMA RulesStep ==
  ASSUME RecordInv, NEW k \in 1..2, SaveTemplateRules(k), UNCHANGED transfer
  PROVE  RecordInv'
<1> DEFINE f == forms[k]
           i == f.id
           r == [recs[i] EXCEPT !.rules = (@ \ {f.old}) \cup ({f.new} \ {None})]
<1>1. Answered(k, "rule")
  BY DEF SaveTemplateRules
<1>2. /\ Free /\ FormsOK' /\ i \in Sources /\ {f.old, f.new} \subseteq Templates \cup {None}
      /\ forms' = [forms EXCEPT ![k] = NoForm]
  BY <1>1, AnsweredIs DEF FormOK
<1>3. CASE Refuse
  BY <1>2, <1>3, RefuseStep
<1>4. CASE RuleApplies(f) /\ Busy("rule", <<Put(i, r)>>, <<>>) /\ Plain
  BY <1>2, <1>4, Ids, LiveRecord, RecordFacts, StartedPut DEF RuleApplies, Dead, Plain, Kept, StillThere, RecordsOf,
     Shaped, LinksOf, Leads, PlainOps, Ops
<1> QED BY <1>3, <1>4 DEF SaveTemplateRules

LEMMA TelnetStep ==
  ASSUME RecordInv, NEW k \in 1..2, SaveTelnetForm(k), UNCHANGED transfer
  PROVE  RecordInv'
<1> DEFINE f == forms[k]
           i == f.id
           base == IF recs[i].rev = 0 THEN f.seen ELSE recs[i]
           r0 == [base EXCEPT !.gateway = None]
           r == Newer(r0)
           q == <<Put(i, r)>>
<1>1. /\ Answered(k, "server") /\ Busy("serverForm", q, <<>>)
      /\ stale' = IF recs[i].rev = 0 THEN stale \cup {i} ELSE stale
      /\ UNCHANGED <<recs, keys, file, spent, abandoned>>
  BY DEF SaveTelnetForm, Kept
<1>2. /\ Free /\ FormsOK' /\ SeenOK(f)
  BY <1>1, AnsweredIs DEF FormOK
<1>3. i \in Servers /\ i \in AllIds /\ f.seen \in RecordsOf /\ Shaped(i, f.seen)
  BY <1>2, Ids DEF SeenOK
<1>4. /\ spent \in Spending /\ stale \in SUBSET AllIds /\ abandoned \in SUBSET AllIds
      /\ recs[i] \in RecordsOf /\ Shaped(i, recs[i]) /\ Tidy(recs, keys, abandoned)
      /\ ~Dead(recs, i) => i \in stale \/ Leads(i, recs[i], recs)
  BY <1>2, <1>3, RecordFacts, LiveRecord, WhenFree
<1>5. base \in RecordsOf /\ Shaped(i, base)
  BY <1>3, <1>4
<1>6. r0 \in RecordsOf /\ Shaped(i, r0) /\ r0.proxy = base.proxy /\ r0.gateway = None /\ LinksOf(r0) \subseteq LinksOf(base)
  BY <1>5 DEF RecordsOf, Shaped, LinksOf
<1>7. i \in abandoned \/ keys[i]["proxy"] \in {NoKey, base.proxy}
  BY <1>3, <1>4 DEF Tidy, Dead, Fields
<1>8. i \in stale' \/ (base = recs[i] /\ Leads(i, base, recs))
  BY <1>1, <1>4 DEF Dead
<1> HIDE DEF base, r0
<1>9. /\ r \in RecordsOf /\ r.rev # 0 /\ Shaped(i, r) /\ r.proxy = r0.proxy /\ r.gateway = r0.gateway /\ LinksOf(r) = LinksOf(r0)
  BY <1>3, <1>4, <1>6, NewerIs
<1>10. stale' \in SUBSET AllIds /\ stale \subseteq stale'
  BY <1>1, <1>3, <1>4
<1> HIDE DEF r, i
<1>11. q \in CallLists /\ \A n \in DOMAIN q : q[n].do = "put" /\ q[n].id = i /\ q[n].rec = r
  BY <1>3, <1>9, OnePut
<1>12. \A m, n \in DOMAIN q : m = n
  BY <1>3, <1>9, OnePut
<1> HIDE DEF q
<1>13. CallsOK("serverForm", q, recs, keys, abandoned)
  BY <1>6, <1>7, <1>9, <1>11, <1>12, PutsAlone
<1>14. UndoOK("serverForm", q, <<>>, keys, abandoned) /\ UndoLinks(<<>>, recs, stale')
  BY <1>11, EmptySeq, <1>3 DEF FormCalls, UndoOK, UndoLinks
<1>15. \A n \in DOMAIN q : q[n].do = "put" /\ q[n].id \notin stale' => LinksTo("serverForm", q, n, q[n].id, q[n].rec, recs)
  BY <1>6, <1>8, <1>9, <1>3, Ids, <1>11 DEF Leads, LinksTo
<1>16. "serverForm" \in Ops \ {"idle", "import", "undo"} /\ <<>> \in CallLists
  BY DEF Ops, CallLists
<1>17. task' = [op |-> "serverForm", calls |-> q, undo |-> <<>>, phase |-> <<>>]
  BY <1>1 DEF Busy
<1> QED BY <1>1, <1>2, <1>4, <1>10, <1>11, <1>13, <1>14, <1>15, <1>16, <1>17, Started

\* Calls that only remove.
LEMMA StartedClearing ==
  ASSUME RecordInv, Free, NEW op \in PlainOps, NEW q \in CallLists, Busy(op, q, <<>>),
         UNCHANGED <<recs, keys, file, transfer, abandoned, stale>>, FormsOK',
         spent' \in Spending, spent.born \subseteq spent'.born,
         \A k \in DOMAIN q : Clears(q[k]), DelsOK(op, q, keys, abandoned)
  PROVE  RecordInv'
BY WhenFree, RecordFacts, ClearingOK, StartedPlain DEF ListOK, Clears

LEMMA ForgetAllIs ==
  ASSUME NEW i \in AllIds \ Templates
  PROVE  /\ ForgetAll(i) \in CallLists
         /\ \A k \in DOMAIN ForgetAll(i) : Clears(ForgetAll(i)[k]) /\ ForgetAll(i)[k].do = "store"
         /\ \A f \in Fields : ForgetOf(ForgetAll(i), i, f)
BY ForgetIs DEF Fields, ForgetAll, CallLists, ForgetOf

LEMMA OneDel ==
  ASSUME NEW i \in AllIds
  PROVE  <<Del(i)>> \in CallLists /\ DOMAIN <<Del(i)>> = {1} /\ <<Del(i)>>[1] = Del(i)
BY DelIs DEF CallLists

LEMMA RemovalIs ==
  ASSUME NEW i \in AllIds \ Templates, NEW op, NEW K, NEW A
  PROVE  LET q == ForgetAll(i) \o <<Del(i)>> IN
         q \in CallLists /\ (\A k \in DOMAIN q : Clears(q[k])) /\ DelsOK(op, q, K, A)
<1> DEFINE l == ForgetAll(i)
           m == <<Del(i)>>
           q == l \o m
<1>1. /\ l \in CallLists /\ \A k \in DOMAIN l : Clears(l[k]) /\ l[k].do = "store"
      /\ \A f \in Fields : ForgetOf(l, i, f)
  BY ForgetAllIs
<1>2. m \in CallLists /\ DOMAIN m = {1} /\ m[1] = Del(i) /\ Del(i).id = i /\ Clears(Del(i))
  BY OneDel, DelIs
<1> HIDE DEF l, m
<1>3. q \in CallLists
  BY <1>1, <1>2, Joined
<1>4. \A k \in DOMAIN q : (\E j \in DOMAIN l : q[k] = l[j]) \/ (\E j \in DOMAIN m : q[k] = m[j])
  BY <1>1, <1>2, JoinedFinds
<1>5. ForgottenFirst(q, {i})
  BY <1>1, <1>2, ForgottenJoined DEF ForgottenFirst
<1> HIDE DEF q
<1>6. \A k \in DOMAIN q : Clears(q[k]) /\ (q[k].do = "del" => q[k].id = i)
  BY <1>1, <1>2, <1>4
<1>7. DelsOK(op, q, K, A)
  BY <1>5, <1>6 DEF ForgottenFirst, DelsOK
<1> QED BY <1>3, <1>6, <1>7 DEF q, l, m

LEMMA RemoveStep ==
  ASSUME RecordInv, NEW k \in 1..2, RemoveServer(k), UNCHANGED transfer
  PROVE  RecordInv'
<1> DEFINE i == forms[k].id
           q == ForgetAll(i) \o <<Del(i)>>
<1>1. /\ Answered(k, "remove")
      /\ Refuse \/ (Busy("remove", q, <<>>) /\ UNCHANGED <<recs, keys, file, spent, abandoned, stale>>)
  BY DEF RemoveServer, Kept
<1>2. Free /\ FormsOK' /\ SeenOK(forms[k]) /\ forms' = [forms EXCEPT ![k] = NoForm]
  BY <1>1, AnsweredIs DEF FormOK
<1>3. i \in AllIds \ Templates
  BY <1>2, Ids DEF SeenOK
<1> HIDE DEF i
<1>4. q \in CallLists /\ (\A n \in DOMAIN q : Clears(q[n])) /\ DelsOK("remove", q, keys, abandoned)
  BY <1>3, RemovalIs
<1> HIDE DEF q
<1>5. spent \in Spending /\ "remove" \in PlainOps
  BY RecordFacts DEF PlainOps, Ops
<1>6. CASE Refuse
  BY <1>2, <1>6, RefuseStep
<1>7. CASE Busy("remove", q, <<>>) /\ UNCHANGED <<recs, keys, file, spent, abandoned, stale>>
  BY <1>2, <1>4, <1>5, <1>7, StartedClearing
<1> QED BY <1>1, <1>6, <1>7

LEMMA DeleteProfileStep ==
  ASSUME RecordInv, NEW k \in 1..2, DeleteProfile(k), UNCHANGED transfer
  PROVE  RecordInv'
<1> DEFINE i == forms[k].id
           q == ForgetAll(i) \o <<Del(i)>>
<1>1. /\ Answered(k, "deleteProfile")
      /\ Refuse \/ (Busy("deleteProfile", q, <<>>) /\ UNCHANGED <<recs, keys, file, spent, abandoned, stale>>)
  BY DEF DeleteProfile, Plain, Kept
<1>2. Free /\ FormsOK' /\ i \in Profiles /\ forms' = [forms EXCEPT ![k] = NoForm]
  BY <1>1, AnsweredIs DEF FormOK
<1>3. i \in AllIds \ Templates
  BY <1>2, Ids
<1> HIDE DEF i
<1>4. q \in CallLists /\ (\A n \in DOMAIN q : Clears(q[n])) /\ DelsOK("deleteProfile", q, keys, abandoned)
  BY <1>3, RemovalIs
<1> HIDE DEF q
<1>5. spent \in Spending /\ "deleteProfile" \in PlainOps
  BY RecordFacts DEF PlainOps, Ops
<1>6. CASE Refuse
  BY <1>2, <1>6, RefuseStep
<1>7. CASE Busy("deleteProfile", q, <<>>) /\ UNCHANGED <<recs, keys, file, spent, abandoned, stale>>
  BY <1>2, <1>4, <1>5, <1>7, StartedClearing
<1> QED BY <1>1, <1>6, <1>7

LEMMA DeleteTemplateStep ==
  ASSUME RecordInv, NEW k \in 1..2, DeleteTemplate(k), UNCHANGED transfer
  PROVE  RecordInv'
BY AnsweredIs, RecordFacts, Ids, OneDel, DelIs, RefuseStep, StartedClearing DEF DeleteTemplate, Plain, Kept, FormOK,
   Vault, DelsOK, PlainOps, Ops

LEMMA FolderStep ==
  ASSUME RecordInv, RemoveFolder, UNCHANGED transfer
  PROVE  RecordInv'
<1>1. /\ Free /\ UNCHANGED <<recs, keys, forms, file, abandoned, stale>> /\ spent' = [spent EXCEPT !.commands = @ + 1]
  BY DEF RemoveFolder
<1>2. PICK s \in LiveOf(Servers) : Busy("folder", <<Del(s)>>, <<>>)
  BY DEF RemoveFolder
<1>3. s \in Servers /\ s \in AllIds
  BY Ids DEF LiveOf
<1> DEFINE q == <<Del(s)>>
<1>4. q \in CallLists /\ \A n \in DOMAIN q : q[n] = Del(s) /\ Clears(Del(s)) /\ Del(s).id = s
  BY <1>3, OneDel, DelIs
<1>5. Busy("folder", q, <<>>)
  BY <1>2
<1> HIDE DEF q
<1>6. (\A n \in DOMAIN q : Clears(q[n])) /\ DelsOK("folder", q, keys, abandoned)
  BY <1>3, <1>4 DEF DelsOK
<1>7. spent' \in Spending /\ spent.born \subseteq spent'.born /\ "folder" \in PlainOps /\ FormsOK'
  BY <1>1, RecordFacts, SpentIs, FormsKept DEF PlainOps, Ops
<1> QED BY <1>1, <1>4, <1>5, <1>6, <1>7, StartedClearing

LEMMA PersistStep ==
  ASSUME RecordInv, NEW k \in 1..2, PersistProxyPassword(k), UNCHANGED transfer
  PROVE  RecordInv'
<1> DEFINE f == forms[k]
           i == f.id
           v == f.seen.proxy
           c == Store(i, "proxy", v)
           q == <<c>>
<1>1. /\ Answered(k, "connect")
      /\ \/ Refuse
         \/ SameEndpoint(f) /\ Busy("connect", q, <<>>) /\ UNCHANGED <<recs, keys, file, spent, abandoned, stale>>
  BY DEF PersistProxyPassword, Plain, Kept
<1>2. Free /\ FormsOK' /\ SeenOK(f) /\ forms' = [forms EXCEPT ![k] = NoForm]
  BY <1>1, AnsweredIs DEF FormOK
<1>3. i \in Servers /\ i \in AllIds \ Templates /\ v \in Nat
  BY <1>2, Ids DEF SeenOK, RecordsOf, None
<1>4. c \in CallSet /\ c.do = "store" /\ c.id = i /\ c.field = "proxy" /\ c.value = v
  BY <1>3, StoreIs DEF Fields
<1>5. CASE Refuse
  BY <1>2, <1>5, RefuseStep
<1>6. CASE SameEndpoint(f) /\ Busy("connect", q, <<>>) /\ UNCHANGED <<recs, keys, file, spent, abandoned, stale>>
  <2>1. ~Dead(recs, i) /\ v = recs[i].proxy
    BY <1>6 DEF SameEndpoint, Dead
  <2> HIDE DEF c, v, i
  <2>2. q \in CallLists /\ \A n \in DOMAIN q : q[n] = c
    BY <1>4 DEF CallLists
  <2>3. Busy("connect", q, <<>>)
    BY <1>6
  <2> HIDE DEF q
  <2>4. CallsOK("connect", q, recs, keys, abandoned)
    BY <1>2, WhenFree, <1>3, <1>4, <2>1, <2>2, StoringOK DEF ListOK
  <2>5. \A n \in DOMAIN q : q[n].do # "put"
    BY <1>4, <2>2
  <2>6. spent \in Spending /\ stale \in SUBSET AllIds /\ "connect" \in PlainOps
    BY RecordFacts DEF PlainOps, Ops
  <2> QED BY <1>2, <1>6, <2>2, <2>3, <2>4, <2>5, <2>6, StartedPlain
<1> QED BY <1>1, <1>5, <1>6

\* A record is written, and then secrets of it are stored or forgotten.
FirstOnly(q, a, i) ==
  /\ q \in CallLists /\ 1 \in DOMAIN q /\ q[1] = a
  /\ \A k \in DOMAIN q : k = 1 \/ (k \in Nat /\ k > 1 /\ q[k].do = "store" /\ q[k].id = i)

LEMMA FirstAlone ==
  ASSUME NEW a \in CallSet, NEW i
  PROVE  FirstOnly(<<a>>, a, i)
BY DEF FirstOnly, CallLists

LEMMA FirstThen ==
  ASSUME NEW l, NEW a, NEW i, FirstOnly(l, a, i), NEW m \in CallLists,
         \A k \in DOMAIN m : m[k].do = "store" /\ m[k].id = i
  PROVE  FirstOnly(l \o m, a, i)
<1> DEFINE n == l \o m
<1>1. l \in CallLists /\ 1 \in DOMAIN l /\ l[1] = a
  BY DEF FirstOnly
<1>2. /\ n \in CallLists /\ DOMAIN l = 1..Len(l) /\ DOMAIN m = 1..Len(m) /\ Len(l) \in Nat
      /\ DOMAIN n = 1..(Len(l) + Len(m)) /\ Len(m) \in Nat
      /\ \A k \in DOMAIN l : k \in DOMAIN n /\ n[k] = l[k]
      /\ \A k \in DOMAIN n : k \in DOMAIN l \/ (k - Len(l) \in DOMAIN m /\ n[k] = m[k - Len(l)])
  BY <1>1, Joined
<1> HIDE DEF n
<1>3. ASSUME NEW k \in DOMAIN n, k # 1 PROVE k \in Nat /\ k > 1 /\ n[k].do = "store" /\ n[k].id = i
  BY <1>2, <1>3 DEF FirstOnly
<1>4. n \in CallLists /\ 1 \in DOMAIN n /\ n[1] = a
  BY <1>1, <1>2
<1>5. FirstOnly(n, a, i)
  BY <1>3, <1>4 DEF FirstOnly
<1> QED BY <1>5 DEF n

LEMMA OneStore ==
  ASSUME NEW i \in AllIds \ Templates, NEW f \in Fields, NEW v \in Nat
  PROVE  LET q == <<Store(i, f, v)>> IN
         /\ q \in CallLists /\ DOMAIN q = {1}
         /\ \A k \in DOMAIN q : q[k].do = "store" /\ q[k].id = i /\ q[k].field = f /\ q[k].value = v
BY StoreIs DEF CallLists

LEMMA ForgetStores == \A i, f : Forget(i, f) = Store(i, f, NoKey)
BY DEF Forget, Store

LEMMA GoneIs ==
  /\ Gone \in RecordsOf /\ LinksOf(Gone) = {} /\ Gone.proxy = None /\ Gone.gateway = None /\ Gone.rules = {}
  /\ \A i : Shaped(i, Gone)
BY DEF Gone, Rec, RecordsOf, Shaped, LinksOf, None

LEMMA ProfileStep ==
  ASSUME RecordInv, NEW k \in 1..2, SaveProfile(k), UNCHANGED transfer
  PROVE  RecordInv'
<1> DEFINE f == forms[k]
           p == IF f.id = None THEN Lowest(Unborn(Profiles)) ELSE f.id
           r == Newer(Gone)
           a == Put(p, r)
<1>1. Answered(k, "profile") /\ (f.id = None => Unborn(Profiles) # {})
  BY DEF SaveProfile
<1>2. /\ Free /\ FormsOK' /\ f.id \in Profiles \cup {None} /\ forms' = [forms EXCEPT ![k] = NoForm]
  BY <1>1, AnsweredIs DEF FormOK
<1>3. p \in Profiles /\ p \in AllIds \ Templates /\ p \notin Servers
  BY <1>2, <1>1, Ids, NewIdIs
<1> HIDE DEF p
<1>4. CASE Refuse
  BY <1>2, <1>4, RefuseStep
<1>5. CASE \E secret \in {<<Forget(p, "login")>>, <<Store(p, "login", 1)>>, <<>>} :
             Busy("profile", <<a>> \o secret \o <<Forget(p, "proxy")>>, <<>>) /\ Plain
  <2>1. PICK secret \in {<<Forget(p, "login")>>, <<Store(p, "login", 1)>>, <<>>} :
             Busy("profile", <<a>> \o secret \o <<Forget(p, "proxy")>>, <<>>) /\ Plain
    BY <1>5
  <2> DEFINE l == <<a>> \o secret
             m == <<Forget(p, "proxy")>>
             q == l \o m
  <2>2. r \in RecordsOf /\ r.rev # 0 /\ Shaped(p, r) /\ LinksOf(r) = {}
    BY RecordFacts, <1>3, GoneIs, NewerIs
  <2> HIDE DEF r
  <2>3. a \in CallSet /\ a.do = "put" /\ a.id = p /\ a.rec = r
    BY <1>3, <2>2, PutIs
  <2> HIDE DEF a
  <2>4. secret \in CallLists /\ \A n \in DOMAIN secret : secret[n].do = "store" /\ secret[n].id = p
    <3>1. CASE secret = <<>>
      BY <3>1 DEF CallLists
    <3>2. CASE \E v \in {NoKey, 1} : secret = <<Store(p, "login", v)>>
      BY <3>2, <1>3, OneStore DEF NoKey, Fields
    <3> QED BY <2>1, <3>1, <3>2, ForgetStores
  <2>5. m \in CallLists /\ \A n \in DOMAIN m : m[n].do = "store" /\ m[n].id = p
    BY ForgetStores, <1>3, OneStore DEF NoKey, Fields
  <2>6. Busy("profile", q, <<>>) /\ UNCHANGED <<recs, keys, file, spent, abandoned, stale>>
    BY <2>1 DEF Plain, Kept
  <2>7. FirstOnly(l, a, p)
    BY <2>3, <2>4, FirstAlone, FirstThen
  <2> HIDE DEF l, m
  <2>8. FirstOnly(q, a, p)
    BY <2>5, <2>7, FirstThen
  <2> HIDE DEF q
  <2>9. /\ q \in CallLists /\ 1 \in DOMAIN q /\ IsPut(q[1], p)
        /\ \A n \in DOMAIN q : /\ q[n].id = p
                               /\ (n = 1 /\ q[n].do = "put" /\ q[n].rec = r) \/ (1 < n /\ q[n].do = "store")
    BY <2>3, <2>8 DEF FirstOnly, IsPut
  <2>10. CallsOK("profile", q, recs, keys, abandoned)
    BY <2>9, <1>3 DEF Orderly, PutBefore, CallsOK, PutsOK, DelsOK, StoresOK, RestoresOK
  <2>11. \A n \in DOMAIN q : q[n].do = "put" => LinksTo("profile", q, n, q[n].id, q[n].rec, recs)
    BY <2>2, <2>9 DEF LinksTo
  <2>12. spent \in Spending /\ stale \in SUBSET AllIds /\ "profile" \in PlainOps
    BY RecordFacts DEF PlainOps, Ops
  <2> QED BY <1>2, <2>6, <2>9, <2>10, <2>11, <2>12, StartedPlain
<1> QED BY <1>4, <1>5 DEF SaveProfile, p

LEMMA LinkStep ==
  ASSUME RecordInv, NEW k \in 1..2, LinkProfile(k), UNCHANGED transfer
  PROVE  RecordInv'
<1> DEFINE f == forms[k]
           p == f.pick
           q == LinkAll(p, f.servers)
<1>1. Answered(k, "link")
  BY DEF LinkProfile
<1>2. /\ Free /\ FormsOK' /\ p \in Profiles /\ forms' = [forms EXCEPT ![k] = NoForm]
  BY <1>1, AnsweredIs DEF FormOK
<1>3. CASE Refuse
  BY <1>2, <1>3, RefuseStep
<1>4. CASE LinkValid(f) /\ Busy("link", q, <<>>) /\ Plain
  <2> DEFINE S == {s \in f.servers : recs[s].profile # p}
             F == [i \in AllIds |-> Newer([recs[i] EXCEPT !.profile = p])]
  <2>1. S \in SUBSET AllIds /\ S \subseteq Servers /\ (\A i \in S : ~Dead(recs, i)) /\ ~Dead(recs, p)
    BY <1>4, Ids DEF LinkValid, LiveOf, Dead
  <2>2. q = PutEach(S, F)
    BY <2>1, FiniteIds, EachOfLists DEF LinkAll, PutEach
  <2>3. /\ spent \in Spending /\ stale \in SUBSET AllIds
        /\ \A i \in AllIds : recs[i] \in RecordsOf /\ Shaped(i, recs[i])
    BY RecordFacts
  <2>4. ASSUME NEW i \in S
        PROVE  /\ F[i] \in RecordsOf /\ F[i].rev # 0 /\ Shaped(i, F[i]) /\ F[i].proxy = recs[i].proxy
               /\ i \in stale \/ Leads(i, F[i], recs)
    <3> DEFINE r0 == [recs[i] EXCEPT !.profile = p]
    <3>1. /\ r0 \in RecordsOf /\ r0.proxy = recs[i].proxy /\ r0.gateway = recs[i].gateway
          /\ r0.profile = p /\ r0.rules = recs[i].rules
      BY <1>2, <2>1, <2>3 DEF RecordsOf
    <3>2. F[i] = Newer(r0) /\ i \in AllIds /\ i \in Servers
      BY <2>1
    <3> HIDE DEF r0, F, S
    <3>3. Shaped(i, r0) /\ LinksOf(r0) \subseteq LinksOf(recs[i]) \cup {p}
      BY <2>3, <3>1, <3>2, Ids DEF Shaped, LinksOf
    <3>4. /\ F[i] \in RecordsOf /\ F[i].rev # 0 /\ Shaped(i, F[i]) /\ F[i].proxy = r0.proxy
          /\ LinksOf(F[i]) = LinksOf(r0) /\ F[i].gateway = r0.gateway
      BY <2>3, <3>1, <3>2, <3>3, NewerIs
    <3>5. i \in stale \/ Leads(i, recs[i], recs)
      BY <1>2, <2>1, <3>2, LiveRecord
    <3> QED BY <2>1, <3>1, <3>3, <3>4, <3>5 DEF Leads
  <2> HIDE DEF F, S
  <2>5. Covers(q, S) /\ \A n \in DOMAIN q : q[n].do = "put" /\ q[n].rec = F[q[n].id]
    <3> HIDE DEF q
    <3>1. \A i \in S : F[i] \in RecordsOf /\ F[i].rev # 0 /\ Shaped(i, F[i])
      BY <2>4
    <3> DEFINE w == PutEach(S, F)
    <3>2. Covers(w, S) /\ \A n \in DOMAIN w : w[n].do = "put" /\ w[n].rec = F[w[n].id]
      BY <2>1, <3>1, PutEachIs
    <3> QED BY <2>2, <3>2
  <2>6. Busy("link", q, <<>>) /\ UNCHANGED <<recs, keys, file, spent, abandoned, stale>>
    BY <1>4 DEF Plain, Kept
  <2> HIDE DEF q
  <2>7. /\ q \in CallLists /\ (\A n \in DOMAIN q : q[n].id \in S)
        /\ \A j, n \in DOMAIN q : q[j].id = q[n].id => j = n
    BY <2>5 DEF Covers
  <2>8. CallsOK("link", q, recs, keys, abandoned)
    BY <1>2, WhenFree, <2>1, <2>4, <2>5, <2>7, PutsAlone DEF Tidy
  <2>9. \A n \in DOMAIN q : q[n].do = "put" /\ q[n].id \notin stale' => LinksTo("link", q, n, q[n].id, q[n].rec, recs)
    BY <2>4, <2>5, <2>6, <2>7 DEF Leads, LinksTo
  <2>10. "link" \in PlainOps
    BY DEF PlainOps, Ops
  <2> QED BY <1>2, <2>3, <2>6, <2>7, <2>8, <2>9, <2>10, StartedPlain
<1> QED BY <1>3, <1>4 DEF LinkProfile

LEMMA SessionsStep ==
  ASSUME RecordInv, ImportSessions
  PROVE  RecordInv'
<1> DEFINE s == Lowest(Unborn(Servers))
           r == Newer(Gone)
<1>1. /\ Free /\ Unborn(Servers) # {} /\ Busy("sessions", <<Put(s, r)>>, <<>>)
      /\ UNCHANGED <<recs, keys, forms, file, abandoned, stale, transfer>> /\ spent' = [spent EXCEPT !.commands = @ + 1]
  BY DEF ImportSessions, AtRest, Occupied
<1>2. s \in Servers /\ s \in AllIds /\ (s \in abandoned \/ keys[s]["proxy"] = NoKey)
  BY <1>1, NewIdIs, Ids DEF Fields
<1> HIDE DEF s
<1>3. spent \in Spending /\ stale \in SUBSET AllIds /\ FormsOK'
  BY <1>1, RecordFacts, FormsKept
<1>4. r \in RecordsOf /\ r.rev # 0 /\ Shaped(s, r) /\ LinksOf(r) = {}
  BY <1>2, <1>3, GoneIs, NewerIs
<1> HIDE DEF r
<1>5. Leads(s, r, recs)
  BY <1>4 DEF Leads
<1>6. spent' \in Spending /\ spent.born \subseteq spent'.born /\ "sessions" \in PlainOps
  BY <1>1, <1>3, SpentIs DEF PlainOps, Ops
<1> QED BY <1>1, <1>2, <1>3, <1>4, <1>5, <1>6, StartedPut

------------------------------------------------------------------------------
(* The forms of a server *)

\* What a form stores under its password, after the record.
SyncIs(m, s, endpoint) ==
  /\ m \in CallLists
  /\ \A k \in DOMAIN m : m[k].do = "store" /\ m[k].id = s /\ m[k].field = "proxy" /\ m[k].value \in {NoKey, endpoint}

LEMMA SyncCalls ==
  ASSUME NEW s \in Servers, NEW endpoint \in {None} \cup Endpoints, NEW typed \in BOOLEAN
  PROVE  LET m == SyncProxyPassword(s, endpoint, typed) IN
         SyncIs(m, s, endpoint) /\ (endpoint = None \/ typed => 1 \in DOMAIN m)
BY Ids, OneStore, ForgetStores DEF Fields, NoKey, None, SyncIs, CallLists, SyncProxyPassword

LEMMA FormRecord ==
  ASSUME RecordInv, NEW s \in Servers, NEW p \in Profiles \cup {None}, NEW g \in Servers \cup {None},
         NEW endpoint \in {None} \cup Endpoints, ~ProfileRejected(p)
  PROVE  LET r == FormServer(s, p, g, endpoint) IN
         r \in RecordsOf /\ r.rev # 0 /\ Shaped(s, r) /\ r.proxy = endpoint /\ Leads(s, r, recs)
<1> DEFINE g2 == IF g # None /\ recs[g].rev = 0 THEN None ELSE g
           r0 == [recs[s] EXCEPT !.profile = p, !.gateway = g2, !.proxy = endpoint]
           r == Newer(r0)
<1>1. s \in AllIds /\ recs[s] \in RecordsOf /\ Shaped(s, recs[s]) /\ spent \in Spending
  BY RecordFacts, Ids
<1>2. g2 \in Servers \cup {None} /\ (g2 = None \/ ~Dead(recs, g2)) /\ (p = None \/ ~Dead(recs, p))
  BY DEF ProfileRejected, Dead
<1>3. FormServer(s, p, g, endpoint) = r
  BY DEF FormServer
<1> HIDE DEF g2
<1>4. /\ r0 \in RecordsOf /\ r0.profile = p /\ r0.gateway = g2 /\ r0.proxy = endpoint /\ r0.rules = recs[s].rules
  BY <1>1, <1>2 DEF RecordsOf
<1> HIDE DEF r0
<1>5. r0.rules = {}
  BY <1>1, <1>4, Ids DEF Shaped
<1>6. Shaped(s, r0)
  BY <1>4, <1>5, Ids DEF Shaped
<1>7. /\ r \in RecordsOf /\ r.rev # 0 /\ Shaped(s, r) /\ LinksOf(r) = LinksOf(r0) /\ r.proxy = r0.proxy
  BY <1>1, <1>4, <1>6, NewerIs
<1>8. Leads(s, r, recs)
  BY <1>2, <1>4, <1>5, <1>7 DEF Leads, LinksOf
<1> QED BY <1>3, <1>4, <1>7, <1>8

\* The record and the password as they were, or neither.
LEMMA UndoServerIs ==
  ASSUME RecordInv, Free, NEW s \in Servers
  PROVE  /\ UndoServer(s) \in CallLists /\ UndoesForm(s, UndoServer(s), keys, abandoned)
         /\ UndoLinks(UndoServer(s), recs, stale)
BY RecordFacts, WhenFree, Ids, DelIs, ForgetIs, LiveRecord, PutIs, StoreIs DEF KeyMaps, Fields, UndoServer, Dead,
   Tidy, UndoesForm, CallLists, UndoLinks, Leads, LinksTo

\* The calls of a form: the record, then the password.
FormList(s, r, m) == <<Put(s, r)>> \o m

LEMMA FormCallsAre ==
  ASSUME NEW s \in Servers, NEW r \in RecordsOf, r.rev # 0, Shaped(s, r), NEW m, SyncIs(m, s, r.proxy),
         NEW R, NEW K, NEW A, s \in A \/ K[s]["proxy"] \in {NoKey, r.proxy} \/ 1 \in DOMAIN m
  PROVE  LET q == FormList(s, r, m) IN
         /\ q \in CallLists /\ CallsOK("serverForm", q, R, K, A) /\ FormCalls(s, q)
         /\ \A k \in DOMAIN q : q[k].do = "put" => q[k].id = s /\ q[k].rec = r
<1> DEFINE a == Put(s, r)
           l == <<a>>
           q == l \o m
<1>1. s \in AllIds
  BY Ids
<1>2. a \in CallSet /\ a.do = "put" /\ a.id = s /\ a.rec = r
  BY <1>1, PutIs
<1> HIDE DEF a
<1>3. l \in CallLists /\ Len(l) = 1 /\ l[1] = a /\ m \in CallLists
  BY <1>2 DEF CallLists, SyncIs
<1> HIDE DEF l
<1>j. /\ q \in CallLists /\ DOMAIN l = 1..Len(l) /\ DOMAIN m = 1..Len(m) /\ Len(m) \in Nat
      /\ \A k \in DOMAIN l : k \in DOMAIN q /\ q[k] = l[k]
      /\ \A k \in DOMAIN m : k + Len(l) \in DOMAIN q /\ q[k + Len(l)] = m[k]
      /\ \A k \in DOMAIN q : k \in DOMAIN l \/ (k - Len(l) \in DOMAIN m /\ q[k] = m[k - Len(l)])
      /\ DOMAIN q = 1..(Len(l) + Len(m))
  BY <1>3, Joined
<1>4. /\ q \in CallLists /\ DOMAIN l = 1..1 /\ DOMAIN m = 1..Len(m) /\ Len(m) \in Nat
      /\ \A k \in DOMAIN l : k \in DOMAIN q /\ q[k] = l[k]
      /\ \A k \in DOMAIN m : k + 1 \in DOMAIN q /\ q[k + 1] = m[k]
      /\ \A k \in DOMAIN q : k \in DOMAIN l \/ (k - 1 \in DOMAIN m /\ q[k] = m[k - 1])
      /\ DOMAIN q = 1..(1 + Len(m))
  BY <1>3, <1>j
<1> HIDE DEF q
<1>5. 1 \in DOMAIN q /\ q[1] = a
  BY <1>3, <1>4
<1>6. ASSUME NEW k \in DOMAIN q
      PROVE  \/ k = 1 /\ q[k] = a
             \/ /\ k \in Nat /\ 1 < k /\ q[k].do = "store" /\ q[k].id = s /\ q[k].field = "proxy"
                /\ q[k].value \in {NoKey, r.proxy}
  BY <1>3, <1>4 DEF SyncIs
<1>7. Orderly(q)
  BY <1>2, <1>6 DEF Orderly
<1>8. PutsOK("serverForm", q, K, A)
  BY <1>2, <1>6, <1>4 DEF PutsOK, Forms, SettledAfter
<1>9. StoresOK("serverForm", q, R, A)
  BY <1>2, <1>6, <1>5 DEF StoresOK, PutBefore, IsPut
<1>10. CallsOK("serverForm", q, R, K, A)
  BY <1>2, <1>6, <1>7, <1>8, <1>9 DEF CallsOK, DelsOK, RestoresOK
<1>11. FormCalls(s, q) /\ \A k \in DOMAIN q : q[k].do = "put" => q[k].id = s /\ q[k].rec = r
  BY <1>2, <1>6 DEF FormCalls
<1> QED BY <1>4, <1>10, <1>11 DEF q, l, a, FormList

LEMMA SaveServerStep ==
  ASSUME RecordInv, NEW k \in 1..2, NEW s \in Servers, Free, FormsOK', forms' = [forms EXCEPT ![k] = NoForm],
         OffersOK(forms[k]), SaveServer(forms[k], s), UNCHANGED transfer
  PROVE  RecordInv'
<1>1. PICK p \in {None} \cup DOMAIN forms[k].offers, g \in {None} \cup forms[k].peers, endpoint \in {None} \cup Endpoints,
           typed \in BOOLEAN :
        \/ Refuse
        \/ /\ ~ProfileRejected(p) /\ (endpoint = None => typed)
           /\ Busy("serverForm",
                   <<Put(s, FormServer(s, p, g, endpoint))>> \o SyncProxyPassword(s, endpoint, typed),
                   UndoServer(s))
           /\ abandoned' = IF typed \/ keys[s].proxy \in {NoKey, endpoint} THEN abandoned ELSE abandoned \cup {s}
           /\ Kept /\ UNCHANGED stale
  BY DEF SaveServer
<1>2. CASE Refuse
  BY <1>2, RefuseStep
<1> DEFINE r == FormServer(s, p, g, endpoint)
           m == SyncProxyPassword(s, endpoint, typed)
           q == <<Put(s, r)>> \o m
           u == UndoServer(s)
<1>3. CASE /\ ~ProfileRejected(p) /\ (endpoint = None => typed)
           /\ Busy("serverForm", q, u)
           /\ abandoned' = IF typed \/ keys[s].proxy \in {NoKey, endpoint} THEN abandoned ELSE abandoned \cup {s}
           /\ Kept /\ UNCHANGED stale
  <2>1. p \in Profiles \cup {None} /\ g \in Servers \cup {None}
    BY <1>1 DEF OffersOK
  <2>2. r \in RecordsOf /\ r.rev # 0 /\ Shaped(s, r) /\ r.proxy = endpoint /\ Leads(s, r, recs)
    BY <1>3, <2>1, FormRecord
  <2>3. SyncIs(m, s, r.proxy) /\ (typed => 1 \in DOMAIN m)
    BY <2>2, SyncCalls
  <2>4. u \in CallLists /\ UndoesForm(s, u, keys, abandoned) /\ UndoLinks(u, recs, stale)
    BY UndoServerIs
  <2>5. /\ abandoned' \in SUBSET AllIds /\ abandoned \subseteq abandoned' /\ stale \in SUBSET AllIds /\ spent \in Spending
        /\ s \in abandoned' \/ typed \/ keys[s]["proxy"] \in {NoKey, endpoint}
        /\ UNCHANGED <<recs, keys, file, spent, stale>>
    BY <1>3, RecordFacts, Ids DEF Kept
  <2>6. task' = [op |-> "serverForm", calls |-> q, undo |-> u, phase |-> <<>>]
    BY <1>3 DEF Busy
  <2> HIDE DEF r, m, u
  <2>7. s \in abandoned' \/ keys[s]["proxy"] \in {NoKey, r.proxy} \/ 1 \in DOMAIN m
    BY <2>2, <2>3, <2>5
  <2>a. \A A : (s \in A \/ keys[s]["proxy"] \in {NoKey, r.proxy} \/ 1 \in DOMAIN m) =>
               LET w == FormList(s, r, m) IN
               /\ w \in CallLists /\ CallsOK("serverForm", w, recs, keys, A) /\ FormCalls(s, w)
               /\ \A n \in DOMAIN w : w[n].do = "put" => w[n].id = s /\ w[n].rec = r
    BY <2>2, <2>3, FormCallsAre
  <2>8. /\ q \in CallLists /\ CallsOK("serverForm", q, recs, keys, abandoned') /\ FormCalls(s, q)
        /\ \A n \in DOMAIN q : q[n].do = "put" => q[n].id = s /\ q[n].rec = r
    BY <2>7, <2>a DEF FormList
  <2> HIDE DEF q
  <2>9. UndoOK("serverForm", q, u, keys, abandoned')
    BY <2>4, <2>5, <2>8 DEF UndoesForm, UndoOK
  <2>10. \A n \in DOMAIN q : q[n].do = "put" => LinksTo("serverForm", q, n, q[n].id, q[n].rec, recs)
    BY <2>2, <2>8 DEF Leads, LinksTo
  <2>11. "serverForm" \in Ops \ {"idle", "import", "undo"}
    BY DEF Ops
  <2> QED BY <2>4, <2>5, <2>6, <2>8, <2>9, <2>10, <2>11, Started
<1> QED BY <1>1, <1>2, <1>3

LEMMA ServerStep ==
  ASSUME RecordInv, NEW k \in 1..2, SaveServerForm(k) \/ SaveNewServer(k), UNCHANGED transfer
  PROVE  RecordInv'
BY AnsweredIs, SaveServerStep, NewIdIs, Ids DEF SaveServerForm, FormOK, SeenOK, SaveNewServer

------------------------------------------------------------------------------
(* A new source *)

LEMMA TwoCalls ==
  ASSUME NEW a \in CallSet, NEW b \in CallSet
  PROVE  LET q == <<a>> \o <<b>> IN q \in CallLists /\ DOMAIN q = {1, 2} /\ q[1] = a /\ q[2] = b
BY DEF CallLists

\* Its credential is stored first; the record follows, or the credential goes.
SourceList(i, b) == <<Store(i, "login", 1)>> \o <<b>>
CleanUp(i) == <<Forget(i, "login")>>

LEMMA SourceCallsAre ==
  ASSUME NEW i \in Sources, NEW b \in CallSet, IsPut(b, i) \/ b = Forget(i, "login"), NEW R, NEW K, NEW A
  PROVE  LET q == SourceList(i, b) IN
         /\ q \in CallLists /\ CallsOK("source", q, R, K, A) /\ UndoOK("source", q, CleanUp(i), K, A)
         /\ \A k \in DOMAIN q : q[k].do = "put" => IsPut(b, i) /\ q[k] = b
<1> DEFINE a == Store(i, "login", 1)
           q == <<a>> \o <<b>>
<1>a. a \in CallSet
  BY Ids, StoreIs DEF Fields
<1>1. q \in CallLists /\ DOMAIN q = {1, 2} /\ q[1] = a /\ q[2] = b
  BY <1>a, TwoCalls
<1>2. /\ a.do = "store" /\ a.id = i /\ a.field = "login"
      /\ b.id = i /\ b.do \in {"put", "store"} /\ (b.do = "store" => b.value = NoKey)
      /\ IsPut(b, i) \/ IsForget(b, i, "login")
      /\ b.do = "put" => IsPut(b, i)
  BY DEF Store, Forget, IsPut, IsForget
<1>3. i \notin Servers
  BY Ids
<1> HIDE DEF q
<1>4. \A k \in DOMAIN q : q[k].id = i /\ q[k].do \in {"put", "store"} /\ (k = 1 \/ k = 2)
  BY <1>1, <1>2
<1>5. Orderly(q)
  BY <1>1, <1>2 DEF Orderly
<1>6. PutsOK("source", q, K, A) /\ DelsOK("source", q, K, A) /\ RestoresOK(q, A)
  BY <1>3, <1>4 DEF PutsOK, DelsOK, RestoresOK
<1>7. StoresOK("source", q, R, A)
  BY <1>3, <1>4, <1>1, <1>2 DEF StoresOK, Ahead
<1>8. CallsOK("source", q, R, K, A)
  BY <1>5, <1>6, <1>7 DEF CallsOK
<1>9. UndoOK("source", q, CleanUp(i), K, A)
  BY <1>4 DEF UndoOK, CleanUp
<1> QED BY <1>1, <1>2, <1>8, <1>9 DEF q, SourceList

LEMMA SourceStep ==
  ASSUME RecordInv, NEW k \in 1..2, SaveNewSource(k), UNCHANGED transfer
  PROVE  RecordInv'
<1> DEFINE f == forms[k]
           i == Lowest(Unborn(Sources))
           a == Store(i, "login", 1)
           c == Forget(i, "login")
<1>1. Answered(k, "source") /\ Unborn(Sources) # {} /\ Plain
  BY DEF SaveNewSource
<1>2. /\ Free /\ FormsOK' /\ DOMAIN f.offers \in SUBSET Profiles /\ f.rules \in SUBSET Templates
  BY <1>1, AnsweredIs DEF FormOK
<1>3. i \in Sources
  BY <1>1, <1>2, NewIdIs, Ids
<1>4. PICK p \in {None} \cup DOMAIN f.offers :
        LET b == Put(i, Rec(p, None, f.rules, None, None, 1)) IN
        \/ Busy("source", <<a>> \o <<c>>, <<c>>)
        \/ /\ ~ProfileRejected(p) /\ \A t \in f.rules : recs[t].rev # 0
           /\ Busy("source", <<a>> \o <<b>>, <<c>>)
  BY DEF SaveNewSource, i
<1> DEFINE r == Rec(p, None, f.rules, None, None, 1)
           b == Put(i, r)
<1> HIDE DEF i
<1>5. i \in AllIds \ Templates /\ i \in AllIds /\ "login" \in Fields /\ 1 \in Nat
  BY <1>3, Ids DEF Fields
<1>6. /\ r \in RecordsOf /\ r.rev # 0 /\ LinksOf(r) = ({p} \cup f.rules) \ {None} /\ Shaped(i, r)
  BY <1>2, <1>3, <1>4, Ids DEF Rec, RecordsOf, LinksOf, Shaped, None
<1>7. a \in CallSet /\ c \in CallSet /\ b \in CallSet /\ IsPut(b, i) /\ b.rec = r /\ b.id = i
  BY <1>5, <1>6, StoreIs, ForgetIs, PutIs
<1>8. /\ UNCHANGED <<recs, keys, file, spent, abandoned, stale>> /\ spent \in Spending
      /\ abandoned \in SUBSET AllIds /\ stale \in SUBSET AllIds
  BY <1>1, RecordFacts DEF Plain, Kept
<1>9. "source" \in Ops \ {"idle", "import", "undo"}
  BY DEF Ops
<1>10. <<c>> \in CallLists /\ UndoLinks(<<c>>, recs, stale)
  BY <1>7 DEF Forget, CallLists, UndoLinks
<1>11. ASSUME NEW q, q \in CallLists, Busy("source", q, <<c>>), CallsOK("source", q, recs, keys, abandoned),
              UndoOK("source", q, <<c>>, keys, abandoned),
              \A n \in DOMAIN q : q[n].do = "put" => LinksTo("source", q, n, q[n].id, q[n].rec, recs)
       PROVE  RecordInv'
  BY <1>11, <1>8, <1>10, <1>2, <1>9, Started DEF Busy
<1>12. CASE Busy("source", <<a>> \o <<c>>, <<c>>)
  BY <1>7, <1>3, SourceCallsAre, <1>12, <1>11 DEF IsPut, Forget, c, SourceList, CleanUp
<1>13. CASE ~ProfileRejected(p) /\ (\A t \in f.rules : recs[t].rev # 0) /\ Busy("source", <<a>> \o <<b>>, <<c>>)
  <2> DEFINE q == SourceList(i, b)
  <2>0. IsPut(b, i) \/ b = Forget(i, "login")
    BY <1>7
  <2> HIDE DEF b
  <2>1. /\ q \in CallLists /\ CallsOK("source", q, recs, keys, abandoned) /\ UndoOK("source", q, CleanUp(i), keys, abandoned)
        /\ \A n \in DOMAIN q : q[n].do = "put" => IsPut(b, i) /\ q[n] = b
    BY <1>3, <1>7, <2>0, SourceCallsAre
  <2>2. \A x \in LinksOf(r) : ~Dead(recs, x)
    BY <1>6, <1>13 DEF ProfileRejected, Dead
  <2>4. Busy("source", q, <<c>>)
    BY <1>13 DEF q, b, SourceList
  <2> HIDE DEF q, b, r
  <2>3. \A n \in DOMAIN q : q[n].do = "put" => LinksTo("source", q, n, q[n].id, q[n].rec, recs)
    BY <1>7, <2>1, <2>2 DEF LinksTo
  <2>5. UndoOK("source", q, <<c>>, keys, abandoned)
    BY <2>1 DEF CleanUp, c
  <2> QED BY <1>11, <2>1, <2>3, <2>4, <2>5
<1> QED BY <1>4, <1>12, <1>13

------------------------------------------------------------------------------
(* A template is applied to servers *)

ForgetProxies(S) == LET ids == EachOf(S) IN [n \in DOMAIN ids |-> Forget(ids[n], "proxy")]

LEMMA ForgetProxiesAre ==
  ASSUME NEW S \in SUBSET Servers
  PROVE  LET l == ForgetProxies(S) IN
         /\ l \in CallLists
         /\ \A k \in DOMAIN l : l[k].do = "store" /\ l[k].value = NoKey
         /\ \A s \in S : ForgetOf(l, s, "proxy")
BY SMTT(30), FiniteIds, Ids, EachOfLists, ForgetIs DEF Fields, ForgetProxies, IsForget, CallLists, ForgetOf

RestoreProxies(S) ==
  LET ids == EachOf(S) IN [n \in DOMAIN ids |-> Restore(ids[n], keys[ids[n]].proxy, recs[ids[n]].proxy)]

LEMMA RestoreProxiesAre ==
  ASSUME NEW S \in SUBSET Servers, keys \in KeyMaps, \A i \in AllIds : recs[i] \in RecordsOf
  PROVE  LET l == RestoreProxies(S) IN
         /\ l \in CallLists
         /\ \A k \in DOMAIN l : /\ l[k].do = "restore" /\ l[k].id \in S
                                /\ l[k].value = keys[l[k].id]["proxy"] /\ l[k].endpoint = recs[l[k].id].proxy
<1> DEFINE ids == EachOf(S)
           l == [n \in DOMAIN ids |-> Restore(ids[n], keys[ids[n]].proxy, recs[ids[n]].proxy)]
<1>1. IsFiniteSet(S) /\ \A s \in S : s \in Servers /\ s \in AllIds
  BY FiniteIds, Ids
<1>2. Cardinality(S) \in Nat /\ DOMAIN ids = 1..Cardinality(S) /\ \A k \in DOMAIN ids : ids[k] \in S
  BY <1>1, EachOfLists
<1>3. RestoreProxies(S) = l
  BY DEF RestoreProxies
<1> HIDE DEF ids
<1>4. ASSUME NEW k \in DOMAIN ids
      PROVE  /\ l[k] \in CallSet /\ l[k].do = "restore" /\ l[k].id \in S
             /\ l[k].value = keys[l[k].id]["proxy"] /\ l[k].endpoint = recs[l[k].id].proxy
  BY <1>1, <1>2 DEF KeyMaps, RecordsOf, Fields, Restore, Restores, CallSet
<1>5. DOMAIN l = DOMAIN ids
  OBVIOUS
<1>6. l \in CallLists
  BY <1>2, <1>4 DEF CallLists
<1> QED BY <1>3, <1>4, <1>5, <1>6

\* Passwords are forgotten, then records written: each with its password, or
\* with none.
Then(l, m) == l \o m

LEMMA ThenPuts ==
  ASSUME NEW l \in CallLists, NEW m \in CallLists, NEW T, NEW F, Writes(m, T, F), \A k \in DOMAIN l : l[k].do # "put"
  PROVE  LET q == Then(l, m) IN
         q \in CallLists /\ \A k \in DOMAIN q : q[k].do = "put" => q[k].id \in T /\ q[k].rec = F[q[k].id]
<1> DEFINE q == l \o m
<1>1. /\ q \in CallLists
      /\ \A k \in DOMAIN l : k \in DOMAIN q /\ q[k] = l[k]
      /\ \A k \in DOMAIN q : k \in DOMAIN l \/ (k - Len(l) \in DOMAIN m /\ q[k] = m[k - Len(l)])
  BY Joined
<1> HIDE DEF q
<1>2. \A k \in DOMAIN m : m[k].do = "put" /\ m[k].rec = F[m[k].id] /\ m[k].id \in T
  BY DEF Writes, Covers
<1> QED BY <1>1, <1>2 DEF q, Then

LEMMA ForgetsThenPuts ==
  ASSUME NEW op, NEW l \in CallLists, NEW m \in CallLists, NEW T, NEW F, Writes(m, T, F),
         \A k \in DOMAIN l : l[k].do = "store" /\ l[k].value = NoKey, NEW R, NEW K, NEW A,
         \A s \in T \cap Servers : s \in A \/ K[s]["proxy"] \in {NoKey, F[s].proxy} \/ ForgetOf(l, s, "proxy")
  PROVE  CallsOK(op, Then(l, m), R, K, A)
<1> DEFINE q == l \o m
<1>1. /\ q \in CallLists /\ DOMAIN q = 1..(Len(l) + Len(m)) /\ Len(l) \in Nat /\ Len(m) \in Nat
      /\ DOMAIN l = 1..Len(l) /\ DOMAIN m = 1..Len(m)
      /\ \A k \in DOMAIN l : k \in DOMAIN q /\ q[k] = l[k]
      /\ \A k \in DOMAIN q : k \in DOMAIN l \/ (k - Len(l) \in DOMAIN m /\ q[k] = m[k - Len(l)])
  BY Joined
<1> HIDE DEF q
<1>2. \A k \in DOMAIN m : m[k].do = "put" /\ m[k].rec = F[m[k].id] /\ m[k].id \in T
  BY DEF Writes, Covers
<1>3. \A j, k \in DOMAIN m : m[j].id = m[k].id => j = k
  BY DEF Writes, Covers
<1>4. ASSUME NEW k \in DOMAIN q
      PROVE  \/ k \in DOMAIN l /\ q[k].do = "store" /\ q[k].value = NoKey
             \/ /\ k \notin DOMAIN l /\ k - Len(l) \in DOMAIN m /\ q[k] = m[k - Len(l)]
                /\ q[k].do = "put" /\ q[k].rec = F[q[k].id] /\ q[k].id \in T
  BY <1>1, <1>2
<1>5. Orderly(q)
  BY <1>4, <1>3, <1>1 DEF Orderly
<1>6. PutsOK(op, q, K, A)
  BY <1>4, <1>1 DEF PutsOK, ForgetOf, ForgetBefore
<1>7. DelsOK(op, q, K, A) /\ StoresOK(op, q, R, A) /\ RestoresOK(q, A)
  BY <1>4 DEF DelsOK, StoresOK, RestoresOK
<1>8. CallsOK(op, q, R, K, A)
  BY <1>5, <1>6, <1>7 DEF CallsOK
<1> QED BY <1>8 DEF q, Then

LEMMA WrittenIs ==
  ASSUME RecordInv, Free, NEW t \in Templates, NEW s \in Servers, ~Dead(recs, s)
  PROVE  LET r == Newer(Written(t, s)) IN
         /\ r \in RecordsOf /\ r.rev # 0 /\ Shaped(s, r) /\ (s \in stale \/ Leads(s, r, recs))
         /\ r.proxy = IF NewProxy(t, s) THEN recs[t].proxy ELSE recs[s].proxy
<1> DEFINE p == IF NewProfile(t, s) THEN recs[t].profile ELSE recs[s].profile
           g == IF NewGateway(t, s) THEN recs[t].gateway ELSE recs[s].gateway
           e == IF NewProxy(t, s) THEN recs[t].proxy ELSE recs[s].proxy
           r0 == Written(t, s)
           r == Newer(r0)
<1>1. /\ s \in AllIds /\ t \in AllIds /\ recs[s] \in RecordsOf /\ Shaped(s, recs[s]) /\ recs[t] \in RecordsOf
      /\ spent \in Spending
  BY RecordFacts, Ids
<1>2. /\ p = recs[s].profile \/ (p # None /\ ~Dead(recs, p))
      /\ g = recs[s].gateway \/ (g # None /\ ~Dead(recs, g))
  BY DEF NewProfile, NewGateway, Dead
<1>3. p \in Profiles \cup {None} /\ g \in Servers \cup {None} /\ e \in Endpoints \cup {None}
  BY <1>1 DEF RecordsOf
<1>4. r0 = [recs[s] EXCEPT !.proxy = e, !.gateway = g, !.profile = p]
  BY DEF Written
<1> HIDE DEF p, g, r0
<1>5. /\ r0 \in RecordsOf /\ r0.profile = p /\ r0.gateway = g /\ r0.proxy = e /\ r0.rules = recs[s].rules
  BY ZenonT(30), <1>1, <1>3, <1>4 DEF RecordsOf
<1>6. Shaped(s, r0)
  BY <1>1, <1>5, Ids DEF Shaped
<1>7. /\ r \in RecordsOf /\ r.rev # 0 /\ Shaped(s, r) /\ LinksOf(r) = LinksOf(r0) /\ r.proxy = r0.proxy
  BY <1>1, <1>5, <1>6, NewerIs
<1>8. s \in stale \/ Leads(s, recs[s], recs)
  BY <1>1, LiveRecord
<1>9. ASSUME s \notin stale, NEW x \in LinksOf(r)
      PROVE  ~Dead(recs, x)
  BY <1>5, <1>7, <1>2, Ids, <1>8, <1>9 DEF LinksOf, Leads
<1> HIDE DEF r
<1>10. r = Newer(Written(t, s)) /\ r.proxy = IF NewProxy(t, s) THEN recs[t].proxy ELSE recs[s].proxy
  BY <1>5, <1>7 DEF r, r0, e
<1> HIDE DEF e
<1> QED BY <1>7, <1>9, <1>10 DEF Leads

WrittenTo(t, ss) == {s \in ss : NewProxy(t, s) \/ NewGateway(t, s) \/ NewProfile(t, s)}
WithPassword(S) == {s \in S : keys[s].proxy # NoKey}
ApplyList(t, ss) == ForgetProxies(StalePasswords(t, ss)) \o PutEach(WrittenTo(t, ss), [s \in Servers |-> Newer(Written(t, s))])
ApplyUndo(t, ss) == RestoreProxies(WithPassword(StalePasswords(t, ss)))

LEMMA ApplyCallsAre ==
  ASSUME RecordInv, Free, NEW t \in Templates, NEW ss \in SUBSET Servers, \A s \in ss : ~Dead(recs, s)
  PROVE  LET q == ApplyList(t, ss) IN
         /\ q \in CallLists /\ CallsOK("apply", q, recs, keys, abandoned)
         /\ \A k \in DOMAIN q : q[k].do = "put" /\ q[k].id \notin stale => LinksTo("apply", q, k, q[k].id, q[k].rec, recs)
<1> DEFINE S == StalePasswords(t, ss)
           T == WrittenTo(t, ss)
           F == [s \in Servers |-> Newer(Written(t, s))]
           l == ForgetProxies(S)
           m == PutEach(T, F)
           q == Then(l, m)
<1>1. S \in SUBSET Servers /\ T \in SUBSET AllIds /\ T \subseteq ss /\ T \subseteq Servers
  BY Ids DEF StalePasswords, WrittenTo
<1>2. ASSUME NEW s \in T
      PROVE  /\ F[s] \in RecordsOf /\ F[s].rev # 0 /\ Shaped(s, F[s]) /\ (s \in stale \/ Leads(s, F[s], recs))
             /\ F[s].proxy = IF NewProxy(t, s) THEN recs[t].proxy ELSE recs[s].proxy
  BY <1>1, WrittenIs
<1>3. ApplyList(t, ss) = q
  BY DEF ApplyList, Then
<1>4. Tidy(recs, keys, abandoned)
  BY WhenFree
<1>5. /\ l \in CallLists
      /\ \A k \in DOMAIN l : l[k].do = "store" /\ l[k].value = NoKey
      /\ \A s \in S : ForgetOf(l, s, "proxy")
  BY <1>1, ForgetProxiesAre
<1>6. \A s \in T \cap Servers :
        s \in abandoned \/ keys[s]["proxy"] \in {NoKey, F[s].proxy} \/ ForgetOf(l, s, "proxy")
  BY <1>5, <1>1, <1>4, <1>2 DEF Tidy, StalePasswords
<1> HIDE DEF F, T, S
<1>7. m \in CallLists /\ Writes(m, T, F)
  <2>1. \A i \in T : F[i] \in RecordsOf /\ F[i].rev # 0 /\ Shaped(i, F[i])
    BY <1>2
  <2> QED BY <1>1, <2>1, PutEachIs DEF Writes, Covers
<1> HIDE DEF l, m
<1>8. /\ q \in CallLists /\ CallsOK("apply", q, recs, keys, abandoned)
      /\ \A k \in DOMAIN q : q[k].do = "put" => q[k].id \in T /\ q[k].rec = F[q[k].id]
  BY <1>5, <1>7, <1>6, ForgetsThenPuts, ThenPuts
<1> HIDE DEF q
<1>9. \A k \in DOMAIN q : q[k].do = "put" /\ q[k].id \notin stale => LinksTo("apply", q, k, q[k].id, q[k].rec, recs)
  BY <1>2, <1>8 DEF Leads, LinksTo
<1> QED BY <1>3, <1>8, <1>9

LEMMA ApplyUndoIs ==
  ASSUME RecordInv, Free, NEW t \in Templates, NEW ss \in SUBSET Servers, \A s \in ss : ~Dead(recs, s), NEW q, NEW R
  PROVE  LET u == ApplyUndo(t, ss) IN
         u \in CallLists /\ UndoOK("apply", q, u, keys, abandoned) /\ UndoLinks(u, R, stale)
BY RecordFacts, WhenFree, RestoreProxiesAre DEF WithPassword, StalePasswords, ApplyUndo, RestoresOK, Tidy, UndoOK,
   UndoLinks

LEMMA ApplyStep ==
  ASSUME RecordInv, NEW k \in 1..2, ApplyTemplate(k), UNCHANGED transfer
  PROVE  RecordInv'
<1> DEFINE f == forms[k]
           t == f.id
           ss == f.servers
           q == ApplyList(t, ss)
           u == ApplyUndo(t, ss)
<1>1. Answered(k, "apply")
  BY DEF ApplyTemplate
<1>2. /\ Free /\ FormsOK' /\ t \in Templates /\ ss \in SUBSET Servers /\ forms' = [forms EXCEPT ![k] = NoForm]
  BY <1>1, AnsweredIs DEF FormOK
<1>3. Refuse \/ (ss = LiveOf(Servers) /\ Busy("apply", q, u) /\ Plain)
  <2> DEFINE drop == EachOf(StalePasswords(t, ss))
             captured == EachOf({s \in StalePasswords(t, ss) : keys[s].proxy # NoKey})
             write == EachOf({s \in ss : NewProxy(t, s) \/ NewGateway(t, s) \/ NewProfile(t, s)})
             calls == [i \in DOMAIN drop |-> Forget(drop[i], "proxy")] \o
                      [i \in DOMAIN write |-> Put(write[i], Newer(Written(t, write[i])))]
             undo == [i \in DOMAIN captured |-> Restore(captured[i], keys[captured[i]].proxy, recs[captured[i]].proxy)]
  <2>1. Refuse \/ (ss = LiveOf(Servers) /\ Busy("apply", calls, undo) /\ Plain)
    BY DEF ApplyTemplate
  <2>2. undo = u
    BY DEF ApplyUndo, RestoreProxies, WithPassword
  <2>3. calls = q
    <3> DEFINE W == WrittenTo(t, ss)
               F == [s \in Servers |-> Newer(Written(t, s))]
    <3>1. IsFiniteSet(W) /\ W \subseteq Servers
      BY <1>2, FiniteIds, Ids DEF WrittenTo
    <3>2. write = EachOf(W)
      BY DEF WrittenTo
    <3> HIDE DEF W, write
    <3>3. \A i \in DOMAIN write : write[i] \in Servers
      BY <3>1, <3>2, EachOfLists
    <3>4. [i \in DOMAIN write |-> Put(write[i], Newer(Written(t, write[i])))] = PutEach(W, F)
      BY <3>2, <3>3 DEF PutEach
    <3> QED BY <3>4 DEF ApplyList, ForgetProxies, W
  <2> QED BY <2>1, <2>2, <2>3
<1> HIDE DEF q, u
<1>4. CASE Refuse
  BY <1>2, <1>4, RefuseStep
<1>5. CASE ss = LiveOf(Servers) /\ Busy("apply", q, u) /\ Plain
  BY <1>5, <1>2, ApplyCallsAre, ApplyUndoIs, RecordFacts, Started DEF LiveOf, Dead, q, u, Plain, Kept, Busy, Ops
<1> QED BY <1>3, <1>4, <1>5

------------------------------------------------------------------------------
(* The complete reset *)

ForgetServers == ForgetEach(EachOf(LiveOf(Servers)))
ResetFirst == Then(ForgetServers, DeleteEach(Servers))
SettingsCallList == <<[do |-> "settings", id |-> None]>>
ResetCalls == Then(RemoveAll(ResetFirst), SettingsCallList)

LEMMA SettingsList ==
  /\ SettingsCallList \in CallLists
  /\ \A k \in DOMAIN SettingsCallList : SettingsCallList[k].do = "settings" /\ Clears(SettingsCallList[k])
BY DEF CallSet, SettingsCalls, Clears, CallLists, SettingsCallList

LEMMA ForgetServersAre ==
  /\ ForgetServers \in CallLists
  /\ \A k \in DOMAIN ForgetServers : Clears(ForgetServers[k]) /\ ForgetServers[k].do = "store"
  /\ \A i \in LiveOf(Servers), f \in Fields : ForgetOf(ForgetServers, i, f)
BY LiveIds, Ids, EachOfLists, Forgetting DEF ForgetServers

LEMMA ThenClears ==
  ASSUME NEW l \in CallLists, NEW m \in CallLists, \A k \in DOMAIN l : Clears(l[k]), \A k \in DOMAIN m : Clears(m[k])
  PROVE  /\ Then(l, m) \in CallLists /\ \A k \in DOMAIN Then(l, m) : Clears(Then(l, m)[k])
         /\ \A i : DelOf(Then(l, m), i) <=> DelOf(l, i) \/ DelOf(m, i)
<1> DEFINE q == l \o m
<1>1. q \in CallLists
  BY Joined
<1>2. /\ \A i : DelOf(q, i) <=> DelOf(l, i) \/ DelOf(m, i)
      /\ \A k \in DOMAIN q : (\E j \in DOMAIN l : q[k] = l[j]) \/ (\E j \in DOMAIN m : q[k] = m[j])
  BY JoinedFinds
<1> HIDE DEF q
<1>3. Then(l, m) = q
  BY DEF Then, q
<1> QED BY <1>1, <1>2, <1>3

LEMMA ThenForgotten ==
  ASSUME NEW l \in CallLists, NEW m \in CallLists, NEW S, ForgottenFirst(l, S),
         ForgottenFirst(m, S) \/ \A i \in S, f \in Fields : DelOf(m, i) => ForgetOf(l, i, f)
  PROVE  ForgottenFirst(Then(l, m), S)
BY ForgottenJoined DEF Then

LEMMA ResetCallsAre ==
  ASSUME RecordInv
  PROVE  /\ ResetCalls \in CallLists /\ \A k \in DOMAIN ResetCalls : Clears(ResetCalls[k])
         /\ DelsOK("reset", ResetCalls, keys, abandoned)
<1> DEFINE S == AllIds \ Templates
           d == DeleteEach(Servers)
           n == RemoveAll(ResetFirst)
<1>1. S \in SUBSET (AllIds \ Templates)
  OBVIOUS
<1> HIDE DEF S
<1>2. /\ d \in CallLists /\ (\A k \in DOMAIN d : Clears(d[k])) /\ \A i : DelOf(d, i) <=> i \in LiveOf(Servers)
  BY Ids, DeleteEachIs
<1> HIDE DEF d
<1>3. /\ ResetFirst \in CallLists /\ (\A k \in DOMAIN ResetFirst : Clears(ResetFirst[k]))
      /\ \A i : DelOf(ResetFirst, i) <=> DelOf(ForgetServers, i) \/ DelOf(d, i)
  BY <1>2, ForgetServersAre, ThenClears DEF ResetFirst, d
<1>4. \A i \in LiveOf(Servers) : DelOf(ResetFirst, i)
  BY <1>2, <1>3
<1>5. ForgottenFirst(ResetFirst, S)
  BY ForgetServersAre, <1>2, ThenForgotten DEF ForgottenFirst, ResetFirst, d
<1>6. n \in CallLists /\ (\A k \in DOMAIN n : Clears(n[k])) /\ ForgottenFirst(n, S)
  BY <1>1, <1>3, <1>4, <1>5, RemoveAllIs
<1> HIDE DEF n
<1>7. ResetCalls = Then(n, SettingsCallList)
  BY DEF ResetCalls, n
<1>8. ResetCalls \in CallLists /\ \A k \in DOMAIN ResetCalls : Clears(ResetCalls[k])
  BY <1>6, <1>7, SettingsList, ThenClears
<1>9. ForgottenFirst(ResetCalls, S)
  BY SettingsList, <1>6, <1>7, ThenForgotten DEF ForgottenFirst
<1>10. DelsOK("reset", ResetCalls, keys, abandoned)
  BY <1>8, CallKinds, <1>9 DEF DelsOK, CallLists, RecordInv, TypeInv, RecTypes, Vault, ForgottenFirst, S
<1> QED BY <1>8, <1>10

LEMMA ResetStep ==
  ASSUME RecordInv, Reset
  PROVE  RecordInv'
<1>1. /\ Free /\ UNCHANGED <<recs, keys, forms, file, transfer, abandoned, stale>>
      /\ spent' = [spent EXCEPT !.commands = @ + 1]
  BY DEF Reset, AtRest, Occupied
<1>2. Busy("reset", ResetCalls, <<>>)
  BY DEF Reset, Busy, ResetCalls, ResetFirst, ForgetServers, SettingsCallList, RemoveAll, Others, DeleteEach, Then
<1>3. spent' \in Spending /\ spent.born \subseteq spent'.born /\ "reset" \in PlainOps /\ FormsOK'
  BY <1>1, RecordFacts, SpentIs, FormsKept DEF PlainOps, Ops
<1>4. /\ ResetCalls \in CallLists /\ (\A k \in DOMAIN ResetCalls : Clears(ResetCalls[k]))
      /\ DelsOK("reset", ResetCalls, keys, abandoned)
  BY ResetCallsAre
<1> DEFINE q == ResetCalls
<1>5. q \in CallLists /\ (\A k \in DOMAIN q : Clears(q[k])) /\ DelsOK("reset", q, keys, abandoned) /\ Busy("reset", q, <<>>)
  BY <1>2, <1>4
<1> HIDE DEF q
<1> QED BY <1>1, <1>3, <1>5, StartedClearing

------------------------------------------------------------------------------
(* An import for sharing *)

\* Records that are written under other ids.
PutAs(S, G, F) == LET ids == EachOf(S) IN [n \in DOMAIN ids |-> Put(G[ids[n]], F[ids[n]])]

LEMMA PutAsIs ==
  ASSUME NEW S \in SUBSET AllIds, NEW G, NEW F,
         \A i \in S : G[i] \in AllIds /\ F[i] \in RecordsOf /\ F[i].rev # 0 /\ Shaped(G[i], F[i]),
         \A i, j \in S : G[i] = G[j] => i = j
  PROVE  LET q == PutAs(S, G, F) IN
         /\ q \in CallLists
         /\ \A k \in DOMAIN q : \E i \in S : q[k].do = "put" /\ q[k].id = G[i] /\ q[k].rec = F[i]
         /\ \A j, k \in DOMAIN q : q[j].id = q[k].id => j = k
         /\ \A i \in S : \E k \in DOMAIN q : IsPut(q[k], G[i])
BY FiniteIds, EachOfLists, PutIs DEF PutAs, CallLists

\* An id for each record of the file, unused until now.
LEMMA NewIdsAre ==
  ASSUME RecordInv, Free, NEW K \in SUBSET AllIds, ExistsInjection(InFile(K), Unborn(K))
  PROVE  /\ DOMAIN NewIds(K) = InFile(K)
         /\ \A i \in InFile(K) : /\ NewIds(K)[i] \in K /\ Dead(recs, NewIds(K)[i])
                                 /\ \A f \in Fields : NewIds(K)[i] \in abandoned \/ keys[NewIds(K)[i]][f] = NoKey
         /\ \A i, j \in InFile(K) : NewIds(K)[i] = NewIds(K)[j] => i = j
BY RecordFacts, WhenFree DEF NewIds, ExistsInjection, Injection, IsInjective, Unborn, Tidy

ShareIds ==
  [i \in InFile(Servers \cup Profiles) |-> IF i \in Servers THEN NewIds(Servers)[i] ELSE NewIds(Profiles)[i]]
ShareRecord(s) ==
  [Data.recs[s] EXCEPT !.profile = Imported(@, ShareIds), !.gateway = Imported(@, ShareIds)]
ShareFits == \A K \in {Servers, Profiles} : ExistsInjection(InFile(K), Unborn(K))

LEMMA ShareIdsAre ==
  ASSUME RecordInv, Free, ShareFits
  PROVE  /\ \A s \in InFile(Servers) : ShareIds[s] \in Servers
         /\ \A p \in InFile(Profiles) : ShareIds[p] \in Profiles
         /\ \A i \in InFile(Servers) \cup InFile(Profiles) :
              /\ ShareIds[i] \in AllIds /\ Dead(recs, ShareIds[i])
              /\ \A f \in Fields : ShareIds[i] \in abandoned \/ keys[ShareIds[i]][f] = NoKey
         /\ \A i, j \in InFile(Servers) : ShareIds[i] = ShareIds[j] => i = j
         /\ \A i, j \in InFile(Profiles) : ShareIds[i] = ShareIds[j] => i = j
BY Ids, NewIdsAre DEF ShareFits, InFile, ShareIds

\* The records of the file, their links led to the records they come with.
LEMMA ShareRecordIs ==
  ASSUME RecordInv, Free, ShareFits, NEW s \in InFile(Servers), NEW j \in Servers
  PROVE  LET r == ShareRecord(s) IN
         /\ r \in RecordsOf /\ r.rev # 0 /\ Shaped(j, r)
         /\ \A x \in LinksOf(r) : \/ \E p \in InFile(Profiles) \ Data.bad : x = ShareIds[p]
                                  \/ x = r.gateway /\ \E g \in InFile(Servers) \ Data.bad : x = ShareIds[g]
<1> DEFINE d == Data.recs[s]
           r == ShareRecord(s)
           p == Imported(d.profile, ShareIds)
           g == Imported(d.gateway, ShareIds)
<1>1. Data.recs \in RecordMaps
  BY RecordFacts DEF Data, Free, FileTyped
<1>2. d \in RecordsOf /\ Shaped(s, d) /\ s \in Servers /\ d.rev # 0
  BY <1>1, Ids DEF InFile, RecordMaps
<1>3. \/ p = None
      \/ d.profile \in InFile(Profiles) \ Data.bad /\ p = ShareIds[d.profile]
  BY <1>2 DEF RecordsOf, Imported, InFile
<1>4. \/ g = None
      \/ d.gateway \in InFile(Servers) \ Data.bad /\ g = ShareIds[d.gateway]
  BY <1>2 DEF RecordsOf, Imported, InFile
<1>5. p \in Profiles \cup {None} /\ g \in Servers \cup {None}
  BY <1>3, <1>4, ShareIdsAre
<1>6. r = [d EXCEPT !.profile = p, !.gateway = g]
  BY DEF ShareRecord
<1> HIDE DEF p, g, d, r
<1>7. r \in RecordsOf /\ r.rev # 0 /\ r.profile = p /\ r.gateway = g /\ r.rules = d.rules
  BY <1>2, <1>5, <1>6 DEF RecordsOf
<1>8. d.rules = {}
  BY <1>2, Ids DEF Shaped
<1>9. Shaped(j, r)
  BY <1>7, <1>8, Ids DEF Shaped
<1>10. \A x \in LinksOf(r) : x \in {p, g} /\ x # None
  BY <1>7, <1>8 DEF LinksOf
<1> QED BY <1>3, <1>4, <1>7, <1>9, <1>10 DEF r

LEMMA ShareProfileIs ==
  ASSUME RecordInv, Free, NEW p \in InFile(Profiles), NEW j
  PROVE  Data.recs[p] \in RecordsOf /\ Data.recs[p].rev # 0 /\ Shaped(j, Data.recs[p]) /\ LinksOf(Data.recs[p]) = {}
BY RecordFacts, Ids DEF Data, Free, FileTyped, InFile, RecordMaps, Shaped, LinksOf

ShareProfiles == PutAs(InFile(Profiles) \ Data.bad, ShareIds, [p \in Profiles |-> Data.recs[p]])
ShareServers == PutAs(InFile(Servers) \ Data.bad, ShareIds, [s \in Servers |-> ShareRecord(s)])
ShareCalls == Then(ShareProfiles, ShareServers)

\* Where the calls of two lists are in the list they make.
LEMMA ThenIs ==
  ASSUME NEW l \in CallLists, NEW m \in CallLists
  PROVE  /\ Then(l, m) \in CallLists
         /\ \A k \in DOMAIN l : k \in DOMAIN Then(l, m) /\ Then(l, m)[k] = l[k]
         /\ \A k \in DOMAIN m : \E j \in DOMAIN Then(l, m) : Then(l, m)[j] = m[k]
         /\ \A k \in DOMAIN Then(l, m) :
              \/ k \in DOMAIN l
              \/ /\ \A j \in DOMAIN l : j < k
                 /\ k - Len(l) \in DOMAIN m /\ Then(l, m)[k] = m[k - Len(l)]
         /\ DOMAIN Then(l, m) \subseteq Nat /\ Len(l) \in Nat
<1> DEFINE q == l \o m
<1>1. /\ q \in CallLists /\ DOMAIN q = 1..(Len(l) + Len(m)) /\ Len(l) \in Nat /\ Len(m) \in Nat
      /\ DOMAIN l = 1..Len(l) /\ DOMAIN m = 1..Len(m)
      /\ \A k \in DOMAIN l : k \in DOMAIN q /\ q[k] = l[k]
      /\ \A k \in DOMAIN m : k + Len(l) \in DOMAIN q /\ q[k + Len(l)] = m[k]
      /\ \A k \in DOMAIN q : k \in DOMAIN l \/ (k - Len(l) \in DOMAIN m /\ q[k] = m[k - Len(l)])
  BY Joined
<1> HIDE DEF q
<1>2. \A k \in DOMAIN q : k \in DOMAIN l \/ \A j \in DOMAIN l : j < k
  BY <1>1
<1>3. \A k \in DOMAIN m : \E j \in DOMAIN q : q[j] = m[k]
  BY <1>1
<1>4. Then(l, m) = q
  BY DEF Then, q
<1> QED BY <1>1, <1>2, <1>3, <1>4

LEMMA ShareListsAre ==
  ASSUME RecordInv, Free, ShareFits
  PROVE  /\ ShareProfiles \in CallLists /\ ShareServers \in CallLists
         /\ \A k \in DOMAIN ShareProfiles : \E p \in InFile(Profiles) \ Data.bad :
              ShareProfiles[k].do = "put" /\ ShareProfiles[k].id = ShareIds[p] /\ ShareProfiles[k].rec = Data.recs[p]
         /\ \A k \in DOMAIN ShareServers : \E s \in InFile(Servers) \ Data.bad :
              ShareServers[k].do = "put" /\ ShareServers[k].id = ShareIds[s] /\ ShareServers[k].rec = ShareRecord(s)
         /\ \A j, k \in DOMAIN ShareProfiles : ShareProfiles[j].id = ShareProfiles[k].id => j = k
         /\ \A j, k \in DOMAIN ShareServers : ShareServers[j].id = ShareServers[k].id => j = k
         /\ \A p \in InFile(Profiles) \ Data.bad : \E k \in DOMAIN ShareProfiles : IsPut(ShareProfiles[k], ShareIds[p])
         /\ \A s \in InFile(Servers) \ Data.bad : \E k \in DOMAIN ShareServers : IsPut(ShareServers[k], ShareIds[s])
<1> DEFINE S == InFile(Servers) \ Data.bad
           P == InFile(Profiles) \ Data.bad
           FS == [s \in Servers |-> ShareRecord(s)]
           FP == [p \in Profiles |-> Data.recs[p]]
<1>1. /\ S \subseteq InFile(Servers) /\ S \subseteq Servers /\ S \in SUBSET AllIds
      /\ P \subseteq InFile(Profiles) /\ P \subseteq Profiles /\ P \in SUBSET AllIds
  BY Ids DEF InFile
<1>2. /\ \A s \in S : FS[s] = ShareRecord(s)
      /\ \A p \in P : FP[p] = Data.recs[p]
  BY <1>1
<1> HIDE DEF S, P, FS, FP
<1>3. ASSUME NEW s \in S
      PROVE  ShareIds[s] \in AllIds /\ FS[s] \in RecordsOf /\ FS[s].rev # 0 /\ Shaped(ShareIds[s], FS[s])
  BY <1>1, ShareIdsAre, <1>2, ShareRecordIs, Ids
<1>4. ASSUME NEW p \in P
      PROVE  ShareIds[p] \in AllIds /\ FP[p] \in RecordsOf /\ FP[p].rev # 0 /\ Shaped(ShareIds[p], FP[p])
  BY <1>1, ShareIdsAre, <1>2, ShareProfileIs, Ids
<1>5. /\ \A i, j \in S : ShareIds[i] = ShareIds[j] => i = j
      /\ \A i, j \in P : ShareIds[i] = ShareIds[j] => i = j
  BY <1>1, ShareIdsAre
<1>6. LET q == PutAs(S, ShareIds, FS) IN
      /\ q \in CallLists
      /\ \A k \in DOMAIN q : \E i \in S : q[k].do = "put" /\ q[k].id = ShareIds[i] /\ q[k].rec = FS[i]
      /\ \A j, k \in DOMAIN q : q[j].id = q[k].id => j = k
      /\ \A i \in S : \E k \in DOMAIN q : IsPut(q[k], ShareIds[i])
  BY <1>1, <1>3, <1>5, PutAsIs
<1>7. LET q == PutAs(P, ShareIds, FP) IN
      /\ q \in CallLists
      /\ \A k \in DOMAIN q : \E i \in P : q[k].do = "put" /\ q[k].id = ShareIds[i] /\ q[k].rec = FP[i]
      /\ \A j, k \in DOMAIN q : q[j].id = q[k].id => j = k
      /\ \A i \in P : \E k \in DOMAIN q : IsPut(q[k], ShareIds[i])
  BY <1>1, <1>4, <1>5, PutAsIs
<1>8. ShareServers = PutAs(S, ShareIds, FS) /\ ShareProfiles = PutAs(P, ShareIds, FP)
  BY DEF ShareServers, ShareProfiles, S, P, FS, FP
<1>9. /\ ShareServers \in CallLists
      /\ \A k \in DOMAIN ShareServers : \E i \in S :
           ShareServers[k].do = "put" /\ ShareServers[k].id = ShareIds[i] /\ ShareServers[k].rec = ShareRecord(i)
      /\ \A j, k \in DOMAIN ShareServers : ShareServers[j].id = ShareServers[k].id => j = k
      /\ \A i \in S : \E k \in DOMAIN ShareServers : IsPut(ShareServers[k], ShareIds[i])
  BY <1>2, <1>6, <1>8
<1>10. /\ ShareProfiles \in CallLists
       /\ \A k \in DOMAIN ShareProfiles : \E i \in P :
            ShareProfiles[k].do = "put" /\ ShareProfiles[k].id = ShareIds[i] /\ ShareProfiles[k].rec = Data.recs[i]
       /\ \A j, k \in DOMAIN ShareProfiles : ShareProfiles[j].id = ShareProfiles[k].id => j = k
       /\ \A i \in P : \E k \in DOMAIN ShareProfiles : IsPut(ShareProfiles[k], ShareIds[i])
  BY <1>2, <1>7, <1>8
<1> QED BY <1>9, <1>10 DEF S, P

LEMMA ShareCallsAre ==
  ASSUME RecordInv, Free, ShareFits
  PROVE  /\ ShareCalls \in CallLists /\ CallsOK("share", ShareCalls, recs, keys, abandoned)
         /\ \A k \in DOMAIN ShareCalls :
              ShareCalls[k].do = "put" /\ LinksTo("share", ShareCalls, k, ShareCalls[k].id, ShareCalls[k].rec, recs)
<1> DEFINE l == ShareProfiles
           m == ShareServers
           q == Then(l, m)
           P == InFile(Profiles) \ Data.bad
           S == InFile(Servers) \ Data.bad
<1>1. ShareCalls = q
  BY DEF ShareCalls
<1>2. /\ l \in CallLists /\ m \in CallLists
      /\ \A k \in DOMAIN l : \E p \in P : l[k].do = "put" /\ l[k].id = ShareIds[p] /\ l[k].rec = Data.recs[p]
      /\ \A k \in DOMAIN m : \E s \in S : m[k].do = "put" /\ m[k].id = ShareIds[s] /\ m[k].rec = ShareRecord(s)
      /\ \A j, k \in DOMAIN l : l[j].id = l[k].id => j = k
      /\ \A j, k \in DOMAIN m : m[j].id = m[k].id => j = k
      /\ \A p \in P : \E k \in DOMAIN l : IsPut(l[k], ShareIds[p])
      /\ \A s \in S : \E k \in DOMAIN m : IsPut(m[k], ShareIds[s])
  BY ShareListsAre
<1>3. P \subseteq InFile(Profiles) /\ S \subseteq InFile(Servers)
  OBVIOUS
<1> HIDE DEF l, m, P, S
<1>4. /\ q \in CallLists
      /\ \A k \in DOMAIN l : k \in DOMAIN q /\ q[k] = l[k]
      /\ \A k \in DOMAIN m : \E j \in DOMAIN q : q[j] = m[k]
      /\ \A k \in DOMAIN q :
           \/ k \in DOMAIN l
           \/ /\ \A j \in DOMAIN l : j < k
              /\ k - Len(l) \in DOMAIN m /\ q[k] = m[k - Len(l)]
      /\ DOMAIN q \subseteq Nat /\ Len(l) \in Nat
  BY <1>2, ThenIs
<1> HIDE DEF q
<1>5. /\ \A p \in P : ShareIds[p] \in Profiles
      /\ \A s \in S : ShareIds[s] \in Servers
      /\ \A s \in S : ShareIds[s] \in abandoned \/ keys[ShareIds[s]]["proxy"] = NoKey
  BY <1>3, ShareIdsAre DEF Fields
<1>6. ASSUME NEW k \in DOMAIN q
      PROVE  \/ k \in DOMAIN l /\ \E p \in P : q[k].do = "put" /\ q[k].id = ShareIds[p] /\ q[k].rec = Data.recs[p]
             \/ /\ k \notin DOMAIN l /\ (\A j \in DOMAIN l : j < k) /\ k - Len(l) \in DOMAIN m /\ q[k] = m[k - Len(l)]
                /\ \E s \in S : q[k].do = "put" /\ q[k].id = ShareIds[s] /\ q[k].rec = ShareRecord(s)
  <2>1. CASE k \in DOMAIN l
    BY SMTT(30), <1>2, <1>4, <2>1
  <2>2. CASE k \notin DOMAIN l
    <3>1. (\A j \in DOMAIN l : j < k) /\ k - Len(l) \in DOMAIN m /\ q[k] = m[k - Len(l)]
      BY <1>4, <2>2
    <3>2. \E s \in S : q[k].do = "put" /\ q[k].id = ShareIds[s] /\ q[k].rec = ShareRecord(s)
      BY <1>2, <3>1
    <3> QED BY <2>2, <3>1, <3>2
  <2> QED BY <2>1, <2>2
<1>7. \A k \in DOMAIN q : /\ q[k].do = "put"
                          /\ q[k].id \in Servers \ abandoned => keys[q[k].id]["proxy"] \in {NoKey, q[k].rec.proxy}
  BY <1>5, <1>6, Ids
<1>8. ASSUME NEW j \in DOMAIN q, NEW k \in DOMAIN q, q[j].id = q[k].id
      PROVE  j = k
  <2>1. CASE j \in DOMAIN l /\ k \in DOMAIN l
    BY <1>2, <1>4, <1>8, <2>1
  <2>2. CASE j \notin DOMAIN l /\ k \notin DOMAIN l
    BY <1>6, <2>2, <1>2, <1>8, <1>4
  <2>3. CASE (j \in DOMAIN l /\ k \notin DOMAIN l) \/ (j \notin DOMAIN l /\ k \in DOMAIN l)
    BY <1>8, Ids, <1>5, <1>6, <2>3
  <2> QED BY <2>1, <2>2, <2>3
<1>9. CallsOK("share", q, recs, keys, abandoned)
  BY <1>8, <1>7, PutsAlone
<1>10. ASSUME NEW k \in DOMAIN q
       PROVE  LinksTo("share", q, k, q[k].id, q[k].rec, recs)
  <2>1. CASE k \in DOMAIN l
    BY <1>6, <2>1, <1>3, ShareProfileIs DEF LinksTo
  <2>2. CASE k \notin DOMAIN l
    <3>1. PICK s \in S : q[k].rec = ShareRecord(s) /\ q[k].id = ShareIds[s]
      BY <1>6, <2>2
    <3>2. s \in InFile(Servers) /\ ShareIds[s] \in Servers
      BY <1>3, <1>5
    <3> DEFINE r == ShareRecord(s)
    <3>3. \A x \in LinksOf(r) : (\E p \in P : x = ShareIds[p]) \/ (x = r.gateway /\ \E g \in S : x = ShareIds[g])
      BY <3>2, ShareRecordIs DEF P, S
    <3> HIDE DEF r
    <3> SUFFICES ASSUME NEW x \in LinksOf(r)
                 PROVE  PutBefore(q, k, x) \/ (x = r.gateway /\ PutOf(q, x))
      BY <3>1 DEF LinksTo, r
    <3>4. CASE \E p \in P : x = ShareIds[p]
      BY <1>2, <3>4, <1>4, <1>6, <2>2 DEF PutBefore
    <3>5. CASE x = r.gateway /\ \E g \in S : x = ShareIds[g]
      <4>1. PICK n \in DOMAIN m : IsPut(m[n], x)
        BY <1>2, <3>5
      <4>2. PICK j \in DOMAIN q : q[j] = m[n]
        BY <1>4
      <4> QED BY <3>5, <4>1, <4>2 DEF PutOf
    <3> QED BY <3>3, <3>4, <3>5
  <2> QED BY <2>1, <2>2
<1> QED BY <1>1, <1>4, <1>7, <1>9, <1>10

LEMMA ImportShareStep ==
  ASSUME RecordInv, ImportShare
  PROVE  RecordInv'
<1>1. /\ Free /\ ShareFits /\ UNCHANGED <<recs, keys, forms, file, transfer, abandoned, stale>>
      /\ spent' = [spent EXCEPT !.commands = @ + 1]
  BY DEF ImportShare, AtRest, Occupied, ShareFits
<1>2. Busy("share", ShareCalls, <<>>)
  <2> DEFINE ids == [i \in InFile(Servers \cup Profiles) |->
                       IF i \in Servers THEN NewIds(Servers)[i] ELSE NewIds(Profiles)[i]]
             P == InFile(Profiles) \ Data.bad
             S == InFile(Servers) \ Data.bad
             profiles == EachOf(P)
             servers == EachOf(S)
             l == [n \in DOMAIN profiles |-> Put(ids[profiles[n]], Data.recs[profiles[n]])]
             m == [n \in DOMAIN servers |->
                     Put(ids[servers[n]],
                         [Data.recs[servers[n]] EXCEPT !.profile = Imported(@, ids), !.gateway = Imported(@, ids)])]
  <2>1. Busy("share", l \o m, <<>>)
    BY DEF ImportShare
  <2>2. ids = ShareIds
    BY DEF ShareIds
  <2>3. IsFiniteSet(P) /\ IsFiniteSet(S) /\ P \subseteq Profiles /\ S \subseteq Servers
    BY Ids, FiniteIds DEF InFile
  <2> HIDE DEF ids, P, S
  <2>4. (\A n \in DOMAIN profiles : profiles[n] \in Profiles) /\ (\A n \in DOMAIN servers : servers[n] \in Servers)
    BY <2>3, EachOfLists
  <2> HIDE DEF profiles, servers
  <2>5. l = PutAs(P, ShareIds, [p \in Profiles |-> Data.recs[p]])
    BY <2>2, <2>4 DEF PutAs, profiles
  <2>6. m = PutAs(S, ShareIds, [s \in Servers |-> ShareRecord(s)])
    BY <2>2, <2>4 DEF PutAs, servers, ShareRecord
  <2> HIDE DEF l, m
  <2> QED BY <2>1, <2>5, <2>6 DEF ShareCalls, Then, ShareProfiles, ShareServers, P, S
<1>3. /\ ShareCalls \in CallLists /\ CallsOK("share", ShareCalls, recs, keys, abandoned)
      /\ \A k \in DOMAIN ShareCalls :
           ShareCalls[k].do = "put" /\ LinksTo("share", ShareCalls, k, ShareCalls[k].id, ShareCalls[k].rec, recs)
  BY <1>1, ShareCallsAre
<1>4. spent' \in Spending /\ spent.born \subseteq spent'.born /\ "share" \in PlainOps /\ FormsOK' /\ stale \in SUBSET AllIds
  BY <1>1, RecordFacts, SpentIs, FormsKept DEF PlainOps, Ops
<1> DEFINE q == ShareCalls
<1>5. /\ q \in CallLists /\ CallsOK("share", q, recs, keys, abandoned) /\ Busy("share", q, <<>>)
      /\ \A k \in DOMAIN q : q[k].do = "put" /\ q[k].id \notin stale' => LinksTo("share", q, k, q[k].id, q[k].rec, recs)
  BY <1>2, <1>3
<1> HIDE DEF q
<1> QED BY <1>1, <1>4, <1>5, StartedPlain

------------------------------------------------------------------------------
(* An import begins *)

LEMMA FollowIs ==
  /\ "wipe" \in Follow("start") /\ "add" \in Follow("start") /\ "add" \in Follow("wipe") /\ "links" \in Follow("add")
  /\ "rules" \in Follow("links") /\ "settings" \in Follow("rules") /\ "carry" \in Follow("settings")
  /\ "check" \in Follow("settings") /\ "check" \in Follow("carry") /\ "secrets" \in Follow("check")
  /\ "done" \in Follow("check") /\ "source" \in Follow("secrets") /\ "done" \in Follow("secrets")
  /\ "source" \in Follow("source") /\ "done" \in Follow("source")
BY DEF Follow

\* Phases that follow each other, from the one named a to the one named z.
Unsourced(ph) == \A k \in DOMAIN ph : ph[k][1] # "source"
Wiping(ph) == 2 \in DOMAIN ph /\ ph[2][1] = "wipe"
Chain(ph, a, z) ==
  /\ ph \in PhaseLists /\ Len(ph) \in Nat \ {0} /\ DOMAIN ph = 1..Len(ph) /\ ph[1][1] = a /\ ph[Len(ph)][1] = z
  /\ \A k \in DOMAIN ph :
       /\ k + 1 \in DOMAIN ph => ph[k + 1][1] \in Follow(ph[k][1])
       /\ \/ ph[k][1] = "source" /\ ph[k][2] \in Sources
          \/ ph[k][1] \notin {"source", "takeBack", "detach"} /\ ph[k][2] = None
  /\ \A j, k \in DOMAIN ph : ph[k][1] = "source" /\ ph[j][2] = ph[k][2] => j = k

LEMMA JoinedPhases ==
  ASSUME NEW l \in PhaseLists, NEW m \in PhaseLists
  PROVE  LET n == l \o m IN
         /\ n \in PhaseLists /\ DOMAIN n = 1..(Len(l) + Len(m)) /\ Len(n) = Len(l) + Len(m)
         /\ Len(l) \in Nat /\ Len(m) \in Nat /\ DOMAIN l = 1..Len(l) /\ DOMAIN m = 1..Len(m)
         /\ \A k \in DOMAIN l : k \in DOMAIN n /\ n[k] = l[k]
         /\ \A k \in DOMAIN m : k + Len(l) \in DOMAIN n /\ n[k + Len(l)] = m[k]
         /\ \A k \in DOMAIN n : k \in DOMAIN l \/ (k - Len(l) \in DOMAIN m /\ n[k] = m[k - Len(l)])
BY DEF PhaseLists

LEMMA ChainJoined ==
  ASSUME NEW l, NEW m, NEW a, NEW y, NEW b, NEW z, Chain(l, a, y), Chain(m, b, z), b \in Follow(y),
         Unsourced(l) \/ Unsourced(m)
  PROVE  Chain(Then(l, m), a, z)
<1> DEFINE n == l \o m
<1>1. /\ n \in PhaseLists /\ DOMAIN n = 1..(Len(l) + Len(m)) /\ Len(n) = Len(l) + Len(m)
      /\ Len(l) \in Nat \ {0} /\ Len(m) \in Nat \ {0} /\ DOMAIN l = 1..Len(l) /\ DOMAIN m = 1..Len(m)
      /\ \A k \in DOMAIN l : k \in DOMAIN n /\ n[k] = l[k]
      /\ \A k \in DOMAIN m : k + Len(l) \in DOMAIN n /\ n[k + Len(l)] = m[k]
      /\ \A k \in DOMAIN n : k \in DOMAIN l \/ (k - Len(l) \in DOMAIN m /\ n[k] = m[k - Len(l)])
  BY JoinedPhases DEF Chain
<1> HIDE DEF n
<1>2. /\ \A k \in DOMAIN l : k + 1 \in DOMAIN l => l[k + 1][1] \in Follow(l[k][1])
      /\ \A k \in DOMAIN m : k + 1 \in DOMAIN m => m[k + 1][1] \in Follow(m[k][1])
      /\ l[Len(l)][1] = y /\ m[1][1] = b /\ l[1][1] = a /\ m[Len(m)][1] = z
  BY DEF Chain
<1>3. ASSUME NEW k \in DOMAIN n
      PROVE  \/ n[k][1] = "source" /\ n[k][2] \in Sources
             \/ n[k][1] \notin {"source", "takeBack", "detach"} /\ n[k][2] = None
  BY <1>1 DEF Chain
<1>4. ASSUME NEW k \in DOMAIN n, k + 1 \in DOMAIN n
      PROVE  n[k + 1][1] \in Follow(n[k][1])
  <2>1. CASE k + 1 \in DOMAIN l
    BY <1>1, <2>1, <1>2
  <2>2. CASE k = Len(l)
    BY <1>1, <2>2, <1>2
  <2>3. CASE k \notin DOMAIN l
    <3> DEFINE j == k - Len(l)
    <3>1. j \in DOMAIN m /\ j + 1 \in DOMAIN m /\ k = j + Len(l) /\ k + 1 = (j + 1) + Len(l)
      BY <1>1, <1>4, <2>3
    <3> HIDE DEF j
    <3>2. n[k] = m[j] /\ n[k + 1] = m[j + 1]
      BY <1>1, <3>1
    <3> QED BY <1>2, <3>1, <3>2
  <2> QED BY <1>1, <1>4, <2>1, <2>2, <2>3
<1>5. ASSUME NEW j \in DOMAIN n, NEW k \in DOMAIN n, n[k][1] = "source", n[j][2] = n[k][2]
      PROVE  j = k
  <2>1. n[k][2] \in Sources /\ n[j][1] = "source"
    BY <1>3, <1>5, Ids
  <2>2. CASE j \in DOMAIN l /\ k \in DOMAIN l
    BY <1>1, <1>5, <2>2 DEF Chain
  <2>3. CASE j \notin DOMAIN l /\ k \notin DOMAIN l
    BY <1>1, <2>3, <1>5 DEF Chain
  <2>4. CASE (j \in DOMAIN l /\ k \notin DOMAIN l) \/ (j \notin DOMAIN l /\ k \in DOMAIN l)
    BY <1>1, <1>5, <2>1, <2>4 DEF Unsourced
  <2> QED BY <2>2, <2>3, <2>4
<1>6. n[1][1] = a /\ n[Len(n)][1] = z /\ Len(n) \in Nat \ {0}
  BY <1>1, <1>2
<1>7. Then(l, m) = n
  BY DEF Then, n
<1> QED BY <1>1, <1>3, <1>4, <1>5, <1>6, <1>7 DEF Chain

LEMMA ChainFacts ==
  ASSUME NEW l, NEW m, NEW a, NEW y, NEW b, NEW z, Chain(l, a, y), Chain(m, b, z)
  PROVE  /\ Unsourced(l) /\ Unsourced(m) => Unsourced(Then(l, m))
         /\ Wiping(l) => Wiping(Then(l, m))
<1> DEFINE n == l \o m
<1>1. /\ \A k \in DOMAIN l : k \in DOMAIN n /\ n[k] = l[k]
      /\ \A k \in DOMAIN n : k \in DOMAIN l \/ (k - Len(l) \in DOMAIN m /\ n[k] = m[k - Len(l)])
  BY JoinedPhases DEF Chain
<1> HIDE DEF n
<1>2. Unsourced(l) /\ Unsourced(m) => Unsourced(n)
  BY <1>1 DEF Unsourced
<1>3. Wiping(l) => Wiping(n)
  BY <1>1 DEF Wiping
<1> QED BY <1>2, <1>3 DEF Then, n

LEMMA ThenNothing ==
  ASSUME NEW l, NEW a, NEW z, Chain(l, a, z)
  PROVE  Then(l, <<>>) = l
BY DEF Then, Chain, PhaseLists

One(name) == <<<<name, 0>>>>

LEMMA OnePhase ==
  ASSUME NEW name \in PhaseNames \ {"source", "takeBack", "detach"}
  PROVE  Chain(One(name), name, name) /\ Unsourced(One(name))
BY DEF None, PhaseLists, Chain, Unsourced, One

SourcePhases == LET ss == EachOf(InFile(Sources)) IN [n \in DOMAIN ss |-> <<"source", ss[n]>>]

LEMMA SourcePhasesAre == SourcePhases = <<>> \/ Chain(SourcePhases, "source", "source")
<1> DEFINE S == InFile(Sources)
           ss == EachOf(S)
           N == Cardinality(S)
           q == [n \in DOMAIN ss |-> <<"source", ss[n]>>]
<1>1. IsFiniteSet(S) /\ S \subseteq Sources
  BY FiniteIds, Ids DEF InFile
<1>2. /\ N \in Nat /\ DOMAIN ss = 1..N /\ \A k \in DOMAIN ss : ss[k] \in Sources
      /\ \A j, k \in DOMAIN ss : ss[j] = ss[k] => j = k
  BY <1>1, EachOfLists
<1>3. SourcePhases = q
  BY DEF SourcePhases
<1> HIDE DEF ss, N, S
<1>4. DOMAIN q = 1..N /\ \A k \in 1..N : q[k] = <<"source", ss[k]>>
  BY <1>2
<1>5. \A k \in 1..N : q[k] \in PhaseNames \X (Sources \cup {None}) /\ q[k][1] = "source" /\ q[k][2] = ss[k]
  BY <1>2, <1>4 DEF PhaseNames
<1>6. q \in PhaseLists /\ Len(q) = N
  BY <1>2, <1>5 DEF PhaseLists
<1> HIDE DEF q
<1>7. CASE N = 0
  BY <1>3, <1>6, <1>7, EmptySeq DEF PhaseLists
<1>8. CASE N # 0
  BY <1>2, <1>8, <1>5, <1>4, <1>6, FollowIs, <1>3 DEF Chain
<1> QED BY <1>7, <1>8

Opening(mode) == IF mode = "replace" THEN Then(One("start"), One("wipe")) ELSE One("start")
Sweeps == Then(Then(One("add"), One("links")), Then(One("rules"), One("settings")))
Swept(mode) == Then(Opening(mode), Sweeps)
Carried(mode, carry) == IF carry THEN Then(Swept(mode), One("carry")) ELSE Swept(mode)
Checked(mode, carry) == Then(Carried(mode, carry), One("check"))
Stored(mode, secrets, carry) ==
  IF secrets THEN Then(Checked(mode, carry), Then(One("secrets"), SourcePhases)) ELSE Checked(mode, carry)
AllPhases(mode, secrets, carry) == Then(Stored(mode, secrets, carry), One("done"))

LEMMA PhaseNamesAre ==
  \A name \in {"start", "wipe", "add", "links", "rules", "settings", "carry", "check", "secrets", "done"} :
    Chain(One(name), name, name) /\ Unsourced(One(name))
BY OnePhase DEF PhaseNames

LEMMA ChainedOpening ==
  ASSUME NEW mode
  PROVE  /\ Unsourced(Opening(mode)) /\ (mode = "replace" => Wiping(Opening(mode)))
         /\ Chain(Opening(mode), "start", "start") \/ Chain(Opening(mode), "start", "wipe")
BY PhaseNamesAre, ChainJoined, ChainFacts, FollowIs DEF Wiping, Then, One, Opening

LEMMA ChainedSweeps == Chain(Sweeps, "add", "settings") /\ Unsourced(Sweeps)
<1> DEFINE a == One("add")
           b == One("links")
           c == One("rules")
           d == One("settings")
<1>1. /\ Chain(a, "add", "add") /\ Chain(b, "links", "links") /\ Chain(c, "rules", "rules")
      /\ Chain(d, "settings", "settings")
      /\ Unsourced(a) /\ Unsourced(b) /\ Unsourced(c) /\ Unsourced(d)
  BY PhaseNamesAre
<1> HIDE DEF a, b, c, d
<1>2. Chain(Then(a, b), "add", "links") /\ Unsourced(Then(a, b))
  BY <1>1, ChainJoined, ChainFacts, FollowIs
<1>3. Chain(Then(c, d), "rules", "settings") /\ Unsourced(Then(c, d))
  BY <1>1, ChainJoined, ChainFacts, FollowIs
<1>4. Chain(Then(Then(a, b), Then(c, d)), "add", "settings") /\ Unsourced(Then(Then(a, b), Then(c, d)))
  BY <1>2, <1>3, ChainJoined, ChainFacts, FollowIs
<1> QED BY <1>4 DEF Sweeps, a, b, c, d

LEMMA ChainedChecked ==
  ASSUME NEW mode, NEW carry \in BOOLEAN
  PROVE  LET p == Checked(mode, carry) IN
         Chain(p, "start", "check") /\ Unsourced(p) /\ (mode = "replace" => Wiping(p))
BY ChainedOpening, ChainedSweeps, PhaseNamesAre, ChainJoined, ChainFacts, FollowIs DEF Swept, Carried, Checked

LEMMA ChainedAll ==
  ASSUME NEW mode, NEW secrets \in BOOLEAN, NEW carry \in BOOLEAN
  PROVE  LET p == AllPhases(mode, secrets, carry) IN Chain(p, "start", "done") /\ (mode = "replace" => Wiping(p))
<1> DEFINE p == Checked(mode, carry)
           s == SourcePhases
           e == One("secrets")
           x == Then(e, s)
           d == One("done")
           t == Stored(mode, secrets, carry)
<1>1. Chain(p, "start", "check") /\ Unsourced(p) /\ (mode = "replace" => Wiping(p))
  BY ChainedChecked
<1>2. Chain(e, "secrets", "secrets") /\ Unsourced(e) /\ Chain(d, "done", "done") /\ Unsourced(d)
  BY PhaseNamesAre
<1>3. s = <<>> \/ Chain(s, "source", "source")
  BY SourcePhasesAre
<1>4. t = (IF secrets THEN Then(p, x) ELSE p) /\ AllPhases(mode, secrets, carry) = Then(t, d)
  BY DEF Stored, AllPhases
<1> HIDE DEF p, s, e, d, t
<1>5. Chain(x, "secrets", "secrets") \/ Chain(x, "secrets", "source")
  BY <1>2, ThenNothing, ChainJoined, FollowIs, <1>3
<1> HIDE DEF x
<1>6. /\ mode = "replace" => Wiping(t)
      /\ Chain(t, "start", "check") \/ Chain(t, "start", "secrets") \/ Chain(t, "start", "source")
  BY <1>1, <1>5, ChainJoined, FollowIs, ChainFacts, <1>4
<1>7. Chain(Then(t, d), "start", "done")
  BY <1>2, <1>6, ChainJoined, FollowIs
<1>8. mode = "replace" => Wiping(Then(t, d))
  BY <1>2, <1>6, ChainFacts
<1> QED BY <1>4, <1>7, <1>8

Four(b, c, d, e) == (<<b>> \o <<c>>) \o (<<d>> \o <<e>>)

LEMMA FourIs ==
  ASSUME NEW S, NEW b \in S, NEW c \in S, NEW d \in S, NEW e \in S
  PROVE  Four(b, c, d, e) = <<b, c, d, e>>
<1> DEFINE l == (<<b>> \o <<c>>) \o (<<d>> \o <<e>>)
           m == <<b, c, d, e>>
<1>1. m \in Seq(S) /\ Len(m) = 4 /\ m[1] = b /\ m[2] = c /\ m[3] = d /\ m[4] = e
  OBVIOUS
<1> DEFINE p == <<b>> \o <<c>>
           q == <<d>> \o <<e>>
<1>2. p \in Seq(S) /\ Len(p) = 2 /\ p[1] = b /\ p[2] = c
  OBVIOUS
<1>3. q \in Seq(S) /\ Len(q) = 2 /\ q[1] = d /\ q[2] = e
  OBVIOUS
<1>4. l = p \o q
  OBVIOUS
<1> HIDE DEF p, q, m, l
<1>5. l \in Seq(S) /\ Len(l) = 4 /\ l[1] = b /\ l[2] = c /\ l[3] = d /\ l[4] = e
  <2>1. /\ p \o q \in Seq(S) /\ Len(p \o q) = Len(p) + Len(q)
        /\ \A i \in 1..(Len(p) + Len(q)) : (p \o q)[i] = IF i <= Len(p) THEN p[i] ELSE q[i - Len(p)]
    BY <1>2, <1>3, ConcatProperties
  <2>2. l \in Seq(S) /\ Len(l) = 4 /\ \A i \in 1..4 : l[i] = IF i <= 2 THEN p[i] ELSE q[i - 2]
    BY <1>2, <1>3, <1>4, <2>1
  <2>3. 3 - 2 = 1 /\ 4 - 2 = 2
    OBVIOUS
  <2> QED BY <1>2, <1>3, <2>2, <2>3
<1>6. \A i \in 1..4 : l[i] = m[i]
  BY <1>1, <1>5
<1>7. l = m
  BY <1>1, <1>5, <1>6, SeqEqual
<1> QED BY <1>7 DEF l, m, p, q, Four

LEMMA PhasesAre ==
  ASSUME NEW mode \in {"merge", "replace"}, NEW secrets \in BOOLEAN, NEW carry \in BOOLEAN
  PROVE  Phases(mode, secrets, carry) = AllPhases(mode, secrets, carry)
<1> DEFINE a == <<"start", 0>>
           w == <<"wipe", 0>>
           b == <<"add", 0>>
           c == <<"links", 0>>
           d == <<"rules", 0>>
           e == <<"settings", 0>>
           k == <<"carry", 0>>
           g == <<"check", 0>>
           x == <<"secrets", 0>>
           z == <<"done", 0>>
           Cell == PhaseNames \X (Sources \cup {None})
<1>1. /\ a \in Cell /\ w \in Cell /\ b \in Cell /\ c \in Cell /\ d \in Cell /\ e \in Cell /\ k \in Cell /\ g \in Cell
      /\ x \in Cell /\ z \in Cell
  BY DEF PhaseNames, None
<1>2. SourcePhases \in Seq(Cell)
  BY SourcePhasesAre, EmptySeq DEF Chain, PhaseLists
<1>3. Sweeps = <<b, c, d, e>>
  <2>1. Sweeps = Four(b, c, d, e)
    BY DEF Sweeps, One, Then, Four
  <2> HIDE DEF Cell, b, c, d, e
  <2>2. b \in Cell /\ c \in Cell /\ d \in Cell /\ e \in Cell
    BY <1>1
  <2>3. Four(b, c, d, e) = <<b, c, d, e>>
    BY SMTT(30), <2>2, FourIs, Zenon
  <2> QED BY <2>1, <2>3, Zenon
<1>4. Phases(mode, secrets, carry) =
        <<a>> \o (IF mode = "replace" THEN <<w>> ELSE <<>>) \o <<b, c, d, e>> \o (IF carry THEN <<k>> ELSE <<>>) \o <<g>> \o
        (IF secrets THEN <<x>> \o SourcePhases ELSE <<>>) \o <<z>>
  BY DEF Phases, SourcePhases
<1>5. AllPhases(mode, secrets, carry) =
        LET o == IF mode = "replace" THEN <<a>> \o <<w>> ELSE <<a>>
            s == o \o Sweeps
            r == IF carry THEN s \o <<k>> ELSE s
            h == r \o <<g>>
            u == IF secrets THEN h \o (<<x>> \o SourcePhases) ELSE h
        IN  u \o <<z>>
  BY DEF AllPhases, Stored, Checked, Carried, Swept, Opening, One, Then
<1> HIDE DEF Cell, a, w, b, c, d, e, k, g, x, z
<1>6. \A s \in Seq(Cell) : s \o <<>> = s
  OBVIOUS
<1> DEFINE o == <<a>> \o (IF mode = "replace" THEN <<w>> ELSE <<>>)
           s == o \o <<b, c, d, e>>
           r == s \o (IF carry THEN <<k>> ELSE <<>>)
           h == r \o <<g>>
           u == h \o (IF secrets THEN <<x>> \o SourcePhases ELSE <<>>)
<1>7. o = (IF mode = "replace" THEN <<a>> \o <<w>> ELSE <<a>>) /\ o \in Seq(Cell)
  <2>1. <<a>> \in Seq(Cell) /\ <<w>> \in Seq(Cell) /\ <<a>> \o <<w>> \in Seq(Cell)
    BY <1>1
  <2>2. <<a>> \o <<>> = <<a>>
    BY <1>6, <2>1
  <2>3. CASE mode = "replace"
    BY <2>1, <2>3
  <2>4. CASE mode # "replace"
    BY <2>1, <2>2, <2>4
  <2> QED BY <2>3, <2>4
<1>8. s \in Seq(Cell)
  BY <1>1, <1>7
<1>9. r = (IF carry THEN s \o <<k>> ELSE s) /\ r \in Seq(Cell)
  BY <1>1, <1>8
<1>10. h \in Seq(Cell)
  BY <1>1, <1>9
<1>11. u = (IF secrets THEN h \o (<<x>> \o SourcePhases) ELSE h)
  BY <1>6, <1>10
<1>12. Phases(mode, secrets, carry) = u \o <<z>>
  BY <1>4
<1> HIDE DEF o, s, r, h, u
<1>13. /\ s = o \o Sweeps /\ h = r \o <<g>>
  BY <1>3 DEF s, h
<1> QED BY <1>5, <1>7, <1>9, <1>11, <1>12, <1>13

LEMMA ChainPhases ==
  ASSUME NEW ph, Chain(ph, "start", "done")
  PROVE  ph \in PhaseLists /\ PhasesOK(ph) /\ ph # <<>> /\ Head(ph) = ph[1] /\ ph[1][1] = "start" /\ 1 \in DOMAIN ph
BY EmptySeq DEF Chain, PhaseLists, PhasesOK

LEMMA StartedIs ==
  \A mode \in {"merge", "replace"} : \A data, before :
    [mode |-> mode, data |-> data, imported |-> {}, settingsFailed |-> FALSE, clean |-> TRUE, stored |-> <<>>,
     before |-> before] \in
      [mode : {"none", "merge", "replace"}, data : {data}, imported : SUBSET AllIds,
       settingsFailed : BOOLEAN, clean : BOOLEAN, stored : CallLists, before : {before}]
BY DEF CallLists

LEMMA ImportStep ==
  ASSUME RecordInv, Import
  PROVE  RecordInv'
<1>1. /\ Free /\ UNCHANGED <<recs, keys, forms, file, abandoned, stale>>
      /\ spent' = [spent EXCEPT !.commands = @ + 1]
  BY DEF Import, AtRest, Occupied
<1>2. PICK mode \in {"merge", "replace"}, carry \in BOOLEAN :
        /\ task' = [op |-> "import", calls |-> <<>>, undo |-> <<>>, phase |-> Phases(mode, Data.kind = "backup", carry)]
        /\ transfer' = [NoTransfer EXCEPT !.mode = mode, !.data = file, !.before = [recs |-> recs, keys |-> keys]]
  BY DEF Import
<1> DEFINE ph == Phases(mode, Data.kind = "backup", carry)
<1>3. Chain(ph, "start", "done") /\ (mode = "replace" => Wiping(ph))
  BY <1>2, PhasesAre, ChainedAll
<1> HIDE DEF ph
<1>4. ph \in PhaseLists /\ PhasesOK(ph) /\ ph # <<>> /\ Head(ph) = ph[1] /\ ph[1][1] = "start" /\ 1 \in DOMAIN ph
  BY <1>3, ChainPhases
<1>5. task' = [op |-> "import", calls |-> <<>>, undo |-> <<>>, phase |-> ph]
  BY <1>2 DEF ph
<1>6. /\ task'.op = "import" /\ task'.calls = <<>> /\ task'.undo = <<>> /\ task'.phase = ph /\ task' \in Tasks
  BY <1>4, <1>5 DEF Tasks, Ops, CallLists
<1>7. /\ transfer'.mode = mode /\ transfer'.data = file /\ transfer'.imported = {} /\ transfer'.stored = <<>>
      /\ transfer'.before.recs = recs /\ transfer' \in Transfers'
  <2> DEFINE was == [recs |-> recs, keys |-> keys]
  <2>1. was.recs = recs
    OBVIOUS
  <2>2. transfer' = [NoTransfer EXCEPT !.mode = mode, !.data = file, !.before = was]
    BY <1>2
  <2> HIDE DEF was
  <2>3. transfer' = [mode |-> mode, data |-> file, imported |-> {}, settingsFailed |-> FALSE, clean |-> TRUE,
                     stored |-> <<>>, before |-> was]
    BY <2>2 DEF NoTransfer
  <2>4. <<>> \in CallLists
    BY DEF CallLists
  <2>5. /\ transfer'.mode = mode /\ transfer'.data = file /\ transfer'.imported = {} /\ transfer'.stored = <<>>
        /\ transfer'.before = was
    BY <2>3
  <2>6. transfer' \in [mode : {"none", "merge", "replace"}, data : {file}, imported : SUBSET AllIds,
                      settingsFailed : BOOLEAN, clean : BOOLEAN, stored : CallLists, before : {was}]
    <3>1. mode \in {"merge", "replace"}
      BY <1>2
    <3>2. [mode |-> mode, data |-> file, imported |-> {}, settingsFailed |-> FALSE, clean |-> TRUE, stored |-> <<>>,
           before |-> was] \in
            [mode : {"none", "merge", "replace"}, data : {file}, imported : SUBSET AllIds,
             settingsFailed : BOOLEAN, clean : BOOLEAN, stored : CallLists, before : {was}]
      BY <3>1, StartedIs, Zenon
    <3> QED BY <2>3, <3>2, Zenon
  <2>7. transfer' \in Transfers'
    BY <2>5, <2>6 DEF Transfers
  <2> QED BY <2>1, <2>5, <2>7
<1>8. spent' \in Spending /\ spent.born \subseteq spent'.born /\ FormsOK'
  BY <1>1, RecordFacts, SpentIs, FormsKept
<1>9. FileTyped(file) /\ Tidy(recs, keys, abandoned) /\ FileBound(file, abandoned)
  BY <1>1, RecordFacts, WhenFree
<1>10. TypeInv'
  BY <1>1, <1>4, <1>6, <1>8, <1>7, <1>9 DEF RecordInv, TypeInv, RecTypes, TransferTyped, FileTyped
<1>11. Phase' = "start"
  BY <1>4, <1>6 DEF Phase
<1>12. DOMAIN <<>> = {}
  BY EmptySeq
<1>13. ImportOK'
  BY <1>12, <1>7, <1>3, <1>2, <1>1, <1>6, <1>9, <1>11 DEF PhaseCallsOK, Brought, Early, SourcesOK, Wiping, ImportOK,
     FileBound
<1>14. ListInv'
  BY <1>9, NothingLeft, NoUndo, <1>1, <1>6, <1>13 DEF Ops, ListInv, FileBound
<1>15. LinkInv'
  BY <1>6, <1>12, <1>11 DEF UndoLinks, SweepOK, LinkInv, Early
<1> QED BY <1>10, <1>14, <1>15 DEF RecordInv

------------------------------------------------------------------------------
(* Every step *)

LEMMA CommandStep ==
  ASSUME RecordInv, CommandNext, UNCHANGED transfer
  PROVE  RecordInv'
<1>1. CASE Opens
  BY <1>1, OpensStep
<1>2. CASE RemoveFolder
  BY <1>2, FolderStep
<1>3. ASSUME NEW k \in 1..2,
              \/ SaveServerForm(k) \/ SaveNewServer(k) \/ SaveTelnetForm(k) \/ RemoveServer(k) \/ DuplicateServer(k)
              \/ RenameServer(k) \/ DeployKey(k) \/ DropPassword(k) \/ PersistProxyPassword(k)
              \/ SaveProfile(k) \/ DeleteProfile(k) \/ LinkProfile(k)
              \/ SaveTemplate(k) \/ DeleteTemplate(k) \/ SaveTemplateRules(k) \/ ApplyTemplate(k)
              \/ SaveNewSource(k) \/ DismissDialog(k)
      PROVE  RecordInv'
  <2>1. CASE SaveServerForm(k) \/ SaveNewServer(k)
    BY <2>1, ServerStep
  <2>2. CASE SaveTelnetForm(k)
    BY <2>2, TelnetStep
  <2>3. CASE RemoveServer(k)
    BY <2>3, RemoveStep
  <2>4. CASE DuplicateServer(k)
    BY <2>4, DuplicateStep
  <2>5. CASE RenameServer(k)
    BY <2>5, RenameStep
  <2>6. CASE DeployKey(k)
    BY <2>6, DeployStep
  <2>7. CASE DropPassword(k)
    BY <2>7, DropStep
  <2>8. CASE PersistProxyPassword(k)
    BY <2>8, PersistStep
  <2>9. CASE SaveProfile(k)
    BY <2>9, ProfileStep
  <2>10. CASE DeleteProfile(k)
    BY <2>10, DeleteProfileStep
  <2>11. CASE LinkProfile(k)
    BY <2>11, LinkStep
  <2>12. CASE SaveTemplate(k)
    BY <2>12, TemplateStep
  <2>13. CASE DeleteTemplate(k)
    BY <2>13, DeleteTemplateStep
  <2>14. CASE SaveTemplateRules(k)
    BY <2>14, RulesStep
  <2>15. CASE ApplyTemplate(k)
    BY <2>15, ApplyStep
  <2>16. CASE SaveNewSource(k)
    BY <2>16, SourceStep
  <2>17. CASE DismissDialog(k)
    BY <2>17, DismissStep
  <2> QED BY <1>3, <2>1, <2>2, <2>3, <2>4, <2>5, <2>6, <2>7, <2>8, <2>9, <2>10, <2>11, <2>12, <2>13, <2>14, <2>15,
             <2>16, <2>17
<1> QED BY <1>1, <1>2, <1>3 DEF CommandNext, Opens

LEMMA TransferStep ==
  ASSUME RecordInv, TransferNext
  PROVE  RecordInv'
<1>1. CASE ExportBackup
  BY <1>1, BackupStep
<1>2. CASE ExportShare
  BY <1>2, ShareStep
<1>3. CASE ImportShare
  BY <1>3, ImportShareStep
<1>4. CASE ImportSessions
  BY <1>4, SessionsStep
<1>5. CASE Import
  BY <1>5, ImportStep
<1>6. CASE Advance
  BY <1>6, AdvanceStep
<1>7. CASE SettingsCall
  BY <1>7, SettingsCallStep
<1>8. CASE ImportStore \/ (Phase # "source" /\ StoreCall /\ UNCHANGED transfer)
  BY <1>8, StoreStep
<1>9. CASE ImportRejected
  BY <1>9, ImportRejectedStep
<1>10. CASE Reset
  BY <1>10, ResetStep
<1>11. CASE CommandNext /\ UNCHANGED transfer
  BY <1>11, CommandStep
<1>12. CASE PutCall /\ UNCHANGED transfer
  BY <1>12, PutStep
<1>13. CASE DelCall /\ UNCHANGED transfer
  BY <1>13, DelStep
<1>14. CASE RestoreCall /\ UNCHANGED transfer
  BY <1>14, RestoreStep
<1>15. CASE CallRejected /\ UNCHANGED transfer
  BY <1>15, RejectedStep
<1> QED BY <1>1, <1>2, <1>3, <1>4, <1>5, <1>6, <1>7, <1>8, <1>9, <1>10, <1>11, <1>12, <1>13, <1>14, <1>15
        DEF TransferNext

\* No step, or one that leaves all of this alone.
LEMMA NothingHappens ==
  ASSUME RecordInv, UNCHANGED <<recordVars, transfer>>
  PROVE  RecordInv'
BY RecordFacts, FormsKept, Beside DEF recordVars, RecordInv, ListInv

------------------------------------------------------------------------------
(* The invariant holds at first, and says what the run checks *)

\* NoTransfer is a transfer, of no import.
LEMMA NoTransferIs ==
  NoTransfer \in [mode : {"none", "merge", "replace"}, data : {NoTransfer.data}, imported : SUBSET AllIds,
                  settingsFailed : BOOLEAN, clean : BOOLEAN, stored : CallLists, before : {NoTransfer.before}]
BY DEF CallLists, NoTransfer

LEMMA RecordsStart ==
  ASSUME TransferInit
  PROVE  RecordInv
<1>1. PICK p \in RecPopulations :
        /\ recs = p.recs /\ keys = p.keys /\ file = p.file
        /\ spent = [commands |-> 0, rejections |-> 0, revs |-> 1,
                    born |-> {i \in AllIds : p.recs[i].rev # 0 \/ p.file.recs[i].rev # 0}]
  BY DEF TransferInit, RecordInit
<1>2. /\ task = IdleTask /\ forms = [k \in 1..2 |-> NoForm] /\ abandoned = {} /\ stale = {} /\ transfer = NoTransfer
  BY DEF TransferInit, RecordInit
<1>3. /\ recs \in RecordMaps /\ file.recs \in RecordMaps /\ file.bad \subseteq AllIds
      /\ keys \in KeyMaps /\ file.keys \in KeyMaps
      /\ \A i \in AllIds :
           /\ recs[i].rev = 0 => recs[i] = Gone
           /\ recs[i].rev # 0 => Resolved(recs, i)
           /\ (recs[i].rev = 0 \/ i \in Templates) => \A f \in Fields : keys[i][f] = NoKey
      /\ \A s \in Servers :
           /\ keys[s].proxy \in {NoKey, recs[s].proxy}
           /\ file.keys[s].proxy \in {NoKey, file.recs[s].proxy}
  BY <1>1, RecPopulationAssumption DEF KeyMaps
<1>4. spent \in Spending /\ \A i \in AllIds : Dead(recs, i) \/ i \in spent.born
  BY <1>1 DEF Spending, Dead
<1>5. /\ task.op = "idle" /\ task.calls = <<>> /\ task.undo = <<>> /\ task.phase = <<>> /\ task \in Tasks
  BY <1>2 DEF IdleTask, Tasks, Ops, CallLists, PhaseLists
<1>6. RecTypes
  BY <1>3, <1>2, <1>4, <1>5 DEF Whole, Vault, Dead, AllIds, RecTypes
<1>7. FormsOK
  BY <1>2 DEF FormsOK, FormOK, NoForm
<1>8. FileTyped(file)
  BY <1>3 DEF FileTyped
<1>9. TransferTyped
  BY <1>2, <1>5, NoTransferIs DEF TransferTyped, Transfers
<1>10. Tidy(recs, keys, abandoned) /\ FileBound(file, abandoned)
  BY <1>3 DEF Tidy, FileBound, Dead
<1>11. LinksKept(recs, stale)
  BY <1>3 DEF LinksKept, Resolved, Dead
<1>12. ListInv
  BY <1>5, <1>10, NothingLeft, NoUndo DEF Ops, ImportOK, ListInv
<1>13. LinkInv
  BY <1>5, <1>11, LinksAtEnd, NoUndo DEF Ops, LinkInv
<1> QED BY <1>6, <1>7, <1>8, <1>9, <1>12, <1>13 DEF RecordInv, TypeInv

LEMMA RecordInvIs ==
  ASSUME RecordInv
  PROVE  RecordsSound
<1>1. Whole(recs) /\ keys \in KeyMaps /\ abandoned \in SUBSET AllIds /\ stale \in SUBSET AllIds
  BY RecordFacts
<1>2. RecordTypeOK
  BY <1>1 DEF RecordTypeOK, Whole, RecordMaps, KeyMaps
<1>3. ASSUME Free
      PROVE  Tidy(recs, keys, abandoned) /\ LinksKept(recs, stale)
  BY <1>3, WhenFree
<1>4. FreshLinksResolve
  BY <1>2, <1>3 DEF FreshLinksResolve, LinksKept, LiveOf, Resolved, Dead
<1>5. VaultClean
  BY <1>3 DEF VaultClean, Tidy, Dead
<1>6. ProxySecretBound
  BY EmptySeq DEF ProxySecretBound, LiveOf, Dead, RecordInv, ListInv, ListOK, BoundOK, Forms, SettledAfter, PutOf,
     DelOf
<1> QED BY <1>4, <1>5, <1>6 DEF RecordsSound, VaultSound

\* Whatever is deleted, imported, undone or rejected half-way, by any number of
\* commands with any dialogs open: when the lock is free every link leads to a
\* record, no secret outlives its record, and the password of a proxy is that
\* proxy's even between the calls of a command (nexusCore.ts, configCommands.ts).
THEOREM RecordsAreSound == TransferSpec => []RecordsSound
<1>1. TransferInit => RecordInv
  BY RecordsStart
<1>2. RecordInv /\ [TransferNext]_<<recordVars, transfer>> => RecordInv'
  BY TransferStep, NothingHappens
<1>3. RecordInv => RecordsSound
  BY RecordInvIs
<1> QED BY <1>1, <1>2, <1>3, PTL DEF TransferSpec

==============================================================================
