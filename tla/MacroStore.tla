------------------------------ MODULE MacroStore ------------------------------
(* The macros of one window: VscodeMacroStore with its two media, globalState  *)
(* ("disk") and SecretStorage ("vault"), the commands that change macros, and  *)
(* the references those commands keep over a dialog.  Calls to the media can   *)
(* fail, the keyring can fail to answer, and the window can die between any    *)
(* two of them.  Names, triggers, shortcuts and folders are not told apart.    *)
EXTENDS Naturals, Sequences, FiniteSets

CONSTANTS InitialDisks,  \* what an earlier release may have left in globalState
          MaxSouls,      \* bound: macros ever made
          MaxIds,        \* bound: ids ever used
          MaxEdits,      \* bound: commands
          MaxOutages     \* bound: failed calls, unanswered reads and crashes

ASSUME MacroAssumption == {MaxSouls, MaxIds, MaxEdits, MaxOutages} \subseteq Nat

VARIABLES disk,      \* MACROS_KEY
          vault,     \* SecretStorage: the value under each id
          legacy,    \* the settings still hold the macro of an old release
          phase,     \* of the window: "down", "starting", "up"
          mem,       \* resolved and unresolvedSecretIds
          tail,      \* the calls waiting in runExclusive()
          job,       \* the call it is executing
          prompt,    \* the command that waits for its dialog (soul, sole: history)
          dropped,   \* history: macros the user removed or replaced
          excused,   \* history: macros that shared an entry of the vault from the start, or
                     \* an id with one the user gave a text, whose new text was half saved,
                     \* or saved over by a list read before, or that were absorbed twice
          used       \* what the bounds count
macroVars == <<disk, vault, legacy, phase, mem, tail, job, prompt, dropped, excused, used>>

Ids == 1..MaxIds
Nil == <<0>>     \* no entry in the vault
Blank == <<>>    \* the empty text
Texts == {Nil, Blank} \cup ((1..MaxSouls) \X (1..2))

\* A macro; soul tells macros apart whatever their ids, had that it ever had a text.
Macro(soul, id, secret, text) ==
  [soul |-> soul, id |-> id, secret |-> secret, text |-> text, had |-> text # Blank]

LegacySoul == MaxSouls

\* What a list is made of; an id is 0 until write() has dealt one.
MacroRecords ==
  [soul : 1..MaxSouls, id : 0..MaxIds, secret : BOOLEAN, text : Texts \ {Nil}, had : BOOLEAN]

\* An earlier release left macros with ids, some of them perhaps the same.
ASSUME DiskAssumption ==
  \A d \in InitialDisks :
    /\ d \in Seq(MacroRecords) /\ Len(d) < LegacySoul /\ Len(d) <= MaxIds
    /\ \A i, j \in DOMAIN d : /\ {d[i].soul, d[i].id} \subseteq 1..Len(d)
                              /\ d[i].soul = d[j].soul => i = j

\* stores: the positions in list of the texts still to be stored.
NoJob == [kind |-> "none", stores |-> {}, disk |-> <<>>, committed |-> FALSE,
          deletes |-> {}, list |-> <<>>]
NoPrompt == [op |-> "none", soul |-> 0, sole |-> FALSE,
             ref |-> [id |-> 0, index |-> 0, when |-> "absent"]]

Members(list) == {list[i] : i \in DOMAIN list}
IdsOf(list) == {m.id : m \in Members(list)} \ {0}
SoulsOf(list) == {m.soul : m \in Members(list)}

\* The macros of a list that are not yet what getMacros() returns.
Unseen(list) == {m.soul : m \in Members(list) \ Members(mem.list)}

\* Macros that have to share one entry of the vault.
Sharing(list) ==
  {m \in Members(list) : m.secret /\ \E n \in Members(list) : n # m /\ n.secret /\ n.id = m.id}

MacroInit ==
  /\ disk \in InitialDisks
  /\ vault = [x \in Ids |-> IF \E m \in Members(disk) : m.secret /\ m.id = x
                            THEN <<(CHOOSE m \in Members(disk) : m.secret /\ m.id = x).soul, 1>>
                            ELSE Nil]
  /\ legacy \in BOOLEAN
  /\ phase = "down"
  /\ mem = [list |-> <<>>, unresolved |-> {}]
  /\ tail = <<>> /\ job = NoJob /\ prompt = NoPrompt
  /\ dropped = {} /\ excused = {m.soul : m \in Sharing(disk)}
  /\ used = [souls |-> Len(disk), ids |-> Len(disk), edits |-> 0, outages |-> 0,
             legacy |-> legacy]

Outage == used.outages < MaxOutages
OneOutage == [used EXCEPT !.outages = @ + 1]

------------------------------------------------------------------------------
(* assignMacroIds(): a record that cannot carry its secret takes its id before *)
(* any other, then the first holder of an id keeps it, and the rest are new.   *)

\* Mutant: the read failure is not considered when ids are dealt out.
CannotCarryNothing(m) == FALSE

\* cannotCarrySecret()
CannotCarrySecret(m) == m.secret /\ m.text = Blank /\ m.id \in mem.unresolved

Pinned(list, i) ==
  CannotCarrySecret(list[i]) /\ \A j \in 1..(i - 1) : list[j].id = list[i].id => ~CannotCarrySecret(list[j])

Keeps(list, i) ==
  \/ Pinned(list, i)
  \/ /\ list[i].id # 0
     /\ \A j \in DOMAIN list : list[j].id = list[i].id => (j >= i /\ ~CannotCarrySecret(list[j]))

Fresh(list) == {i \in DOMAIN list : ~Keeps(list, i)}

AssignMacroIds(list) ==
  [i \in DOMAIN list |->
    IF Keeps(list, i) THEN list[i]
    ELSE [list[i] EXCEPT !.id = used.ids + Cardinality({j \in Fresh(list) : j <= i})]]

------------------------------------------------------------------------------
(* write(), clearAllExclusive() and persistLegacyMigration(), call by call *)

\* readFailed: the text is not known, whatever id the macro goes by now.
Silent(list, i) == list[i].text = Blank /\ list[i].id \in mem.unresolved

ToDisk(m) == IF m.secret THEN [m EXCEPT !.text = Blank] ELSE m

\* What write() is going to do with a list.
WriteOf(list) ==
  LET new == AssignMacroIds(list) IN
  [kind      |-> "write",
   stores    |-> {i \in DOMAIN new : new[i].secret /\ ~Silent(list, i)},
   disk      |-> [i \in DOMAIN new |-> ToDisk(new[i])],
   committed |-> FALSE,
   deletes   |-> {m.id : m \in {m \in Members(new) : ~m.secret}} \cup (IdsOf(mem.list) \ IdsOf(new)),
   list      |-> new]

ClearOf == [NoJob EXCEPT !.kind = "clear", !.list = mem.list]

\* runExclusive(): the next call begins when the one before has ended.
StartJob ==
  /\ phase = "up" /\ job = NoJob /\ tail # <<>>
  /\ LET call == Head(tail) IN
     /\ used.ids + Cardinality(Fresh(call.list)) <= MaxIds
     /\ job' = IF call.kind = "clear" THEN ClearOf ELSE WriteOf(call.list)
     /\ used' = [used EXCEPT !.ids = @ + Cardinality(Fresh(call.list))]
  /\ tail' = Tail(tail)
  /\ UNCHANGED <<disk, vault, legacy, phase, mem, prompt, dropped, excused>>

\* secrets.store(), in the order of the list
StoreStep ==
  /\ \E i \in job.stores :
       /\ \A j \in job.stores : i <= j
       /\ vault' = [vault EXCEPT ![job.list[i].id] = job.list[i].text]
       /\ mem' = [mem EXCEPT !.unresolved = @ \ {job.list[i].id}]
       /\ job' = [job EXCEPT !.stores = @ \ {i}]
  /\ UNCHANGED <<disk, legacy, phase, tail, prompt, dropped, used, excused>>

Committing == job # NoJob /\ job.stores = {} /\ ~job.committed

\* globalState.update(); clearAllExclusive() forgets what it holds with it.
CommitStep ==
  /\ Committing
  /\ disk' = job.disk
  /\ dropped' = dropped \cup ((SoulsOf(mem.list) \cup SoulsOf(disk)) \ SoulsOf(job.disk))
  /\ mem' = IF job.kind = "clear" THEN [list |-> <<>>, unresolved |-> {}] ELSE mem
  /\ job' = [job EXCEPT !.committed = TRUE]
  /\ UNCHANGED <<vault, legacy, phase, tail, prompt, used, excused>>

\* Mutant: the reset deletes the entries of the macros it knows, no others.
NoEntries == {}

\* readVaultSecretIds(), when SecretStorage answers.
VaultEntries == {x \in Ids : vault[x] # Nil}

\* The reset asks for all keys, and makes do with the ids it knows.
EnumerateKeys ==
  /\ job.kind = "clear" /\ job.committed
  /\ \/ job' = [job EXCEPT !.kind = "sweep", !.deletes = IdsOf(job.list) \cup VaultEntries]
        /\ UNCHANGED used
     \/ Outage /\ used' = OneOutage
        /\ job' = [job EXCEPT !.kind = "known", !.deletes = IdsOf(job.list)]
  /\ UNCHANGED <<disk, vault, legacy, phase, mem, tail, prompt, dropped, excused>>

Deleting == job.committed /\ job.kind \in {"write", "sweep", "known"}

\* secrets.delete(), in whatever order
DeleteStep ==
  /\ Deleting
  /\ \E x \in job.deletes :
       /\ vault' = [vault EXCEPT ![x] = Nil]
       /\ mem' = [mem EXCEPT !.unresolved = @ \ {x}]
       /\ job' = [job EXCEPT !.deletes = @ \ {x}]
  /\ UNCHANGED <<disk, legacy, phase, tail, prompt, dropped, used, excused>>

FinishJob ==
  /\ Deleting /\ job.deletes = {}
  /\ mem' = IF job.kind = "write" THEN [mem EXCEPT !.list = job.list] ELSE mem
  /\ job' = NoJob
  /\ UNCHANGED <<disk, vault, legacy, phase, tail, prompt, dropped, used, excused>>

\* A call to one of the media is rejected: the operation ends there, and the
\* next in line begins.
CallFails ==
  /\ phase = "up" /\ Outage
  /\ job.stores # {} \/ Committing \/ (Deleting /\ job.deletes # {})
  /\ job' = NoJob
  /\ used' = OneOutage
  /\ excused' = excused \cup Unseen(job.list)
  /\ UNCHANGED <<disk, vault, legacy, phase, mem, tail, prompt, dropped>>

------------------------------------------------------------------------------
(* initialize() *)

Absorbed(id) == Append(disk, Macro(LegacySoul, id, TRUE, <<LegacySoul, 1>>))

\* keyOfLegacy(): a macro that an earlier, interrupted start has absorbed.
Recognised == \E m \in Members(disk) : m.soul = LegacySoul /\ m.secret

\* absorbLegacySettingsIfPresent()
Start ==
  /\ phase = "down" /\ phase' = "starting"
  /\ \/ ~legacy /\ UNCHANGED <<job, used, excused>>
     \/ /\ legacy /\ Recognised
        /\ job' = [NoJob EXCEPT !.kind = "absorb", !.committed = TRUE]
        /\ UNCHANGED <<used, excused>>
     \/ /\ legacy /\ ~Recognised
        /\ used.ids < MaxIds
        /\ LET list == Absorbed(used.ids + 1) IN
           job' = [NoJob EXCEPT !.kind = "absorb", !.stores = {Len(list)}, !.list = list,
                                !.disk = [i \in DOMAIN list |-> ToDisk(list[i])]]
        /\ used' = [used EXCEPT !.ids = @ + 1]
        /\ excused' = excused \cup (SoulsOf(disk) \cap {LegacySoul})
  /\ UNCHANGED <<disk, vault, legacy, mem, tail, prompt, dropped>>

\* Mutant: the settings are cleared whether or not the macros are stored.
ClearSettingsEarly ==
  /\ job.kind = "absorb"
  /\ legacy /\ legacy' = FALSE
  /\ job' = IF job.committed THEN NoJob ELSE job
  /\ UNCHANGED <<disk, vault, phase, mem, tail, prompt, dropped, used, excused>>

\* The settings are cleared once the macros are stored; a failure is ignored.
ClearSettings ==
  /\ job.kind = "absorb" /\ job.committed
  /\ \/ legacy' = FALSE /\ UNCHANGED used
     \/ Outage /\ used' = OneOutage /\ UNCHANGED legacy
  /\ job' = NoJob
  /\ UNCHANGED <<disk, vault, phase, mem, tail, prompt, dropped, excused>>

\* reloadFromState(): a secret that the keyring does not answer for is read as
\* empty and remembered.
Load ==
  /\ phase = "starting" /\ job = NoJob /\ phase' = "up"
  /\ LET secrets == {m.id : m \in {m \in Members(disk) : m.secret}} IN
     \E deaf \in {{}} \cup (IF Outage THEN {secrets} ELSE {}) :
       LET silent == deaf \cup {x \in secrets : vault[x] = Nil} IN
       /\ mem' = [list |-> [i \in DOMAIN disk |->
                     IF ~disk[i].secret THEN disk[i]
                     ELSE [disk[i] EXCEPT !.text = IF disk[i].id \in silent THEN Blank ELSE vault[disk[i].id]]],
                  unresolved |-> silent]
       /\ used' = IF deaf = {} THEN used ELSE OneOutage
  /\ UNCHANGED <<disk, vault, legacy, tail, job, prompt, dropped, excused>>

Dies ==
  /\ phase # "down" /\ Outage
  /\ phase' = "down"
  /\ mem' = [list |-> <<>>, unresolved |-> {}]
  /\ tail' = <<>> /\ job' = NoJob /\ prompt' = NoPrompt
  /\ used' = OneOutage
  /\ UNCHANGED <<disk, vault, legacy, dropped, excused>>

------------------------------------------------------------------------------
(* References: captureMacroRef() and resolveMacroTarget() *)

Holders(list, id) == {i \in DOMAIN list : list[i].id = id}

IdProvenance(list, id) ==
  CASE Holders(list, id) = {} -> "absent"
    [] Cardinality(Holders(list, id)) = 1 -> "unique"
    [] OTHER -> "ambiguous"

\* index is 0 for the editor, whose form names no position.
CaptureMacroRef(list, id, index) == [id |-> id, index |-> index, when |-> IdProvenance(list, id)]

\* Mutant: the position is believed without the id.
ResolveByPosition(list, ref) ==
  IF ref.when = "absent" THEN 0
  ELSE IF ref.index \in DOMAIN list THEN ref.index
  ELSE IF ref.when = "ambiguous" \/ Cardinality(Holders(list, ref.id)) # 1 THEN 0
  ELSE CHOOSE i \in Holders(list, ref.id) : TRUE

\* The position of the macro, or 0 when it is missing or ambiguous.
ResolveMacroTarget(list, ref) ==
  IF ref.when = "absent" THEN 0
  ELSE IF ref.index \in Holders(list, ref.id) THEN ref.index
  ELSE IF ref.when = "ambiguous" \/ Cardinality(Holders(list, ref.id)) # 1 THEN 0
  ELSE CHOOSE i \in Holders(list, ref.id) : TRUE

------------------------------------------------------------------------------
(* The commands *)

Edits == phase = "up" /\ used.edits < MaxEdits
OneEdit == [used EXCEPT !.edits = @ + 1]

Overtaken == Unseen(job.list) \cup UNION {Unseen(tail[i].list) : i \in DOMAIN tail}

Save(kind, list, twins) ==
  /\ tail' = Append(tail, [kind |-> kind, list |-> list])
  /\ excused' = excused \cup Overtaken \cup twins

\* The macro has its id for itself, in the list shown and in those still to be saved.
Sole(m) ==
  \A list \in {mem.list, job.list} \cup {tail[i].list : i \in DOMAIN tail} :
    \A k \in DOMAIN list : list[k].id = m.id => list[k].soul = m.soul

Prompt(op, i, index) ==
  [op |-> op, soul |-> mem.list[i].soul, sole |-> Sole(mem.list[i]),
   ref |-> CaptureMacroRef(mem.list, mem.list[i].id, index)]

\* A command names a macro, and asks the user.
PointAtRow ==
  /\ Edits /\ prompt = NoPrompt
  /\ \E op \in {"remove", "paste"}, i \in DOMAIN mem.list : prompt' = Prompt(op, i, i)
  /\ used' = OneEdit
  /\ UNCHANGED <<disk, vault, legacy, phase, mem, tail, job, dropped, excused>>

\* render(): the form of the editor names its macro by the id alone.
OpenForm ==
  /\ Edits /\ prompt = NoPrompt
  /\ \E i \in DOMAIN mem.list : prompt' = Prompt("form", i, 0)
  /\ used' = OneEdit
  /\ UNCHANGED <<disk, vault, legacy, phase, mem, tail, job, dropped, excused>>

RemoveAt(list, k) == SubSeq(list, 1, k - 1) \o SubSeq(list, k + 1, Len(list))

\* mutateMacro(): the macro is looked up in the list of now, and what Mutate
\* makes of that list is saved; nothing is when it is missing or ambiguous.
Target == ResolveMacroTarget(mem.list, prompt.ref)
Closed == prompt' = NoPrompt /\ UNCHANGED <<disk, vault, legacy, phase, mem, job, dropped, used>>
NoTarget == Target = 0 /\ UNCHANGED <<tail, excused>>   \* missing or ambiguous

Removed == Target # 0 /\ Save("save", RemoveAt(mem.list, Target), {})

\* The macro gets a text; its twins no longer share an entry of the vault with it.
Typed(secret) ==
  /\ Target # 0
  /\ Save("save",
          [mem.list EXCEPT ![Target].text = <<mem.list[Target].soul, 2>>, ![Target].secret = secret,
                           ![Target].had = TRUE],
          {mem.list[i].soul : i \in Holders(mem.list, mem.list[Target].id) \ {Target}})

MacroRemove == prompt.op = "remove" /\ Closed /\ (Removed \/ NoTarget)

\* A macro that is no longer secret is skipped: its text would go to the disk.
PasteSecret ==
  /\ prompt.op = "paste" /\ Closed
  /\ \/ Target # 0 /\ mem.list[Target].secret /\ Typed(TRUE)
     \/ Target # 0 /\ ~mem.list[Target].secret /\ UNCHANGED <<tail, excused>>
     \/ NoTarget

EditorSave ==
  /\ prompt.op = "form" /\ Closed
  /\ (\E secret \in BOOLEAN : Typed(secret)) \/ NoTarget

EditorDelete == prompt.op = "form" /\ Closed /\ (Removed \/ NoTarget)

Dismiss ==
  /\ prompt # NoPrompt /\ prompt' = NoPrompt
  /\ UNCHANGED <<disk, vault, legacy, phase, mem, tail, job, dropped, used, excused>>

\* A macro from a template: a secret without a value.
AddFromTemplate ==
  /\ Edits /\ used.souls + 1 < LegacySoul
  /\ Save("save", Append(mem.list, Macro(used.souls + 1, 0, TRUE, Blank)), {})
  /\ used' = [OneEdit EXCEPT !.souls = @ + 1]
  /\ UNCHANGED <<disk, vault, legacy, phase, mem, job, prompt, dropped>>

\* Move Up and Move Down
MoveMacro ==
  /\ Edits
  /\ \E i \in 2..Len(mem.list) :
       Save("save", [mem.list EXCEPT ![i] = mem.list[i - 1], ![i - 1] = mem.list[i]], {})
  /\ used' = OneEdit
  /\ UNCHANGED <<disk, vault, legacy, phase, mem, job, prompt, dropped>>

\* A move to a folder, and what becomes of a folder's macros: the list is saved
\* with nothing changed that is told apart here.
MoveToFolder ==
  /\ Edits /\ mem.list # <<>> /\ Save("save", mem.list, {})
  /\ used' = OneEdit
  /\ UNCHANGED <<disk, vault, legacy, phase, mem, job, prompt, dropped>>

\* replaceAll(): the list of a file, its ids removed.
ReplaceAll ==
  /\ Edits /\ used.souls + 1 < LegacySoul
  /\ Save("save", <<Macro(used.souls + 1, 0, TRUE, <<used.souls + 1, 1>>)>>, {})
  /\ used' = [OneEdit EXCEPT !.souls = @ + 1]
  /\ UNCHANGED <<disk, vault, legacy, phase, mem, job, prompt, dropped>>

ClearAll ==
  /\ Edits
  /\ Save("clear", <<>>, {})
  /\ used' = OneEdit
  /\ UNCHANGED <<disk, vault, legacy, phase, mem, job, prompt, dropped>>

MacroNext ==
  \/ StartJob \/ StoreStep \/ CommitStep \/ EnumerateKeys \/ DeleteStep \/ FinishJob \/ CallFails
  \/ Start \/ ClearSettings \/ Load \/ Dies
  \/ PointAtRow \/ OpenForm \/ MacroRemove \/ PasteSecret \/ EditorSave \/ EditorDelete \/ Dismiss
  \/ AddFromTemplate \/ MoveMacro \/ MoveToFolder \/ ReplaceAll \/ ClearAll

MacroSpec == MacroInit /\ [][MacroNext]_macroVars

------------------------------------------------------------------------------

MacroTypeOK ==
  /\ \A m \in Members(disk) \cup Members(mem.list) :
       m.soul \in 1..MaxSouls /\ m.id \in Ids /\ m.text \in Texts \ {Nil}
  /\ vault \in [Ids -> Texts]
  /\ mem.unresolved \subseteq Ids
  /\ dropped \cup excused \subseteq 1..MaxSouls

\* Whatever fails, and wherever the window dies, a secret macro on disk has its
\* own value in the vault: not nothing, not the empty text for a value that was
\* there, and not the value of another macro that shared its id.
SecretsSurvive ==
  \A m \in Members(disk) :
    (m.secret /\ m.soul \notin dropped \cup excused) =>
      LET v == vault[m.id] IN v # Nil /\ (m.had => v # Blank /\ v[1] = m.soul)

\* save() uses unresolvedSecretIds "to refuse to write that empty string back over
\* whatever is really in the vault" (vscodeMacroStore.ts:45-46).
EmptyNeverStored ==
  \A m \in Members(disk) : (m.secret /\ m.had /\ m.soul \notin dropped) => vault[m.id] # Blank

\* A macro of the old settings is not lost on its way into the store.
LegacyKept == legacy \/ LegacySoul \in dropped \/ LegacySoul \in SoulsOf(disk) \/ ~used.legacy

\* clearAll() leaves no value in SecretStorage, whoever put it there, provided
\* SecretStorage lists its keys and accepts the deletions.
ResetSweeps == (job.kind = "sweep" /\ job.deletes = {}) => \A x \in Ids : vault[x] = Nil

\* Secrets outlive outages, crashes and a move to new ids, and nothing outlives a reset.
SecretsKept == MacroTypeOK /\ SecretsSurvive /\ LegacyKept /\ ResetSweeps

\* A command that waits for its dialog changes the macro that was pointed at or
\* none, whatever was saved meanwhile, when that macro had its id for itself:
\* among the macros shown, and in the lists that were waiting to be saved.
RightMacro ==
  LET k == ResolveMacroTarget(mem.list, prompt.ref) IN
  (prompt # NoPrompt /\ prompt.sole /\ k # 0) => mem.list[k].soul = prompt.soul

\* No secret is lost, and no macro is changed or pasted in place of another.
MacrosSound == SecretsKept /\ RightMacro

\* "A wrong index is never acted on" (macroMutation.ts:85).
WrongIndexNeverActedOn ==
  LET k == ResolveMacroTarget(mem.list, prompt.ref) IN
  (prompt # NoPrompt /\ k # 0 /\ prompt.soul \in SoulsOf(mem.list)) => mem.list[k].soul = prompt.soul
==============================================================================
