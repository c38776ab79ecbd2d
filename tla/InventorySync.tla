---------------------------- MODULE InventorySync ----------------------------
(***************************************************************************)
(* commands/inventoryCommands.ts: Sync Now, Edit Source, Remove Source and *)
(* Refresh Lab Status on one inventory source, with the in-flight claim,   *)
(* the status generations, the source's revision, its mutation epoch and   *)
(* configMutationLock between them; and what ignores the claim: an import, *)
(* a reset, the removal of a server.                                       *)
(*                                                                         *)
(* An observation is the moment the provider produced an answer; it is     *)
(* numbered by the clock.  A device is in the provider's tree or not, and  *)
(* a server's console port is the observation it was read from.  A locked  *)
(* section that nothing outside the lock can look into is one step.        *)
(***************************************************************************)
EXTENDS Naturals, FiniteSets

CONSTANTS
  Devices,
  Refreshers,     \* invocations of refreshStatus: the poll's tick, the manual command
  MaxClock,       \* bound on the observations
  MaxRev          \* bound on the revisions of the source's record

ASSUME InvAssumption == MaxClock \in Nat /\ MaxRev \in Nat

VARIABLES
  world,    \* the devices at the provider
  clock,    \* the last observation
  src,      \* the source's record: [exists, rev, cfg, secret]
  vault,    \* the secret under the source's key, 0 for none
  srv,      \* the servers of the devices: "none", "owned" or "kept"
  portAt,   \* the observation of each owned server's port
  shown,    \* the status in the tree: [at, cfg], at = 0 for none
  epoch,    \* sourceMutationEpoch
  claim,    \* inFlightSourceIds
  lock,     \* the holder of configMutationLock across an await
  sync, edit, removing,
  ref, gen  \* the refreshers and statusRefreshGenerations

invVars == <<world, clock, src, vault, srv, portAt, shown, epoch, claim, lock, sync, edit, removing, ref, gen>>

Idle == [pc |-> "idle"]

InvInit ==
  /\ world \in SUBSET Devices /\ clock = 0
  /\ src = [exists |-> TRUE, rev |-> 0, cfg |-> 0, secret |-> 1]
  /\ vault = 1
  /\ srv \in [Devices -> {"none", "owned"}]
  /\ portAt = [d \in Devices |-> 0]
  /\ shown = [at |-> 0, cfg |-> 0]
  /\ epoch = 0 /\ claim = "free" /\ lock = "free"
  /\ sync = Idle /\ edit = Idle /\ removing = Idle
  /\ ref = [r \in Refreshers |-> Idle] /\ gen = 0

Owned == {d \in Devices : srv[d] = "owned"}
Same(rev) == src.exists /\ src.rev = rev            \* sourceConfigUnchanged()
NoStatus == [at |-> 0, cfg |-> src'.cfg]
Observe == clock < MaxClock /\ clock' = clock + 1

------------------------------------------------------------------------------
(* Outside the claim *)

WorldChanges(d) ==
  /\ world' = (world \ {d}) \cup ({d} \ world)
  /\ UNCHANGED <<clock, src, vault, srv, portAt, shown, epoch, claim, lock, sync, edit, removing, ref, gen>>

UserRemovesServer(d) ==
  /\ lock = "free" /\ srv[d] # "none"
  /\ srv' = [srv EXCEPT ![d] = "none"]
  /\ portAt' = [portAt EXCEPT ![d] = 0]
  /\ UNCHANGED <<world, clock, src, vault, shown, epoch, claim, lock, sync, edit, removing, ref, gen>>

\* A replacing import: the source's record and its servers come from the
\* backup, under the same ids; its secrets are deleted, its status dropped.
Import(S) ==
  /\ lock = "free" /\ src.rev < MaxRev
  /\ src' = [exists |-> TRUE, rev |-> src.rev + 1, cfg |-> src.cfg + 1, secret |-> 0]
  /\ vault' = 0
  /\ srv' = [d \in Devices |-> IF d \in S THEN "owned" ELSE "none"]
  /\ portAt' = [d \in Devices |-> 0]
  /\ shown' = NoStatus
  /\ UNCHANGED <<world, clock, epoch, claim, lock, sync, edit, removing, ref, gen>>

------------------------------------------------------------------------------
(* syncNow *)

Plan(S, tree) ==
  [deletes |-> {d \in Devices : S[d] = "owned" /\ d \notin tree},
   adds    |-> {d \in tree : S[d] = "none"}]

\* Mutant: the plan is not compared with the one on the screen.
NeverDrifted(a, b) == FALSE

\* planDetailDrift(): the deletions by id, the rest by what the preview says.
Drifted(a, b) == a.deletes # b.deletes \/ Cardinality(a.adds) # Cardinality(b.adds)

SyncStart ==
  /\ claim = "free" /\ src.exists /\ vault # 0
  /\ claim' = "sync"
  /\ sync' = [pc |-> "fetch", rev |-> src.rev, secret |-> vault]
  /\ UNCHANGED <<world, clock, src, vault, srv, portAt, shown, epoch, lock, edit, removing, ref, gen>>

SyncEnds ==
  /\ claim' = "free" /\ sync' = Idle
  /\ UNCHANGED <<world, src, vault, edit, removing, ref, gen>>

SyncResponse ==
  /\ sync.pc = "fetch" /\ Observe
  /\ sync' = [pc |-> "preview", rev |-> sync.rev, secret |-> sync.secret, at |-> clock', tree |-> world,
              plan |-> Plan(srv, world)]
  /\ UNCHANGED <<world, src, vault, srv, portAt, shown, epoch, claim, lock, edit, removing, ref, gen>>

\* The fetch failed, or the user dismissed the preview.
SyncGivesUp ==
  /\ sync.pc \in {"fetch", "preview"}
  /\ SyncEnds
  /\ UNCHANGED <<clock, srv, portAt, shown, epoch, lock>>

\* Apply was chosen: under the lock everything is read again.
SyncConfirmed ==
  LET now == Plan(srv, sync.tree) IN
  /\ sync.pc = "preview" /\ lock = "free"
  /\ \/ /\ ~Same(sync.rev) \/ (~Drifted(sync.plan, now) /\ vault # sync.secret)
        /\ SyncEnds /\ UNCHANGED lock
     \/ /\ Same(sync.rev) /\ Drifted(sync.plan, now)
        /\ sync' = [sync EXCEPT !.plan = now]
        /\ UNCHANGED <<world, src, vault, claim, lock, edit, removing, ref, gen>>
     \/ /\ Same(sync.rev) /\ vault = sync.secret /\ ~Drifted(sync.plan, now)
        /\ lock' = "sync"
        /\ sync' = [sync EXCEPT !.pc = "apply"]
        /\ UNCHANGED <<world, src, vault, claim, edit, removing, ref, gen>>
  /\ UNCHANGED <<clock, srv, portAt, shown, epoch>>

\* applyInventorySyncPlan() of the plan as it is now, the runtime of the
\* deleted servers torn down before it.
SyncCommits ==
  LET now == Plan(srv, sync.tree) IN
  /\ sync.pc = "apply"
  /\ srv' = [d \in Devices |-> IF d \in now.deletes THEN "none" ELSE IF d \in now.adds THEN "owned" ELSE srv[d]]
  /\ portAt' = [d \in Devices |-> IF srv'[d] = "owned" /\ d \in sync.tree THEN sync.at
                                  ELSE IF srv'[d] = "owned" THEN portAt[d] ELSE 0]
  /\ epoch' = epoch + 1
  /\ lock' = "free"
  /\ sync' = [pc |-> "status", rev |-> sync.rev, at |-> sync.at, epoch |-> epoch']
  /\ UNCHANGED <<world, clock, src, vault, shown, claim, edit, removing, ref, gen>>

SyncSaveRejected ==
  /\ sync.pc = "apply"
  /\ lock' = "free" /\ SyncEnds
  /\ UNCHANGED <<clock, srv, portAt, shown, epoch>>

\* applyFetchedStatus(), outside the lock.
SyncAppliesStatus ==
  /\ sync.pc = "status"
  /\ shown' = IF epoch = sync.epoch /\ Same(sync.rev) THEN [at |-> sync.at, cfg |-> src.cfg] ELSE shown
  /\ SyncEnds
  /\ UNCHANGED <<clock, srv, portAt, epoch, lock>>

------------------------------------------------------------------------------
(* editSource: the claim lives as long as the panel and what it submitted *)

EditOpen ==
  /\ claim = "free" /\ src.exists
  /\ claim' = "edit"
  /\ edit' = [pc |-> "open", rev |-> src.rev]
  /\ UNCHANGED <<world, clock, src, vault, srv, portAt, shown, epoch, lock, sync, removing, ref, gen>>

\* persistUpdatedInventorySource() writes the vault before the record.
EditSubmit(s) ==
  /\ edit.pc = "open" /\ lock = "free"
  /\ lock' = "edit"
  /\ edit' = [pc |-> "submitting", rev |-> edit.rev, prior |-> vault]
  /\ vault' = s
  /\ UNCHANGED <<world, clock, src, srv, portAt, shown, epoch, claim, sync, removing, ref, gen>>

\* Mutant: closing the panel gives the claim up at once.
ReleaseAtOnce == claim' = "free" /\ edit' = IF edit.pc = "open" THEN Idle ELSE [edit EXCEPT !.pc = "closing"]

ReleaseAfterSubmit ==
  \/ edit.pc = "open" /\ claim' = "free" /\ edit' = Idle
  \/ edit.pc = "submitting" /\ edit' = [edit EXCEPT !.pc = "closing"] /\ UNCHANGED claim

EditPanelClosed ==
  /\ edit.pc \in {"open", "submitting"}
  /\ ReleaseAfterSubmit
  /\ UNCHANGED <<world, clock, src, vault, srv, portAt, shown, epoch, lock, sync, removing, ref, gen>>

EditSaved(cfgChanged) ==
  /\ edit.pc \in {"submitting", "closing"} /\ Same(edit.rev) /\ src.rev < MaxRev
  /\ src' = [src EXCEPT !.rev = @ + 1, !.cfg = IF cfgChanged THEN @ + 1 ELSE @, !.secret = vault]
  /\ shown' = IF cfgChanged THEN NoStatus ELSE shown
  /\ lock' = "free" /\ claim' = "free" /\ edit' = Idle
  /\ UNCHANGED <<world, clock, vault, srv, portAt, epoch, sync, removing, ref, gen>>

\* Mutant: the vault keeps what the refused edit wrote.
VaultKept == vault

RolledBackVault == edit.prior

\* Another incarnation, or the save failed: rollbackThisRunsVaultWrites().
EditRefused ==
  /\ edit.pc \in {"submitting", "closing"}
  /\ vault' = RolledBackVault
  /\ lock' = "free"
  /\ IF edit.pc = "submitting" THEN edit' = [pc |-> "open", rev |-> edit.rev] /\ UNCHANGED claim
     ELSE edit' = Idle /\ claim' = "free"
  /\ UNCHANGED <<world, clock, src, srv, portAt, shown, epoch, sync, removing, ref, gen>>

------------------------------------------------------------------------------
(* removeSource *)

RemoveOpen ==
  /\ claim = "free" /\ src.exists
  /\ claim' = "remove"
  /\ removing' = [pc |-> "modal", rev |-> src.rev, owned |-> Owned]
  /\ UNCHANGED <<world, clock, src, vault, srv, portAt, shown, epoch, lock, sync, edit, ref, gen>>

RemoveEnds ==
  /\ claim' = "free" /\ removing' = Idle
  /\ UNCHANGED <<world, clock, epoch, sync, edit, ref, gen>>

RemoveDismissed ==
  /\ removing.pc = "modal" /\ RemoveEnds
  /\ UNCHANGED <<src, vault, srv, portAt, shown, lock>>

\* The secrets go before the record.
RemoveConfirmed ==
  /\ removing.pc = "modal" /\ lock = "free"
  /\ \/ ~Same(removing.rev) /\ RemoveEnds /\ UNCHANGED <<src, vault, srv, portAt, shown, lock>>
     \/ /\ Same(removing.rev)
        /\ lock' = "remove" /\ vault' = 0
        /\ removing' = [pc |-> "deleting", rev |-> removing.rev, owned |-> removing.owned, prior |-> vault]
        /\ UNCHANGED <<world, clock, src, srv, portAt, shown, epoch, claim, sync, edit, ref, gen>>

\* The record is removed, and its servers deleted, detached ("Keep") or, when
\* that save fails, left with their origin.
RemoveSaved(disposition) ==
  /\ removing.pc = "deleting"
  /\ src' = [src EXCEPT !.exists = FALSE, !.secret = 0]
  /\ shown' = NoStatus
  /\ srv' = [d \in Devices |-> IF d \in removing.owned \cap Owned THEN disposition ELSE srv[d]]
  /\ portAt' = [d \in Devices |-> IF srv'[d] = "owned" THEN portAt[d] ELSE 0]
  /\ lock' = "free"
  /\ RemoveEnds
  /\ UNCHANGED vault

\* A deletion from the vault or the save of the record failed: restoreCapturedSecrets().
RemoveFailed ==
  /\ removing.pc = "deleting"
  /\ vault' = removing.prior
  /\ lock' = "free"
  /\ RemoveEnds
  /\ UNCHANGED <<src, srv, portAt, shown>>

\* controlNode() holds the claim for one command to the provider.
ControlNode ==
  /\ claim = "free" /\ src.exists /\ claim' = "control"
  /\ UNCHANGED <<world, clock, src, vault, srv, portAt, shown, epoch, lock, sync, edit, removing, ref, gen>>

ControlDone ==
  /\ claim = "control" /\ claim' = "free"
  /\ UNCHANGED <<world, clock, src, vault, srv, portAt, shown, epoch, lock, sync, edit, removing, ref, gen>>

------------------------------------------------------------------------------
(* refreshStatus *)

To(r, next) == ref' = [ref EXCEPT ![r] = next]

Claimed(r) ==
  /\ ref[r].pc = "idle" /\ src.exists
  /\ gen' = gen + 1 /\ gen < MaxClock
  /\ To(r, [pc |-> "claimed", gen |-> gen', rev |-> src.rev])
  /\ UNCHANGED <<world, clock, src, vault, srv, portAt, shown, epoch, claim, lock, sync, edit, removing>>

Refreshing == UNCHANGED <<world, src, vault, claim, lock, sync, edit, removing, gen>>

\* The source's turn in the sweep, with the record the sweep began with:
\* superseded, busy or without its secret, it is left out.
RefreshTurn(r) ==
  /\ ref[r].pc = "claimed"
  /\ IF ref[r].gen # gen \/ claim # "free" \/ vault = 0 THEN To(r, Idle)
     ELSE To(r, [pc |-> "fetch", gen |-> gen, rev |-> ref[r].rev, epoch |-> epoch])
  /\ Refreshing /\ UNCHANGED <<clock, srv, portAt, shown, epoch>>

RefreshResponse(r) ==
  /\ ref[r].pc = "fetch"
  /\ \/ /\ Observe
        /\ To(r, [pc |-> "report", gen |-> ref[r].gen, rev |-> ref[r].rev, epoch |-> ref[r].epoch,
                  at |-> clock', seen |-> world])
     \/ To(r, Idle) /\ UNCHANGED clock
  /\ Refreshing /\ UNCHANGED <<srv, portAt, shown, epoch>>

\* Mutants: one of the three guards is missing.
IgnoresEpoch(r) == ref[r].gen = gen /\ Same(ref[r].rev)
IgnoresRevision(r) == ref[r].gen = gen /\ epoch = ref[r].epoch

StillCurrent(r) == ref[r].gen = gen /\ Same(ref[r].rev) /\ epoch = ref[r].epoch

RefreshApplies(r) ==
  /\ ref[r].pc = "report"
  /\ IF StillCurrent(r)
     THEN /\ shown' = [at |-> ref[r].at, cfg |-> src.cfg]
          /\ To(r, IF claim = "free" THEN [ref[r] EXCEPT !.pc = "heal"] ELSE Idle)
     ELSE To(r, Idle) /\ UNCHANGED shown
  /\ Refreshing /\ UNCHANGED <<clock, srv, portAt, epoch>>

\* healSyncedConsolePorts(), revalidated once the lock is held.
RefreshHeals(r) ==
  LET healed == Owned \cap ref[r].seen IN
  /\ ref[r].pc = "heal" /\ lock = "free"
  /\ IF StillCurrent(r) /\ claim = "free" /\ healed # {}
     THEN /\ portAt' = [d \in Devices |-> IF d \in healed THEN ref[r].at ELSE portAt[d]]
          /\ epoch' = epoch + 1
     ELSE UNCHANGED <<portAt, epoch>>
  /\ To(r, Idle)
  /\ Refreshing /\ UNCHANGED <<clock, srv, shown>>

------------------------------------------------------------------------------
InvNext ==
  \/ \E d \in Devices : WorldChanges(d) \/ UserRemovesServer(d)
  \/ \E S \in SUBSET Devices : Import(S)
  \/ SyncStart \/ SyncResponse \/ SyncGivesUp \/ SyncConfirmed \/ SyncCommits \/ SyncSaveRejected
  \/ SyncAppliesStatus
  \/ EditOpen \/ EditPanelClosed \/ EditRefused
  \/ \E s \in {1, 2} : EditSubmit(s)
  \/ \E c \in BOOLEAN : EditSaved(c)
  \/ RemoveOpen \/ RemoveDismissed \/ RemoveConfirmed \/ RemoveFailed
  \/ \E x \in {"none", "kept", "owned"} : RemoveSaved(x)
  \/ ControlNode \/ ControlDone
  \/ \E r \in Refreshers : \/ Claimed(r) \/ RefreshTurn(r) \/ RefreshResponse(r) \/ RefreshApplies(r)
                           \/ RefreshHeals(r)

InvSpec == InvInit /\ [][InvNext]_invVars

------------------------------------------------------------------------------
SourceRecords == [exists : BOOLEAN, rev : Nat, cfg : Nat, secret : 0..2]

Plans == [deletes : SUBSET Devices, adds : SUBSET Devices]

SyncRecords ==
  {Idle} \cup [pc : {"fetch"}, rev : Nat, secret : 0..2]
         \cup [pc : {"preview", "apply"}, rev : Nat, secret : 0..2, at : Nat, tree : SUBSET Devices, plan : Plans]
         \cup [pc : {"status"}, rev : Nat, at : Nat, epoch : Nat]

EditRecords ==
  {Idle} \cup [pc : {"open"}, rev : Nat] \cup [pc : {"submitting", "closing"}, rev : Nat, prior : 0..2]

RemovalRecords ==
  {Idle} \cup [pc : {"modal"}, rev : Nat, owned : SUBSET Devices]
         \cup [pc : {"deleting"}, rev : Nat, owned : SUBSET Devices, prior : 0..2]

RefreshRecords ==
  {Idle} \cup [pc : {"claimed"}, gen : Nat, rev : Nat] \cup [pc : {"fetch"}, gen : Nat, rev : Nat, epoch : Nat]
         \cup [pc : {"report", "heal"}, gen : Nat, rev : Nat, epoch : Nat, at : Nat, seen : SUBSET Devices]

InvTypeOK ==
  /\ world \subseteq Devices /\ clock \in 0..MaxClock /\ vault \in 0..2 /\ src \in SourceRecords
  /\ srv \in [Devices -> {"none", "owned", "kept"}] /\ portAt \in [Devices -> 0..MaxClock]
  /\ shown \in [at : 0..MaxClock, cfg : Nat] /\ epoch \in Nat /\ gen \in Nat
  /\ claim \in {"free", "sync", "edit", "remove", "control"}
  /\ lock \in {"free", "sync", "edit", "remove"}
  /\ sync \in SyncRecords /\ edit \in EditRecords /\ removing \in RemovalRecords
  /\ ref \in [Refreshers -> RefreshRecords]

(* A refresh never puts an older picture over a newer one: not the status of *)
(* a slow crawl over that of a later crawl or a later sync, and a server's   *)
(* console port never goes back to an earlier observation, whoever writes it.*)
RefreshNeverRegresses ==
  [][/\ (\E r \in Refreshers : RefreshApplies(r)) => shown'.at >= shown.at
     /\ \A d \in Devices : srv[d] = "owned" /\ srv'[d] = "owned" /\ portAt'[d] # 0 => portAt'[d] >= portAt[d]]_invVars

(* The status the tree shows never goes back in time: the claim of syncNow   *)
(* is there so that "no other sync/edit/remove races it and refreshStatus    *)
(* skips it".                                                                *)
StatusNeverRegresses == [][shown'.at = 0 \/ shown'.at >= shown.at]_invVars

(* A sync applies the batch the user confirmed: it deletes the servers the   *)
(* preview listed and adds as many as it said, whatever happened to the      *)
(* servers while the preview was open.                                       *)
PreviewHonoured ==
  [][SyncCommits => /\ {d \in Owned : srv'[d] = "none"} = sync.plan.deletes
                    /\ Cardinality({d \in Devices : srv[d] = "none" /\ srv'[d] = "owned"})
                         = Cardinality(sync.plan.adds)]_invVars

(* The status on the screen was fetched under the source's present           *)
(* configuration, across edits, imports, removals and re-creations.          *)
StatusOfThisConfig == shown.at # 0 => src.exists /\ shown.cfg = src.cfg

(* The status is that of the present configuration, and the newest.          *)
StatusFresh == []StatusOfThisConfig /\ RefreshNeverRegresses

(* What the user saw is what he gets: a sync applies the batch he confirmed,  *)
(* and a status is of the source as it is configured now.                    *)
SyncHonest == PreviewHonoured /\ StatusFresh

(* Outside a writer's section the vault holds the secret the record was      *)
(* saved with, whatever failed on the way; and the writer that is in its     *)
(* section still holds the claim of its source.                              *)
VaultMatchesSource ==
  /\ InvTypeOK
  /\ lock \notin {"edit", "remove"} => vault = src.secret
  /\ lock # "free" => claim = lock
==============================================================================
