-------------------------- MODULE ConfigurationProofs --------------------------
(* Theorems about the configuration: the commands on an inventory source, the   *)
(* configuration core they save to, and what a sync plans for a server.         *)
EXTENDS InventorySync, NexusCore, SyncPlan, SequenceTheorems, WellFoundedInduction, TLAPS

------------------------------------------------------------------------------
(* The commands on an inventory source                                        *)

\* The claim says which command is at work, the lock which of them is between
\* two of its saves, and a writer remembers the secret of the record.
ClaimsSound ==
  /\ sync.pc # "idle" <=> claim = "sync"
  /\ edit.pc # "idle" <=> claim = "edit"
  /\ removing.pc # "idle" <=> claim = "remove"
  /\ lock = "sync" <=> sync.pc = "apply"
  /\ lock = "edit" <=> edit.pc \in {"submitting", "closing"}
  /\ lock = "remove" <=> removing.pc = "deleting"

SecretsSound ==
  /\ edit.pc \in {"submitting", "closing"} => edit.prior = src.secret
  /\ removing.pc = "deleting" => removing.prior = src.secret /\ vault = 0
  /\ lock \notin {"edit", "remove"} => vault = src.secret

\* The plan about to be applied is still the one the user confirmed.
PlanSound == sync.pc = "apply" => ~Drifted(sync.plan, Plan(srv, sync.tree))

\* Each invocation of refreshStatus has a generation of its own, and none has
\* seen more than there was to see.
RefreshersSound ==
  /\ \A r \in Refreshers : ref[r].pc # "idle" => ref[r].gen <= gen
  /\ \A r, q \in Refreshers : r # q /\ ref[r].pc # "idle" /\ ref[q].pc # "idle" => ref[r].gen # ref[q].gen
  /\ \A r \in Refreshers : ref[r].pc \in {"fetch", "report", "heal"} => ref[r].epoch <= epoch
  /\ \A r \in Refreshers : ref[r].pc \in {"report", "heal"} => ref[r].at <= clock

\* The report of the latest invocation is at least as new as what it will
\* replace, unless a sync was there first (the epoch) or is to come (the claim).
Present(r) == ref[r].gen = gen /\ ref[r].epoch = epoch

TimesSound ==
  /\ shown.at <= clock /\ \A d \in Devices : portAt[d] <= clock
  /\ \A r \in Refreshers : ref[r].pc \in {"report", "heal"} /\ Present(r) =>
       shown.at <= ref[r].at /\ \A d \in Devices : portAt[d] <= ref[r].at
  /\ sync.pc \in {"preview", "apply"} => sync.at <= clock /\ \A d \in Devices : portAt[d] <= sync.at
  /\ sync.pc = "status" =>
       /\ sync.at <= clock /\ sync.epoch = epoch
       /\ \A r \in Refreshers : ref[r].pc \in {"fetch", "report", "heal"} => ref[r].epoch < epoch

CommandsInv ==
  /\ InvTypeOK /\ ClaimsSound /\ SecretsSound /\ PlanSound /\ RefreshersSound /\ TimesSound
  /\ StatusOfThisConfig

\* What the records of the commands hold at each of their stages.
LEMMA CommandRecords ==
  ASSUME InvTypeOK
  PROVE  /\ sync.pc \in {"idle", "fetch", "preview", "apply", "status"}
         /\ sync.pc # "idle" => sync.rev \in Nat
         /\ sync.pc \in {"fetch", "preview", "apply"} => sync.secret \in 0..2
         /\ sync.pc \in {"preview", "apply"} => sync.at \in Nat /\ sync.tree \subseteq Devices /\ sync.plan \in Plans
         /\ sync.pc = "status" => sync.at \in Nat /\ sync.epoch \in Nat
         /\ edit.pc \in {"idle", "open", "submitting", "closing"}
         /\ edit.pc # "idle" => edit.rev \in Nat
         /\ edit.pc \in {"submitting", "closing"} => edit.prior \in 0..2
         /\ removing.pc \in {"idle", "modal", "deleting"}
         /\ removing.pc # "idle" => removing.rev \in Nat /\ removing.owned \subseteq Devices
         /\ removing.pc = "deleting" => removing.prior \in 0..2
         /\ \A r \in Refreshers :
              /\ ref[r].pc \in {"idle", "claimed", "fetch", "report", "heal"}
              /\ ref[r].pc # "idle" => ref[r].gen \in Nat /\ ref[r].rev \in Nat
              /\ ref[r].pc \in {"fetch", "report", "heal"} => ref[r].epoch \in Nat
              /\ ref[r].pc \in {"report", "heal"} => ref[r].at \in Nat /\ ref[r].seen \subseteq Devices
BY DEF InvTypeOK, SyncRecords, Idle, EditRecords, RemovalRecords, RefreshRecords

LEMMA CommandsInitial == InvInit => CommandsInv
<1> SUFFICES ASSUME InvInit PROVE CommandsInv
  OBVIOUS
<1>1. InvTypeOK
  BY InvAssumption DEF InvInit, InvTypeOK, SourceRecords, SyncRecords, EditRecords, RemovalRecords, RefreshRecords, Idle
<1>2. ClaimsSound /\ SecretsSound /\ PlanSound /\ RefreshersSound /\ TimesSound /\ StatusOfThisConfig
  BY InvAssumption DEF InvInit, Idle, ClaimsSound, SecretsSound, PlanSound, RefreshersSound, TimesSound, StatusOfThisConfig
<1> QED
  BY <1>1, <1>2 DEF CommandsInv

------------------------------------------------------------------------------
(* Type correctness, one group of commands at a time                          *)

LEMMA PlanType == \A S, tree : tree \subseteq Devices => Plan(S, tree) \in Plans
BY DEF Plan, Plans

LEMMA WorldType ==
  ASSUME InvTypeOK,
         \/ \E d \in Devices : WorldChanges(d) \/ UserRemovesServer(d)
         \/ \E S \in SUBSET Devices : Import(S)
         \/ ControlNode \/ ControlDone
  PROVE  InvTypeOK'
<1>1. ASSUME NEW d \in Devices, WorldChanges(d) PROVE InvTypeOK'
  BY <1>1 DEF InvTypeOK, WorldChanges
<1>2. ASSUME NEW d \in Devices, UserRemovesServer(d) PROVE InvTypeOK'
  BY <1>2, InvAssumption DEF InvTypeOK, UserRemovesServer
<1>3. ASSUME NEW S \in SUBSET Devices, Import(S) PROVE InvTypeOK'
  BY <1>3, InvAssumption DEF InvTypeOK, Import, SourceRecords, NoStatus
<1>4. CASE ControlNode \/ ControlDone
  BY <1>4 DEF InvTypeOK, ControlNode, ControlDone
<1> QED
  BY <1>1, <1>2, <1>3, <1>4

LEMMA SyncType ==
  ASSUME InvTypeOK, TimesSound,
         \/ SyncStart \/ SyncResponse \/ SyncGivesUp \/ SyncConfirmed \/ SyncCommits \/ SyncSaveRejected
         \/ SyncAppliesStatus
  PROVE  InvTypeOK'
<1> USE CommandRecords
<1>0. Idle \in SyncRecords
  BY DEF SyncRecords
<1>1. CASE SyncStart
  BY <1>1 DEF InvTypeOK, SyncStart, SyncRecords, SourceRecords
<1>2. CASE SyncResponse
  BY <1>2, InvAssumption, PlanType DEF InvTypeOK, SyncResponse, Observe, SyncRecords
<1>3. CASE SyncGivesUp
  BY <1>0, <1>3 DEF InvTypeOK, SyncGivesUp, SyncEnds
<1>4. CASE SyncConfirmed
  BY <1>0, <1>4, PlanType DEF InvTypeOK, SyncEnds, SyncConfirmed, SyncRecords, Idle
<1>5. CASE SyncCommits
  BY <1>5, InvAssumption DEF SyncCommits, InvTypeOK, SyncRecords, TimesSound
<1>6. CASE SyncSaveRejected
  BY <1>0, <1>6 DEF InvTypeOK, SyncSaveRejected, SyncEnds
<1>7. CASE SyncAppliesStatus
  BY <1>7, InvAssumption, <1>0 DEF SyncAppliesStatus, InvTypeOK, TimesSound, SourceRecords, SyncEnds
<1> QED
  BY <1>1, <1>2, <1>3, <1>4, <1>5, <1>6, <1>7

LEMMA EditType ==
  ASSUME InvTypeOK,
         \/ EditOpen \/ EditPanelClosed \/ EditRefused
         \/ \E s \in {1, 2} : EditSubmit(s)
         \/ \E c \in BOOLEAN : EditSaved(c)
  PROVE  InvTypeOK'
<1> USE CommandRecords
<1>0. Idle \in EditRecords
  BY DEF EditRecords
<1>1. CASE EditOpen
  BY <1>1 DEF InvTypeOK, EditOpen, EditRecords, SourceRecords
<1>2. CASE EditPanelClosed
  BY <1>2, <1>0 DEF InvTypeOK, EditRecords, Idle, EditPanelClosed, ReleaseAfterSubmit
<1>3. CASE EditRefused
  BY <1>3, <1>0 DEF EditRefused, EditRecords, InvTypeOK, RolledBackVault
<1>4. ASSUME NEW s \in {1, 2}, EditSubmit(s) PROVE InvTypeOK'
  BY <1>4 DEF EditSubmit, InvTypeOK, EditRecords
<1>5. ASSUME NEW c \in BOOLEAN, EditSaved(c) PROVE InvTypeOK'
  <2>1. src \in SourceRecords /\ vault \in 0..2
    BY DEF InvTypeOK
  <2>2. PICK n \in Nat : n = IF c THEN src.cfg + 1 ELSE src.cfg
    BY <2>1 DEF SourceRecords
  <2>3. src' = [exists |-> src.exists, rev |-> src.rev + 1, cfg |-> n, secret |-> vault]
    BY <1>5, <2>1, <2>2 DEF EditSaved, SourceRecords
  <2>4. src' \in SourceRecords
    BY <2>1, <2>2, <2>3 DEF SourceRecords
  <2>5. shown' \in [at : 0..MaxClock, cfg : Nat]
    <3>1. shown' = NoStatus \/ shown' = shown
      BY <1>5 DEF EditSaved
    <3>2. NoStatus \in [at : 0..MaxClock, cfg : Nat]
      BY <2>2, <2>3, InvAssumption DEF NoStatus
    <3> QED
      BY <3>1, <3>2 DEF InvTypeOK
  <2> QED
    BY <1>0, <1>5, <2>4, <2>5 DEF InvTypeOK, EditSaved
<1> QED
  BY <1>1, <1>2, <1>3, <1>4, <1>5

LEMMA RemovalType ==
  ASSUME InvTypeOK,
         \/ RemoveOpen \/ RemoveDismissed \/ RemoveConfirmed \/ RemoveFailed
         \/ \E x \in {"none", "kept", "owned"} : RemoveSaved(x)
  PROVE  InvTypeOK'
<1> USE CommandRecords
<1>0. Idle \in RemovalRecords
  BY DEF RemovalRecords
<1>1. CASE RemoveOpen
  BY <1>1 DEF InvTypeOK, RemoveOpen, RemovalRecords, SourceRecords, Owned
<1>2. CASE RemoveDismissed
  BY <1>0, <1>2 DEF InvTypeOK, RemoveDismissed, RemoveEnds
<1>3. CASE RemoveConfirmed
  BY <1>0, <1>3 DEF InvTypeOK, RemoveEnds, RemoveConfirmed, RemovalRecords
<1>4. CASE RemoveFailed
  BY <1>4, <1>0 DEF RemoveFailed, InvTypeOK, RemoveEnds
<1>5. ASSUME NEW x \in {"none", "kept", "owned"}, RemoveSaved(x) PROVE InvTypeOK'
  <2>1. src' \in SourceRecords /\ src'.cfg \in Nat
    <3>1. src \in SourceRecords /\ src' = [src EXCEPT !.exists = FALSE, !.secret = 0]
      BY <1>5 DEF InvTypeOK, RemoveSaved
    <3>2. src' = [exists |-> FALSE, rev |-> src.rev, cfg |-> src.cfg, secret |-> 0] /\ src.rev \in Nat /\ src.cfg \in Nat
      BY <3>1 DEF SourceRecords
    <3> HIDE CommandRecords
    <3> QED
      BY <3>2 DEF SourceRecords
  <2>2. shown' \in [at : 0..MaxClock, cfg : Nat]
    BY <1>5, <2>1, InvAssumption DEF RemoveSaved, NoStatus
  <2>3. srv' \in [Devices -> {"none", "owned", "kept"}]
    BY <1>5 DEF RemoveSaved, InvTypeOK
  <2>4. portAt' \in [Devices -> 0..MaxClock]
    BY <1>5, InvAssumption DEF RemoveSaved, InvTypeOK
  <2> QED
    BY <1>0, <1>5, <2>1, <2>2, <2>3, <2>4 DEF InvTypeOK, RemoveSaved, RemoveEnds
<1> QED
  BY <1>1, <1>2, <1>3, <1>4, <1>5

LEMMA RefreshType ==
  ASSUME InvTypeOK, RefreshersSound, NEW r \in Refreshers,
         Claimed(r) \/ RefreshTurn(r) \/ RefreshResponse(r) \/ RefreshApplies(r) \/ RefreshHeals(r)
  PROVE  InvTypeOK'
<1> USE CommandRecords
<1>0. Idle \in RefreshRecords
  BY DEF RefreshRecords
<1>1. ASSUME NEW t \in RefreshRecords, To(r, t) PROVE ref' \in [Refreshers -> RefreshRecords]
  BY <1>1 DEF To, InvTypeOK
<1>2. CASE Claimed(r)
  BY <1>2, <1>1 DEF Claimed, InvTypeOK, SourceRecords, RefreshRecords
<1>3. CASE RefreshTurn(r)
  BY <1>3, <1>0, <1>1 DEF RefreshTurn, InvTypeOK, RefreshRecords, Refreshing
<1>4. CASE RefreshResponse(r)
  BY <1>0, <1>1, <1>4, InvAssumption DEF RefreshResponse, Refreshing, InvTypeOK, Observe, RefreshRecords
<1>5. CASE RefreshApplies(r)
  BY <1>5, InvAssumption, <1>0, <1>1 DEF RefreshApplies, RefreshersSound, InvTypeOK, SourceRecords, RefreshRecords,
     Idle, Refreshing
<1>6. CASE RefreshHeals(r)
  BY <1>6, InvAssumption, <1>0, <1>1 DEF RefreshHeals, RefreshersSound, InvTypeOK, Refreshing
<1> QED
  BY <1>2, <1>3, <1>4, <1>5, <1>6

LEMMA CommandsType == CommandsInv /\ [InvNext]_invVars => InvTypeOK'
BY WorldType, SyncType, EditType, RemovalType, RefreshType DEF CommandsInv, InvTypeOK, invVars, InvNext

------------------------------------------------------------------------------
(* Claims, secrets, the plan and the status                                   *)

LEMMA CommandsParts ==
  ASSUME CommandsInv
  PROVE  /\ InvTypeOK /\ ClaimsSound /\ SecretsSound /\ PlanSound /\ RefreshersSound /\ TimesSound
         /\ StatusOfThisConfig
BY DEF CommandsInv

LEMMA ClaimsStep == CommandsInv /\ [InvNext]_invVars => ClaimsSound' /\ SecretsSound'
<1> SUFFICES ASSUME CommandsInv, [InvNext]_invVars PROVE ClaimsSound' /\ SecretsSound'
  OBVIOUS
<1>0. /\ ClaimsSound /\ SecretsSound
      /\ sync.pc \in {"idle", "fetch", "preview", "apply", "status"}
      /\ edit.pc \in {"idle", "open", "submitting", "closing"}
      /\ removing.pc \in {"idle", "modal", "deleting"}
      /\ lock \in {"free", "sync", "edit", "remove"}
      /\ src \in SourceRecords
      /\ Idle.pc = "idle"
  BY CommandsParts, CommandRecords DEF InvTypeOK, Idle
<1>1. CASE \E d \in Devices : WorldChanges(d) \/ UserRemovesServer(d)
  BY <1>0, <1>1 DEF ClaimsSound, SecretsSound, WorldChanges, UserRemovesServer
<1>2. ASSUME NEW S \in SUBSET Devices, Import(S) PROVE ClaimsSound' /\ SecretsSound'
  BY <1>0, <1>2 DEF ClaimsSound, SecretsSound, Import
<1>3. CASE ControlNode \/ ControlDone
  BY <1>0, <1>3 DEF ClaimsSound, SecretsSound, ControlNode, ControlDone
<1>4. CASE SyncStart \/ SyncResponse \/ SyncGivesUp \/ SyncCommits \/ SyncSaveRejected \/ SyncAppliesStatus
  BY <1>0, <1>4 DEF ClaimsSound, SecretsSound, SyncStart, SyncResponse, SyncGivesUp, SyncCommits, SyncSaveRejected,
     SyncAppliesStatus, SyncEnds
<1>5. CASE SyncConfirmed
  BY <1>0, <1>5, CommandsParts DEF ClaimsSound, SecretsSound, SyncConfirmed, SyncEnds, InvTypeOK, SyncRecords, Idle
<1>6. CASE EditOpen \/ EditRefused
  BY <1>0, <1>6 DEF ClaimsSound, SecretsSound, EditOpen, EditRefused, RolledBackVault
<1>7. CASE EditPanelClosed
  BY CommandsParts, <1>0, <1>7 DEF InvTypeOK, EditRecords, Idle, ClaimsSound, SecretsSound, EditPanelClosed,
     ReleaseAfterSubmit
<1>8. ASSUME NEW s \in {1, 2}, EditSubmit(s) PROVE ClaimsSound' /\ SecretsSound'
  BY <1>0, <1>8 DEF ClaimsSound, SecretsSound, EditSubmit
<1>9. ASSUME NEW c \in BOOLEAN, EditSaved(c) PROVE ClaimsSound' /\ SecretsSound'
  BY <1>0, <1>9 DEF EditSaved, SourceRecords, ClaimsSound, SecretsSound
<1>10. CASE RemoveOpen \/ RemoveDismissed \/ RemoveConfirmed \/ RemoveFailed
  BY <1>0, <1>10 DEF ClaimsSound, SecretsSound, RemoveOpen, RemoveDismissed, RemoveConfirmed, RemoveFailed, RemoveEnds
<1>11. ASSUME NEW x \in {"none", "kept", "owned"}, RemoveSaved(x) PROVE ClaimsSound' /\ SecretsSound'
  BY <1>0, <1>11 DEF RemoveSaved, SourceRecords, ClaimsSound, SecretsSound, RemoveEnds
<1>12. ASSUME NEW r \in Refreshers,
              Claimed(r) \/ RefreshTurn(r) \/ RefreshResponse(r) \/ RefreshApplies(r) \/ RefreshHeals(r)
       PROVE  ClaimsSound' /\ SecretsSound'
  BY <1>12, <1>0 DEF Claimed, RefreshTurn, RefreshResponse, RefreshApplies, RefreshHeals, Refreshing, ClaimsSound,
     SecretsSound
<1>13. CASE UNCHANGED invVars
  BY <1>0, <1>13 DEF ClaimsSound, SecretsSound, invVars
<1> QED
  BY <1>1, <1>2, <1>3, <1>4, <1>5, <1>6, <1>7, <1>8, <1>9, <1>10, <1>11, <1>12, <1>13 DEF InvNext

LEMMA PlanStep == CommandsInv /\ [InvNext]_invVars => PlanSound'
<1> SUFFICES ASSUME CommandsInv, [InvNext]_invVars PROVE PlanSound'
  OBVIOUS
<1>0. PlanSound /\ ClaimsSound /\ Idle.pc = "idle" /\ InvTypeOK
  BY CommandsParts DEF Idle
<1>1. ASSUME UNCHANGED <<srv, sync>> PROVE PlanSound'
  BY <1>0, <1>1 DEF PlanSound, Plan, Drifted
<1>2. ASSUME sync'.pc # "apply" PROVE PlanSound'
  BY <1>2 DEF PlanSound
<1>3. CASE \E d \in Devices : WorldChanges(d) \/ UserRemovesServer(d)
  BY <1>0, <1>1, <1>2, <1>3 DEF ClaimsSound, WorldChanges, UserRemovesServer
<1>4. CASE \E S \in SUBSET Devices : Import(S)
  BY <1>0, <1>2, <1>4 DEF ClaimsSound, Import
<1>5. CASE SyncStart \/ SyncResponse \/ SyncGivesUp \/ SyncCommits \/ SyncSaveRejected \/ SyncAppliesStatus
  BY <1>0, <1>2, <1>5 DEF SyncStart, SyncResponse, SyncGivesUp, SyncCommits, SyncSaveRejected, SyncAppliesStatus, SyncEnds
<1>6. CASE SyncConfirmed
  BY <1>0, <1>2, <1>6 DEF SyncEnds, SyncConfirmed, InvTypeOK, SyncRecords, Idle, PlanSound, Plan, Drifted
<1>7. CASE EditOpen \/ EditRefused \/ EditPanelClosed \/ ControlNode \/ ControlDone
  BY <1>1, <1>7 DEF EditOpen, EditRefused, EditPanelClosed, ControlNode, ControlDone
<1>8. CASE (\E s \in {1, 2} : EditSubmit(s)) \/ (\E c \in BOOLEAN : EditSaved(c))
  BY <1>1, <1>8 DEF EditSubmit, EditSaved
<1>9. CASE RemoveOpen \/ RemoveDismissed \/ RemoveConfirmed \/ RemoveFailed
  BY <1>1, <1>9 DEF RemoveOpen, RemoveDismissed, RemoveConfirmed, RemoveFailed, RemoveEnds
<1>10. ASSUME NEW x \in {"none", "kept", "owned"}, RemoveSaved(x) PROVE PlanSound'
  BY <1>0, <1>10, <1>2 DEF ClaimsSound, RemoveSaved, RemoveEnds
<1>11. ASSUME NEW r \in Refreshers,
              Claimed(r) \/ RefreshTurn(r) \/ RefreshResponse(r) \/ RefreshApplies(r) \/ RefreshHeals(r)
       PROVE  PlanSound'
  BY <1>1, <1>11 DEF Claimed, RefreshTurn, RefreshResponse, RefreshApplies, RefreshHeals, Refreshing
<1>12. CASE UNCHANGED invVars
  BY <1>1, <1>12 DEF invVars
<1> QED
  BY <1>3, <1>4, <1>5, <1>6, <1>7, <1>8, <1>9, <1>10, <1>11, <1>12 DEF InvNext

LEMMA StatusStep == CommandsInv /\ [InvNext]_invVars => StatusOfThisConfig'
<1> SUFFICES ASSUME CommandsInv, [InvNext]_invVars PROVE StatusOfThisConfig'
  OBVIOUS
<1>0. StatusOfThisConfig /\ InvTypeOK /\ src \in SourceRecords /\ shown \in [at : 0..MaxClock, cfg : Nat]
  BY CommandsParts DEF InvTypeOK
<1>1. ASSUME UNCHANGED <<src, shown>> PROVE StatusOfThisConfig'
  BY <1>0, <1>1 DEF StatusOfThisConfig
<1>2. ASSUME shown' = NoStatus PROVE StatusOfThisConfig'
  BY <1>2 DEF NoStatus, StatusOfThisConfig
<1>3. CASE \E d \in Devices : WorldChanges(d) \/ UserRemovesServer(d)
  BY <1>1, <1>3 DEF WorldChanges, UserRemovesServer
<1>4. CASE \E S \in SUBSET Devices : Import(S)
  BY <1>2, <1>4 DEF Import
<1>5. CASE SyncStart \/ SyncResponse \/ SyncGivesUp \/ SyncConfirmed \/ SyncCommits \/ SyncSaveRejected
  BY <1>1, <1>5 DEF SyncStart, SyncResponse, SyncGivesUp, SyncConfirmed, SyncCommits, SyncSaveRejected, SyncEnds
<1>6. CASE SyncAppliesStatus
  BY <1>0, <1>6 DEF SyncAppliesStatus, SyncEnds, StatusOfThisConfig, Same
<1>7. CASE EditOpen \/ EditRefused \/ EditPanelClosed \/ ControlNode \/ ControlDone
  BY <1>1, <1>7 DEF EditOpen, EditRefused, EditPanelClosed, ControlNode, ControlDone
<1>8. CASE \E s \in {1, 2} : EditSubmit(s)
  BY <1>1, <1>8 DEF EditSubmit
<1>9. ASSUME NEW c \in BOOLEAN, EditSaved(c) PROVE StatusOfThisConfig'
  BY <1>2, <1>9, <1>0 DEF EditSaved, SourceRecords, StatusOfThisConfig
<1>10. CASE RemoveOpen \/ RemoveDismissed \/ RemoveConfirmed \/ RemoveFailed
  BY <1>1, <1>10 DEF RemoveOpen, RemoveDismissed, RemoveConfirmed, RemoveFailed, RemoveEnds
<1>11. CASE \E x \in {"none", "kept", "owned"} : RemoveSaved(x)
  BY <1>2, <1>11 DEF RemoveSaved
<1>12. ASSUME NEW r \in Refreshers, Claimed(r) \/ RefreshTurn(r) \/ RefreshResponse(r) \/ RefreshHeals(r)
       PROVE  StatusOfThisConfig'
  BY <1>1, <1>12 DEF Claimed, RefreshTurn, RefreshResponse, RefreshHeals, Refreshing
<1>13. ASSUME NEW r \in Refreshers, RefreshApplies(r) PROVE StatusOfThisConfig'
  BY <1>0, <1>13 DEF RefreshApplies, Refreshing, StillCurrent, StatusOfThisConfig, Same
<1>14. CASE UNCHANGED invVars
  BY <1>1, <1>14 DEF invVars
<1> QED
  BY <1>3, <1>4, <1>5, <1>6, <1>7, <1>8, <1>9, <1>10, <1>11, <1>12, <1>13, <1>14 DEF InvNext

------------------------------------------------------------------------------
(* Observations                                                               *)

LEMMA RefreshersStep == CommandsInv /\ [InvNext]_invVars => RefreshersSound'
<1> SUFFICES ASSUME CommandsInv, [InvNext]_invVars PROVE RefreshersSound'
  OBVIOUS
<1>0. /\ RefreshersSound /\ Idle.pc = "idle" /\ epoch \in Nat /\ gen \in Nat /\ clock \in Nat
      /\ ref \in [Refreshers -> RefreshRecords]
      /\ \A r \in Refreshers :
           /\ ref[r].pc # "idle" => ref[r].gen \in Nat
           /\ ref[r].pc \in {"fetch", "report", "heal"} => ref[r].epoch \in Nat
           /\ ref[r].pc \in {"report", "heal"} => ref[r].at \in Nat
  BY CommandsParts, CommandRecords, InvAssumption DEF InvTypeOK, Idle
\* Others than the refreshers only let the clock and the epoch advance.
<1>1. ASSUME UNCHANGED <<ref, gen>>, clock' \in Nat, clock <= clock', epoch' \in Nat, epoch <= epoch'
      PROVE  RefreshersSound'
  BY <1>0, <1>1 DEF RefreshersSound
<1>2. CASE \E d \in Devices : WorldChanges(d) \/ UserRemovesServer(d)
  BY <1>0, <1>1, <1>2 DEF WorldChanges, UserRemovesServer
<1>3. CASE (\E S \in SUBSET Devices : Import(S)) \/ ControlNode \/ ControlDone
  BY <1>0, <1>1, <1>3 DEF Import, ControlNode, ControlDone
<1>4. CASE SyncStart \/ SyncResponse \/ SyncGivesUp \/ SyncConfirmed \/ SyncSaveRejected
  BY <1>0, <1>1, <1>4 DEF SyncStart, SyncResponse, SyncGivesUp, SyncConfirmed, SyncSaveRejected, SyncEnds, Observe
<1>5. CASE SyncCommits \/ SyncAppliesStatus
  BY <1>0, <1>1, <1>5 DEF SyncCommits, SyncAppliesStatus, SyncEnds
<1>6. CASE EditOpen \/ EditRefused \/ EditPanelClosed
  BY <1>0, <1>1, <1>6 DEF EditOpen, EditRefused, EditPanelClosed
<1>7. CASE (\E s \in {1, 2} : EditSubmit(s)) \/ (\E c \in BOOLEAN : EditSaved(c))
  <2>1. UNCHANGED <<ref, gen, clock, epoch>>
    BY <1>7 DEF EditSubmit, EditSaved
  <2> QED
    BY <1>0, <1>1, <2>1
<1>8. CASE \/ RemoveOpen \/ RemoveDismissed \/ RemoveConfirmed \/ RemoveFailed
           \/ \E x \in {"none", "kept", "owned"} : RemoveSaved(x)
  BY <1>0, <1>1, <1>8 DEF RemoveOpen, RemoveDismissed, RemoveConfirmed, RemoveFailed, RemoveSaved, RemoveEnds
<1>9. ASSUME NEW r \in Refreshers, Claimed(r) PROVE RefreshersSound'
  BY <1>0, <1>9 DEF Claimed, To, RefreshersSound
<1>10. ASSUME NEW r \in Refreshers, NEW t \in RefreshRecords, To(r, t), UNCHANGED gen,
              clock' \in Nat, clock <= clock', epoch' \in Nat, epoch <= epoch', ref[r].pc # "idle",
              t.pc # "idle" => t.gen = ref[r].gen,
              t.pc \in {"fetch", "report", "heal"} => t.epoch <= epoch',
              t.pc \in {"report", "heal"} => t.at <= clock'
       PROVE  RefreshersSound'
  BY <1>0, <1>10 DEF To, RefreshersSound
<1>11. Idle \in RefreshRecords
  BY DEF RefreshRecords
<1>12. ASSUME NEW r \in Refreshers, RefreshTurn(r) PROVE RefreshersSound'
  BY <1>12, <1>0, CommandsParts, CommandRecords, <1>10, <1>11 DEF RefreshTurn, Refreshing, RefreshRecords
<1>13. ASSUME NEW r \in Refreshers, RefreshResponse(r) PROVE RefreshersSound'
  BY <1>13, <1>0, <1>10, <1>11, CommandsParts, CommandRecords DEF RefreshResponse, Refreshing, Observe,
     RefreshRecords, InvTypeOK, RefreshersSound
<1>14. ASSUME NEW r \in Refreshers, RefreshApplies(r) PROVE RefreshersSound'
  <2> DEFINE t == [ref[r] EXCEPT !.pc = "heal"]
  <2>1. ref[r].pc = "report" /\ UNCHANGED <<gen, epoch, clock>> /\ (To(r, Idle) \/ To(r, t))
    BY <1>14 DEF RefreshApplies, Refreshing
  <2>2. t \in RefreshRecords /\ t.gen = ref[r].gen /\ t.epoch = ref[r].epoch /\ t.at = ref[r].at
    BY <1>0, <2>1 DEF RefreshRecords
  <2> HIDE DEF t
  <2>3. t.epoch <= epoch /\ t.at <= clock
    BY <1>0, <2>1, <2>2 DEF RefreshersSound
  <2> QED
    BY <1>0, <1>10, <1>11, <2>1, <2>2, <2>3
<1>15. ASSUME NEW r \in Refreshers, RefreshHeals(r) PROVE RefreshersSound'
  BY <1>15, <1>0, <1>10, <1>11 DEF RefreshHeals, Refreshing
<1>16. CASE UNCHANGED invVars
  BY <1>0, <1>1, <1>16 DEF invVars
<1> QED
  BY <1>2, <1>3, <1>4, <1>5, <1>6, <1>7, <1>8, <1>9, <1>12, <1>13, <1>14, <1>15, <1>16 DEF InvNext

\* Commands that observe nothing: no time on record grows.
LEMMA QuietTimes ==
  ASSUME CommandsInv, UNCHANGED <<clock, epoch, gen, ref>>,
         shown' \in [at : 0..MaxClock, cfg : Nat], shown'.at \in {0, shown.at},
         \A d \in Devices : portAt'[d] \in {0, portAt[d]},
         sync'.pc \in {"preview", "apply"} => sync.pc \in {"preview", "apply"} /\ sync'.at = sync.at,
         sync'.pc # "status" \/ sync' = sync
  PROVE  TimesSound'
BY CommandsParts, CommandRecords, InvAssumption DEF InvTypeOK, TimesSound, Present

LEMMA TimesStep == CommandsInv /\ [InvNext]_invVars => TimesSound'
<1> SUFFICES ASSUME CommandsInv, [InvNext]_invVars PROVE TimesSound'
  OBVIOUS
<1>0. /\ TimesSound /\ RefreshersSound /\ ClaimsSound /\ InvTypeOK /\ InvTypeOK' /\ Idle.pc = "idle"
      /\ clock \in Nat /\ epoch \in Nat /\ gen \in Nat /\ shown.at \in Nat /\ \A d \in Devices : portAt[d] \in Nat
      /\ shown \in [at : 0..MaxClock, cfg : Nat]
      /\ sync.pc \in {"preview", "apply"} => sync.at \in Nat
      /\ sync.pc = "status" => sync.at \in Nat /\ sync.epoch \in Nat
      /\ \A r \in Refreshers :
           /\ ref[r].pc # "idle" => ref[r].gen \in Nat
           /\ ref[r].pc \in {"fetch", "report", "heal"} => ref[r].epoch \in Nat
           /\ ref[r].pc \in {"report", "heal"} => ref[r].at \in Nat
  BY CommandsParts, CommandsType, CommandRecords, InvAssumption DEF InvTypeOK, Idle
<1>1. shown' \in [at : 0..MaxClock, cfg : Nat]
  BY <1>0 DEF InvTypeOK
<1>2. CASE \E d \in Devices : WorldChanges(d) \/ UserRemovesServer(d)
  BY <1>0, <1>2, QuietTimes DEF WorldChanges, UserRemovesServer, InvTypeOK
<1>3. CASE (\E S \in SUBSET Devices : Import(S)) \/ ControlNode \/ ControlDone
  BY <1>3, <1>0, <1>1, QuietTimes DEF Import, NoStatus, ControlNode, ControlDone
<1>4. CASE SyncStart \/ SyncGivesUp \/ SyncSaveRejected
  BY <1>0, <1>4, QuietTimes DEF SyncStart, SyncGivesUp, SyncSaveRejected, SyncEnds
<1>5. CASE SyncConfirmed
  BY <1>5, <1>0, <1>1, QuietTimes DEF SyncConfirmed, SyncEnds, InvTypeOK, SyncRecords, Idle
<1>6. CASE EditOpen \/ EditRefused \/ EditPanelClosed \/ \E s \in {1, 2} : EditSubmit(s)
  BY <1>0, <1>6, QuietTimes DEF EditOpen, EditRefused, EditPanelClosed, EditSubmit
<1>7. ASSUME NEW c \in BOOLEAN, EditSaved(c) PROVE TimesSound'
  BY <1>7, <1>0, <1>1, QuietTimes DEF EditSaved, NoStatus
<1>8. CASE RemoveOpen \/ RemoveDismissed \/ RemoveConfirmed \/ RemoveFailed
  BY <1>0, <1>8, QuietTimes DEF RemoveOpen, RemoveDismissed, RemoveConfirmed, RemoveFailed, RemoveEnds
<1>9. ASSUME NEW x \in {"none", "kept", "owned"}, RemoveSaved(x) PROVE TimesSound'
  BY <1>9, <1>0, <1>1, QuietTimes DEF RemoveSaved, RemoveEnds, NoStatus
<1>10. CASE SyncResponse
  BY <1>10, <1>0 DEF SyncResponse, Observe, TimesSound, Present
<1>11. CASE SyncCommits
  BY <1>11, <1>0 DEF SyncCommits, TimesSound, RefreshersSound, Present
<1>12. CASE SyncAppliesStatus
  BY <1>0, <1>12 DEF SyncAppliesStatus, SyncEnds, TimesSound, Present
<1>13. ASSUME NEW r \in Refreshers, NEW t, To(r, t), clock' \in Nat, clock <= clock', UNCHANGED <<epoch, portAt, sync>>,
              gen' = gen, shown'.at \in Nat, shown'.at <= clock',
              t.pc \in {"report", "heal"} /\ t.gen = gen /\ t.epoch = epoch =>
                 shown'.at <= t.at /\ \A d \in Devices : portAt[d] <= t.at,
              \A q \in Refreshers : q # r /\ ref[q].pc \in {"report", "heal"} /\ Present(q) => shown'.at <= ref[q].at,
              sync.pc = "status" /\ t.pc \in {"fetch", "report", "heal"} => t.epoch < epoch
       PROVE  TimesSound'
  BY <1>0, <1>13 DEF To, InvTypeOK, TimesSound, Present
<1>14. ASSUME NEW r \in Refreshers, Claimed(r) PROVE TimesSound'
  BY <1>0, <1>14 DEF Claimed, To, InvTypeOK, Present, RefreshersSound, TimesSound
<1>15. ASSUME NEW r \in Refreshers, RefreshTurn(r) PROVE TimesSound'
  BY <1>15, <1>0, <1>13 DEF RefreshTurn, Refreshing, TimesSound, ClaimsSound
<1>16. ASSUME NEW r \in Refreshers, RefreshResponse(r) PROVE TimesSound'
  BY <1>16, <1>0, <1>13 DEF RefreshResponse, Refreshing, Observe, TimesSound
<1>17. ASSUME NEW r \in Refreshers, RefreshApplies(r) PROVE TimesSound'
  <2> DEFINE t == [ref[r] EXCEPT !.pc = "heal"]
  <2>1. ref[r].pc = "report" /\ UNCHANGED <<portAt, epoch, sync, gen, clock>> /\ (To(r, Idle) \/ To(r, t))
    BY <1>17 DEF RefreshApplies, Refreshing
  <2>2. t.pc = "heal" /\ t.gen = ref[r].gen /\ t.epoch = ref[r].epoch /\ t.at = ref[r].at
    BY <1>0, <2>1 DEF RefreshRecords, InvTypeOK, Idle
  <2> HIDE DEF t
  <2>3. \/ shown' = shown /\ To(r, Idle)
        \/ Present(r) /\ shown'.at = ref[r].at
    BY <1>17 DEF RefreshApplies, StillCurrent, Present
  <2>4. clock' \in Nat /\ clock <= clock' /\ (sync.pc = "status" => ref[r].epoch < epoch)
    BY <1>0, <2>1 DEF TimesSound
  <2>5. CASE shown' = shown /\ To(r, Idle)
    BY <1>0, <2>1, <2>5, <1>13, <2>4 DEF TimesSound
  <2>6. CASE Present(r) /\ shown'.at = ref[r].at
    BY <1>0, <2>1, <2>6, <1>13, <2>2, <2>4 DEF TimesSound, RefreshersSound, Present
  <2> QED
    BY <2>3, <2>5, <2>6
\* Only the latest refresher heals, and only while nothing else is at work.
<1>18. ASSUME NEW r \in Refreshers, RefreshHeals(r) PROVE TimesSound'
  <2>1. /\ ref[r].pc = "heal" /\ To(r, Idle) /\ UNCHANGED <<clock, shown, sync, gen>>
        /\ \/ UNCHANGED <<portAt, epoch>>
           \/ /\ claim = "free" /\ Present(r) /\ epoch' = epoch + 1
              /\ \A d \in Devices : portAt'[d] \in {ref[r].at, portAt[d]}
    BY <1>18 DEF RefreshHeals, Refreshing, StillCurrent, Present
  <2>2. ref'[r] = Idle /\ \A q \in Refreshers : q # r => ref'[q] = ref[q]
    BY <1>0, <2>1 DEF To, InvTypeOK
  <2>3. CASE UNCHANGED <<portAt, epoch>>
    BY <1>0, <2>1, <1>13, <2>3 DEF TimesSound
  <2>4. CASE /\ claim = "free" /\ Present(r) /\ epoch' = epoch + 1
             /\ \A d \in Devices : portAt'[d] \in {ref[r].at, portAt[d]}
    BY <1>0, <2>4, <2>1, <2>2 DEF ClaimsSound, TimesSound, RefreshersSound, Present
  <2> QED
    BY <2>1, <2>3, <2>4
<1>19. CASE UNCHANGED invVars
  BY <1>0, <1>19, QuietTimes DEF invVars
<1> QED
  BY <1>2, <1>3, <1>4, <1>5, <1>6, <1>7, <1>8, <1>9, <1>10, <1>11, <1>12, <1>14, <1>15, <1>16, <1>17, <1>18, <1>19
  DEF InvNext

LEMMA CommandsStep == CommandsInv /\ [InvNext]_invVars => CommandsInv'
BY CommandsType, ClaimsStep, PlanStep, StatusStep, RefreshersStep, TimesStep DEF CommandsInv

LEMMA CommandsAlways == InvSpec => []CommandsInv
BY CommandsInitial, CommandsStep, PTL DEF InvSpec

(* Outside a writer's section the vault holds the secret the source's record  *)
(* was saved with, whatever failed on the way: the vault is written before    *)
(* the record and rolled back when the record is not saved                    *)
(* (persistUpdatedInventorySource(), rollbackThisRunsVaultWrites(),           *)
(* restoreCapturedSecrets()); and a writer in its section holds the claim.    *)
THEOREM VaultFollowsSource == InvSpec => []VaultMatchesSource
<1>1. CommandsInv => VaultMatchesSource
  BY CommandsParts DEF ClaimsSound, InvTypeOK, SecretsSound, VaultMatchesSource
<1> QED
  BY <1>1, CommandsAlways, PTL

LEMMA CommitsWhatWasShown == CommandsInv /\ SyncCommits =>
  /\ {d \in Owned : srv'[d] = "none"} = sync.plan.deletes
  /\ Cardinality({d \in Devices : srv[d] = "none" /\ srv'[d] = "owned"}) = Cardinality(sync.plan.adds)
BY CommandsParts, CommandRecords DEF SyncCommits, Plan, PlanSound, Drifted, Owned

LEMMA NothingGoesBack ==
  ASSUME CommandsInv, [InvNext]_invVars
  PROVE  /\ (\E r \in Refreshers : RefreshApplies(r)) => shown'.at >= shown.at
         /\ \A d \in Devices : srv[d] = "owned" /\ srv'[d] = "owned" /\ portAt'[d] # 0 => portAt'[d] >= portAt[d]
<1>0. /\ TimesSound /\ RefreshersSound /\ ClaimsSound /\ InvTypeOK
      /\ shown.at \in Nat /\ \A d \in Devices : portAt[d] \in Nat
      /\ sync.pc \in {"preview", "apply"} => sync.at \in Nat
      /\ \A r \in Refreshers : ref[r].pc \in {"report", "heal"} => ref[r].at \in Nat
  BY CommandsParts, CommandRecords, InvAssumption DEF InvTypeOK
<1>1. ASSUME NEW r \in Refreshers, RefreshApplies(r) PROVE shown'.at >= shown.at
  BY <1>1, <1>0 DEF RefreshApplies, StillCurrent, Present, TimesSound
<1>2. ASSUME NEW d \in Devices, srv[d] = "owned", srv'[d] = "owned", portAt'[d] # 0 PROVE portAt'[d] >= portAt[d]
  <2>1. ASSUME portAt'[d] \in {0, portAt[d]} PROVE portAt'[d] >= portAt[d]
    BY <1>0, <1>2, <2>1
  <2>2. CASE SyncCommits
    BY <2>2, <1>0, <1>2 DEF SyncCommits, TimesSound
  <2>3. ASSUME NEW r \in Refreshers, RefreshHeals(r) PROVE portAt'[d] >= portAt[d]
    BY <2>3, <1>0 DEF RefreshHeals, StillCurrent, Present, TimesSound
  <2>4. CASE UNCHANGED invVars
    BY <2>1, <2>4 DEF invVars
  <2>5. CASE (\E e \in Devices : WorldChanges(e) \/ UserRemovesServer(e)) \/ (\E S \in SUBSET Devices : Import(S))
             \/ ControlNode \/ ControlDone
    BY <1>0, <2>1, <2>5 DEF WorldChanges, UserRemovesServer, Import, ControlNode, ControlDone, InvTypeOK
  <2>6. CASE SyncStart \/ SyncResponse \/ SyncGivesUp \/ SyncConfirmed \/ SyncSaveRejected \/ SyncAppliesStatus
    BY <2>1, <2>6 DEF SyncStart, SyncResponse, SyncGivesUp, SyncConfirmed, SyncSaveRejected, SyncAppliesStatus
  <2>7. CASE \/ EditOpen \/ EditPanelClosed \/ EditRefused
             \/ \E s \in {1, 2} : EditSubmit(s)
             \/ \E c \in BOOLEAN : EditSaved(c)
    BY <2>1, <2>7 DEF EditOpen, EditPanelClosed, EditRefused, EditSubmit, EditSaved
  <2>8. CASE \/ RemoveOpen \/ RemoveDismissed \/ RemoveConfirmed \/ RemoveFailed
             \/ \E x \in {"none", "kept", "owned"} : RemoveSaved(x)
    BY <2>1, <2>8 DEF RemoveOpen, RemoveDismissed, RemoveConfirmed, RemoveFailed, RemoveSaved, RemoveEnds
  <2>9. CASE \E r \in Refreshers : Claimed(r) \/ RefreshTurn(r) \/ RefreshResponse(r) \/ RefreshApplies(r)
    BY <2>1, <2>9 DEF Claimed, RefreshTurn, RefreshResponse, RefreshApplies
  <2> QED
    BY <2>2, <2>3, <2>4, <2>5, <2>6, <2>7, <2>8, <2>9 DEF InvNext
<1> QED
  BY <1>1, <1>2

(* What the user saw is what he gets: syncNow() applies the batch of the      *)
(* preview he confirmed or none (planDetailDrift()), the status on the screen *)
(* is of the source as it is configured now, and no refresh puts an older     *)
(* picture or port over a newer one (the generations, the epoch, the claim).  *)
THEOREM SyncIsHonest == InvSpec => SyncHonest
<1>1. CommandsInv => StatusOfThisConfig
  BY DEF CommandsInv
<1>2. CommandsInv /\ [InvNext]_invVars =>
        [SyncCommits => /\ {d \in Owned : srv'[d] = "none"} = sync.plan.deletes
                        /\ Cardinality({d \in Devices : srv[d] = "none" /\ srv'[d] = "owned"})
                             = Cardinality(sync.plan.adds)]_invVars
  BY CommitsWhatWasShown
<1>3. CommandsInv /\ [InvNext]_invVars =>
        [/\ (\E r \in Refreshers : RefreshApplies(r)) => shown'.at >= shown.at
         /\ \A d \in Devices : srv[d] = "owned" /\ srv'[d] = "owned" /\ portAt'[d] # 0
                                 => portAt'[d] >= portAt[d]]_invVars
  BY NothingGoesBack
<1> QED
  BY <1>1, <1>2, <1>3, CommandsAlways, PTL DEF InvSpec, SyncHonest, PreviewHonoured, StatusFresh, RefreshNeverRegresses

------------------------------------------------------------------------------
(* The configuration core                                                     *)

LEMMA Greatest ==
  ASSUME NEW n \in Nat, NEW A, A \subseteq 0..n, A # {}
  PROVE  \E k \in A : \A j \in A : j <= k
<1> DEFINE U == {n - x : x \in A}
<1>0. A \subseteq Nat /\ \A x \in A : n - x \in Nat
  OBVIOUS
<1>1. U \subseteq Nat /\ U # {}
  BY <1>0
<1>2. PICK m \in U : \A y \in U : ~(y < m)
  <2> DEFINE R == OpToRel(<, Nat)
  <2>1. IsWellFoundedOn(R, Nat)
    BY NatLessThanWellFounded
  <2>2. PICK m \in U : \A y \in U : ~(<<y, m>> \in R)
    BY <1>1, <2>1, WFMin
  <2> QED
    BY <1>1, <2>2 DEF OpToRel
<1>3. PICK k \in A : m = n - k
  OBVIOUS
<1>4. ASSUME NEW j \in A PROVE j <= k
  <2>1. n - j \in U /\ j \in Nat /\ k \in Nat
    BY <1>0
  <2>2. ~(n - j < n - k)
    BY <1>2, <1>3, <2>1
  <2> QED
    BY <2>1, <2>2
<1> QED
  BY <1>4

------------------------------------------------------------------------------
(* The configuration core                                                     *)

Existing ==
  [group : Paths \cup {Root}, gateway : ServerIds \cup {NoServer}, stamped : BOOLEAN, owned : BOOLEAN,
   content : {"old", "user", "sync"}]

\* What the proofs use of the record of a server.
LEMMA RecordShape ==
  /\ ServerRecords = Existing \cup {Absent} /\ Absent \notin Existing
  /\ Absent.gateway = NoServer /\ Absent.group = Root /\ ~Absent.owned
  /\ \A r \in ServerRecords : r.gateway \in ServerIds \cup {NoServer} /\ r.group \in Paths \cup {Root}
  /\ NoServer \notin ServerIds
BY CoreAssumption DEF ServerRecords, Existing, Absent, Record

LEMMA NewGroup ==
  ASSUME NEW r \in ServerRecords, NEW g \in Paths \cup {Root}, r = Absent => g = Root
  PROVE  /\ [r EXCEPT !.group = g] \in ServerRecords
         /\ [r EXCEPT !.group = g].gateway = r.gateway
         /\ [r EXCEPT !.group = g] = Absent <=> r = Absent
         /\ g = r.group => [r EXCEPT !.group = g] = r
BY RecordShape DEF Absent, Record, Existing

LEMMA NewGateway ==
  ASSUME NEW r \in ServerRecords, r # Absent, NEW gw \in ServerIds \cup {NoServer}
  PROVE  /\ [r EXCEPT !.gateway = gw, !.stamped = FALSE] \in Existing
         /\ [r EXCEPT !.gateway = gw, !.stamped = FALSE].gateway = gw
BY RecordShape DEF Existing

LEMMA NewContent ==
  ASSUME NEW r \in ServerRecords, r # Absent
  PROVE  /\ [r EXCEPT !.content = "user"] \in Existing /\ [r EXCEPT !.content = "user"].gateway = r.gateway
         /\ [r EXCEPT !.owned = FALSE] \in Existing /\ [r EXCEPT !.owned = FALSE].gateway = r.gateway
BY RecordShape DEF Existing

\* Paths: prefixes are in play, and a dissolved folder's contents are.
LEMMA PathShape ==
  /\ \A p \in Paths : p \in Seq(STRING) /\ Len(p) \in Nat /\ Len(p) > 0 /\ p \in Ancestors(p) /\ Ancestors(p) \subseteq Paths
  /\ Ancestors(Root) = {} /\ Root \notin Paths /\ Len(Root) = 0
  /\ \A g \in Paths \cup {Root} : Ancestors(g) \subseteq Paths
<1>1. ASSUME NEW p \in Paths
      PROVE  p \in Seq(STRING) /\ Len(p) \in Nat /\ Len(p) > 0 /\ p \in Ancestors(p) /\ Ancestors(p) \subseteq Paths
  <2>1. p \in Seq(STRING) /\ p # Root
    BY CoreAssumption
  <2>2. Len(p) \in Nat /\ Len(p) > 0
    BY <2>1, EmptySeq, LenProperties DEF Root
  <2>3. SubSeq(p, 1, Len(p)) = p
    BY <2>1, SubSeqFull
  <2>4. Ancestors(p) \subseteq Paths
    BY CoreAssumption DEF Ancestors
  <2>5. p \in Ancestors(p)
    <3>1. Len(p) \in 1..Len(p)
      BY <2>2
    <3> QED
      BY <2>3, <3>1 DEF Ancestors
  <2> QED
    BY <2>1, <2>2, <2>4, <2>5
<1>2. Len(Root) = 0
  BY EmptySeq DEF Root
<1>3. Ancestors(Root) = {}
  BY <1>2 DEF Ancestors
<1> QED
  BY <1>1, <1>2, <1>3, CoreAssumption

LEMMA DissolvedPath ==
  ASSUME NEW g \in Paths \cup {Root}, NEW p \in Paths
  PROVE  Moved(g, p, Parent(p)) \in Paths \cup {Root} /\ \A q : Moved(Root, p, q) = Root
BY PathShape, PathAssumption DEF Under, Moved

LEMMA HomePath ==
  ASSUME NEW g \in Paths \cup {Root}, NEW tree
  PROVE  /\ Home(g, tree) \in Paths \cup {Root}
         /\ Len(g) <= 1 \/ Parent(g) \in tree => Home(g, tree) = g
<1>1. CASE Len(g) <= 1 \/ Parent(g) \in tree
  BY <1>1 DEF Home
<1>2. CASE ~(Len(g) <= 1 \/ Parent(g) \in tree)
  <2>1. g \in Paths /\ Len(g) \in Nat
    BY <1>2, PathShape
  <2> DEFINE alive == {k \in 1..Len(g) - 1 : SubSeq(g, 1, k) \in tree}
  <2>2. PICK m \in alive \cup {0} : \A j \in alive : j <= m
    <3>1. alive \cup {0} \subseteq 0..Len(g)
      BY <2>1
    <3> HIDE DEF alive
    <3> QED
      BY <2>1, <3>1, Greatest
  <2> DEFINE c == CHOOSE k \in alive \cup {0} : \A j \in alive : j <= k
  <2>3. c \in alive \cup {0}
    BY <2>2
  <2>4. Home(g, tree) = SubSeq(g, 1, c)
    BY <1>2 DEF Home
  <2>5. CASE c = 0
    <3>1. SubSeq(g, 1, 0) = Root
      BY <2>1, PathShape, SubSeqEmpty DEF Root
    <3> QED
      BY <1>2, <2>4, <2>5, <3>1
  <2>6. CASE c \in alive
    BY <2>1, <2>6, CoreAssumption, <1>2, <2>4
  <2> QED
    BY <2>3, <2>5, <2>6
<1> QED
  BY <1>1, <1>2

Maps == [ServerIds -> ServerRecords]

\* Every gateway link names a server that is there.
LinksOf(S) == \A i \in ServerIds : S[i].gateway # NoServer => S[S[i].gateway] # Absent

\* The servers a map of another shape holds, and the links between them.
SameLinks(S, T) ==
  \A i \in ServerIds : T[i].gateway = S[i].gateway /\ (T[i] = Absent <=> S[i] = Absent)

LEMMA LinksKept ==
  ASSUME NEW S \in Maps, NEW T, SameLinks(S, T), LinksOf(S)
  PROVE  LinksOf(T)
BY RecordShape DEF LinksOf, Maps, SameLinks

\* A server is deleted and the others are swept.
LinkCleared(r, deleted) == IF r.gateway \in deleted THEN [r EXCEPT !.gateway = NoServer, !.stamped = FALSE] ELSE r

LEMMA SweptShape ==
  ASSUME NEW r \in ServerRecords, NEW D, D \subseteq ServerIds
  PROVE  /\ LinkCleared(r, D) \in ServerRecords
         /\ LinkCleared(r, D) = Absent <=> r = Absent
         /\ LinkCleared(r, D).gateway = IF r.gateway \in D THEN NoServer ELSE r.gateway
<1>1. CASE r.gateway \in D
  <2>1. r # Absent
    BY <1>1, RecordShape
  <2>2. LinkCleared(r, D) = [r EXCEPT !.gateway = NoServer, !.stamped = FALSE]
    BY <1>1 DEF LinkCleared
  <2>3. LinkCleared(r, D) \in Existing /\ LinkCleared(r, D).gateway = NoServer
    BY <2>1, <2>2, NewGateway
  <2> QED
    BY <1>1, <2>1, <2>3, RecordShape
<1>2. CASE r.gateway \notin D
  BY <1>2 DEF LinkCleared
<1> QED
  BY <1>1, <1>2

LEMMA SweepShape ==
  ASSUME NEW S \in Maps, NEW D, D \subseteq ServerIds
  PROVE  /\ Sweep(S, D) \in Maps
         /\ \A i \in ServerIds : /\ Sweep(S, D)[i] = Absent <=> S[i] = Absent
                                 /\ Sweep(S, D)[i].gateway = IF S[i].gateway \in D THEN NoServer ELSE S[i].gateway
BY SweptShape DEF Maps, Sweep, LinkCleared

LEMMA WithoutShape ==
  ASSUME NEW S \in Maps, NEW D, D \subseteq ServerIds
  PROVE  Without(S, D) \in Maps /\ (LinksOf(S) => LinksOf(Without(S, D)))
BY RecordShape, SweepShape DEF Maps, Without, LinksOf

\* Folders are moved: the servers in them follow.
LEMMA RegroupedServers ==
  ASSUME NEW S \in Maps, NEW N \in [ServerIds -> Paths \cup {Root}],
         \A i \in ServerIds : S[i].group = Root => N[i] = Root,
         NEW T, T = [i \in ServerIds |-> [S[i] EXCEPT !.group = N[i]]]
  PROVE  T \in Maps /\ SameLinks(S, T)
<1>1. ASSUME NEW i \in ServerIds
      PROVE  /\ T[i] \in ServerRecords /\ T[i].gateway = S[i].gateway
             /\ T[i] = Absent <=> S[i] = Absent
  <2>1. PICK r \in ServerRecords : r = S[i]
    BY DEF Maps
  <2>2. PICK g \in Paths \cup {Root} : g = N[i]
    OBVIOUS
  <2>3. r = Absent => g = Root
    BY <2>1, <2>2, RecordShape
  <2>4. T[i] = [r EXCEPT !.group = g]
    BY <2>1, <2>2
  <2> QED
    BY <2>1, <2>3, <2>4, NewGroup
<1> QED
  BY <1>1 DEF Maps, SameLinks

\* What a sync makes of the servers.
LEMMA AfterShape ==
  ASSUME NEW S \in Maps, servers = S, NEW R, R \subseteq ServerIds, NEW U, U \subseteq ServerIds, R \cap U = {},
         NEW up \in [U -> Existing]
  PROVE  /\ After(R, up) \in Maps
         /\ \A i \in R : After(R, up)[i] = Absent
         /\ \A i \in U : After(R, up)[i] # Absent
         /\ LinksOf(S) /\ (\A i \in U : up[i].stamped \/ up[i].gateway = NoServer \/ S[up[i].gateway] # Absent)
              => LinksOf(After(R, up))
<1> DEFINE T == [i \in ServerIds |-> IF i \in DOMAIN up THEN up[i] ELSE IF i \in R THEN Absent ELSE servers[i]]
<1> DEFINE W == Sweep(T, R)
<1> DEFINE A == Revalidated(W, DOMAIN up)
<1>1. After(R, up) = A
  BY DEF After
<1>2. DOMAIN up = U
  OBVIOUS
<1>3. \A i \in ServerIds : T[i] = IF i \in U THEN up[i] ELSE IF i \in R THEN Absent ELSE S[i]
  BY <1>2
<1>4. T \in Maps
  BY <1>2, RecordShape DEF Maps
<1> HIDE DEF T
<1>5. /\ W \in Maps
      /\ \A i \in ServerIds : /\ W[i] = Absent <=> T[i] = Absent
                              /\ W[i].gateway = IF T[i].gateway \in R THEN NoServer ELSE T[i].gateway
  BY <1>4, SweepShape
<1>6. \A i \in U : up[i] \in ServerRecords /\ up[i] # Absent
  BY RecordShape
<1>7. \A i \in ServerIds : Revalidated(W, U)[i] =
        IF i \in U /\ W[i].stamped /\ W[i].gateway # NoServer /\ W[W[i].gateway] = Absent
        THEN [W[i] EXCEPT !.gateway = NoServer, !.stamped = FALSE] ELSE W[i]
  BY DEF Revalidated
<1>8. A = Revalidated(W, U) /\ A \in [ServerIds -> {A[i] : i \in ServerIds}]
  BY <1>2 DEF Revalidated
<1>9. \A i \in ServerIds : i \in U /\ W[i].stamped /\ T[i] = up[i] /\ W[i] = T[i] => up[i].stamped
  OBVIOUS
<1>10. ASSUME NEW i \in ServerIds, NEW w, w = W[i]
       PROVE  LinkCleared(T[i], R) = w
  BY <1>4, <1>10 DEF Sweep, LinkCleared
<1> HIDE DEF W, A
<1>11. ASSUME NEW i \in ServerIds
       PROVE  /\ A[i] \in ServerRecords
              /\ A[i] = Absent <=> T[i] = Absent
              /\ A[i].gateway # NoServer =>
                   A[i] = W[i] /\ W[i].gateway = T[i].gateway /\ T[i].gateway \notin R
                   /\ ~(i \in U /\ W[i].stamped /\ W[W[i].gateway] = Absent)
  <2>1. PICK w \in ServerRecords : w = W[i]
    BY <1>5 DEF Maps
  <2>2. CASE i \in U /\ W[i].stamped /\ W[i].gateway # NoServer /\ W[W[i].gateway] = Absent
    <3>1. A[i] = [w EXCEPT !.gateway = NoServer, !.stamped = FALSE]
      BY <1>7, <1>8, <2>1, <2>2
    <3>2. w # Absent
      BY <2>1, <2>2, RecordShape
    <3>3. A[i] \in Existing /\ A[i].gateway = NoServer
      BY <3>1, <3>2, NewGateway
    <3> QED
      BY <1>5, <2>1, <3>2, <3>3, RecordShape
  <2>3. CASE ~(i \in U /\ W[i].stamped /\ W[i].gateway # NoServer /\ W[W[i].gateway] = Absent)
    BY <1>7, <1>8, <2>3, <1>5, <2>1
  <2> QED
    BY <2>2, <2>3
<1>12. A \in Maps
  BY <1>8, <1>11 DEF Maps
<1>13. \A i \in R : A[i] = Absent
  BY <1>3, <1>11
<1>14. \A i \in U : A[i] # Absent
  BY <1>3, <1>6, <1>11
<1>15. ASSUME LinksOf(S), \A i \in U : up[i].stamped \/ up[i].gateway = NoServer \/ S[up[i].gateway] # Absent,
              NEW i \in ServerIds, A[i].gateway # NoServer
       PROVE  A[A[i].gateway] # Absent
  <2>1. PICK g : g = T[i].gateway
    OBVIOUS
  <2>2. A[i].gateway = g /\ g \notin R /\ W[i].gateway = g
    BY <1>11, <1>15, <2>1
  <2>3. g \in ServerIds
    BY <1>4, <1>15, <2>1, <2>2, RecordShape DEF Maps
  <2>4. CASE i \in U
    <3>1. T[i] = up[i]
      BY <1>3, <2>4
    <3>2. CASE up[i].stamped
      <4>1. W[i] = T[i]
        BY <1>10, <2>1, <2>2 DEF LinkCleared
      <4>2. W[g] # Absent
        BY <1>11, <1>15, <2>2, <2>4, <3>1, <3>2, <4>1
      <4> QED
        BY <1>5, <1>11, <2>2, <2>3, <4>2
    <3>3. CASE ~up[i].stamped
      <4>1. S[g] # Absent
        BY <1>15, <2>1, <2>2, <2>4, <3>1, <3>3
      <4>2. T[g] # Absent
        BY <1>3, <1>6, <2>2, <2>3, <4>1
      <4> QED
        BY <1>11, <2>2, <2>3, <4>2
    <3> QED
      BY <3>2, <3>3
  <2>5. CASE i \notin U
    <3>1. i \notin R /\ T[i] = S[i]
      BY <1>3, <1>15, <2>1, <2>2, <2>5, RecordShape
    <3>2. S[g] # Absent
      BY <1>15, <2>1, <2>2, <3>1 DEF LinksOf
    <3>3. T[g] # Absent
      BY <1>3, <1>6, <2>2, <2>3, <3>2
    <3> QED
      BY <1>11, <2>2, <2>3, <3>3
  <2> QED
    BY <2>4, <2>5
<1> QED
  BY <1>1, <1>12, <1>13, <1>14, <1>15 DEF LinksOf

------------------------------------------------------------------------------
(* The invariant of the core                                                  *)

Active == {x \in SessionIds : session[x] = "active"}

\* The maps, and that no link is broken where the callers hold the lock.
MapsOK ==
  /\ servers \in Maps /\ groups \subseteq Paths /\ status \subseteq ServerIds
  /\ source = [exists |-> source.exists, managed |-> source.managed]
  /\ source.exists \in BOOLEAN /\ source.managed \subseteq Paths
  /\ serialized => LinksOf(servers)

\* The record of a batch under way.
BatchOf(b) ==
  [on |-> TRUE, prior |-> b.prior, written |-> b.written, added |-> b.added, gone |-> b.gone, sessions |-> b.sessions,
   activity |-> b.activity, focus |-> b.focus, focusSet |-> b.focusSet, tombs |-> b.tombs, status |-> b.status,
   managed |-> b.managed, sourceMine |-> b.sourceMine, alone |-> b.alone, before |-> b.before]

BatchTyped(b) ==
  /\ b = BatchOf(b)
  /\ DOMAIN b.prior \subseteq ServerIds
  /\ b.prior \in [DOMAIN b.prior -> ServerRecords] /\ b.written \in [DOMAIN b.prior -> ServerRecords]
  /\ b.gone \subseteq Paths /\ b.managed \subseteq Paths

BatchOK == batch = NoBatch \/ BatchTyped(batch)

\* Only tracked sessions are marked, and what a batch dropped is restored or closed.
SessionsOK ==
  /\ session \in [SessionIds -> {"none", "active", "dropped", "closed"}]
  /\ activity \subseteq Active /\ focused \in Active \cup {NoSession}
  /\ batch.on =>
       /\ \A x \in batch.sessions : x \in SessionIds /\ (x \in batch.tombs \/ session[x] = "dropped")
       /\ batch.focusSet = batch.focus \/ batch.focus \in batch.sessions

\* What the rollback would make of the state if the save were rejected now.
RestoredSource == IF batch.sourceMine THEN [source EXCEPT !.managed = batch.managed] ELSE source

RollbackLinks == serialized /\ batch.on => LinksOf(RestoredServers)

Unaltered ==
  /\ batch.on /\ batch.alone
  /\ \A i \in Deleted : Rooted(batch.prior[i].group)
  /\ \A p \in batch.gone : Rooted(p)

RollbackAll == Unaltered => <<RestoredServers, UndoneGroups, RestoredSource, RestoredStatus>> = batch.before

CoreInv == MapsOK /\ BatchOK /\ SessionsOK /\ RollbackLinks /\ RollbackAll

LEMMA CoreInitial == CoreInit => CoreInv
<1> SUFFICES ASSUME CoreInit PROVE CoreInv
  OBVIOUS
<1>1. servers \in Maps /\ LinksOf(servers)
  BY PopulationAssumption DEF CoreInit, Maps, LinksOf
<1>2. groups \subseteq Paths
  BY <1>1, RecordShape, PathShape DEF Maps, CoreInit
<1>3. MapsOK
  BY <1>2, <1>1 DEF CoreInit, BelowTarget, MapsOK
<1>4. BatchOK /\ ~batch.on
  BY DEF CoreInit, NoBatch, BatchOK
<1>5. SessionsOK
  BY <1>4 DEF CoreInit, SessionsOK
<1> QED
  BY <1>3, <1>4, <1>5 DEF CoreInv, RollbackLinks, RollbackAll, Unaltered

LEMMA InvImpliesResolves == CoreInv => GatewayResolves
BY DEF CoreInv, MapsOK, SessionsOK, CoreTypeOK, Maps, Active, GatewayResolves, LinksOf

\* The ways to touch the record of a batch: nothing that a rollback restores is changed.
Noted(b, c) ==
  /\ c.on = b.on
  /\ b.on => /\ c.prior = b.prior /\ c.written = b.written /\ c.added = b.added /\ c.gone = b.gone
             /\ c.sessions = b.sessions /\ c.activity = b.activity /\ c.focus = b.focus /\ c.focusSet = b.focusSet
             /\ c.status = b.status /\ c.managed = b.managed /\ c.before = b.before

LEMMA NoteAlone ==
  ASSUME BatchOK, NEW b, NEW c, b = batch, c = IF b.on THEN [b EXCEPT !.alone = FALSE] ELSE b
  PROVE  /\ Noted(b, c) /\ (c = NoBatch \/ BatchTyped(c)) /\ (c.on => ~c.alone /\ c.tombs = b.tombs)
<1>1. CASE b = NoBatch
  BY <1>1 DEF NoBatch, Noted
<1>2. CASE BatchTyped(b)
  BY <1>2 DEF BatchTyped, BatchOf, Noted
<1> QED
  BY <1>1, <1>2 DEF BatchOK

LEMMA NoteSource ==
  ASSUME BatchOK, NEW b, NEW c, b = batch, c = IF b.on THEN [b EXCEPT !.alone = FALSE, !.sourceMine = FALSE] ELSE b
  PROVE  /\ Noted(b, c) /\ (c = NoBatch \/ BatchTyped(c)) /\ (c.on => ~c.alone /\ c.tombs = b.tombs)
<1>1. CASE b = NoBatch
  BY <1>1 DEF NoBatch, Noted
<1>2. CASE BatchTyped(b)
  BY <1>2 DEF BatchTyped, BatchOf, Noted
<1> QED
  BY <1>1, <1>2 DEF BatchOK

LEMMA NoteTomb ==
  ASSUME BatchOK, NEW x, NEW b, NEW c, b = batch, c = IF b.on THEN [b EXCEPT !.tombs = @ \cup {x}] ELSE b
  PROVE  /\ Noted(b, c) /\ (c = NoBatch \/ BatchTyped(c))
         /\ (b.on => c.alone = b.alone /\ c.sourceMine = b.sourceMine /\ c.tombs = b.tombs \cup {x})
<1>1. CASE b = NoBatch
  BY <1>1 DEF NoBatch, Noted
<1>2. CASE BatchTyped(b)
  BY <1>2 DEF BatchTyped, BatchOf, Noted
<1> QED
  BY <1>1, <1>2 DEF BatchOK

\* What the rollback restores depends on nothing else.
LEMMA RollbackStands ==
  ASSUME UNCHANGED <<servers, groups>>, batch.on, Noted(batch, batch')
  PROVE  /\ RestoredServers' = RestoredServers /\ UndoneGroups' = UndoneGroups /\ Deleted' = Deleted
         /\ batch'.prior = batch.prior /\ batch'.before = batch.before /\ batch'.gone = batch.gone
<1>1. /\ batch'.prior = batch.prior /\ batch'.written = batch.written /\ batch'.added = batch.added
      /\ batch'.gone = batch.gone /\ servers' = servers /\ groups' = groups /\ batch'.before = batch.before
  BY DEF Noted
<1>2. UndoneGroups' = UndoneGroups
  BY <1>1 DEF UndoneGroups, Regrown
<1>3. Deleted' = Deleted
  BY <1>1 DEF Deleted
<1>4. \A i : Undone(i)' = Undone(i)
  BY <1>1 DEF Undone
<1>5. UndoneServers' = UndoneServers
  BY <1>1, <1>4 DEF UndoneServers
<1> QED
  BY <1>1, <1>2, <1>3, <1>5 DEF RestoredServers

------------------------------------------------------------------------------
(* The steps of the core                                                      *)

\* The sessions, when a batch is not at its beginning or its end.
SessionsStand == UNCHANGED <<session, activity, focused>> \/ \E S \in SUBSET ServerIds : DropSessions(S)

LEMMA SessionsFrame ==
  ASSUME SessionsOK, SessionsStand, Noted(batch, batch'), batch.on => batch'.tombs = batch.tombs
  PROVE  SessionsOK' /\ (\A x \in SessionIds : session[x] = "closed" => session'[x] = "closed")
BY DEF SessionsOK, Noted, Active, ActiveOf, DropSessions, SessionsStand

\* An action that notes itself in the batch: none of them runs beside one under the lock, or it
\* leaves servers and folders alone.
Notes ==
  /\ UNCHANGED serialized
  /\ \/ batch' = IF batch.on THEN [batch EXCEPT !.alone = FALSE] ELSE batch
     \/ batch' = IF batch.on THEN [batch EXCEPT !.alone = FALSE, !.sourceMine = FALSE] ELSE batch
  /\ (serialized => ~batch.on) \/ UNCHANGED <<servers, groups>>

LEMMA NotesFrame ==
  ASSUME CoreInv, Notes, SessionsStand, MapsOK'
  PROVE  CoreInv' /\ (\A x \in SessionIds : session[x] = "closed" => session'[x] = "closed")
<1>1. PICK b, c : b = batch /\ c = batch'
  OBVIOUS
<1>2. Noted(b, c) /\ (c = NoBatch \/ BatchTyped(c)) /\ (c.on => ~c.alone /\ c.tombs = b.tombs)
  BY <1>1, NoteAlone, NoteSource DEF CoreInv, Notes
<1>3. BatchOK'
  BY <1>1, <1>2 DEF BatchOK, BatchTyped, BatchOf, NoBatch
<1>4. /\ Noted(batch, batch') /\ batch'.on = batch.on /\ (batch'.on => ~batch'.alone)
      /\ batch.on => batch'.tombs = batch.tombs
  BY <1>1, <1>2 DEF Noted
<1>5. SessionsOK' /\ (\A x \in SessionIds : session[x] = "closed" => session'[x] = "closed")
  BY <1>4, SessionsFrame DEF CoreInv
<1>6. RollbackAll'
  BY <1>4 DEF RollbackAll, Unaltered
<1>7. RollbackLinks'
  BY <1>4, RollbackStands DEF RollbackLinks, Notes, CoreInv, LinksOf
<1> QED
  BY <1>3, <1>5, <1>6, <1>7 DEF CoreInv

\* The maps after a mutation.
LEMMA MapsFrame ==
  ASSUME MapsOK, servers' \in Maps, LinksOf(servers) => LinksOf(servers'), groups' \subseteq Paths,
         UNCHANGED <<source, serialized>>, status' \subseteq ServerIds
  PROVE  MapsOK'
BY DEF LinksOf, MapsOK, Maps, ServerRecords, Absent, Record

\* One record is replaced.
LEMMA SaveMaps ==
  ASSUME MapsOK, NEW i \in ServerIds, NEW r \in Existing, servers' = [servers EXCEPT ![i] = r],
         r.gateway = NoServer \/ (r.gateway \in ServerIds /\ servers[r.gateway] # Absent) \/ (servers[i] # Absent /\ r.gateway = servers[i].gateway)
  PROVE  servers' \in Maps /\ (LinksOf(servers) => LinksOf(servers'))
BY RecordShape DEF MapsOK, Maps, LinksOf

LEMMA SaveStep ==
  ASSUME CoreInv, NEW i \in ServerIds, NEW r \in Existing, Save(i, r),
         r.gateway = NoServer \/ (r.gateway \in ServerIds /\ servers[r.gateway] # Absent) \/ (servers[i] # Absent /\ r.gateway = servers[i].gateway)
  PROVE  MapsOK' /\ Notes /\ SessionsStand
BY SaveMaps, MapsFrame DEF CoreInv, Save, MapsOK, Mutation, Notes, SessionsStand

LEMMA EditStep ==
  ASSUME CoreInv, NEW i \in ServerIds
  PROVE  EditServer(i) \/ (\E g \in Paths : AddServer(i, g)) => MapsOK' /\ Notes /\ SessionsStand
<1>0. servers[i] \in ServerRecords
  BY DEF CoreInv, MapsOK, Maps
<1>1. ASSUME NEW g \in Paths, AddServer(i, g) PROVE MapsOK' /\ Notes /\ SessionsStand
  BY <1>1, SaveStep DEF Record, Existing, AddServer
<1>2. ASSUME EditServer(i) PROVE MapsOK' /\ Notes /\ SessionsStand
  <2>1. servers[i] # Absent
    BY <1>2 DEF EditServer, Live
  <2>2. PICK s \in ServerRecords : s = servers[i]
    BY <1>0
  <2>3. CASE Save(i, [servers[i] EXCEPT !.content = "user"])
    BY <2>1, <2>2, NewContent, <2>3, SaveStep
  <2>4. ASSUME NEW g \in Paths \cup {Root}, Save(i, [servers[i] EXCEPT !.group = g])
        PROVE  MapsOK' /\ Notes /\ SessionsStand
    BY <2>1, <2>2, NewGroup, RecordShape, <2>4, SaveStep
  <2>5. ASSUME NEW gw \in (Live \ {i}) \cup {NoServer}, Save(i, [servers[i] EXCEPT !.gateway = gw, !.stamped = FALSE])
        PROVE  MapsOK' /\ Notes /\ SessionsStand
    BY <2>1, <2>2, NewGateway, <2>5, SaveStep DEF Live
  <2> QED
    BY <1>2, <2>3, <2>4, <2>5 DEF EditServer
<1> QED
  BY <1>1, <1>2

LEMMA DeleteStep ==
  ASSUME CoreInv, NEW D, D \subseteq ServerIds, servers' = Without(servers, D), groups' \subseteq groups,
         status' \subseteq status, DropSessions(D), Mutation, UNCHANGED <<source, serialized>>
  PROVE  MapsOK' /\ Notes /\ SessionsStand
BY WithoutShape, MapsFrame DEF CoreInv, MapsOK, Mutation, Notes, SessionsStand

LEMMA RegroupStep ==
  ASSUME CoreInv, NEW N \in [ServerIds -> Paths \cup {Root}], \A i \in ServerIds : servers[i].group = Root => N[i] = Root,
         servers' = [i \in ServerIds |-> [servers[i] EXCEPT !.group = N[i]]], groups' \subseteq Paths,
         Mutation, UNCHANGED <<session, activity, focused, status, source, serialized>>
  PROVE  MapsOK' /\ Notes /\ SessionsStand
BY RegroupedServers, LinksKept, MapsFrame DEF CoreInv, MapsOK, Mutation, Notes, SessionsStand

LEMMA FolderStep ==
  ASSUME CoreInv, NEW p \in Paths
  PROVE  AddGroup(p) \/ RemoveFolderDeleting(p) \/ RemoveFolderKeeping(p) \/ (\E q \in Paths : RenameFolder(p, q))
           => MapsOK' /\ Notes /\ SessionsStand
<1>0. /\ groups \subseteq Paths /\ servers \in Maps
      /\ \A i \in ServerIds : servers[i].group \in Paths \cup {Root}
  BY RecordShape DEF CoreInv, MapsOK, Maps
<1>1. ASSUME AddGroup(p) PROVE MapsOK' /\ Notes /\ SessionsStand
  BY <1>0, <1>1, PathShape, MapsFrame DEF AddGroup, CoreInv, MapsOK, Mutation, Notes, SessionsStand
<1>2. ASSUME RemoveFolderDeleting(p) PROVE MapsOK' /\ Notes /\ SessionsStand
  BY <1>2, DeleteStep DEF Live, RemoveFolderDeleting
<1>3. ASSUME RemoveFolderKeeping(p) PROVE MapsOK' /\ Notes /\ SessionsStand
  <2>1. PICK N : N = [i \in ServerIds |-> Moved(servers[i].group, p, Parent(p))]
    OBVIOUS
  <2>2. N \in [ServerIds -> Paths \cup {Root}] /\ \A i \in ServerIds : servers[i].group = Root => N[i] = Root
    BY <1>0, <2>1, DissolvedPath
  <2>3. servers' = [i \in ServerIds |-> [servers[i] EXCEPT !.group = N[i]]]
    BY <1>3, <2>1 DEF RemoveFolderKeeping
  <2>4. groups' \subseteq Paths
    BY <1>0, <1>3, DissolvedPath DEF RemoveFolderKeeping
  <2> QED
    BY <1>3, <2>2, <2>3, <2>4, RegroupStep DEF RemoveFolderKeeping
<1>4. ASSUME NEW q \in Paths, RenameFolder(p, q) PROVE MapsOK' /\ Notes /\ SessionsStand
  <2>1. PICK N : N = [i \in ServerIds |-> Moved(servers[i].group, p, q)]
    OBVIOUS
  <2>2. ASSUME NEW i \in ServerIds
        PROVE  /\ Moved(servers[i].group, p, q) \in Paths \cup {Root}
               /\ servers[i].group = Root => Moved(servers[i].group, p, q) = Root
    BY DissolvedPath, <1>0, PathShape, <1>4 DEF Derived, RenameFolder
  <2>3. N \in [ServerIds -> Paths \cup {Root}] /\ \A i \in ServerIds : servers[i].group = Root => N[i] = Root
    BY <2>1, <2>2
  <2>4. servers' = [i \in ServerIds |-> [servers[i] EXCEPT !.group = N[i]]]
    BY <1>4, <2>1 DEF RenameFolder
  <2>5. groups' \subseteq Paths
    BY <1>0, PathShape, <1>4 DEF Derived, RenameFolder
  <2> QED
    BY <1>4, <2>3, <2>4, <2>5, RegroupStep DEF RenameFolder
<1> QED
  BY <1>1, <1>2, <1>3, <1>4

LEMMA OtherNotes ==
  ASSUME CoreInv
  PROVE  (\E i \in ServerIds : RemoveServer(i)) \/ RemoveSource \/ RestoreSource \/ (\E S \in SUBSET ServerIds : ApplyStatus(S))
           => MapsOK' /\ Notes /\ SessionsStand
<1>0. MapsOK
  BY DEF CoreInv
<1>1. ASSUME NEW i \in ServerIds, RemoveServer(i) PROVE MapsOK' /\ Notes /\ SessionsStand
  BY <1>1, DeleteStep DEF RemoveServer
<1>2. ASSUME RemoveSource \/ RestoreSource PROVE MapsOK' /\ Notes /\ SessionsStand
  <2>1. /\ UNCHANGED <<servers, groups, serialized, session, activity, focused>> /\ SourceMutation
        /\ status' \subseteq status /\ \E e \in BOOLEAN : source' = [exists |-> e, managed |-> {}]
    BY <1>2 DEF RemoveSource, RestoreSource
  <2>2. PICK e \in BOOLEAN : source' = [exists |-> e, managed |-> {}]
    BY <2>1
  <2>3. source' = [exists |-> source'.exists, managed |-> source'.managed] /\ source'.exists \in BOOLEAN /\ source'.managed = {}
    BY <2>2
  <2>4. MapsOK'
    BY <1>0, <2>1, <2>3 DEF MapsOK, LinksOf, Maps, ServerRecords, Absent, Record
  <2> QED
    BY <2>1, <2>4 DEF SourceMutation, Notes, SessionsStand
<1>3. ASSUME NEW S \in SUBSET ServerIds, ApplyStatus(S) PROVE MapsOK' /\ Notes /\ SessionsStand
  <2>1. /\ UNCHANGED <<servers, groups, source, serialized, session, activity, focused>>
        /\ batch' = IF batch.on THEN [batch EXCEPT !.alone = FALSE] ELSE batch
        /\ status' \subseteq ServerIds
    BY <1>3 DEF ApplyStatus
  <2>2. MapsOK'
    BY <1>0, <2>1 DEF MapsOK, LinksOf, Maps, ServerRecords, Absent, Record
  <2> QED
    BY <2>1, <2>2 DEF Notes, SessionsStand
<1> QED
  BY <1>1, <1>2, <1>3

\* The configuration does not change: a rollback would restore the same.
LEMMA RollbackFrame ==
  ASSUME CoreInv, UNCHANGED <<servers, groups, status, source, serialized>>, Noted(batch, batch'),
         batch.on => batch'.alone = batch.alone /\ batch'.sourceMine = batch.sourceMine
  PROVE  MapsOK' /\ RollbackLinks' /\ RollbackAll'
<1>1. MapsOK'
  BY DEF CoreInv, MapsOK, LinksOf, Maps, ServerRecords, Absent, Record
<1>2. CASE ~batch.on
  BY <1>1, <1>2 DEF Noted, RollbackLinks, RollbackAll, Unaltered
<1>3. CASE batch.on
  <2>1. /\ RestoredServers' = RestoredServers /\ UndoneGroups' = UndoneGroups /\ Deleted' = Deleted
        /\ batch'.prior = batch.prior /\ batch'.before = batch.before /\ batch'.gone = batch.gone
    BY <1>3, RollbackStands
  <2>2. batch'.on = batch.on /\ batch'.status = batch.status /\ batch'.managed = batch.managed
        /\ batch'.alone = batch.alone /\ batch'.sourceMine = batch.sourceMine
    BY <1>3 DEF Noted
  <2>3. RestoredStatus' = RestoredStatus /\ RestoredSource' = RestoredSource
    BY <2>1, <2>2 DEF RestoredStatus, RestoredSource
  <2>4. Unaltered' = Unaltered
    BY <2>1, <2>2 DEF Unaltered, Rooted
  <2>5. RollbackAll'
    BY <2>1, <2>3, <2>4 DEF CoreInv, RollbackAll
  <2>6. RollbackLinks'
    BY <1>3, <2>1 DEF CoreInv, RollbackLinks, LinksOf
  <2> QED
    BY <1>1, <2>5, <2>6
<1> QED
  BY <1>2, <1>3

ClosedStay == \A x \in SessionIds : session[x] = "closed" => session'[x] = "closed"

LEMMA CallbackStep ==
  ASSUME CoreInv
  PROVE  \/ \E x \in SessionIds, i \in ServerIds : RegisterSession(x, i)
         \/ \E x \in SessionIds : UnregisterSession(x) \/ MarkActivity(x) \/ ClearActivity(x)
         \/ \E x \in SessionIds \cup {NoSession} : SetFocused(x)
         => CoreInv' /\ ClosedStay
<1>0. SessionsOK /\ BatchOK /\ Noted(batch, batch)
  BY DEF CoreInv, Noted
<1>1. ASSUME UNCHANGED <<servers, groups, status, source, serialized, batch>>, SessionsOK' PROVE CoreInv'
  BY <1>1, RollbackFrame, <1>0 DEF Noted, BatchOK, BatchTyped, BatchOf, NoBatch, CoreInv
<1>2. ASSUME NEW x \in SessionIds, NEW i \in ServerIds, RegisterSession(x, i) PROVE CoreInv' /\ ClosedStay
  BY <1>2, <1>0, <1>1 DEF RegisterSession, SessionsOK, Active, ClosedStay
<1>3. ASSUME NEW x \in SessionIds, UnregisterSession(x) PROVE CoreInv' /\ ClosedStay
  <2>1. /\ session[x] \in {"active", "dropped"} /\ session' = [session EXCEPT ![x] = "closed"]
        /\ activity' = activity \ {x} /\ focused' = IF focused = x THEN NoSession ELSE focused
        /\ batch' = IF batch.on THEN [batch EXCEPT !.tombs = @ \cup {x}] ELSE batch
        /\ UNCHANGED <<servers, groups, status, source, serialized>>
    BY <1>3 DEF UnregisterSession, Tombstone
  <2>2. PICK b, c : b = batch /\ c = batch'
    OBVIOUS
  <2>3. /\ Noted(b, c) /\ (c = NoBatch \/ BatchTyped(c))
        /\ (b.on => c.alone = b.alone /\ c.sourceMine = b.sourceMine /\ c.tombs = b.tombs \cup {x})
    BY <1>0, <2>1, <2>2, NoteTomb
  <2>4. Noted(batch, batch') /\ (batch.on => batch'.alone = batch.alone /\ batch'.sourceMine = batch.sourceMine)
        /\ (batch.on => batch'.tombs = batch.tombs \cup {x})
    BY <2>2, <2>3
  <2>5. MapsOK' /\ RollbackLinks' /\ RollbackAll'
    BY <2>1, <2>4, RollbackFrame
  <2>6. BatchOK'
    BY <2>2, <2>3 DEF BatchOK, BatchTyped, BatchOf, NoBatch
  <2>7. SessionsOK' /\ ClosedStay
    BY <1>0, <2>1, <2>4 DEF SessionsOK, Active, Noted, ClosedStay
  <2> QED
    BY <2>5, <2>6, <2>7 DEF CoreInv
<1>4. ASSUME NEW x \in SessionIds, MarkActivity(x) \/ ClearActivity(x) PROVE CoreInv' /\ ClosedStay
  BY <1>0, <1>4, <1>1 DEF MarkActivity, ClearActivity, SessionsOK, Active, ClosedStay
<1>5. ASSUME NEW x \in SessionIds \cup {NoSession}, SetFocused(x) PROVE CoreInv' /\ ClosedStay
  BY <1>5, <1>0, <1>1 DEF SetFocused, Active, SessionsOK, ClosedStay
<1> QED
  BY <1>2, <1>3, <1>4, <1>5

LEMMA ResolveStep == CoreInv /\ SavesResolve => CoreInv' /\ ClosedStay
<1> SUFFICES ASSUME CoreInv, SavesResolve PROVE CoreInv' /\ ClosedStay
  OBVIOUS
<1>1. UNCHANGED <<servers, groups, session, activity, focused, status, source, serialized>> /\ batch' = NoBatch /\ ~batch'.on
  BY DEF SavesResolve, NoBatch
<1>2. MapsOK'
  BY <1>1 DEF CoreInv, MapsOK, LinksOf, Maps, ServerRecords, Absent, Record
<1>3. BatchOK' /\ RollbackLinks' /\ RollbackAll'
  BY <1>1 DEF BatchOK, RollbackLinks, RollbackAll, Unaltered, NoBatch
<1>4. SessionsOK' /\ ClosedStay
  BY <1>1 DEF CoreInv, SessionsOK, Active, ClosedStay
<1> QED
  BY <1>2, <1>3, <1>4 DEF CoreInv

------------------------------------------------------------------------------
(* A batch and its rollback                                                   *)

LEMMA RegrownAll ==
  ASSUME NEW G, G \subseteq Paths, NEW gone, gone \subseteq G, \A p \in gone : Len(p) <= 1 \/ Parent(p) \in G
  PROVE  Regrown(G \ gone, gone) = G
<1>1. ASSUME NEW p \in gone
      PROVE  \E k \in 0..Len(p) - 1 : /\ k = 0 \/ SubSeq(p, 1, k) \in G \ gone
                                      /\ \A j \in k + 1..Len(p) : SubSeq(p, 1, j) \in gone
  <2>1. p \in Seq(STRING) /\ Len(p) \in Nat /\ Len(p) > 0 /\ p \in Paths
    BY PathShape
  <2> DEFINE A == {k \in 0..Len(p) - 1 : k = 0 \/ SubSeq(p, 1, k) \notin gone}
  <2>2. PICK k \in A : \A j \in A : j <= k
    <3>1. 0 \in A /\ A \subseteq 0..Len(p)
      BY <2>1
    <3> HIDE DEF A
    <3> QED
      BY <2>1, <3>1, Greatest
  <2>3. k \in 0..Len(p) - 1 /\ k \in Nat /\ k + 1 <= Len(p)
    BY <2>1
  <2>4. ASSUME NEW j \in k + 1..Len(p) PROVE SubSeq(p, 1, j) \in gone
    <3>1. CASE j = Len(p)
      BY <2>1, <3>1, SubSeqFull
    <3>2. CASE j # Len(p)
      BY <2>1, <2>3, <3>2, <2>2
    <3> QED
      BY <3>1, <3>2
  <2>5. ASSUME k # 0 PROVE SubSeq(p, 1, k) \in G \ gone
    <3>1. PICK q : q = SubSeq(p, 1, k + 1)
      OBVIOUS
    <3>2. q \in gone
      BY <2>3, <2>4, <3>1
    <3>3. q \in Seq(STRING) /\ Len(q) = k + 1
      BY <2>1, <2>3, LenProperties, <3>1, SubSeqProperties
    <3>4. Parent(q) = SubSeq(q, 1, k)
      BY <2>3, <3>3 DEF Parent
    <3>5. SubSeq(q, 1, k) = SubSeq(p, 1, k)
      BY <2>1, <2>3, <2>5, SubSeqOfSubSeq, <3>1
    <3>6. SubSeq(p, 1, k) \in G
      <4>1. ~(Len(q) <= 1)
        BY <2>3, <2>5, <3>3
      <4>2. Parent(q) \in G
        BY <3>2, <4>1
      <4> QED
        BY <3>4, <3>5, <4>2
    <3> QED
      BY <2>5, <3>6
  <2> QED
    BY <2>3, <2>4, <2>5
<1> QED
  BY <1>1 DEF Regrown

\* What a rollback makes of one record is a record, or the absence of one.
LEMMA MergeShape ==
  ASSUME NEW p \in Existing, NEW w \in ServerRecords, NEW c \in Existing
  PROVE  Merge(p, w, c) \in Existing
BY DEF Existing, Merge

LEMMA RestoredShape ==
  ASSUME MapsOK, BatchTyped(batch)
  PROVE  RestoredServers \in Maps /\ UndoneGroups \subseteq Paths /\ Deleted \subseteq ServerIds
<1>1. servers \in Maps /\ groups \subseteq Paths
  BY DEF MapsOK
<1>2. \A i \in DOMAIN batch.prior : i \in ServerIds /\ batch.prior[i] \in ServerRecords /\ batch.written[i] \in ServerRecords
  BY DEF BatchTyped
<1>3. ASSUME NEW i \in DOMAIN batch.prior PROVE Undone(i) \in ServerRecords
  BY <1>1, <1>2, RecordShape, MergeShape DEF Maps, Undone
<1>4. UndoneServers \in Maps
  BY <1>1, <1>3 DEF UndoneServers, Maps
<1>5. Deleted \subseteq DOMAIN batch.prior /\ \A i \in Deleted : batch.prior[i] # Absent
  BY DEF Deleted
<1>6. RestoredServers \in Maps
  <2> DEFINE tree == Regrown(Derived(UndoneGroups, UndoneServers), {batch.prior[i].group : i \in Deleted} \ {Root})
  <2>1. RestoredServers = [i \in ServerIds |-> IF i \in Deleted THEN [batch.prior[i] EXCEPT !.group = Home(@, tree)]
                                               ELSE UndoneServers[i]]
    BY DEF RestoredServers
  <2> HIDE DEF tree
  <2>2. ASSUME NEW i \in Deleted PROVE [batch.prior[i] EXCEPT !.group = Home(@, tree)] \in ServerRecords
    BY <1>2, <1>5, RecordShape, HomePath, NewGroup
  <2> QED
    BY <1>4, <2>1, <2>2 DEF Maps
<1>7. UndoneGroups \subseteq Paths
  BY <1>1 DEF UndoneGroups, Regrown, BatchTyped
<1> QED
  BY <1>2, <1>5, <1>6, <1>7

LEMMA RejectStep == CoreInv /\ SavesRejected => CoreInv' /\ ClosedStay
<1> SUFFICES ASSUME CoreInv, SavesRejected PROVE CoreInv' /\ ClosedStay
  OBVIOUS
<1>1. MapsOK /\ BatchTyped(batch) /\ batch.on /\ SessionsOK
  BY DEF CoreInv, BatchOK, NoBatch, SavesRejected
<1>2. /\ servers' = RestoredServers /\ groups' = UndoneGroups /\ status' = RestoredStatus /\ UNCHANGED serialized
      /\ source' = RestoredSource /\ batch' = NoBatch /\ ~batch'.on
  BY DEF SavesRejected, RestoredSource, NoBatch
<1>3. servers' \in Maps /\ groups' \subseteq Paths /\ status' \subseteq ServerIds
  BY <1>1, <1>2, RestoredShape DEF RestoredStatus, MapsOK
<1>4. source' = [exists |-> source'.exists, managed |-> source'.managed] /\ source'.exists \in BOOLEAN /\ source'.managed \subseteq Paths
  BY <1>1, <1>2 DEF MapsOK, BatchTyped, RestoredSource
<1>5. serialized' => LinksOf(servers')
  BY <1>1, <1>2 DEF CoreInv, RollbackLinks
<1>6. MapsOK'
  BY <1>3, <1>4, <1>5 DEF LinksOf, Maps, ServerRecords, Absent, Record, MapsOK
<1>7. BatchOK' /\ RollbackLinks' /\ RollbackAll'
  BY <1>2 DEF BatchOK, RollbackLinks, RollbackAll, Unaltered, NoBatch
<1>8. SessionsOK' /\ ClosedStay
  BY <1>1, <1>2 DEF SavesRejected, SessionsOK, Active, ClosedStay
<1> QED
  BY <1>6, <1>7, <1>8 DEF CoreInv

\* What a rollback at once after a batch would make of the servers and the folders.
Begins(R, S, touched, gone, N) ==
  /\ R \subseteq Live /\ S \in Maps /\ \A i \in R : S[i] = Absent
  /\ touched \subseteq ServerIds /\ R \subseteq touched /\ \A i \in ServerIds \ touched : S[i] = servers[i]
  /\ gone \subseteq groups /\ N \subseteq Paths /\ gone \cap N = {}
  /\ servers' = S /\ groups' = (groups \cup N) \ gone
  /\ batch'.prior = [i \in touched |-> servers[i]] /\ batch'.written = [i \in touched |-> S[i]]
  /\ batch'.added = N \ groups /\ batch'.gone = gone

LEMMA UndoneAtOnce ==
  ASSUME CoreInv, NEW R, NEW S, NEW touched, NEW gone, NEW N, Begins(R, S, touched, gone, N)
  PROVE  /\ SameLinks(servers, RestoredServers') /\ RestoredServers' \in Maps /\ R \subseteq Deleted'
         /\ (\A p \in gone : Len(p) <= 1 \/ Parent(p) \in groups) =>
              /\ UndoneGroups' = groups
              /\ (\A i \in Deleted' : Len(servers[i].group) <= 1 \/ Parent(servers[i].group) \in groups)
                   => RestoredServers' = servers
<1> USE DEF Begins
<1>0. servers \in Maps /\ groups \subseteq Paths
  BY DEF CoreInv, MapsOK
<1>1. Deleted' = {i \in touched : S[i] = Absent /\ servers[i] # Absent}
  BY DEF Deleted
<1>2. ASSUME NEW i \in ServerIds PROVE UndoneServers'[i] = IF S[i] = Absent THEN Absent ELSE servers[i]
  BY DEF UndoneServers, Undone
<1>3. UndoneGroups' = Regrown(groups \ gone, gone)
  BY DEF UndoneGroups, Regrown
<1>4. PICK D, U, G : D = Deleted' /\ U = UndoneServers' /\ G = UndoneGroups'
  OBVIOUS
<1> DEFINE tree == Regrown(Derived(G, U), {batch'.prior[i].group : i \in D} \ {Root})
<1>5. ASSUME NEW i \in ServerIds
      PROVE  RestoredServers'[i] = IF i \in D THEN [servers[i] EXCEPT !.group = Home(@, tree)] ELSE U[i]
  <2>1. RestoredServers' = [j \in ServerIds |-> IF j \in D THEN [batch'.prior[j] EXCEPT !.group = Home(@, tree)] ELSE U[j]]
    BY <1>4 DEF RestoredServers, Home, Regrown, Derived
  <2>2. i \in D => batch'.prior[i] = servers[i]
    BY <1>1, <1>4
  <2> HIDE DEF tree
  <2> QED
    BY <2>1, <2>2
<1>6. RestoredServers' = [i \in ServerIds |-> RestoredServers'[i]]
  BY DEF RestoredServers
<1>7. ASSUME NEW g \in groups, G = groups PROVE g \in tree
  BY <1>0, <1>7, PathShape DEF Derived, Regrown
<1> HIDE DEF tree
<1>8. ASSUME NEW i \in ServerIds
      PROVE  /\ RestoredServers'[i] \in ServerRecords /\ RestoredServers'[i].gateway = servers[i].gateway
             /\ RestoredServers'[i] = Absent <=> servers[i] = Absent
             /\ (i \in D => Home(servers[i].group, tree) = servers[i].group) => RestoredServers'[i] = servers[i]
  <2>1. PICK r \in ServerRecords : r = servers[i]
    BY <1>0 DEF Maps
  <2>2. CASE i \in D
    <3>1. r # Absent
      BY <1>1, <1>4, <2>1, <2>2
    <3>2. PICK h \in Paths \cup {Root} : h = Home(r.group, tree)
      BY RecordShape, HomePath
    <3>3. RestoredServers'[i] = [r EXCEPT !.group = h]
      BY <1>5, <2>1, <2>2, <3>2
    <3> QED
      BY <2>1, <2>2, <3>1, <3>2, <3>3, NewGroup
  <2>3. CASE i \notin D
    BY <1>1, <1>2, <1>4, <1>5, <2>1, <2>3
  <2> QED
    BY <2>2, <2>3
<1>9. SameLinks(servers, RestoredServers') /\ RestoredServers' \in Maps
  BY <1>6, <1>8 DEF SameLinks, Maps
<1>10. R \subseteq Deleted'
  BY <1>1 DEF Live
<1>11. ASSUME \A p \in gone : Len(p) <= 1 \/ Parent(p) \in groups PROVE UndoneGroups' = groups
  BY <1>0, <1>3, <1>11, RegrownAll
<1>12. ASSUME G = groups, \A i \in D : Len(servers[i].group) <= 1 \/ Parent(servers[i].group) \in groups
       PROVE  RestoredServers' = servers
  BY <1>0, RecordShape, <1>7, <1>12, HomePath, <1>8, <1>6 DEF Maps
<1> QED
  BY <1>4, <1>9, <1>10, <1>11, <1>12

LEMMA ApplyStep ==
  ASSUME CoreInv, ~batch.on, NEW R, R \subseteq Live, NEW U \in SUBSET ServerIds, R \cap U = {}, NEW up \in [U -> Existing],
         \A i \in U : up[i].stamped \/ up[i].gateway = NoServer \/ (LinksOf(servers) => servers[up[i].gateway] # Absent),
         NEW F \in SUBSET Paths, NEW prune \in BOOLEAN, Apply(R, up, F, prune)
  PROVE  CoreInv' /\ ClosedStay
<1>1. PICK S, N, gone : S = After(R, up) /\ N = Named(F) /\ gone = IF prune THEN Pruned(S, F) ELSE {}
  OBVIOUS
<1>2. PICK touched, managed :
        /\ touched = R \cup DOMAIN up \cup {i \in ServerIds : S[i] # servers[i]}
        /\ managed = NewManaged(S, F) \cup (((Candidates(S, F) \ gone) \cap (groups \cup N)))
  OBVIOUS
<1>3. /\ servers' = S /\ groups' = (groups \cup N) \ gone /\ DropSessions(R) /\ status' = status \ R
      /\ source' = IF source.exists THEN [source EXCEPT !.managed = managed] ELSE source
      /\ UNCHANGED serialized
  BY <1>1, <1>2 DEF Apply
<1>4. batch' = [on        |-> TRUE,
                prior     |-> [i \in touched |-> servers[i]],
                written   |-> [i \in touched |-> S[i]],
                added     |-> N \ groups,
                gone      |-> gone,
                sessions  |-> ActiveOf(R),
                activity  |-> activity \cap ActiveOf(R),
                focus     |-> focused,
                focusSet  |-> IF focused \in ActiveOf(R) THEN NoSession ELSE focused,
                tombs     |-> {},
                status    |-> status \cap R,
                managed   |-> source.managed,
                sourceMine |-> source.exists,
                alone     |-> TRUE,
                before    |-> <<servers, groups, source, status>>]
  BY <1>1, <1>2 DEF Apply
<1>5. MapsOK /\ SessionsOK /\ servers \in Maps /\ groups \subseteq Paths /\ R \subseteq ServerIds
  BY DEF CoreInv, MapsOK, Live
<1>6. /\ S \in Maps /\ \A i \in R : S[i] = Absent
      /\ LinksOf(servers) => LinksOf(S)
  BY <1>1, <1>5, AfterShape
<1>7. N \in SUBSET Paths
  BY <1>1, PathShape DEF Named
<1>8. gone \in SUBSET groups /\ gone \cap N = {}
  BY <1>1 DEF Pruned
<1>9. touched \in SUBSET ServerIds /\ R \subseteq touched /\ \A i \in ServerIds \ touched : S[i] = servers[i]
  BY <1>2, <1>5
<1>10. managed \subseteq Paths
  BY <1>1, <1>5, <1>7, <1>2 DEF MapsOK, NewManaged, BelowTarget, Candidates
<1>11. PICK e \in BOOLEAN, m \in SUBSET Paths : source = [exists |-> e, managed |-> m]
  BY <1>5 DEF MapsOK
<1>12. source' = IF e THEN [exists |-> e, managed |-> managed] ELSE source
  BY <1>3, <1>11
<1>13. MapsOK'
  BY <1>10, <1>11, <1>12, <1>3, <1>5, <1>7, <1>6 DEF LinksOf, Maps, ServerRecords, Absent, Record, MapsOK
<1>14. /\ batch'.on /\ batch'.prior = [i \in touched |-> servers[i]] /\ batch'.written = [i \in touched |-> S[i]]
       /\ batch'.added = N \ groups /\ batch'.gone = gone /\ batch'.sessions = ActiveOf(R) /\ batch'.tombs = {}
       /\ batch'.focus = focused /\ batch'.focusSet = (IF focused \in ActiveOf(R) THEN NoSession ELSE focused)
       /\ batch'.status = status \cap R /\ batch'.managed = source.managed /\ batch'.sourceMine = source.exists
       /\ batch'.before = <<servers, groups, source, status>>
  BY <1>4
<1>15. BatchOK'
  BY <1>4, <1>5, <1>6, <1>9, <1>14, <1>8, <1>11 DEF BatchOf, Maps, BatchTyped, BatchOK, NoBatch
<1>16. SessionsOK' /\ ClosedStay
  BY <1>3, <1>5, <1>14 DEF ActiveOf, DropSessions, SessionsOK, ClosedStay, Active
<1>17. /\ SameLinks(servers, RestoredServers') /\ RestoredServers' \in Maps /\ R \subseteq Deleted'
       /\ (\A p \in gone : Len(p) <= 1 \/ Parent(p) \in groups) =>
            /\ UndoneGroups' = groups
            /\ (\A i \in Deleted' : Len(servers[i].group) <= 1 \/ Parent(servers[i].group) \in groups)
                 => RestoredServers' = servers
  <2>1. Begins(R, S, touched, gone, N)
    BY <1>3, <1>6, <1>7, <1>8, <1>9, <1>14 DEF Begins
  <2> QED
    BY <2>1, UndoneAtOnce
<1>18. RollbackLinks'
  BY <1>5, <1>17, LinksKept, <1>3 DEF LinksOf, RollbackLinks, MapsOK
<1>19. RollbackAll'
  <2> SUFFICES ASSUME Unaltered' PROVE <<RestoredServers', UndoneGroups', RestoredSource', RestoredStatus'>> = batch'.before
    BY DEF RollbackAll
  <2>1. batch'.before[2] = groups
    BY <1>14
  <2>2. \A p \in gone : Len(p) <= 1 \/ Parent(p) \in groups
    BY <1>14, <2>1 DEF Unaltered, Rooted
  <2>3. \A i \in Deleted' : batch'.prior[i] = servers[i]
    BY <1>14 DEF Deleted
  <2>4. \A i \in Deleted' : Len(servers[i].group) <= 1 \/ Parent(servers[i].group) \in groups
    BY <2>1, <2>3 DEF Unaltered, Rooted
  <2>5. RestoredServers' = servers /\ UndoneGroups' = groups
    BY <1>17, <2>2, <2>4
  <2>6. RestoredSource' = source
    BY <1>11, <1>12, <1>14 DEF RestoredSource
  <2>7. RestoredStatus' = status
    BY <1>3, <1>14, <1>17 DEF RestoredStatus
  <2> QED
    BY <1>14, <2>5, <2>6, <2>7
<1> QED
  BY <1>13, <1>15, <1>16, <1>18, <1>19 DEF CoreInv

LEMMA BatchBegins == CoreInv /\ (DisposeOfServers \/ \E R \in SUBSET ServerIds, U \in Small(ServerIds), g \in Paths,
                                    gw \in ServerIds \cup {NoServer} : ApplySync(R, U, g, gw)) => CoreInv' /\ ClosedStay
<1> SUFFICES ASSUME CoreInv PROVE DisposeOfServers \/ (\E R \in SUBSET ServerIds, U \in Small(ServerIds), g \in Paths,
                                    gw \in ServerIds \cup {NoServer} : ApplySync(R, U, g, gw)) => CoreInv' /\ ClosedStay
  OBVIOUS
<1>0. servers \in Maps
  BY DEF CoreInv, MapsOK
<1>1. ASSUME NEW R \in SUBSET ServerIds, NEW U \in Small(ServerIds), NEW g \in Paths, NEW gw \in ServerIds \cup {NoServer},
             ApplySync(R, U, g, gw)
      PROVE  CoreInv' /\ ClosedStay
  BY <1>1, ApplyStep DEF Record, Existing, Small, ApplySync
<1>2. ASSUME DisposeOfServers PROVE CoreInv' /\ ClosedStay
  <2>1. PICK D : D = DispositionTargets
    OBVIOUS
  <2>2. D \subseteq Live /\ D \in SUBSET ServerIds /\ ~batch.on
    BY <1>2, <2>1 DEF DispositionTargets, StillOwn, Live, DisposeOfServers
  <2>3. CASE Apply(D, << >>, {}, FALSE)
    <3>1. << >> \in [{} -> Existing] /\ {} \in SUBSET ServerIds /\ {} \in SUBSET Paths /\ D \cap {} = {}
      OBVIOUS
    <3> QED
      BY <2>2, <2>3, <3>1, ApplyStep
  <2>4. CASE Apply({}, [i \in D |-> [servers[i] EXCEPT !.owned = FALSE]], {}, FALSE)
    <3>1. PICK up : up = [i \in D |-> [servers[i] EXCEPT !.owned = FALSE]]
      OBVIOUS
    <3>2. ASSUME NEW i \in D
          PROVE  /\ up[i] \in Existing
                 /\ up[i].gateway = NoServer \/ (LinksOf(servers) => servers[up[i].gateway] # Absent)
      BY <1>0, <2>2, <3>1, NewContent DEF Live, Maps, LinksOf
    <3>3. up \in [D -> Existing]
      BY <3>1, <3>2
    <3>4. {} \subseteq Live /\ {} \cap D = {} /\ {} \in SUBSET Paths
      OBVIOUS
    <3> QED
      BY <2>2, <2>4, <3>1, <3>2, <3>3, <3>4, ApplyStep
  <2> QED
    BY <1>2, <2>1, <2>3, <2>4 DEF DisposeOfServers
<1> QED
  BY <1>1, <1>2

LEMMA CoreStep == CoreInv /\ [CoreNext]_coreVars => CoreInv' /\ ClosedStay
<1> SUFFICES ASSUME CoreInv, [CoreNext]_coreVars PROVE CoreInv' /\ ClosedStay
  OBVIOUS
<1>1. ASSUME MapsOK', Notes, SessionsStand PROVE CoreInv' /\ ClosedStay
  BY <1>1, NotesFrame DEF ClosedStay
<1>2. CASE \E i \in ServerIds : RemoveServer(i) \/ EditServer(i) \/ \E g \in Paths : AddServer(i, g)
  BY <1>1, <1>2, OtherNotes, EditStep
<1>3. CASE \/ \E p \in Paths : AddGroup(p) \/ RemoveFolderDeleting(p) \/ RemoveFolderKeeping(p)
           \/ \E old, new \in Paths : RenameFolder(old, new)
  BY <1>1, <1>3, FolderStep
<1>4. CASE RemoveSource \/ RestoreSource \/ \E S \in SUBSET ServerIds : ApplyStatus(S)
  BY <1>1, <1>4, OtherNotes
<1>5. CASE \/ \E x \in SessionIds, i \in ServerIds : RegisterSession(x, i)
           \/ \E x \in SessionIds : UnregisterSession(x) \/ MarkActivity(x) \/ ClearActivity(x)
           \/ \E x \in SessionIds \cup {NoSession} : SetFocused(x)
  BY <1>5, CallbackStep
<1>6. CASE \/ \E R \in SUBSET ServerIds, U \in Small(ServerIds), g \in Paths, gw \in ServerIds \cup {NoServer} :
                ApplySync(R, U, g, gw)
           \/ DisposeOfServers
  BY <1>6, BatchBegins
<1>7. CASE SavesResolve \/ SavesRejected
  BY <1>7, ResolveStep, RejectStep
<1>8. CASE UNCHANGED coreVars
  <2>1. UNCHANGED <<servers, groups, session, activity, focused, status, source, serialized, batch>>
    BY <1>8 DEF coreVars
  <2>2. MapsOK' /\ RollbackLinks' /\ RollbackAll'
    BY <2>1, RollbackFrame DEF Noted
  <2>3. BatchOK'
    BY <2>1 DEF CoreInv, BatchOK, BatchTyped, BatchOf, NoBatch
  <2>4. SessionsOK' /\ ClosedStay
    BY <2>1 DEF CoreInv, SessionsOK, Active, ClosedStay
  <2> QED
    BY <2>2, <2>3, <2>4 DEF CoreInv
<1> QED
  BY <1>2, <1>3, <1>4, <1>5, <1>6, <1>7, <1>8 DEF CoreNext

LEMMA CoreAlways == CoreSpec => []CoreInv
<1>1. CoreInv /\ [CoreNext]_coreVars => CoreInv'
  BY CoreStep
<1> QED
  BY <1>1, CoreInitial, PTL DEF CoreSpec

\* Where the callers of NexusCore hold configMutationLock no gateway link is ever left pointing at a
\* server that is gone: not by a deletion, which sweeps, not by a sync, which
\* checks what a template set, and not by the rollback of a rejected save, which
\* brings both ends of a link back.
THEOREM LinksAreKept == CoreSpec => []GatewayResolves
<1>1. CoreInv => GatewayResolves
  BY InvImpliesResolves
<1> QED
  BY <1>1, CoreAlways, PTL

LEMMA RollsBack ==
  CoreInv /\ Undisturbed /\ (\A i \in Deleted : Rooted(batch.prior[i].group)) /\ (\A p \in batch.gone : Rooted(p))
    => <<servers, groups, source, status>>' = batch.before
BY DEF Undisturbed, SavesRejected, RestoredSource, Unaltered, CoreInv, RollbackAll

LEMMA KeepsEdits ==
  ASSUME CoreInv, SavesRejected
  PROVE  /\ \A i \in DOMAIN batch.prior :
              /\ (servers[i] = Absent /\ batch.written[i] # Absent) => servers'[i] = Absent
              /\ (servers[i] # Absent) =>
                   \A f \in DOMAIN servers[i] : servers[i][f] # batch.written[i][f] => servers'[i][f] = servers[i][f]
         /\ groups \ batch.added \subseteq groups'
<1>1. servers' = RestoredServers /\ groups' = UndoneGroups /\ servers \in Maps /\ BatchTyped(batch)
  BY DEF SavesRejected, CoreInv, MapsOK, BatchOK, NoBatch
<1>2. groups \ batch.added \subseteq groups'
  BY <1>1 DEF UndoneGroups, Regrown
<1>3. ASSUME NEW i \in DOMAIN batch.prior
      PROVE  /\ (servers[i] = Absent /\ batch.written[i] # Absent) => servers'[i] = Absent
             /\ (servers[i] # Absent) =>
                  \A f \in DOMAIN servers[i] : servers[i][f] # batch.written[i][f] => servers'[i][f] = servers[i][f]
  BY <1>1, RecordShape DEF BatchTyped, Maps, Undone, RestoredServers, UndoneServers, Deleted, Existing, Merge
<1> QED
  BY <1>2, <1>3

\* A rejected save undoes its own batch and nothing else: what nobody has changed
\* since is put back, a field, a deletion or a folder of the user's stays, and no
\* terminal that was closed meanwhile is tracked again.
THEOREM RollbackIsSafe == CoreSpec => RollbackSafe
<1>1. ASSUME CoreInv, [CoreNext]_coreVars
      PROVE  /\ [/\ Undisturbed
                 /\ \A i \in Deleted : Rooted(batch.prior[i].group)
                 /\ \A p \in batch.gone : Rooted(p)
                 => <<servers, groups, source, status>>' = batch.before]_coreVars
             /\ [SavesRejected =>
                   /\ \A i \in DOMAIN batch.prior :
                        /\ (servers[i] = Absent /\ batch.written[i] # Absent) => servers'[i] = Absent
                        /\ (servers[i] # Absent) =>
                             \A f \in DOMAIN servers[i] : servers[i][f] # batch.written[i][f] => servers'[i][f] = servers[i][f]
                   /\ groups \ batch.added \subseteq groups']_coreVars
             /\ [/\ \A x \in SessionIds : session[x] = "closed" => session'[x] = "closed"
                 /\ (activity \cup {focused})' \subseteq {x \in SessionIds : session'[x] = "active"} \cup {NoSession}]_coreVars
  BY <1>1, RollsBack, KeepsEdits, CoreStep DEF CoreInv, SessionsOK, Active, ClosedStay
<1> QED
  BY <1>1, CoreAlways, PTL DEF CoreSpec, RollbackSafe, RollbackUndoesBatch, RollbackExact, EditsSurviveRollback, ClosedForGood

------------------------------------------------------------------------------
(* The plan of a sync                                                         *)

PlanValues == Nat \cup {"none", "ssh", "telnet", "mine", "source"} \cup Gateways
FieldMaps == [Fields -> PlanValues]
PlannedServers == [owner : {"nobody", "sync", "kept"}, val : FieldMaps, stamp : FieldMaps,
                   addressless : BOOLEAN, ownKey : BOOLEAN]

\* A value is one the form, or a device, can give its field.
Sensible(s) ==
  /\ s.val.host \in Hosts \cup {0} /\ s.val.port \in {0, 22, 23, 99} /\ s.val.protocol \in {"ssh", "telnet"}
  /\ s.val.altHost \in Hosts \cup {0} /\ s.val.ipmiHost \in Hosts \cup {0}
  /\ s.val.auth \in {"none", "mine", "source"}

------------------------------------------------------------------------------
(* The fields of a server                                                     *)

LEMMA BlankMap ==
  /\ Blank \in FieldMaps
  /\ Blank.host = 0 /\ Blank.port = 0 /\ Blank.protocol = "ssh" /\ Blank.altHost = 0 /\ Blank.ipmiHost = 0
  /\ Blank.auth = "none" /\ Blank.gateway = "none"
BY DEF Blank, FieldMaps, Fields, PlanValues

LEMMA SameMap ==
  ASSUME NEW m \in FieldMaps, NEW n \in FieldMaps,
         m.host = n.host, m.port = n.port, m.protocol = n.protocol, m.altHost = n.altHost,
         m.ipmiHost = n.ipmiHost, m.auth = n.auth, m.gateway = n.gateway
  PROVE  m = n
BY DEF FieldMaps, Fields

LEMMA MapValues ==
  ASSUME NEW m \in FieldMaps
  PROVE  /\ m.host \in PlanValues /\ m.port \in PlanValues /\ m.protocol \in PlanValues /\ m.altHost \in PlanValues
         /\ m.ipmiHost \in PlanValues /\ m.auth \in PlanValues /\ m.gateway \in PlanValues
BY DEF FieldMaps, Fields

LEMMA SameServer ==
  ASSUME NEW s \in PlannedServers, NEW t \in PlannedServers,
         s.owner = t.owner, s.addressless = t.addressless, s.ownKey = t.ownKey,
         s.val = t.val, s.stamp = t.stamp
  PROVE  s = t
BY DEF PlannedServers

LEMMA UnmadeServer ==
  /\ Unmade \in PlannedServers /\ Unmade.owner = "nobody" /\ Unmade.val = Blank /\ Unmade.stamp = Blank
  /\ Unmade.addressless = FALSE /\ Unmade.ownKey = FALSE
BY BlankMap DEF Unmade, PlannedServers

LEMMA ServerParts ==
  ASSUME NEW s \in PlannedServers
  PROVE  /\ s.owner \in {"nobody", "sync", "kept"} /\ s.val \in FieldMaps /\ s.stamp \in FieldMaps
         /\ s.addressless \in BOOLEAN /\ s.ownKey \in BOOLEAN
BY DEF PlannedServers

\* What an assignment of fields does to a server.
LEMMA TakenServer ==
  ASSUME NEW s \in PlannedServers, NEW T, NEW o \in FieldMaps
  PROVE  /\ Taken(s, T, o) \in PlannedServers
         /\ Taken(s, T, o).owner = s.owner /\ Taken(s, T, o).addressless = s.addressless
         /\ Taken(s, T, o).ownKey = s.ownKey
         /\ \A f \in Fields : /\ Taken(s, T, o).val[f] = IF f \in T THEN o[f] ELSE s.val[f]
                              /\ Taken(s, T, o).stamp[f] = IF f \in T THEN o[f] ELSE s.stamp[f]
BY ServerParts DEF Taken, FieldMaps, PlannedServers

\* t is s but for some of its fields.
SameBut(s, t, F) ==
  /\ t \in PlannedServers
  /\ t.owner = s.owner /\ t.addressless = s.addressless /\ t.ownKey = s.ownKey
  /\ \A f \in Fields \ F : t.val[f] = s.val[f] /\ t.stamp[f] = s.stamp[f]

\* Both the value and the stamp of a field.
Has(t, f, v) == t.val[f] = v /\ t.stamp[f] = v

LEMMA TakenFields ==
  ASSUME NEW s \in PlannedServers, NEW T, NEW o \in FieldMaps
  PROVE  /\ SameBut(s, Taken(s, T, o), T)
         /\ \A f \in Fields \cap T : Has(Taken(s, T, o), f, o[f])
BY TakenServer DEF SameBut, Has

LEMMA SameButFields ==
  ASSUME NEW s, NEW F, NEW t, SameBut(s, t, F)
  PROVE  /\ t \in PlannedServers
         /\ t.owner = s.owner /\ t.addressless = s.addressless /\ t.ownKey = s.ownKey
         /\ "host" \notin F => t.val.host = s.val.host /\ t.stamp.host = s.stamp.host
         /\ "port" \notin F => t.val.port = s.val.port /\ t.stamp.port = s.stamp.port
         /\ "protocol" \notin F => t.val.protocol = s.val.protocol /\ t.stamp.protocol = s.stamp.protocol
         /\ "altHost" \notin F => t.val.altHost = s.val.altHost /\ t.stamp.altHost = s.stamp.altHost
         /\ "ipmiHost" \notin F => t.val.ipmiHost = s.val.ipmiHost /\ t.stamp.ipmiHost = s.stamp.ipmiHost
         /\ "auth" \notin F => t.val.auth = s.val.auth /\ t.stamp.auth = s.stamp.auth
         /\ "gateway" \notin F => t.val.gateway = s.val.gateway /\ t.stamp.gateway = s.stamp.gateway
BY DEF SameBut, Fields

\* A server all of whose fields are kept is kept.
LEMMA AllKept ==
  ASSUME NEW s \in PlannedServers, NEW t, SameBut(s, t, {})
  PROVE  t = s
BY ServerParts, SameServer DEF SameBut, FieldMaps

------------------------------------------------------------------------------
(* The link and the gateway                                                   *)

Fills(s) == profile = "usable" /\ s.val.auth = "none" /\ s.stamp.auth = "none" /\ ~s.ownKey

LEMMA OfferedAuth == [Blank EXCEPT !.auth = "source"] \in FieldMaps /\ [Blank EXCEPT !.auth = "source"].auth = "source"
BY BlankMap DEF FieldMaps, Fields, PlanValues

LEMMA FillKeeps ==
  ASSUME NEW s \in PlannedServers
  PROVE  /\ SameBut(s, AuthFilled(s), {"auth"})
         /\ Fills(s) => Has(AuthFilled(s), "auth", "source")
         /\ ~Fills(s) => AuthFilled(s) = s
<1>0. SameBut(s, s, {"auth"})  BY DEF SameBut
<1>1. PICK o : o = [Blank EXCEPT !.auth = "source"]  OBVIOUS
<1>2. o \in FieldMaps /\ o.auth = "source"  BY <1>1, OfferedAuth
<1>3. SameBut(s, Taken(s, {"auth"}, o), {"auth"}) /\ \A f \in Fields \cap {"auth"} : Has(Taken(s, {"auth"}, o), f, o[f])
  BY <1>2, TakenFields
<1>4. Has(Taken(s, {"auth"}, o), "auth", "source")  BY <1>2, <1>3 DEF Fields
<1>5. AuthFilled(s) = IF Fills(s) THEN Taken(s, {"auth"}, o) ELSE s  BY <1>1 DEF AuthFilled, Fills
<1> QED BY <1>0, <1>3, <1>4, <1>5

LEMMA RollBackKeeps ==
  ASSUME NEW s \in PlannedServers
  PROVE  /\ SameBut(s, RolledBack(s), {"auth"})
         /\ Unlinks(s) => Has(RolledBack(s), "auth", "none")
         /\ ~Unlinks(s) => RolledBack(s) = s
BY BlankMap, TakenFields DEF SameBut, Fields, RolledBack

LEMMA AltKeeps ==
  ASSUME NEW s \in PlannedServers
  PROVE  /\ SameBut(s, AltCleared(s), {"altHost"})
         /\ s.val.altHost # 0 /\ s.val.altHost = s.val.host /\ s.stamp.altHost = s.val.altHost =>
              Has(AltCleared(s), "altHost", 0)
         /\ ~(s.val.altHost # 0 /\ s.val.altHost = s.val.host /\ s.stamp.altHost = s.val.altHost) => AltCleared(s) = s
BY BlankMap, TakenFields DEF SameBut, Fields, AltCleared

LEMMA OfferedGateway ==
  ASSUME NEW g \in Gateways
  PROVE  [Blank EXCEPT !.gateway = g] \in FieldMaps /\ [Blank EXCEPT !.gateway = g].gateway = g
BY BlankMap DEF FieldMaps, Fields, PlanValues

\* A gateway is written, blanked or kept, and a blank one only when it could not be kept.
LEMMA GatewayKeeps ==
  ASSUME NEW s \in PlannedServers, template.to \in Gateways \cup {"none"}
  PROVE  /\ SameBut(s, GatewayWritten(s), {"gateway"})
         /\ MatrixWrites(s) /\ template.to \in Survivors => Has(GatewayWritten(s), "gateway", template.to)
         /\ MatrixWrites(s) /\ template.to \notin Survivors /\ s.val.gateway \notin Survivors =>
              Has(GatewayWritten(s), "gateway", "none")
         /\ ~MatrixWrites(s) \/ (template.to \notin Survivors /\ s.val.gateway \in Survivors) => GatewayWritten(s) = s
<1>0. SameBut(s, s, {"gateway"})  BY DEF SameBut
<1>1. SameBut(s, Taken(s, {"gateway"}, Blank), {"gateway"}) /\ \A f \in Fields \cap {"gateway"} : Has(Taken(s, {"gateway"}, Blank), f, Blank[f])
  BY BlankMap, TakenFields
<1>2. Has(Taken(s, {"gateway"}, Blank), "gateway", "none")  BY BlankMap, <1>1 DEF Fields
<1>3. PICK o : o = [Blank EXCEPT !.gateway = template.to]  OBVIOUS
<1>4. ASSUME MatrixWrites(s)
      PROVE  SameBut(s, Taken(s, {"gateway"}, o), {"gateway"}) /\ Has(Taken(s, {"gateway"}, o), "gateway", template.to)
  <2>1. template.to \in Gateways  BY <1>4 DEF MatrixWrites, Desired
  <2>2. o \in FieldMaps /\ o.gateway = template.to  BY <1>3, <2>1, OfferedGateway
  <2>3. SameBut(s, Taken(s, {"gateway"}, o), {"gateway"}) /\ \A f \in Fields \cap {"gateway"} : Has(Taken(s, {"gateway"}, o), f, o[f])
    BY <2>2, TakenFields
  <2> QED BY <2>2, <2>3 DEF Fields
<1> QED BY <1>0, <1>1, <1>2, <1>3, <1>4 DEF GatewayWritten

LEMMA DropKeeps ==
  ASSUME NEW s \in PlannedServers
  PROVE  /\ SameBut(s, GatewayDropped(s), {"gateway"})
         /\ s.val.gateway # "none" /\ s.val.gateway = s.stamp.gateway /\ s.val.gateway \notin Survivors =>
              Has(GatewayDropped(s), "gateway", "none")
         /\ ~(s.val.gateway # "none" /\ s.val.gateway = s.stamp.gateway /\ s.val.gateway \notin Survivors) =>
              GatewayDropped(s) = s
BY BlankMap, TakenFields DEF SameBut, Fields, GatewayDropped

------------------------------------------------------------------------------
(* The address                                                                *)

LEMMA EndpointFields ==
  ASSUME NEW d \in DeviceStates, NEW p
  PROVE  /\ EndpointFor(d, p).host \in Hosts \cup {0} /\ EndpointFor(d, p).port \in {22, 23}
         /\ EndpointFor(d, p).protocol = p
         /\ p = "telnet" => EndpointFor(d, p).host = d.telnet /\ EndpointFor(d, p).port = 23
         /\ p # "telnet" => EndpointFor(d, p).host = d.ssh /\ EndpointFor(d, p).port = 22
BY DEF EndpointFor, Endpoint, DeviceStates

LEMMA PrimaryEndpoint ==
  ASSUME NEW d \in DeviceStates
  PROVE  /\ Primary(d).protocol \in {"ssh", "telnet"} /\ Primary(d) = EndpointFor(d, Primary(d).protocol)
         /\ Primary(d).host \in Hosts \cup {0} /\ Primary(d).port \in {22, 23}
         /\ Addressed(d) => Primary(d).host # 0
         /\ ~Addressed(d) => Primary(d).host = 0 /\ Primary(d).protocol = "ssh" /\ d.alt = 0
         /\ d.alt # 0 => Primary(d).host # d.alt
BY EndpointFields DEF Primary, DeviceStates, Addressed

\* The endpoint a sync decides the address against, and what it then takes.
EndOf(s, d) == EndpointFor(d, IF SyncOwns(s, "protocol", Primary(d).protocol) THEN Primary(d).protocol ELSE s.val.protocol)
TakesProtocol(s, d) == SyncOwns(s, "protocol", Primary(d).protocol)
TakesHost(s, d) == EndOf(s, d).host # 0 /\ SyncOwns(s, "host", EndOf(s, d).host)
TakesPort(s, d) == EndOf(s, d).host # 0 /\ SyncOwns(s, "port", EndOf(s, d).port)
TakesAlt(s, d) == d.alt # 0 /\ SyncOwns(s, "altHost", d.alt)
TakesIpmi(s, d) == d.oob # 0 /\ SyncOwns(s, "ipmiHost", d.oob)
Kept(s, u, f) == u.val[f] = s.val[f] /\ u.stamp[f] = s.stamp[f]

LEMMA EndFields ==
  ASSUME NEW d \in DeviceStates, NEW s
  PROVE  /\ EndOf(s, d).host \in Hosts \cup {0} /\ EndOf(s, d).port \in {22, 23}
         /\ TakesProtocol(s, d) => EndOf(s, d) = Primary(d)
         /\ ~TakesProtocol(s, d) => EndOf(s, d) = EndpointFor(d, s.val.protocol)
BY EndpointFields, PrimaryEndpoint DEF EndOf, TakesProtocol

AddressOf(s, d, u) ==
  /\ TakesHost(s, d) => Has(u, "host", EndOf(s, d).host)
  /\ ~TakesHost(s, d) => Kept(s, u, "host")
  /\ TakesPort(s, d) => Has(u, "port", EndOf(s, d).port)
  /\ ~TakesPort(s, d) => Kept(s, u, "port")
  /\ TakesProtocol(s, d) /\ TakesHost(s, d) /\ TakesPort(s, d) => Has(u, "protocol", Primary(d).protocol)
  /\ ~(TakesProtocol(s, d) /\ TakesHost(s, d) /\ TakesPort(s, d)) => Kept(s, u, "protocol")
  /\ u.addressless <=> (s.addressless /\ EndOf(s, d).host = 0)

IpmiOf(s, d, u) ==
  /\ TakesIpmi(s, d) => Has(u, "ipmiHost", d.oob)
  /\ ~TakesIpmi(s, d) => Kept(s, u, "ipmiHost")

\* A second address that is the first one is forgotten.
AltOf(s, d, u) ==
  /\ TakesAlt(s, d) /\ d.alt # u.val.host => Has(u, "altHost", d.alt)
  /\ TakesAlt(s, d) /\ d.alt = u.val.host => Has(u, "altHost", 0)
  /\ ~TakesAlt(s, d) /\ s.val.altHost # 0 /\ s.val.altHost = s.stamp.altHost /\ s.val.altHost = u.val.host => Has(u, "altHost", 0)
  /\ ~TakesAlt(s, d) /\ ~(s.val.altHost # 0 /\ s.val.altHost = s.stamp.altHost /\ s.val.altHost = u.val.host) => Kept(s, u, "altHost")

LinkOf(s, u) ==
  /\ Fills(s) => Has(u, "auth", "source")
  /\ Unlinks(s) => Has(u, "auth", "none")
  /\ ~Fills(s) /\ ~Unlinks(s) => Kept(s, u, "auth")

Like(s, u) == u \in PlannedServers /\ u.owner = s.owner /\ u.ownKey = s.ownKey

OfferOf(h, p, q, a, i) == [Blank EXCEPT !.host = h, !.port = p, !.protocol = q, !.altHost = a, !.ipmiHost = i]
AddressOffer(s, d) == OfferOf(EndOf(s, d).host, EndOf(s, d).port, Primary(d).protocol, d.alt, d.oob)

LEMMA Offer ==
  ASSUME NEW h \in PlanValues, NEW p \in PlanValues, NEW q \in PlanValues, NEW a \in PlanValues, NEW i \in PlanValues
  PROVE  /\ OfferOf(h, p, q, a, i) \in FieldMaps
         /\ OfferOf(h, p, q, a, i).host = h /\ OfferOf(h, p, q, a, i).port = p /\ OfferOf(h, p, q, a, i).protocol = q
         /\ OfferOf(h, p, q, a, i).altHost = a /\ OfferOf(h, p, q, a, i).ipmiHost = i
BY BlankMap DEF FieldMaps, Fields, OfferOf

LEMMA DeviceValues ==
  ASSUME NEW d \in DeviceStates
  PROVE  /\ d.ssh \in Hosts \cup {0} /\ d.alt \in Hosts \cup {0} /\ d.telnet \in Hosts \cup {0} /\ d.oob \in Hosts \cup {0}
         /\ d.here \in BOOLEAN /\ d.mapped \in BOOLEAN
BY DEF DeviceStates

LEMMA ValuesAreHosts == Hosts \cup {0, 22, 23, 99} \subseteq PlanValues /\ {"ssh", "telnet", "none", "mine", "source"} \subseteq PlanValues
BY PlanAssumption DEF PlanValues

LEMMA AddressOffered ==
  ASSUME NEW d \in DeviceStates, NEW s
  PROVE  /\ AddressOffer(s, d) \in FieldMaps
         /\ AddressOffer(s, d).host = EndOf(s, d).host /\ AddressOffer(s, d).port = EndOf(s, d).port
         /\ AddressOffer(s, d).protocol = Primary(d).protocol
         /\ AddressOffer(s, d).altHost = d.alt /\ AddressOffer(s, d).ipmiHost = d.oob
<1>1. /\ EndOf(s, d).host \in PlanValues /\ EndOf(s, d).port \in PlanValues /\ Primary(d).protocol \in PlanValues
      /\ d.alt \in PlanValues /\ d.oob \in PlanValues
  BY EndFields, PrimaryEndpoint, DeviceValues, ValuesAreHosts
<1>2. PICK h \in PlanValues, p \in PlanValues, q \in PlanValues :
        h = EndOf(s, d).host /\ p = EndOf(s, d).port /\ q = Primary(d).protocol
  BY <1>1
<1>3. PICK a \in PlanValues, i \in PlanValues : a = d.alt /\ i = d.oob  BY <1>1
<1>4. AddressOffer(s, d) = OfferOf(h, p, q, a, i)  BY <1>2, <1>3 DEF AddressOffer
<1>5. /\ OfferOf(h, p, q, a, i) \in FieldMaps
      /\ OfferOf(h, p, q, a, i).host = h /\ OfferOf(h, p, q, a, i).port = p /\ OfferOf(h, p, q, a, i).protocol = q
      /\ OfferOf(h, p, q, a, i).altHost = a /\ OfferOf(h, p, q, a, i).ipmiHost = i
  BY Offer
<1> QED BY <1>2, <1>3, <1>4, <1>5

AddressTaken(s, d) == {f \in Fields :
              \/ f = "host" /\ TakesHost(s, d)
              \/ f = "port" /\ TakesPort(s, d)
              \/ f = "protocol" /\ TakesProtocol(s, d) /\ TakesHost(s, d) /\ TakesPort(s, d)
              \/ f = "altHost" /\ TakesAlt(s, d)
              \/ f = "ipmiHost" /\ TakesIpmi(s, d)}

AddressWritten(s, d) == Taken(GatewayWritten(s), AddressTaken(s, d), AddressOffer(s, d))

LEMMA AddressedForm ==
  ASSUME NEW s, NEW d
  PROVE  AddressedUpdate(s, d) =
           AltCleared(RolledBack(AuthFilled([AddressWritten(s, d) EXCEPT !.addressless = @ /\ ~ClearsFlag(EndOf(s, d))])))
BY DEF AddressedUpdate, AddressWritten, AddressOffer, OfferOf, AddressTaken, EndOf, TakesHost, TakesPort, TakesProtocol, TakesAlt, TakesIpmi, Hands

LEMMA FlagSet ==
  ASSUME NEW s \in PlannedServers, NEW b \in BOOLEAN
  PROVE  /\ [s EXCEPT !.addressless = b] \in PlannedServers
         /\ [s EXCEPT !.addressless = b].addressless = b
         /\ [s EXCEPT !.addressless = b].owner = s.owner /\ [s EXCEPT !.addressless = b].ownKey = s.ownKey
         /\ [s EXCEPT !.addressless = b].val = s.val /\ [s EXCEPT !.addressless = b].stamp = s.stamp
BY DEF PlannedServers

\* The gateway, as the template and the deletion of gateways leave it.
GatewayOf(s, u) ==
  /\ MatrixWrites(s) /\ template.to \in Survivors => Has(u, "gateway", template.to)
  /\ MatrixWrites(s) /\ template.to \notin Survivors /\ s.val.gateway \notin Survivors => Has(u, "gateway", "none")
  /\ ~MatrixWrites(s) \/ (template.to \notin Survivors /\ s.val.gateway \in Survivors) => Kept(s, u, "gateway")

\* The end of an update: the link, then the second address.
LEMMA LinkedThenCleared ==
  ASSUME NEW t \in PlannedServers, NEW u, u = AltCleared(RolledBack(AuthFilled(t)))
  PROVE  /\ u \in PlannedServers /\ u.owner = t.owner /\ u.ownKey = t.ownKey /\ u.addressless = t.addressless
         /\ LinkOf(t, u)
         /\ Kept(t, u, "host") /\ Kept(t, u, "port") /\ Kept(t, u, "protocol") /\ Kept(t, u, "ipmiHost") /\ Kept(t, u, "gateway")
         /\ t.val.altHost # 0 /\ t.val.altHost = t.val.host /\ t.stamp.altHost = t.val.altHost => Has(u, "altHost", 0)
         /\ ~(t.val.altHost # 0 /\ t.val.altHost = t.val.host /\ t.stamp.altHost = t.val.altHost) => Kept(t, u, "altHost")
<1>1. PICK a : a = AuthFilled(t)  OBVIOUS
<1>2. PICK r : r = RolledBack(a)  OBVIOUS
<1>3. u = AltCleared(r)  BY <1>1, <1>2
<1>4. SameBut(t, a, {"auth"}) /\ (Fills(t) => Has(a, "auth", "source")) /\ (~Fills(t) => a = t)  BY <1>1, FillKeeps
<1>5. a \in PlannedServers  BY <1>4, SameButFields
<1>6. SameBut(a, r, {"auth"}) /\ (Unlinks(a) => Has(r, "auth", "none")) /\ (~Unlinks(a) => r = a)  BY <1>2, <1>5, RollBackKeeps
<1>7. r \in PlannedServers  BY <1>6, SameButFields
<1>8. /\ SameBut(r, u, {"altHost"})
      /\ r.val.altHost # 0 /\ r.val.altHost = r.val.host /\ r.stamp.altHost = r.val.altHost => Has(u, "altHost", 0)
      /\ ~(r.val.altHost # 0 /\ r.val.altHost = r.val.host /\ r.stamp.altHost = r.val.altHost) => u = r
  BY <1>3, <1>7, AltKeeps
<1>a. /\ a.owner = t.owner /\ a.addressless = t.addressless /\ a.ownKey = t.ownKey
      /\ Kept(t, a, "host") /\ Kept(t, a, "port") /\ Kept(t, a, "protocol") /\ Kept(t, a, "altHost") /\ Kept(t, a, "ipmiHost") /\ Kept(t, a, "gateway")
  BY <1>4, SameButFields DEF Kept
<1>b. /\ r.owner = a.owner /\ r.addressless = a.addressless /\ r.ownKey = a.ownKey
      /\ Kept(a, r, "host") /\ Kept(a, r, "port") /\ Kept(a, r, "protocol") /\ Kept(a, r, "altHost") /\ Kept(a, r, "ipmiHost") /\ Kept(a, r, "gateway")
  BY <1>6, SameButFields DEF Kept
<1>c. /\ u \in PlannedServers /\ u.owner = r.owner /\ u.addressless = r.addressless /\ u.ownKey = r.ownKey
      /\ Kept(r, u, "host") /\ Kept(r, u, "port") /\ Kept(r, u, "protocol") /\ Kept(r, u, "auth") /\ Kept(r, u, "ipmiHost") /\ Kept(r, u, "gateway")
  BY <1>8, SameButFields DEF Kept
<1>d. LinkOf(t, u)
  BY <1>4, <1>6, <1>c DEF Fills, Unlinks, LinkOf, Has, Kept
<1>e. /\ Kept(t, u, "host") /\ Kept(t, u, "port") /\ Kept(t, u, "protocol") /\ Kept(t, u, "ipmiHost") /\ Kept(t, u, "gateway")
      /\ Kept(t, r, "host") /\ Kept(t, r, "altHost")
  BY <1>a, <1>b, <1>c DEF Kept
<1>f. /\ t.val.altHost # 0 /\ t.val.altHost = t.val.host /\ t.stamp.altHost = t.val.altHost => Has(u, "altHost", 0)
      /\ ~(t.val.altHost # 0 /\ t.val.altHost = t.val.host /\ t.stamp.altHost = t.val.altHost) => Kept(t, u, "altHost")
  BY <1>8, <1>e DEF Kept
<1> QED BY <1>a, <1>b, <1>c, <1>d, <1>e, <1>f

\* Everything an update with an address does.
LEMMA AddressedOutcome ==
  ASSUME NEW s \in PlannedServers, NEW d \in DeviceStates, template.to \in Gateways \cup {"none"},
         NEW u, u = AddressedUpdate(s, d)
  PROVE  Like(s, u) /\ AddressOf(s, d, u) /\ IpmiOf(s, d, u) /\ AltOf(s, d, u) /\ LinkOf(s, u) /\ GatewayOf(s, u)
<1>1. PICK g : g = GatewayWritten(s)  OBVIOUS
<1>2. SameBut(s, g, {"gateway"})  BY <1>1, GatewayKeeps
<1>3. PICK T : T = AddressTaken(s, d)  OBVIOUS
<1>4. PICK o : o = AddressOffer(s, d)  OBVIOUS
<1>5. PICK w : w = Taken(g, T, o)  OBVIOUS
<1>6. PICK t : t = [w EXCEPT !.addressless = @ /\ ~ClearsFlag(EndOf(s, d))]  OBVIOUS
<1>7. u = AltCleared(RolledBack(AuthFilled(t)))  BY <1>1, <1>3, <1>4, <1>5, <1>6, AddressedForm DEF AddressWritten
<1>8. /\ g \in PlannedServers /\ g.owner = s.owner /\ g.ownKey = s.ownKey /\ g.addressless = s.addressless
      /\ Kept(s, g, "host") /\ Kept(s, g, "port") /\ Kept(s, g, "protocol") /\ Kept(s, g, "altHost") /\ Kept(s, g, "ipmiHost") /\ Kept(s, g, "auth")
  BY <1>2, SameButFields DEF Kept
<1>9. /\ o \in FieldMaps /\ o.host = EndOf(s, d).host /\ o.port = EndOf(s, d).port /\ o.protocol = Primary(d).protocol
      /\ o.altHost = d.alt /\ o.ipmiHost = d.oob
  BY <1>4, AddressOffered
<1>10. SameBut(g, w, T) /\ \A f \in Fields \cap T : Has(w, f, o[f])  BY <1>5, <1>8, <1>9, TakenFields
<1>11. w \in PlannedServers /\ w.owner = g.owner /\ w.ownKey = g.ownKey /\ w.addressless = g.addressless
  BY <1>10, SameButFields
<1>12. PICK b : b = (w.addressless /\ ~ClearsFlag(EndOf(s, d)))  OBVIOUS
<1>13. b \in BOOLEAN  BY <1>12
<1>14. t = [w EXCEPT !.addressless = b]  BY <1>6, <1>12
<1>15. t \in PlannedServers /\ t.addressless = b /\ t.owner = w.owner /\ t.ownKey = w.ownKey /\ t.val = w.val /\ t.stamp = w.stamp
  BY <1>11, <1>13, <1>14, FlagSet
<1>16. /\ "auth" \notin T /\ "gateway" \notin T
       /\ "host" \in T <=> TakesHost(s, d)
       /\ "port" \in T <=> TakesPort(s, d)
       /\ "protocol" \in T <=> TakesProtocol(s, d) /\ TakesHost(s, d) /\ TakesPort(s, d)
       /\ "altHost" \in T <=> TakesAlt(s, d)
       /\ "ipmiHost" \in T <=> TakesIpmi(s, d)
  BY <1>3 DEF AddressTaken, Fields
<1>17. /\ "host" \notin T => Kept(s, t, "host")
       /\ "port" \notin T => Kept(s, t, "port")
       /\ "protocol" \notin T => Kept(s, t, "protocol")
       /\ "altHost" \notin T => Kept(s, t, "altHost")
       /\ "ipmiHost" \notin T => Kept(s, t, "ipmiHost")
       /\ Kept(s, t, "auth") /\ Kept(g, t, "gateway")
  BY <1>8, <1>10, <1>15, <1>16, SameButFields DEF Kept
<1>18. /\ "host" \in T => Has(t, "host", o.host)
       /\ "port" \in T => Has(t, "port", o.port)
       /\ "protocol" \in T => Has(t, "protocol", o.protocol)
       /\ "altHost" \in T => Has(t, "altHost", o.altHost)
       /\ "ipmiHost" \in T => Has(t, "ipmiHost", o.ipmiHost)
  BY <1>10, <1>15 DEF Has, Fields
<1>19. /\ u \in PlannedServers /\ u.owner = t.owner /\ u.ownKey = t.ownKey /\ u.addressless = t.addressless
       /\ LinkOf(t, u)
       /\ Kept(t, u, "host") /\ Kept(t, u, "port") /\ Kept(t, u, "protocol") /\ Kept(t, u, "ipmiHost") /\ Kept(t, u, "gateway")
       /\ t.val.altHost # 0 /\ t.val.altHost = t.val.host /\ t.stamp.altHost = t.val.altHost => Has(u, "altHost", 0)
       /\ ~(t.val.altHost # 0 /\ t.val.altHost = t.val.host /\ t.stamp.altHost = t.val.altHost) => Kept(t, u, "altHost")
  BY <1>7, <1>15, LinkedThenCleared
<1>20. Like(s, u)  BY <1>8, <1>11, <1>15, <1>19 DEF Like
<1>21. AddressOf(s, d, u)
  <2>1. u.addressless <=> (s.addressless /\ EndOf(s, d).host = 0)
    BY <1>8, <1>11, <1>12, <1>15, <1>19 DEF ClearsFlag
  <2> QED BY <2>1, <1>9, <1>16, <1>17, <1>18, <1>19 DEF AddressOf, Kept, Has
<1>22. IpmiOf(s, d, u)  BY <1>9, <1>16, <1>17, <1>18, <1>19 DEF IpmiOf, Kept, Has
<1>23. GatewayOf(s, u)
  BY <1>17, <1>19, <1>1, GatewayKeeps DEF Kept, GatewayOf, Has
<1>24. LinkOf(s, u)
  BY <1>8, <1>11, <1>15, <1>17, <1>19 DEF Fills, Kept, Unlinks, LinkOf
<1>25. AltOf(s, d, u)
  BY <1>9, <1>16, <1>17, <1>18, <1>19 DEF AltOf, Kept, Has, TakesAlt
<1> QED BY <1>20, <1>21, <1>22, <1>23, <1>24, <1>25

\* Nothing is done about the second address.
LEMMA LinkedOnly ==
  ASSUME NEW t \in PlannedServers, NEW u, u = RolledBack(t)
  PROVE  /\ u \in PlannedServers /\ u.owner = t.owner /\ u.ownKey = t.ownKey /\ u.addressless = t.addressless
         /\ Unlinks(t) => Has(u, "auth", "none")
         /\ ~Unlinks(t) => Kept(t, u, "auth")
         /\ Kept(t, u, "host") /\ Kept(t, u, "port") /\ Kept(t, u, "protocol") /\ Kept(t, u, "altHost")
         /\ Kept(t, u, "ipmiHost") /\ Kept(t, u, "gateway")
BY RollBackKeeps, SameButFields DEF Kept

LEMMA FilledOnly ==
  ASSUME NEW t \in PlannedServers, NEW u, u = AuthFilled(t)
  PROVE  /\ u \in PlannedServers /\ u.owner = t.owner /\ u.ownKey = t.ownKey /\ u.addressless = t.addressless
         /\ Fills(t) => Has(u, "auth", "source")
         /\ ~Fills(t) => Kept(t, u, "auth")
         /\ Kept(t, u, "host") /\ Kept(t, u, "port") /\ Kept(t, u, "protocol") /\ Kept(t, u, "altHost")
         /\ Kept(t, u, "ipmiHost") /\ Kept(t, u, "gateway")
BY FillKeeps, SameButFields DEF Kept

LEMMA WrittenOnly ==
  ASSUME NEW t \in PlannedServers, NEW u, u = GatewayWritten(t), template.to \in Gateways \cup {"none"}
  PROVE  /\ u \in PlannedServers /\ u.owner = t.owner /\ u.ownKey = t.ownKey /\ u.addressless = t.addressless
         /\ GatewayOf(t, u)
         /\ Kept(t, u, "host") /\ Kept(t, u, "port") /\ Kept(t, u, "protocol") /\ Kept(t, u, "altHost")
         /\ Kept(t, u, "ipmiHost") /\ Kept(t, u, "auth")
BY GatewayKeeps, SameButFields DEF GatewayOf, Kept, Has

------------------------------------------------------------------------------
(* A device without an address                                                *)

Blanks(s) == SyncOwns(s, "host", 0) /\ SyncOwns(s, "port", 0)
BlankTaken(s, d) == {f \in Fields :
              \/ f \in {"host", "port"} /\ Blanks(s)
              \/ f = "protocol" /\ Blanks(s) /\ SyncOwns(s, f, "ssh")
              \/ f = "ipmiHost" /\ TakesIpmi(s, d)}
IpmiOffer(d) == [Blank EXCEPT !.ipmiHost = d.oob]

AddresslessOf(s, d, u) ==
  /\ Blanks(s) => Has(u, "host", 0) /\ Has(u, "port", 0)
  /\ ~Blanks(s) => Kept(s, u, "host") /\ Kept(s, u, "port")
  /\ Blanks(s) /\ SyncOwns(s, "protocol", "ssh") => Has(u, "protocol", "ssh")
  /\ ~(Blanks(s) /\ SyncOwns(s, "protocol", "ssh")) => Kept(s, u, "protocol")
  /\ Kept(s, u, "altHost")
  /\ u.addressless <=> Blanks(s)

UnlinkOf(s, u) ==
  /\ Unlinks(s) => Has(u, "auth", "none")
  /\ ~Unlinks(s) => Kept(s, u, "auth")

LEMMA IpmiOffered ==
  ASSUME NEW d \in DeviceStates
  PROVE  /\ IpmiOffer(d) \in FieldMaps /\ IpmiOffer(d).host = 0 /\ IpmiOffer(d).port = 0 /\ IpmiOffer(d).protocol = "ssh"
         /\ IpmiOffer(d).altHost = 0 /\ IpmiOffer(d).ipmiHost = d.oob
BY DeviceValues, ValuesAreHosts, BlankMap DEF IpmiOffer, FieldMaps, Fields

LEMMA AddresslessForm ==
  ASSUME NEW s, NEW d
  PROVE  AddresslessUpdate(s, d) =
           RolledBack([Taken(GatewayWritten(s), BlankTaken(s, d), IpmiOffer(d)) EXCEPT !.addressless = Blanks(s)])
BY DEF AddresslessUpdate, BlankTaken, IpmiOffer, Blanks, TakesIpmi, Hands

LEMMA AddresslessOutcome ==
  ASSUME NEW s \in PlannedServers, NEW d \in DeviceStates, template.to \in Gateways \cup {"none"},
         NEW u, u = AddresslessUpdate(s, d)
  PROVE  Like(s, u) /\ AddresslessOf(s, d, u) /\ IpmiOf(s, d, u) /\ UnlinkOf(s, u) /\ GatewayOf(s, u)
<1>1. PICK g : g = GatewayWritten(s)  OBVIOUS
<1>2. /\ g \in PlannedServers /\ g.owner = s.owner /\ g.ownKey = s.ownKey /\ g.addressless = s.addressless
      /\ GatewayOf(s, g)
      /\ Kept(s, g, "host") /\ Kept(s, g, "port") /\ Kept(s, g, "protocol") /\ Kept(s, g, "altHost") /\ Kept(s, g, "ipmiHost") /\ Kept(s, g, "auth")
  BY <1>1, WrittenOnly
<1>3. PICK T : T = BlankTaken(s, d)  OBVIOUS
<1>4. PICK o : o = IpmiOffer(d)  OBVIOUS
<1>5. PICK w : w = Taken(g, T, o)  OBVIOUS
<1>6. PICK b : b = Blanks(s)  OBVIOUS
<1>7. PICK t : t = [w EXCEPT !.addressless = b]  OBVIOUS
<1>8. u = RolledBack(t)  BY <1>1, <1>3, <1>4, <1>5, <1>6, <1>7, AddresslessForm
<1>9. o \in FieldMaps /\ o.host = 0 /\ o.port = 0 /\ o.protocol = "ssh" /\ o.ipmiHost = d.oob  BY <1>4, IpmiOffered
<1>10. SameBut(g, w, T) /\ \A f \in Fields \cap T : Has(w, f, o[f])  BY <1>2, <1>5, <1>9, TakenFields
<1>11. w \in PlannedServers /\ w.owner = g.owner /\ w.ownKey = g.ownKey  BY <1>10, SameButFields
<1>12. b \in BOOLEAN  BY <1>6 DEF Blanks
<1>13. t \in PlannedServers /\ t.addressless = b /\ t.owner = w.owner /\ t.ownKey = w.ownKey /\ t.val = w.val /\ t.stamp = w.stamp
  BY <1>7, <1>11, <1>12, FlagSet
<1>14. /\ "auth" \notin T /\ "gateway" \notin T /\ "altHost" \notin T
       /\ "host" \in T <=> Blanks(s)
       /\ "port" \in T <=> Blanks(s)
       /\ "protocol" \in T <=> Blanks(s) /\ SyncOwns(s, "protocol", "ssh")
       /\ "ipmiHost" \in T <=> TakesIpmi(s, d)
  BY <1>3 DEF BlankTaken, Fields
<1>15. /\ "host" \notin T => Kept(s, t, "host")
       /\ "port" \notin T => Kept(s, t, "port")
       /\ "protocol" \notin T => Kept(s, t, "protocol")
       /\ "ipmiHost" \notin T => Kept(s, t, "ipmiHost")
       /\ Kept(s, t, "altHost") /\ Kept(s, t, "auth") /\ Kept(g, t, "gateway")
  BY <1>2, <1>10, <1>13, <1>14, SameButFields DEF Kept
<1>16. /\ "host" \in T => Has(t, "host", 0)
       /\ "port" \in T => Has(t, "port", 0)
       /\ "protocol" \in T => Has(t, "protocol", "ssh")
       /\ "ipmiHost" \in T => Has(t, "ipmiHost", d.oob)
  BY <1>9, <1>10, <1>13 DEF Has, Fields
<1>17. /\ u \in PlannedServers /\ u.owner = t.owner /\ u.ownKey = t.ownKey /\ u.addressless = t.addressless
       /\ Unlinks(t) => Has(u, "auth", "none")
       /\ ~Unlinks(t) => Kept(t, u, "auth")
       /\ Kept(t, u, "host") /\ Kept(t, u, "port") /\ Kept(t, u, "protocol") /\ Kept(t, u, "altHost")
       /\ Kept(t, u, "ipmiHost") /\ Kept(t, u, "gateway")
  BY <1>8, <1>13, LinkedOnly
<1>18. Like(s, u)  BY <1>2, <1>11, <1>13, <1>17 DEF Like
<1>19. AddresslessOf(s, d, u)
  BY <1>6, <1>13, <1>17, <1>14, <1>15, <1>16 DEF AddresslessOf, Kept, Has
<1>20. IpmiOf(s, d, u)  BY <1>14, <1>15, <1>16, <1>17 DEF IpmiOf, Kept, Has
<1>21. UnlinkOf(s, u)
  BY <1>2, <1>11, <1>13, <1>15, <1>17 DEF Unlinks, Kept, UnlinkOf
<1>22. GatewayOf(s, u)  BY <1>2, <1>15, <1>17 DEF GatewayOf, Kept, Has
<1> QED BY <1>18, <1>19, <1>20, <1>21, <1>22

------------------------------------------------------------------------------
(* Adoption and addition                                                      *)

AdoptTaken(s, d) == {f \in Fields :
              \/ f = "protocol" /\ SyncOwns(s, f, Primary(d).protocol)
              \/ f = "altHost" /\ TakesAlt(s, d)
              \/ f = "ipmiHost" /\ TakesIpmi(s, d)}
AdoptOffer(d) == [Blank EXCEPT !.protocol = Primary(d).protocol, !.altHost = d.alt, !.ipmiHost = d.oob]

LEMMA ReclaimedServer ==
  ASSUME NEW s \in PlannedServers, NEW d, NEW r, r = Reclaimed(s, d)
  PROVE  /\ r \in PlannedServers /\ r.owner = "sync" /\ r.addressless = s.addressless /\ r.ownKey = s.ownKey
         /\ r.val = s.val
         /\ r.stamp.host = s.val.host /\ r.stamp.port = s.val.port
         /\ Kept(s, r, "protocol") /\ Kept(s, r, "altHost") /\ Kept(s, r, "ipmiHost") /\ Kept(s, r, "auth") /\ Kept(s, r, "gateway")
BY ServerParts, MapValues DEF FieldMaps, Fields, Reclaimed, PlannedServers, Kept

LEMMA AdoptedForm ==
  ASSUME NEW s, NEW d, NEW r, r = Reclaimed(s, d)
  PROVE  Adopted(s, d) = AltCleared(AuthFilled(Taken(GatewayWritten(r), AdoptTaken(r, d), AdoptOffer(d))))
BY DEF Adopted, AdoptTaken, AdoptOffer, TakesAlt, TakesIpmi, Hands

AdoptOf(s, d, u) ==
  /\ u.val.host = s.val.host /\ u.stamp.host = s.val.host /\ u.val.port = s.val.port /\ u.stamp.port = s.val.port
  /\ SyncOwns(s, "protocol", Primary(d).protocol) => Has(u, "protocol", Primary(d).protocol)
  /\ ~SyncOwns(s, "protocol", Primary(d).protocol) => Kept(s, u, "protocol")
  /\ u.addressless = s.addressless

FillOf(s, u) ==
  /\ Fills(s) => Has(u, "auth", "source")
  /\ ~Fills(s) => Kept(s, u, "auth")

LEMMA AdoptOffered ==
  ASSUME NEW d \in DeviceStates
  PROVE  /\ AdoptOffer(d) \in FieldMaps /\ AdoptOffer(d).protocol = Primary(d).protocol
         /\ AdoptOffer(d).altHost = d.alt /\ AdoptOffer(d).ipmiHost = d.oob
<1>1. 0 \in PlanValues /\ Primary(d).protocol \in PlanValues /\ d.alt \in PlanValues /\ d.oob \in PlanValues
  BY PrimaryEndpoint, DeviceValues, ValuesAreHosts
<1>2. PICK q \in PlanValues, a \in PlanValues, i \in PlanValues : q = Primary(d).protocol /\ a = d.alt /\ i = d.oob  BY <1>1
<1>3. PICK o : o = [Blank EXCEPT !.protocol = q, !.altHost = a, !.ipmiHost = i]  OBVIOUS
<1>4. o \in FieldMaps /\ o.protocol = q /\ o.altHost = a /\ o.ipmiHost = i
  BY <1>3, BlankMap DEF FieldMaps, Fields
<1>5. AdoptOffer(d) = o  BY <1>2, <1>3 DEF AdoptOffer
<1> QED BY <1>2, <1>4, <1>5

LEMMA AdoptedOutcome ==
  ASSUME NEW s \in PlannedServers, NEW d \in DeviceStates, template.to \in Gateways \cup {"none"},
         NEW u, u = Adopted(s, d)
  PROVE  /\ u \in PlannedServers /\ u.owner = "sync" /\ u.ownKey = s.ownKey
         /\ AdoptOf(s, d, u) /\ IpmiOf(s, d, u) /\ AltOf(s, d, u) /\ FillOf(s, u) /\ GatewayOf(s, u)
<1>0. PICK r : r = Reclaimed(s, d)  OBVIOUS
<1>r. /\ r \in PlannedServers /\ r.owner = "sync" /\ r.addressless = s.addressless /\ r.ownKey = s.ownKey
      /\ r.val = s.val
      /\ r.stamp.host = s.val.host /\ r.stamp.port = s.val.port
      /\ Kept(s, r, "protocol") /\ Kept(s, r, "altHost") /\ Kept(s, r, "ipmiHost") /\ Kept(s, r, "auth") /\ Kept(s, r, "gateway")
  BY <1>0, ReclaimedServer
<1>1. PICK g : g = GatewayWritten(r)  OBVIOUS
<1>2. /\ g \in PlannedServers /\ g.owner = r.owner /\ g.ownKey = r.ownKey /\ g.addressless = r.addressless
      /\ GatewayOf(r, g)
      /\ Kept(r, g, "host") /\ Kept(r, g, "port") /\ Kept(r, g, "protocol") /\ Kept(r, g, "altHost") /\ Kept(r, g, "ipmiHost") /\ Kept(r, g, "auth")
  BY <1>1, <1>r, WrittenOnly
<1>3. PICK T : T = AdoptTaken(r, d)  OBVIOUS
<1>4. PICK o : o = AdoptOffer(d)  OBVIOUS
<1>5. PICK t : t = Taken(g, T, o)  OBVIOUS
<1>6. PICK a : a = AuthFilled(t)  OBVIOUS
<1>7. u = AltCleared(a)  BY <1>0, <1>1, <1>3, <1>4, <1>5, <1>6, AdoptedForm
<1>8. o \in FieldMaps /\ o.protocol = Primary(d).protocol /\ o.altHost = d.alt /\ o.ipmiHost = d.oob  BY <1>4, AdoptOffered
<1>9. SameBut(g, t, T) /\ \A f \in Fields \cap T : Has(t, f, o[f])  BY <1>2, <1>5, <1>8, TakenFields
<1>10. t \in PlannedServers /\ t.owner = g.owner /\ t.ownKey = g.ownKey /\ t.addressless = g.addressless  BY <1>9, SameButFields
<1>11. /\ "auth" \notin T /\ "gateway" \notin T /\ "host" \notin T /\ "port" \notin T
       /\ "protocol" \in T <=> SyncOwns(r, "protocol", Primary(d).protocol)
       /\ "altHost" \in T <=> TakesAlt(r, d)
       /\ "ipmiHost" \in T <=> TakesIpmi(r, d)
  BY <1>3 DEF AdoptTaken, Fields
<1>12. /\ Kept(r, t, "host") /\ Kept(r, t, "port") /\ Kept(r, t, "auth") /\ Kept(g, t, "gateway")
       /\ "protocol" \notin T => Kept(r, t, "protocol")
       /\ "altHost" \notin T => Kept(r, t, "altHost")
       /\ "ipmiHost" \notin T => Kept(r, t, "ipmiHost")
  BY <1>2, <1>9, <1>11, SameButFields DEF Kept
<1>13. /\ "protocol" \in T => Has(t, "protocol", Primary(d).protocol)
       /\ "altHost" \in T => Has(t, "altHost", d.alt)
       /\ "ipmiHost" \in T => Has(t, "ipmiHost", d.oob)
  BY <1>8, <1>9 DEF Has, Fields
<1>14. /\ a \in PlannedServers /\ a.owner = t.owner /\ a.ownKey = t.ownKey /\ a.addressless = t.addressless
       /\ Fills(t) => Has(a, "auth", "source")
       /\ ~Fills(t) => Kept(t, a, "auth")
       /\ Kept(t, a, "host") /\ Kept(t, a, "port") /\ Kept(t, a, "protocol") /\ Kept(t, a, "altHost")
       /\ Kept(t, a, "ipmiHost") /\ Kept(t, a, "gateway")
  BY <1>6, <1>10, FilledOnly
<1>15. /\ SameBut(a, u, {"altHost"})
       /\ a.val.altHost # 0 /\ a.val.altHost = a.val.host /\ a.stamp.altHost = a.val.altHost => Has(u, "altHost", 0)
       /\ ~(a.val.altHost # 0 /\ a.val.altHost = a.val.host /\ a.stamp.altHost = a.val.altHost) => u = a
  BY <1>7, <1>14, AltKeeps
<1>16. /\ u \in PlannedServers /\ u.owner = a.owner /\ u.addressless = a.addressless /\ u.ownKey = a.ownKey
       /\ Kept(a, u, "host") /\ Kept(a, u, "port") /\ Kept(a, u, "protocol") /\ Kept(a, u, "auth") /\ Kept(a, u, "ipmiHost") /\ Kept(a, u, "gateway")
  BY <1>15, SameButFields DEF Kept
<1>17. SyncOwns(r, "protocol", Primary(d).protocol) <=> SyncOwns(s, "protocol", Primary(d).protocol)  BY <1>r DEF SyncOwns, Kept
<1>18. (TakesAlt(r, d) <=> TakesAlt(s, d)) /\ (TakesIpmi(r, d) <=> TakesIpmi(s, d))  BY <1>r DEF SyncOwns, Kept, TakesAlt, TakesIpmi
<1>19. Fills(t) <=> Fills(s)  BY <1>r, <1>2, <1>10, <1>12 DEF Fills, Kept
<1>20. AdoptOf(s, d, u)
  BY <1>r, <1>2, <1>10, <1>11, <1>12, <1>13, <1>14, <1>16, <1>17 DEF AdoptOf, Kept, Has
<1>21. IpmiOf(s, d, u)  BY <1>r, <1>11, <1>12, <1>13, <1>14, <1>16, <1>18 DEF IpmiOf, Kept, Has
<1>22. FillOf(s, u)  BY <1>r, <1>12, <1>14, <1>16, <1>19 DEF FillOf, Kept, Has
<1>23. GatewayOf(s, u)
  BY <1>r, <1>12, <1>14, <1>16, <1>2 DEF MatrixWrites, Kept, GatewayOf, Has
<1>24. AltOf(s, d, u)
  <2>1. /\ u.val.host = a.val.host
        /\ TakesAlt(s, d) => Has(a, "altHost", d.alt)
        /\ ~TakesAlt(s, d) => Kept(s, a, "altHost")
    BY <1>r, <1>11, <1>12, <1>13, <1>14, <1>16, <1>18 DEF Kept, Has
  <2> QED BY <2>1, <1>15 DEF AltOf, Has, Kept, TakesAlt
<1> QED BY <1>r, <1>2, <1>10, <1>14, <1>16, <1>20, <1>21, <1>22, <1>23, <1>24

\* A server that a sync adds has what its device has, and remembers it.
AddedOf(d, u) ==
  /\ u \in PlannedServers /\ u.owner = "sync" /\ u.ownKey = FALSE
  /\ u.addressless <=> ~Addressed(d)
  /\ Addressed(d) => Has(u, "host", Primary(d).host) /\ Has(u, "port", Primary(d).port)
  /\ ~Addressed(d) => Has(u, "host", 0) /\ Has(u, "port", 0)
  /\ Has(u, "protocol", Primary(d).protocol) /\ Has(u, "altHost", d.alt) /\ Has(u, "ipmiHost", d.oob)
  /\ profile = "usable" => Has(u, "auth", "source")
  /\ profile # "usable" => Has(u, "auth", "none")
  /\ Desired /\ template.to \in Survivors => Has(u, "gateway", template.to)
  /\ ~(Desired /\ template.to \in Survivors) => Has(u, "gateway", "none")

AddFields == {"host", "port", "protocol", "altHost", "ipmiHost"}
AddOffer(d) ==
  IF Addressed(d) THEN OfferOf(Primary(d).host, Primary(d).port, Primary(d).protocol, d.alt, d.oob)
  ELSE IpmiOffer(d)

LEMMA AddedForm ==
  ASSUME NEW d
  PROVE  Added(d) = AuthFilled(GatewayWritten(Taken([Unmade EXCEPT !.owner = "sync", !.addressless = ~Addressed(d)], AddFields, AddOffer(d))))
BY DEF Added, AddFields, AddOffer, OfferOf, IpmiOffer

LEMMA AddOffered ==
  ASSUME NEW d \in DeviceStates
  PROVE  /\ AddOffer(d) \in FieldMaps
         /\ Addressed(d) => AddOffer(d).host = Primary(d).host /\ AddOffer(d).port = Primary(d).port
         /\ ~Addressed(d) => AddOffer(d).host = 0 /\ AddOffer(d).port = 0
         /\ AddOffer(d).protocol = Primary(d).protocol /\ AddOffer(d).altHost = d.alt /\ AddOffer(d).ipmiHost = d.oob
<1>1. CASE Addressed(d)
  <2>1. /\ Primary(d).host \in PlanValues /\ Primary(d).port \in PlanValues /\ Primary(d).protocol \in PlanValues
        /\ d.alt \in PlanValues /\ d.oob \in PlanValues
    BY PrimaryEndpoint, DeviceValues, ValuesAreHosts
  <2>2. PICK h \in PlanValues, p \in PlanValues, q \in PlanValues :
          h = Primary(d).host /\ p = Primary(d).port /\ q = Primary(d).protocol
    BY <2>1
  <2>3. PICK a \in PlanValues, i \in PlanValues : a = d.alt /\ i = d.oob  BY <2>1
  <2>4. AddOffer(d) = OfferOf(h, p, q, a, i)  BY <1>1, <2>2, <2>3 DEF AddOffer
  <2>5. /\ OfferOf(h, p, q, a, i) \in FieldMaps
        /\ OfferOf(h, p, q, a, i).host = h /\ OfferOf(h, p, q, a, i).port = p /\ OfferOf(h, p, q, a, i).protocol = q
        /\ OfferOf(h, p, q, a, i).altHost = a /\ OfferOf(h, p, q, a, i).ipmiHost = i
    BY Offer
  <2> QED BY <1>1, <2>2, <2>3, <2>4, <2>5
<1>2. CASE ~Addressed(d)
  BY <1>2, IpmiOffered, PrimaryEndpoint DEF AddOffer
<1> QED BY <1>1, <1>2

LEMMA FreshServer ==
  ASSUME NEW b \in BOOLEAN, NEW n, n = [Unmade EXCEPT !.owner = "sync", !.addressless = b]
  PROVE  n \in PlannedServers /\ n.owner = "sync" /\ n.addressless = b /\ n.ownKey = FALSE /\ n.val = Blank /\ n.stamp = Blank
BY UnmadeServer DEF PlannedServers

LEMMA AddedOutcome ==
  ASSUME NEW d \in DeviceStates, template.to \in Gateways \cup {"none"}, "none" \notin Survivors, NEW u, u = Added(d)
  PROVE  AddedOf(d, u)
<1>1. PICK b \in BOOLEAN : b = ~Addressed(d)  BY DEF Addressed
<1>2. PICK n : n = [Unmade EXCEPT !.owner = "sync", !.addressless = b]  OBVIOUS
<1>3. n \in PlannedServers /\ n.owner = "sync" /\ n.addressless = b /\ n.ownKey = FALSE /\ n.val = Blank /\ n.stamp = Blank
  BY <1>2, FreshServer
<1>4. PICK o : o = AddOffer(d)  OBVIOUS
<1>5. PICK t : t = Taken(n, AddFields, o)  OBVIOUS
<1>6. PICK g : g = GatewayWritten(t)  OBVIOUS
<1>7. u = AuthFilled(g)  BY <1>1, <1>2, <1>4, <1>5, <1>6, AddedForm
<1>8. /\ o \in FieldMaps
      /\ Addressed(d) => o.host = Primary(d).host /\ o.port = Primary(d).port
      /\ ~Addressed(d) => o.host = 0 /\ o.port = 0
      /\ o.protocol = Primary(d).protocol /\ o.altHost = d.alt /\ o.ipmiHost = d.oob
  BY <1>4, AddOffered
<1>9. SameBut(n, t, AddFields) /\ \A f \in Fields \cap AddFields : Has(t, f, o[f])  BY <1>3, <1>5, <1>8, TakenFields
<1>10. /\ t \in PlannedServers /\ t.owner = "sync" /\ t.addressless = b /\ t.ownKey = FALSE
       /\ Has(t, "auth", "none") /\ Has(t, "gateway", "none")
  BY <1>3, <1>9, SameButFields, BlankMap DEF AddFields, Has
<1>11. /\ Has(t, "host", o.host) /\ Has(t, "port", o.port) /\ Has(t, "protocol", o.protocol)
       /\ Has(t, "altHost", o.altHost) /\ Has(t, "ipmiHost", o.ipmiHost)
  BY <1>9 DEF AddFields, Fields
<1>12. /\ g \in PlannedServers /\ g.owner = t.owner /\ g.ownKey = t.ownKey /\ g.addressless = t.addressless
       /\ GatewayOf(t, g)
       /\ Kept(t, g, "host") /\ Kept(t, g, "port") /\ Kept(t, g, "protocol") /\ Kept(t, g, "altHost")
       /\ Kept(t, g, "ipmiHost") /\ Kept(t, g, "auth")
  BY <1>6, <1>10, WrittenOnly
<1>13. /\ u \in PlannedServers /\ u.owner = g.owner /\ u.ownKey = g.ownKey /\ u.addressless = g.addressless
       /\ Fills(g) => Has(u, "auth", "source")
       /\ ~Fills(g) => Kept(g, u, "auth")
       /\ Kept(g, u, "host") /\ Kept(g, u, "port") /\ Kept(g, u, "protocol") /\ Kept(g, u, "altHost")
       /\ Kept(g, u, "ipmiHost") /\ Kept(g, u, "gateway")
  BY <1>7, <1>12, FilledOnly
<1>14. MatrixWrites(t) <=> Desired  BY <1>10 DEF MatrixWrites, Has
<1>15. /\ Desired /\ template.to \in Survivors => Has(u, "gateway", template.to)
       /\ ~(Desired /\ template.to \in Survivors) => Has(u, "gateway", "none")
  BY <1>10, <1>12, <1>13, <1>14 DEF GatewayOf, Has, Kept
<1>16. Fills(g) <=> profile = "usable"  BY <1>10, <1>12 DEF Fills, Has, Kept
<1>17. /\ profile = "usable" => Has(u, "auth", "source")
       /\ profile # "usable" => Has(u, "auth", "none")
  BY <1>10, <1>12, <1>13, <1>16 DEF Has, Kept
<1>18. /\ Has(u, "host", o.host) /\ Has(u, "port", o.port) /\ Has(u, "protocol", o.protocol)
       /\ Has(u, "altHost", o.altHost) /\ Has(u, "ipmiHost", o.ipmiHost)
  BY <1>11, <1>12, <1>13 DEF Has, Kept
<1>19. u.owner = "sync" /\ u.ownKey = FALSE /\ (u.addressless <=> ~Addressed(d))  BY <1>1, <1>10, <1>12, <1>13
<1> QED BY <1>8, <1>13, <1>15, <1>17, <1>18, <1>19 DEF AddedOf

------------------------------------------------------------------------------
(* A plan settles                                                             *)

LEMMA AddressSettles ==
  ASSUME NEW s \in PlannedServers, NEW u, NEW d \in DeviceStates, AddressOf(s, d, u), Addressed(d)
  PROVE  AddressOf(u, d, u)
BY EndFields, PrimaryEndpoint DEF AddressOf, TakesProtocol, SyncOwns, Has, Kept, TakesHost, TakesPort

LEMMA IpmiSettles ==
  ASSUME NEW s, NEW u, NEW d, IpmiOf(s, d, u)
  PROVE  IpmiOf(u, d, u)
BY DEF IpmiOf, TakesIpmi, SyncOwns, Has, Kept

LEMMA AltSettles ==
  ASSUME NEW s, NEW u, NEW d, AltOf(s, d, u)
  PROVE  AltOf(u, d, u)
BY DEF AltOf, TakesAlt, SyncOwns, Has, Kept

LEMMA LinkSettles ==
  ASSUME NEW s, NEW u, u.ownKey = s.ownKey, LinkOf(s, u)
  PROVE  ~Fills(u) /\ ~Unlinks(u)
BY DEF LinkOf, Fills, Unlinks, Has, Kept

LEMMA UnlinkSettles ==
  ASSUME NEW s, NEW u, u.ownKey = s.ownKey, UnlinkOf(s, u)
  PROVE  ~Unlinks(u)
BY DEF UnlinkOf, Unlinks, Has, Kept

LEMMA AddresslessSettles ==
  ASSUME NEW s, NEW u, NEW d, AddresslessOf(s, d, u)
  PROVE  AddresslessOf(u, d, u)
BY DEF AddresslessOf, Blanks, SyncOwns, Has, Kept

LEMMA AddedSettles ==
  ASSUME NEW d \in DeviceStates, NEW u, AddedOf(d, u)
  PROVE  /\ Addressed(d) => AddressOf(u, d, u) /\ AltOf(u, d, u) /\ ~Fills(u)
         /\ ~Addressed(d) => AddresslessOf(u, d, u)
         /\ IpmiOf(u, d, u) /\ ~Unlinks(u)
<1>1. ~Unlinks(u) /\ ~Fills(u)  BY DEF AddedOf, Unlinks, Fills, Has
<1>2. IpmiOf(u, d, u)  BY DEF AddedOf, IpmiOf, Has, Kept
<1>3. ASSUME Addressed(d) PROVE AddressOf(u, d, u) /\ AltOf(u, d, u)
  BY EndFields, <1>3, PrimaryEndpoint DEF AddedOf, TakesProtocol, SyncOwns, Has, AddressOf, Kept, AltOf
<1>4. ASSUME ~Addressed(d) PROVE AddresslessOf(u, d, u)
  BY <1>4, PrimaryEndpoint DEF AddedOf, AddresslessOf, Blanks, SyncOwns, Has, Kept
<1> QED BY <1>1, <1>2, <1>3, <1>4

\* When no gateway is deleted, the template writes its gateway once.
LEMMA GatewaySettles ==
  ASSUME NEW s, NEW u, GatewayOf(s, u), gateways \subseteq Survivors
  PROVE  ~MatrixWrites(u)
BY DEF MatrixWrites, Desired, Survivors, GatewayOf, Has, Kept

------------------------------------------------------------------------------
(* The invariant of the plan                                                  *)

ServerSound ==
  /\ server \in PlannedServers /\ Sensible(server) /\ ValidRecord
  /\ server.owner = "nobody" => server = Unmade /\ hand = {}
  /\ server.addressless => Has(server, "host", 0) /\ Has(server, "port", 0)
  /\ server.val.gateway \in {"none"} \cup gateways

WorldSound ==
  /\ device \in DeviceStates /\ gateways \subseteq Gateways /\ gwTree \subseteq Gateways
  /\ template.to \in Gateways \cup {"none"} /\ template \in [to : Gateways \cup {"none"}, mode : {"fill", "override"}]
  /\ rival => server.owner = "kept"

\* What the user typed differs from what the sync wrote, and an address has no blank.
HandSound ==
  /\ hand \subseteq Fields /\ \A f \in hand : server.val[f] # server.stamp[f]
  /\ "host" \in hand => server.val.host # 0
  /\ "port" \in hand => server.val.port # 0

\* A sync has done to the server all that a sync does to it.
Settled ==
  /\ gateways = Survivors
  /\ server.owner = "sync" /\ device.here => ~Unlinks(server)
  /\ server.owner = "sync" /\ device.here /\ device.mapped => ~MatrixWrites(server) /\ IpmiOf(server, device, server)
  /\ server.owner = "sync" /\ device.here /\ device.mapped /\ Addressed(device) =>
       ~Fills(server) /\ AddressOf(server, device, server) /\ AltOf(server, device, server)
  /\ server.owner = "sync" /\ device.here /\ device.mapped /\ ~Addressed(device) => AddresslessOf(server, device, server)
  /\ server.owner = "sync" /\ ~device.here => policy # "delete"
  /\ server.owner = "nobody" => ~(device.here /\ device.mapped)

FreshSound == fresh => attached /\ Settled

PlanInv == ServerSound /\ WorldSound /\ HandSound /\ FreshSound

\* The cases a plan distinguishes.
Refreshed(s, d) == ~rival /\ s.owner = "sync" /\ d.here /\ d.mapped /\ Addressed(d)
Blanked(s, d) == ~rival /\ s.owner = "sync" /\ d.here /\ d.mapped /\ ~Addressed(d)
Broken(s, d) == ~rival /\ s.owner = "sync" /\ d.here /\ ~d.mapped
Removed(s, d) == ~rival /\ s.owner = "sync" /\ ~d.here /\ policy = "delete"
Taking(s, d, c) == ~rival /\ s.owner = "kept" /\ d.here /\ d.mapped /\ Eligible(s, d) /\ c = "adopt"
Making(s, d) == ~rival /\ s.owner = "nobody" /\ d.here /\ d.mapped

PlanOf(s, d, c, t) ==
  /\ Refreshed(s, d) => t = AddressedUpdate(s, d)
  /\ Blanked(s, d) => t = AddresslessUpdate(s, d)
  /\ Broken(s, d) => t = RolledBack(s)
  /\ Removed(s, d) => t = Unmade
  /\ Taking(s, d, c) => t = Adopted(s, d)
  /\ Making(s, d) => t = Added(d)
  /\ ~(Refreshed(s, d) \/ Blanked(s, d) \/ Broken(s, d) \/ Removed(s, d) \/ Taking(s, d, c) \/ Making(s, d)) => t = s

LEMMA PlanCases ==
  ASSUME NEW s, NEW c
  PROVE  \E t : PlanOf(s, device, c, t) /\ Planned(s, c) = GatewayDropped(t)
BY DEF Planned, PlanOf, Refreshed, Blanked, Broken, Removed, Taking, Making

\* The fields of a settled server are those its update gives it.
LEMMA SameHas ==
  ASSUME NEW s, NEW u, NEW f, NEW x, Has(s, f, x), Has(u, f, x)
  PROVE  Kept(s, u, f)
BY DEF Has, Kept

LEMMA KeptAll ==
  ASSUME NEW s \in PlannedServers, NEW u \in PlannedServers, u.owner = s.owner, u.ownKey = s.ownKey, u.addressless = s.addressless,
         Kept(s, u, "host"), Kept(s, u, "port"), Kept(s, u, "protocol"), Kept(s, u, "altHost"), Kept(s, u, "ipmiHost"),
         Kept(s, u, "auth"), Kept(s, u, "gateway")
  PROVE  u = s
BY ServerParts, SameMap, SameServer DEF Kept

LEMMA SettledPlan ==
  ASSUME PlanInv, fresh
  PROVE  Planned(server, "decline") = server
<1>1. PICK s : s = server  OBVIOUS
<1>2. PICK d : d = device  OBVIOUS
<1>3. /\ s \in PlannedServers /\ d \in DeviceStates /\ template.to \in Gateways \cup {"none"} /\ "none" \notin Gateways
      /\ s.addressless \in BOOLEAN
  BY <1>1, <1>2, PlanAssumption, ServerParts DEF PlanInv, ServerSound, WorldSound
<1>4. Settled  BY DEF PlanInv, FreshSound
<1>5. PICK t : PlanOf(s, d, "decline", t) /\ Planned(s, "decline") = GatewayDropped(t)  BY <1>2, PlanCases
<1>6. t = s
  <2>1. CASE Refreshed(s, d)
    <3>1. t = AddressedUpdate(s, d)  BY <2>1, <1>5 DEF PlanOf
    <3>2. Like(s, t) /\ AddressOf(s, d, t) /\ IpmiOf(s, d, t) /\ AltOf(s, d, t) /\ LinkOf(s, t) /\ GatewayOf(s, t)
      BY <3>1, <1>3, AddressedOutcome
    <3>3. AddressOf(s, d, s) /\ IpmiOf(s, d, s) /\ AltOf(s, d, s) /\ ~Fills(s) /\ ~Unlinks(s) /\ ~MatrixWrites(s)
      BY <2>1, <1>1, <1>2, <1>4 DEF Settled, Refreshed
    <3>4. t \in PlannedServers /\ t.owner = s.owner /\ t.ownKey = s.ownKey  BY <3>2 DEF Like
    <3>5. t.addressless = s.addressless
      BY <3>4, ServerParts, <3>2, <3>3, <1>3 DEF AddressOf
    <3>6. Kept(s, t, "host") /\ Kept(s, t, "port") /\ Kept(s, t, "protocol")
      BY <3>2, <3>3 DEF AddressOf, Has, Kept
    <3>7. Kept(s, t, "ipmiHost")  BY <3>2, <3>3 DEF IpmiOf, Has, Kept
    <3>8. t.val.host = s.val.host  BY <3>6 DEF Kept
    <3>9. Kept(s, t, "altHost")  BY <3>2, <3>3, <3>8 DEF AltOf, Has, Kept
    <3>10. Kept(s, t, "auth") /\ Kept(s, t, "gateway")  BY <3>2, <3>3 DEF LinkOf, GatewayOf
    <3> QED BY <1>3, <3>4, <3>5, <3>6, <3>7, <3>9, <3>10, KeptAll
  <2>2. CASE Blanked(s, d)
    <3>1. t = AddresslessUpdate(s, d)  BY <2>2, <1>5 DEF PlanOf
    <3>2. Like(s, t) /\ AddresslessOf(s, d, t) /\ IpmiOf(s, d, t) /\ UnlinkOf(s, t) /\ GatewayOf(s, t)
      BY <3>1, <1>3, AddresslessOutcome
    <3>3. AddresslessOf(s, d, s) /\ IpmiOf(s, d, s) /\ ~Unlinks(s) /\ ~MatrixWrites(s)
      BY <2>2, <1>1, <1>2, <1>4 DEF Settled, Blanked
    <3>4. t \in PlannedServers /\ t.owner = s.owner /\ t.ownKey = s.ownKey  BY <3>2 DEF Like
    <3>5. t.addressless = s.addressless
      BY <3>4, ServerParts, <3>2, <3>3, <1>3 DEF AddresslessOf
    <3>6. Kept(s, t, "host") /\ Kept(s, t, "port") /\ Kept(s, t, "protocol") /\ Kept(s, t, "altHost")
      BY <3>2, <3>3 DEF AddresslessOf, Has, Kept
    <3>7. Kept(s, t, "ipmiHost")  BY <3>2, <3>3 DEF IpmiOf, Has, Kept
    <3>10. Kept(s, t, "auth") /\ Kept(s, t, "gateway")  BY <3>2, <3>3 DEF UnlinkOf, GatewayOf
    <3> QED BY <1>3, <3>4, <3>5, <3>6, <3>7, <3>10, KeptAll
  <2>3. CASE Broken(s, d)
    BY <2>3, <1>1, <1>2, <1>4, <1>5 DEF Settled, Broken, PlanOf, RolledBack
  <2>4. ~Removed(s, d) /\ ~Taking(s, d, "decline") /\ ~Making(s, d)
    BY <1>1, <1>2, <1>4 DEF Settled, Removed, Taking, Making
  <2> QED BY <2>1, <2>2, <2>3, <2>4, <1>5 DEF PlanOf
<1>7. s.val.gateway = "none" \/ s.val.gateway \in Survivors
  BY <1>1, <1>4 DEF PlanInv, ServerSound, Settled
<1>8. GatewayDropped(s) = s  BY <1>3, <1>7, DropKeeps
<1> QED BY <1>1, <1>5, <1>6, <1>8

LEMMA PlanValuesTyped ==
  ASSUME PlanInv
  PROVE  PlanTypeOK
BY ServerParts, BlankMap DEF PlanInv, ServerSound, Sensible, Fields, Values, WorldSound, PlanTypeOK

LEMMA PlanInvSettled ==
  ASSUME PlanInv
  PROVE  SettledAndUsable
BY SettledPlan, PlanValuesTyped DEF PlanInv, FreshSound, Settled, NoUnusableLink, Unlinks, SyncSettles, ServerSound,
   SettledAndUsable

------------------------------------------------------------------------------
(* A sync keeps the records valid                                             *)

SoundOf(s) ==
  /\ s \in PlannedServers /\ Sensible(s)
  /\ s.owner # "nobody" /\ s.addressless => Has(s, "host", 0) /\ Has(s, "port", 0)
  /\ s.owner # "nobody" /\ ~s.addressless => s.val.host # 0 /\ s.val.port # 0
  /\ s.owner = "nobody" => s = Unmade

LEMMA UnmadeSound == SoundOf(Unmade)
BY UnmadeServer, BlankMap DEF SoundOf, Sensible

LEMMA RefreshSound ==
  ASSUME NEW s, SoundOf(s), s.owner = "sync", NEW d \in DeviceStates, template.to \in Gateways \cup {"none"},
         NEW t, t = AddressedUpdate(s, d)
  PROVE  SoundOf(t)
<1>0. s \in PlannedServers  BY DEF SoundOf
<1>1. Like(s, t) /\ AddressOf(s, d, t) /\ IpmiOf(s, d, t) /\ AltOf(s, d, t) /\ LinkOf(s, t)  BY <1>0, AddressedOutcome
<1>2. EndOf(s, d).host \in Hosts \cup {0} /\ EndOf(s, d).port \in {22, 23} /\ Primary(d).protocol \in {"ssh", "telnet"}
  BY EndFields, PrimaryEndpoint
<1>3. d.alt \in Hosts \cup {0} /\ d.oob \in Hosts \cup {0}  BY DeviceValues
<1>4. Sensible(s)  BY DEF SoundOf
<1>5. Sensible(t)
  BY <1>1, <1>2, <1>4, <1>3 DEF AddressOf, Has, Kept, Sensible, AltOf, IpmiOf, LinkOf
<1>6. t \in PlannedServers /\ t.owner = "sync"  BY <1>1 DEF Like
<1>7. CASE s.addressless
  BY <1>7, <1>1, <1>5, <1>6, <1>2 DEF SoundOf, TakesHost, TakesPort, AddressOf, Has, Kept, SyncOwns
<1>8. CASE ~s.addressless
  BY <1>1, <1>8, <1>2, <1>5, <1>6 DEF SoundOf, AddressOf, Has, Kept, TakesHost
<1> QED BY <1>7, <1>8

LEMMA BlankSound ==
  ASSUME NEW s, SoundOf(s), s.owner = "sync", NEW d \in DeviceStates, template.to \in Gateways \cup {"none"},
         NEW t, t = AddresslessUpdate(s, d)
  PROVE  SoundOf(t)
<1>0. s \in PlannedServers  BY DEF SoundOf
<1>1. Like(s, t) /\ AddresslessOf(s, d, t) /\ IpmiOf(s, d, t) /\ UnlinkOf(s, t)  BY <1>0, AddresslessOutcome
<1>3. d.oob \in Hosts \cup {0}  BY DeviceValues
<1>4. Sensible(s)  BY DEF SoundOf
<1>5. Sensible(t)
  BY <1>1, <1>4, <1>3 DEF AddresslessOf, Has, Kept, Sensible, IpmiOf, UnlinkOf
<1>6. t \in PlannedServers /\ t.owner = "sync"  BY <1>1 DEF Like
<1>7. CASE Blanks(s)
  BY <1>1, <1>5, <1>6, <1>7 DEF SoundOf, AddresslessOf, Has
<1>8. CASE ~Blanks(s)
  BY <1>8, <1>1, <1>5, <1>6 DEF SoundOf, Blanks, SyncOwns, Has, AddresslessOf, Kept
<1> QED BY <1>7, <1>8

LEMMA AdoptSound ==
  ASSUME NEW s, SoundOf(s), s.owner = "kept", NEW d \in DeviceStates, template.to \in Gateways \cup {"none"},
         Eligible(s, d), NEW t, t = Adopted(s, d)
  PROVE  SoundOf(t)
<1>0. s \in PlannedServers  BY DEF SoundOf
<1>1. /\ t \in PlannedServers /\ t.owner = "sync"
      /\ AdoptOf(s, d, t) /\ IpmiOf(s, d, t) /\ AltOf(s, d, t) /\ FillOf(s, t)
  BY <1>0, AdoptedOutcome
<1>2. Primary(d).protocol \in {"ssh", "telnet"} /\ Primary(d).host # 0 /\ s.val.host = Primary(d).host
  BY PrimaryEndpoint DEF Eligible
<1>3. d.alt \in Hosts \cup {0} /\ d.oob \in Hosts \cup {0}  BY DeviceValues
<1>4. Sensible(s)  BY DEF SoundOf
<1>5. Sensible(t)
  BY <1>1, <1>2, <1>4, <1>3 DEF AdoptOf, Has, Kept, Sensible, AltOf, IpmiOf, FillOf
<1>6. ~s.addressless  BY <1>2 DEF SoundOf, Has
<1>7. s.val.host # 0 /\ s.val.port # 0  BY <1>6 DEF SoundOf
<1> QED BY <1>1, <1>5, <1>6, <1>7 DEF SoundOf, AdoptOf

LEMMA AddSound ==
  ASSUME NEW d \in DeviceStates, template.to \in Gateways \cup {"none"}, "none" \notin Survivors, NEW t, t = Added(d)
  PROVE  SoundOf(t)
<1>1. AddedOf(d, t)  BY AddedOutcome
<1>2. /\ Primary(d).protocol \in {"ssh", "telnet"} /\ Primary(d).host \in Hosts \cup {0} /\ Primary(d).port \in {22, 23}
      /\ Addressed(d) => Primary(d).host # 0
  BY PrimaryEndpoint
<1>3. d.alt \in Hosts \cup {0} /\ d.oob \in Hosts \cup {0}  BY DeviceValues
<1>4. Sensible(t)  BY <1>1, <1>2, <1>3 DEF AddedOf, Has, Sensible
<1>5. CASE Addressed(d)  BY <1>1, <1>2, <1>4, <1>5 DEF AddedOf, Has, SoundOf
<1>6. CASE ~Addressed(d)  BY <1>1, <1>4, <1>6 DEF AddedOf, Has, SoundOf
<1> QED BY <1>5, <1>6

LEMMA RollBackSound ==
  ASSUME NEW s, SoundOf(s), s.owner = "sync", NEW t, t = RolledBack(s)
  PROVE  SoundOf(t)
BY LinkedOnly DEF SoundOf, Sensible, Has, Kept

LEMMA PlanKeepsSound ==
  ASSUME NEW s, SoundOf(s), NEW d \in DeviceStates, template.to \in Gateways \cup {"none"}, "none" \notin Survivors,
         NEW c, NEW t, PlanOf(s, d, c, t)
  PROVE  SoundOf(t)
BY RefreshSound, BlankSound, RollBackSound, UnmadeSound, AdoptSound, AddSound DEF PlanOf, Refreshed, Blanked,
   Broken, Taking

\* The gateway a plan leaves is one that was there, or one that will be.
LEMMA PlanGateway ==
  ASSUME NEW s, SoundOf(s), NEW d \in DeviceStates, template.to \in Gateways \cup {"none"}, "none" \notin Survivors,
         NEW c, NEW t, PlanOf(s, d, c, t)
  PROVE  t.val.gateway \in {"none", s.val.gateway} \cup Survivors
<1>0. s \in PlannedServers  BY DEF SoundOf
<1>1. CASE Refreshed(s, d)
  BY <1>0, <1>1, AddressedOutcome DEF PlanOf, GatewayOf, Has, Kept
<1>2. CASE Blanked(s, d)
  BY <1>0, <1>2, AddresslessOutcome DEF PlanOf, GatewayOf, Has, Kept
<1>3. CASE Broken(s, d)
  BY <1>0, <1>3, LinkedOnly DEF PlanOf, Kept
<1>4. CASE Removed(s, d)  BY <1>4, UnmadeServer, BlankMap DEF PlanOf
<1>5. CASE Taking(s, d, c)
  BY <1>0, <1>5, AdoptedOutcome DEF PlanOf, GatewayOf, Has, Kept
<1>6. CASE Making(s, d)
  BY <1>6, AddedOutcome DEF PlanOf, AddedOf, Has
<1> QED BY <1>1, <1>2, <1>3, <1>4, <1>5, <1>6 DEF PlanOf

------------------------------------------------------------------------------
(* Gateways that go                                                           *)

LEMMA SweptServer ==
  ASSUME NEW t \in PlannedServers, NEW v, v = Swept(t)
  PROVE  /\ SameBut(t, v, {"gateway"})
         /\ t.val.gateway \in gateways \ Survivors => v.val.gateway = "none"
         /\ t.val.gateway \notin gateways \ Survivors => v = t
BY ServerParts, MapValues, ValuesAreHosts DEF Swept, SameBut, FieldMaps, Fields, PlannedServers

\* What the end of a sync does to the server that is planned.
LEMMA EndOfSync ==
  ASSUME NEW t \in PlannedServers, t.val.gateway \in {"none"} \cup Survivors \cup gateways, "none" \notin Survivors \cup gateways,
         NEW v, v = Swept(GatewayDropped(t))
  PROVE  /\ SameBut(t, v, {"gateway"}) /\ v.val.gateway \in {"none"} \cup Survivors
         /\ t.val.gateway \in {"none"} \cup Survivors => v = t
         /\ t.val.gateway # t.stamp.gateway /\ v.val.gateway = t.val.gateway => v = t
         /\ v.val.gateway # t.val.gateway => t.val.gateway \notin Survivors
BY DropKeeps, SameButFields, SweptServer DEF SameBut, Has

------------------------------------------------------------------------------
(* What the user typed                                                        *)

LEMMA OfferedFields ==
  ASSUME device \in DeviceStates
  PROVE  /\ Offered("host") = {device.ssh, device.telnet}
         /\ device.ssh # 0 => 22 \in Offered("port")
         /\ device.telnet # 0 => 23 \in Offered("port")
         /\ Offered("protocol") = {Primary(device).protocol}
         /\ Offered("altHost") = {device.alt} /\ Offered("ipmiHost") = {device.oob}
BY DEF Offered

LEMMA EndOffered ==
  ASSUME device \in DeviceStates, NEW s
  PROVE  /\ EndOf(s, device).host \in Offered("host")
         /\ EndOf(s, device).host # 0 => EndOf(s, device).port \in Offered("port")
BY EndpointFields, OfferedFields DEF EndOf

\* s holds a value of the user's in field f, and no device offers it.
Typical(s, f) ==
  /\ f \in Fields /\ s.val[f] # s.stamp[f] /\ s.val[f] \notin Offered(f)
  /\ f \in {"host", "port"} => s.val[f] # 0

LEMMA HandKept ==
  ASSUME device \in DeviceStates, NEW s, SoundOf(s), s.owner # "nobody", template.to \in Gateways \cup {"none"},
         NEW f, Typical(s, f),
         NEW c, NEW t, PlanOf(s, device, c, t), t.owner # "nobody"
  PROVE  Kept(s, t, f)
<1>0. s \in PlannedServers /\ f \in Fields /\ s.val[f] # s.stamp[f] /\ s.val[f] \notin Offered(f)
  BY DEF SoundOf, Typical
<1>a. PICK d : d = device  OBVIOUS
<1>d. d \in DeviceStates  BY <1>a
<1>f. f \in {"host", "port", "protocol", "altHost", "ipmiHost", "auth", "gateway"}  BY <1>0 DEF Fields
<1>g. f = "gateway" => ~MatrixWrites(s)  BY <1>0 DEF MatrixWrites
<1>l. f = "auth" => ~Fills(s) /\ ~Unlinks(s)  BY <1>0 DEF Fills, Unlinks
<1>i. f = "ipmiHost" => ~TakesIpmi(s, d)  BY <1>0, <1>a, OfferedFields DEF TakesIpmi, SyncOwns
<1>h. f = "altHost" => ~TakesAlt(s, d)  BY <1>0, <1>a, OfferedFields DEF TakesAlt, SyncOwns
<1>1. CASE Refreshed(s, d)
  <2>1. t = AddressedUpdate(s, d)  BY <1>1, <1>a DEF PlanOf
  <2>2. AddressOf(s, d, t) /\ IpmiOf(s, d, t) /\ AltOf(s, d, t) /\ LinkOf(s, t) /\ GatewayOf(s, t)
    BY <2>1, <1>0, <1>d, AddressedOutcome
  <2>3. f = "host" => ~TakesHost(s, d)  BY <1>0, <1>a, EndOffered DEF TakesHost, SyncOwns
  <2>4. f = "port" => ~TakesPort(s, d)  BY <1>0, <1>a, EndOffered DEF TakesPort, SyncOwns
  <2>5. f = "protocol" => ~TakesProtocol(s, d)  BY <1>0, <1>a, OfferedFields DEF TakesProtocol, SyncOwns
  <2>6. CASE f \in {"host", "port", "protocol"}  BY <2>2, <2>3, <2>4, <2>5, <2>6 DEF AddressOf
  <2>7. CASE f = "altHost"  BY <2>2, <2>7, <1>0, <1>h DEF AltOf
  <2>8. CASE f \in {"ipmiHost", "auth", "gateway"}  BY <2>2, <2>8, <1>g, <1>l, <1>i DEF IpmiOf, LinkOf, GatewayOf
  <2> QED BY <2>6, <2>7, <2>8, <1>f
<1>2. CASE Blanked(s, d)
  <2>1. t = AddresslessUpdate(s, d)  BY <1>2, <1>a DEF PlanOf
  <2>2. AddresslessOf(s, d, t) /\ IpmiOf(s, d, t) /\ UnlinkOf(s, t) /\ GatewayOf(s, t)
    BY <2>1, <1>0, <1>d, AddresslessOutcome
  <2>3. f = "host" => ~Blanks(s)  BY <1>0 DEF Typical, Blanks, SyncOwns
  <2>4. f = "port" => ~Blanks(s)  BY <1>0 DEF Typical, Blanks, SyncOwns
  <2>5. f = "protocol" => ~SyncOwns(s, "protocol", "ssh")
    BY <1>2, <1>d, PrimaryEndpoint, <1>0, <1>a, OfferedFields DEF Blanked, SyncOwns
  <2>6. CASE f \in {"host", "port", "protocol", "altHost"}  BY <2>2, <2>3, <2>4, <2>5, <2>6 DEF AddresslessOf
  <2>8. CASE f \in {"ipmiHost", "auth", "gateway"}  BY <2>2, <2>8, <1>g, <1>l, <1>i DEF IpmiOf, UnlinkOf, GatewayOf
  <2> QED BY <2>6, <2>8, <1>f
<1>3. CASE Broken(s, d)
  BY <1>3, <1>a, <1>0, <1>f, <1>l, LinkedOnly DEF PlanOf
<1>4. CASE Removed(s, d)  BY <1>4, <1>a, UnmadeServer DEF PlanOf
<1>5. CASE Taking(s, d, c)
  <2>1. t = Adopted(s, d) /\ Eligible(s, d)  BY <1>5, <1>a DEF PlanOf, Taking
  <2>2. AdoptOf(s, d, t) /\ IpmiOf(s, d, t) /\ AltOf(s, d, t) /\ FillOf(s, t) /\ GatewayOf(s, t)
    BY <2>1, <1>0, <1>d, AdoptedOutcome
  <2>3. f \notin {"host", "port"}
    BY <2>1, <1>d, PrimaryEndpoint, <1>a, EndpointFields, OfferedFields, <1>0 DEF Eligible
  <2>5. f = "protocol" => ~SyncOwns(s, "protocol", Primary(d).protocol)  BY <1>0, <1>a, OfferedFields DEF SyncOwns
  <2>7. CASE f = "altHost"  BY <2>2, <2>7, <1>0, <1>h DEF AltOf
  <2>8. CASE f \in {"protocol", "ipmiHost", "auth", "gateway"}
    BY <2>2, <2>5, <2>8, <1>g, <1>l, <1>i DEF AdoptOf, IpmiOf, FillOf, GatewayOf
  <2> QED BY <2>3, <2>7, <2>8, <1>f
<1>6. ~Making(s, d)  BY DEF Making
<1>7. CASE t = s  BY <1>7 DEF Kept
<1> QED BY <1>1, <1>2, <1>3, <1>4, <1>5, <1>6, <1>7, <1>a DEF PlanOf

\* What a sync leaves of a field the user typed.
LEMMA HandAfterSync ==
  ASSUME PlanInv, NEW c, Sync(c), NEW f \in hand, server.val[f] \notin Offered(f), server'.owner # "nobody"
  PROVE  /\ server'.val[f] = server.val[f] \/ (f = "gateway" /\ server.val[f] \notin gateways')
         /\ server'.val[f] = server.val[f] => server'.stamp[f] = server.stamp[f]
<1>1. PICK s : s = server  OBVIOUS
<1>2. PICK v : v = server'  OBVIOUS
<1>3. v = Swept(Planned(s, c)) /\ gateways' = Survivors  BY <1>1, <1>2 DEF Sync
<1>4. PICK t : PlanOf(s, device, c, t) /\ Planned(s, c) = GatewayDropped(t)  BY PlanCases
<1>5. SoundOf(s)  BY <1>1 DEF PlanInv, ServerSound, SoundOf, ValidRecord, Has
<1>6. /\ device \in DeviceStates /\ template.to \in Gateways \cup {"none"} /\ "none" \notin Gateways
      /\ "none" \notin gateways \cup Survivors
  BY PlanAssumption DEF PlanInv, WorldSound, Survivors
<1>7. SoundOf(t)  BY <1>4, <1>5, <1>6, PlanKeepsSound
<1>8. t.val.gateway \in {"none", s.val.gateway} \cup Survivors  BY <1>4, <1>5, <1>6, PlanGateway
<1>9. s.val.gateway \in {"none"} \cup gateways  BY <1>1 DEF PlanInv, ServerSound
<1>10. t \in PlannedServers /\ v = Swept(GatewayDropped(t))  BY <1>3, <1>4, <1>7 DEF SoundOf
<1>11. /\ SameBut(t, v, {"gateway"}) /\ v.val.gateway \in {"none"} \cup Survivors
       /\ t.val.gateway # t.stamp.gateway /\ v.val.gateway = t.val.gateway => v = t
       /\ v.val.gateway # t.val.gateway => t.val.gateway \notin Survivors
  BY <1>6, <1>8, <1>9, <1>10, EndOfSync
<1>12. t.owner # "nobody"  BY <1>2, <1>11, SameButFields
<1>13. s.owner # "nobody" /\ Typical(s, f)  BY <1>1 DEF PlanInv, ServerSound, HandSound, Typical
<1>14. Kept(s, t, f)  BY <1>4, <1>5, <1>6, <1>12, <1>13, HandKept
<1>15. CASE f # "gateway"
  BY <1>11, <1>13, <1>15, <1>1, <1>2, <1>14 DEF SameBut, Kept, Typical
<1>16. CASE f = "gateway"
  BY <1>1, <1>2, <1>3, <1>11, <1>13, <1>14, <1>16 DEF Kept, Typical
<1> QED BY <1>15, <1>16

------------------------------------------------------------------------------
(* The steps                                                                  *)

LEMMA PlanStarts == PlanInit => PlanInv
<1> SUFFICES ASSUME PlanInit PROVE PlanInv  OBVIOUS
<1>1. server = Unmade /\ hand = {} /\ fresh = FALSE /\ gateways = {} /\ gwTree = {} /\ rival = FALSE
  BY DEF PlanInit
<1>2. SoundOf(server)  BY <1>1, UnmadeSound
<1>3. ServerSound  BY <1>1, <1>2, UnmadeServer, BlankMap DEF ServerSound, SoundOf, ValidRecord
<1>4. WorldSound  BY DEF PlanInit, WorldSound, DeviceStates
<1>5. HandSound  BY <1>1 DEF HandSound
<1>6. FreshSound  BY <1>1 DEF FreshSound
<1> QED BY <1>3, <1>4, <1>5, <1>6 DEF PlanInv

\* After a sync that deletes and adopts nothing, the server is settled.
LEMMA SyncFreshens ==
  ASSUME PlanInv, NEW c, Sync(c), fresh'
  PROVE  Settled'
<1>1. PICK s : s = server  OBVIOUS
<1>2. PICK v : v = server'  OBVIOUS
<1>d. PICK d : d = device  OBVIOUS
<1>3. v = Swept(Planned(s, c)) /\ gateways' = Survivors  BY <1>1, <1>2 DEF Sync
<1>e. /\ device' = d /\ profile' = profile /\ policy' = policy /\ template' = template /\ gwTree' = gwTree
      /\ (s.owner # "kept" \/ v.owner = "kept") /\ gateways \subseteq Survivors
  BY <1>1, <1>2, <1>d DEF Sync
<1>4. PICK t : PlanOf(s, d, c, t) /\ Planned(s, c) = GatewayDropped(t)  BY <1>d, PlanCases
<1>5. SoundOf(s)  BY <1>1 DEF PlanInv, ServerSound, SoundOf, ValidRecord, Has
<1>6. /\ d \in DeviceStates /\ template.to \in Gateways \cup {"none"} /\ "none" \notin Gateways
      /\ "none" \notin gateways \cup Survivors /\ (rival => s.owner = "kept")
  BY <1>1, <1>d, PlanAssumption DEF PlanInv, WorldSound, Survivors
<1>7. t \in PlannedServers  BY <1>4, <1>5, <1>6, PlanKeepsSound DEF SoundOf
<1>8. t.val.gateway \in {"none", s.val.gateway} \cup Survivors  BY <1>4, <1>5, <1>6, PlanGateway
<1>9. s.val.gateway \in {"none"} \cup gateways  BY <1>1 DEF PlanInv, ServerSound
<1>10. v = t  BY <1>3, <1>4, <1>6, <1>7, <1>8, <1>9, <1>e, EndOfSync
<1>s. s \in PlannedServers  BY <1>5 DEF SoundOf
<1>11. Survivors' = gateways'  BY <1>3, <1>e DEF Survivors
<1>12. (Unlinks(server))' <=> Unlinks(v)  BY <1>2, <1>e DEF Unlinks
<1>13. (Fills(server))' <=> Fills(v)  BY <1>2, <1>e DEF Fills
<1>14. (MatrixWrites(server))' <=> MatrixWrites(v)
  BY <1>3, <1>e, <1>2 DEF Desired, Survivors, MatrixWrites
<1>15. v.owner = "sync" /\ d.here => ~Unlinks(v)
  <2>1. CASE Refreshed(s, d)
    BY <2>1, <1>4, <1>6, <1>s, AddressedOutcome, <1>10, LinkSettles DEF PlanOf, Like
  <2>2. CASE Blanked(s, d)
    BY <2>2, <1>4, <1>6, <1>s, AddresslessOutcome, <1>10, UnlinkSettles DEF PlanOf, Like
  <2>3. CASE Broken(s, d)
    BY <2>3, <1>4, <1>s, LinkedOnly, <1>10, UnlinkSettles DEF PlanOf, UnlinkOf
  <2>4. CASE Removed(s, d)
    BY <2>4, <1>4, <1>10, UnmadeServer DEF PlanOf
  <2>5. ~Taking(s, d, c)
    BY <1>4, <1>6, <1>s, AdoptedOutcome, <1>10, <1>e DEF PlanOf, Taking
  <2>6. CASE Making(s, d)
    BY <2>6, <1>4, <1>6, AddedOutcome, <1>10, AddedSettles DEF PlanOf
  <2>7. CASE t = s /\ s.owner = "sync" /\ d.here
    BY <2>7, <2>1, <2>2, <2>3, <1>6 DEF Refreshed, Blanked, Broken
  <2> QED BY <2>1, <2>2, <2>3, <2>4, <2>5, <2>6, <2>7, <1>4, <1>10 DEF PlanOf
<1>16. v.owner = "sync" /\ d.here /\ d.mapped => ~MatrixWrites(v) /\ IpmiOf(v, d, v)
  <2>1. CASE Refreshed(s, d)
    <3>1. IpmiOf(s, d, t) /\ GatewayOf(s, t)  BY <2>1, <1>4, <1>6, <1>s, AddressedOutcome DEF PlanOf
    <3> QED BY <3>1, <1>10, <1>e, IpmiSettles, GatewaySettles
  <2>2. CASE Blanked(s, d)
    <3>1. IpmiOf(s, d, t) /\ GatewayOf(s, t)  BY <2>2, <1>4, <1>6, <1>s, AddresslessOutcome DEF PlanOf
    <3> QED BY <3>1, <1>10, <1>e, IpmiSettles, GatewaySettles
  <2>3. CASE Broken(s, d)  BY <2>3 DEF Broken
  <2>4. CASE Removed(s, d)  BY <2>4 DEF Removed
  <2>5. ~Taking(s, d, c)
    BY <1>4, <1>6, <1>s, AdoptedOutcome, <1>10, <1>e DEF PlanOf, Taking
  <2>6. CASE Making(s, d)
    BY <2>6, <1>4, <1>6, AddedOutcome, AddedSettles, <1>e, <1>10 DEF PlanOf, Desired, Survivors, AddedOf,
       MatrixWrites, Has
  <2>7. CASE t = s /\ s.owner = "sync" /\ d.here /\ d.mapped
    BY <2>7, <2>1, <2>2, <1>6 DEF Refreshed, Blanked
  <2> QED BY <2>1, <2>2, <2>3, <2>4, <2>5, <2>6, <2>7, <1>4, <1>10 DEF PlanOf
<1>17. v.owner = "sync" /\ d.here /\ d.mapped /\ Addressed(d) => ~Fills(v) /\ AddressOf(v, d, v) /\ AltOf(v, d, v)
  <2>1. CASE Refreshed(s, d)
    <3>1. Like(s, t) /\ AddressOf(s, d, t) /\ AltOf(s, d, t) /\ LinkOf(s, t)
      BY <2>1, <1>4, <1>6, <1>s, AddressedOutcome DEF PlanOf
    <3>2. Addressed(d)  BY <2>1 DEF Refreshed
    <3>3. ~Fills(t)  BY <3>1, LinkSettles DEF Like
    <3>4. AddressOf(t, d, t)  BY <3>1, <3>2, <1>6, <1>s, AddressSettles
    <3>5. AltOf(t, d, t)  BY <3>1, AltSettles
    <3> QED BY <3>3, <3>4, <3>5, <1>10
  <2>2. CASE Blanked(s, d)  BY <2>2 DEF Blanked
  <2>3. CASE Broken(s, d)  BY <2>3 DEF Broken
  <2>4. CASE Removed(s, d)  BY <2>4 DEF Removed
  <2>5. ~Taking(s, d, c)
    BY <1>4, <1>6, <1>s, AdoptedOutcome, <1>10, <1>e DEF PlanOf, Taking
  <2>6. CASE Making(s, d)
    BY <2>6, <1>4, <1>6, AddedOutcome, <1>10, AddedSettles DEF PlanOf
  <2>7. CASE t = s /\ s.owner = "sync" /\ d.here /\ d.mapped /\ Addressed(d)
    BY <2>7, <2>1, <1>6 DEF Refreshed
  <2> QED BY <2>1, <2>2, <2>3, <2>4, <2>5, <2>6, <2>7, <1>4, <1>10 DEF PlanOf
<1>18. v.owner = "sync" /\ d.here /\ d.mapped /\ ~Addressed(d) => AddresslessOf(v, d, v)
  <2>1. CASE Refreshed(s, d)  BY <2>1 DEF Refreshed
  <2>2. CASE Blanked(s, d)
    BY <2>2, <1>4, <1>6, <1>s, AddresslessOutcome, <1>10, AddresslessSettles DEF PlanOf
  <2>3. CASE Broken(s, d)  BY <2>3 DEF Broken
  <2>4. CASE Removed(s, d)  BY <2>4 DEF Removed
  <2>5. CASE Taking(s, d, c)  BY <2>5 DEF Taking, Eligible
  <2>6. CASE Making(s, d)
    BY <2>6, <1>4, <1>6, AddedOutcome, <1>10, AddedSettles DEF PlanOf
  <2>7. CASE t = s /\ s.owner = "sync" /\ d.here /\ d.mapped /\ ~Addressed(d)
    BY <2>7, <2>2, <1>6 DEF Blanked
  <2> QED BY <2>1, <2>2, <2>3, <2>4, <2>5, <2>6, <2>7, <1>4, <1>10 DEF PlanOf
<1>19. v.owner = "sync" /\ ~d.here => policy # "delete"
  BY <1>4, <1>10, UnmadeServer, <1>6 DEF PlanOf, Refreshed, Blanked, Broken, Taking, Making, Removed
<1>20. v.owner = "nobody" => ~(d.here /\ d.mapped)
  <2>1. CASE Refreshed(s, d)
    BY <2>1, <1>4, <1>6, <1>s, AddressedOutcome, <1>10 DEF PlanOf, Like, Refreshed
  <2>2. CASE Blanked(s, d)
    BY <2>2, <1>4, <1>6, <1>s, AddresslessOutcome, <1>10 DEF PlanOf, Like, Blanked
  <2>3. CASE Broken(s, d)  BY <2>3 DEF Broken
  <2>4. CASE Removed(s, d)  BY <2>4 DEF Removed
  <2>5. CASE Taking(s, d, c)
    BY <2>5, <1>4, <1>6, <1>s, AdoptedOutcome, <1>10 DEF PlanOf
  <2>6. CASE Making(s, d)
    BY <2>6, <1>4, <1>6, AddedOutcome, <1>10 DEF PlanOf, AddedOf
  <2>7. CASE t = s /\ s.owner = "nobody" /\ d.here /\ d.mapped
    BY <2>7, <2>6, <1>6 DEF Making
  <2> QED BY <2>1, <2>2, <2>3, <2>4, <2>5, <2>6, <2>7, <1>4, <1>10 DEF PlanOf
<1> QED BY <1>2, <1>11, <1>12, <1>13, <1>14, <1>15, <1>16, <1>17, <1>18, <1>19, <1>20, <1>e DEF Settled

LEMMA SyncKeepsPlan ==
  ASSUME PlanInv, NEW c, Sync(c)
  PROVE  PlanInv'
<1>1. PICK s : s = server  OBVIOUS
<1>2. PICK v : v = server'  OBVIOUS
<1>3. v = Swept(Planned(s, c)) /\ gateways' = Survivors  BY <1>1, <1>2 DEF Sync
<1>e. /\ attached' = attached /\ attached
      /\ device' = device /\ profile' = profile /\ policy' = policy /\ template' = template /\ gwTree' = gwTree
      /\ rival' = (rival \/ (s.owner = "kept" /\ device.here /\ device.mapped /\ v.owner = "kept"))
  BY <1>1, <1>2 DEF Sync
<1>4. PICK t : PlanOf(s, device, c, t) /\ Planned(s, c) = GatewayDropped(t)  BY PlanCases
<1>5. SoundOf(s)  BY <1>1 DEF PlanInv, ServerSound, SoundOf, ValidRecord, Has
<1>6. /\ device \in DeviceStates /\ template.to \in Gateways \cup {"none"} /\ "none" \notin Gateways
      /\ "none" \notin gateways \cup Survivors /\ (rival => s.owner = "kept") /\ Survivors \subseteq Gateways
  BY <1>1, PlanAssumption DEF PlanInv, WorldSound, Survivors
<1>7. SoundOf(t)  BY <1>4, <1>5, <1>6, PlanKeepsSound
<1>8. t.val.gateway \in {"none", s.val.gateway} \cup Survivors  BY <1>4, <1>5, <1>6, PlanGateway
<1>9. s.val.gateway \in {"none"} \cup gateways  BY <1>1 DEF PlanInv, ServerSound
<1>10. t \in PlannedServers /\ v = Swept(GatewayDropped(t))  BY <1>3, <1>4, <1>7 DEF SoundOf
<1>11. /\ SameBut(t, v, {"gateway"}) /\ v.val.gateway \in {"none"} \cup Survivors
       /\ t.val.gateway \in {"none"} \cup Survivors => v = t
  BY <1>6, <1>8, <1>9, <1>10, EndOfSync
<1>12. /\ v \in PlannedServers
       /\ v.owner = t.owner /\ v.addressless = t.addressless /\ v.ownKey = t.ownKey
       /\ Kept(t, v, "host") /\ Kept(t, v, "port") /\ Kept(t, v, "protocol") /\ Kept(t, v, "altHost")
       /\ Kept(t, v, "ipmiHost") /\ Kept(t, v, "auth")
  BY <1>11, SameButFields DEF Kept
<1>13. SoundOf(v)
  BY <1>7, <1>12, <1>11, UnmadeServer, BlankMap DEF SoundOf, Sensible, Kept, Has
<1>14. ServerSound'
  BY <1>2, <1>13, UnmadeServer, <1>3, <1>11 DEF SoundOf, ValidRecord, Has, Sync, ServerSound
<1>15. WorldSound'
  <2>1. rival' => v.owner = "kept"
    BY <1>4, <1>6, <1>12, <1>e DEF PlanOf, Refreshed, Blanked, Broken, Removed, Taking, Making
  <2> QED BY <2>1, <1>2, <1>3, <1>e, <1>6 DEF PlanInv, WorldSound
<1>16. HandSound'
  BY HandAfterSync DEF Sync, HandSound, PlanInv
<1>17. FreshSound'
  BY <1>e, SyncFreshens DEF FreshSound
<1> QED BY <1>14, <1>15, <1>16, <1>17 DEF PlanInv

LEMMA ServerRecord ==
  ASSUME ServerSound
  PROVE  SoundOf(server)
BY DEF ServerSound, SoundOf, ValidRecord, Has

\* One value changes, and no stamp.
WithValue(s, f, x) == [s EXCEPT !.val[f] = x]

LEMMA ValueSet ==
  ASSUME NEW s \in PlannedServers, NEW f \in Fields, NEW x \in PlanValues, NEW t, t = WithValue(s, f, x)
  PROVE  /\ t \in PlannedServers /\ t.owner = s.owner /\ t.addressless = s.addressless /\ t.ownKey = s.ownKey
         /\ t.stamp = s.stamp /\ t.val[f] = x /\ \A g \in Fields \ {f} : t.val[g] = s.val[g]
BY ServerParts DEF FieldMaps, PlannedServers, WithValue

LEMMA EditKeepsPlan ==
  ASSUME PlanInv, NEW f \in EditableFields, NEW x \in Values(f), Edit(f, x)
  PROVE  PlanInv'
<1>1. PICK s : s = server  OBVIOUS
<1>2. PICK t : t = WithValue(s, f, x)  OBVIOUS
<1>3. f \in Fields  BY DEF EditableFields, Fields
<1>4. gateways \subseteq Gateways  BY DEF PlanInv, WorldSound
<1>5. x \in PlanValues  BY <1>4, ValuesAreHosts DEF Values, PlanValues
<1>6. SoundOf(s) /\ s \in PlannedServers  BY <1>1, ServerRecord DEF PlanInv, SoundOf
<1>7. /\ server' = t /\ s.owner # "nobody" /\ (f \in {"host", "port"} => ~s.addressless /\ x # 0)
      /\ fresh' = FALSE /\ hand' = (hand \ {f}) \cup {g \in {f} : t.val[g] # s.stamp[g]}
      /\ UNCHANGED <<focus, policy, attached, device, profile, template, gateways, gwTree, rival>>
  BY <1>1, <1>2 DEF Edit, Typed, WithValue
<1>8. /\ t \in PlannedServers /\ t.owner = s.owner /\ t.addressless = s.addressless /\ t.ownKey = s.ownKey
      /\ t.stamp = s.stamp /\ t.val[f] = x /\ \A g \in Fields \ {f} : t.val[g] = s.val[g]
  BY <1>2, <1>3, <1>5, <1>6, ValueSet
<1>9. /\ f # "host" => t.val.host = s.val.host
      /\ f # "port" => t.val.port = s.val.port
      /\ f # "protocol" => t.val.protocol = s.val.protocol
      /\ f # "altHost" => t.val.altHost = s.val.altHost
      /\ f # "ipmiHost" => t.val.ipmiHost = s.val.ipmiHost
      /\ f # "auth" => t.val.auth = s.val.auth
      /\ f # "gateway" => t.val.gateway = s.val.gateway
  BY <1>8 DEF Fields
<1>10. Sensible(t)
  BY <1>6, <1>8, <1>9 DEF SoundOf, Sensible, Values
<1>11. SoundOf(t)  BY <1>6, <1>7, <1>8, <1>9, <1>10 DEF SoundOf, Has
<1>12. t.val.gateway \in {"none"} \cup gateways
  BY <1>1, <1>8, <1>9 DEF PlanInv, ServerSound, Values
<1>13. ServerSound'
  BY <1>7, <1>8, <1>11, <1>12 DEF ServerSound, SoundOf, ValidRecord, Has
<1>14. WorldSound'  BY <1>1, <1>7, <1>8 DEF PlanInv, WorldSound
<1>15. HandSound'
  BY <1>1, <1>3, <1>7, <1>8, <1>9 DEF PlanInv, HandSound
<1>16. FreshSound'  BY <1>7 DEF FreshSound
<1> QED BY <1>13, <1>14, <1>15, <1>16 DEF PlanInv

LEMMA GiveAddressKeepsPlan ==
  ASSUME PlanInv, NEW h \in Hosts, NEW p \in {22, 99}, GiveAddress(h, p)
  PROVE  PlanInv'
<1>1. PICK s : s = server  OBVIOUS
<1>2. SoundOf(s) /\ s \in PlannedServers /\ s.val \in FieldMaps  BY <1>1, ServerRecord, ServerParts DEF PlanInv, SoundOf
<1>3. h \in PlanValues /\ p \in PlanValues /\ h # 0 /\ p # 0  BY PlanAssumption DEF PlanValues
<1>4. PICK a : a = [s.val EXCEPT !.host = h, !.port = p]  OBVIOUS
<1>5. /\ a \in FieldMaps /\ a.host = h /\ a.port = p /\ a.protocol = s.val.protocol /\ a.altHost = s.val.altHost
      /\ a.ipmiHost = s.val.ipmiHost /\ a.auth = s.val.auth /\ a.gateway = s.val.gateway
      /\ \A g \in Fields \ {"host", "port"} : a[g] = s.val[g]
  BY <1>2, <1>3, <1>4 DEF FieldMaps, Fields
<1>6. PICK t : t = [s EXCEPT !.val = a, !.addressless = FALSE]  OBVIOUS
<1>7. /\ t \in PlannedServers /\ t.owner = s.owner /\ t.addressless = FALSE /\ t.ownKey = s.ownKey /\ t.val = a /\ t.stamp = s.stamp
  BY <1>2, <1>5, <1>6 DEF PlannedServers
<1>8. server' = t
  BY <1>1, <1>2, <1>4, <1>6 DEF GiveAddress, PlannedServers
<1>t. hand' = (hand \ {"host", "port"}) \cup {g \in {"host", "port"} : t.val[g] # s.stamp[g]}
  <2>1. hand' = Typed({"host", "port"})  BY DEF GiveAddress
  <2> QED BY <2>1, <1>1, <1>8 DEF Typed
<1>9. /\ s.owner # "nobody" /\ fresh' = FALSE
      /\ hand' = (hand \ {"host", "port"}) \cup {g \in {"host", "port"} : t.val[g] # s.stamp[g]}
      /\ UNCHANGED <<focus, policy, attached, device, profile, template, gateways, gwTree, rival>>
  BY <1>1, <1>t DEF GiveAddress
<1>10. SoundOf(t)
  BY <1>2, <1>5, <1>7, <1>3, <1>9 DEF SoundOf, Sensible
<1>13. ServerSound'
  BY <1>1, <1>5, <1>7, <1>8, <1>9, <1>10 DEF PlanInv, ServerSound, SoundOf, ValidRecord, Has
<1>14. WorldSound'  BY <1>1, <1>7, <1>8, <1>9 DEF PlanInv, WorldSound
<1>15. HandSound'
  BY <1>7, <1>9, <1>1, <1>5, <1>3, <1>8 DEF Fields, PlanInv, HandSound
<1>16. FreshSound'  BY <1>9 DEF FreshSound
<1> QED BY <1>13, <1>14, <1>15, <1>16 DEF PlanInv

LEMMA GiveKeyKeepsPlan ==
  ASSUME PlanInv, GiveKey
  PROVE  PlanInv'
<1>1. PICK s : s = server  OBVIOUS
<1>2. SoundOf(s) /\ s \in PlannedServers /\ s.ownKey \in BOOLEAN  BY <1>1, ServerRecord, ServerParts DEF PlanInv, SoundOf
<1>3. PICK b \in BOOLEAN : b = ~s.ownKey  BY <1>2
<1>4. PICK t : t = [s EXCEPT !.ownKey = b]  OBVIOUS
<1>5. t \in PlannedServers /\ t.owner = s.owner /\ t.addressless = s.addressless /\ t.val = s.val /\ t.stamp = s.stamp
  BY <1>2, <1>3, <1>4 DEF PlannedServers
<1>6. /\ server' = t /\ s.owner # "nobody" /\ fresh' = FALSE
      /\ UNCHANGED <<focus, policy, attached, device, profile, template, gateways, gwTree, rival, hand>>
  BY <1>1, <1>3, <1>4 DEF GiveKey
<1>7. SoundOf(t)  BY <1>2, <1>5, <1>6 DEF SoundOf, Sensible, Has
<1>8. ServerSound'
  BY <1>1, <1>5, <1>6, <1>7 DEF PlanInv, ServerSound, SoundOf, ValidRecord, Has
<1>9. WorldSound'  BY <1>1, <1>5, <1>6 DEF PlanInv, WorldSound
<1>10. HandSound'  BY <1>1, <1>5, <1>6 DEF PlanInv, HandSound
<1>11. FreshSound'  BY <1>6 DEF FreshSound
<1> QED BY <1>8, <1>9, <1>10, <1>11 DEF PlanInv

\* The inventory, the template and the profile change, but not the server.
LEMMA WorldKeepsPlan ==
  ASSUME PlanInv, DeviceChanges \/ GatewayChanges \/ ProfileChanges
  PROVE  PlanInv'
<1>1. fresh' = FALSE /\ UNCHANGED <<attached, policy, gateways, server, rival, hand>>
  BY DEF DeviceChanges, GatewayChanges, ProfileChanges
<1>2. device' \in DeviceStates  BY DEF DeviceChanges, GatewayChanges, ProfileChanges, PlanInv, WorldSound
<1>3. gwTree' \subseteq Gateways  BY DEF DeviceChanges, GatewayChanges, ProfileChanges, PlanInv, WorldSound
<1>4. template' \in [to : Gateways \cup {"none"}, mode : {"fill", "override"}]
  BY DEF DeviceChanges, GatewayChanges, ProfileChanges, PlanInv, WorldSound
<1>5. template'.to \in Gateways \cup {"none"}  BY <1>4
<1>6. ServerSound'  BY <1>1 DEF PlanInv, ServerSound, ValidRecord
<1>7. WorldSound'  BY <1>1, <1>2, <1>3, <1>4, <1>5 DEF PlanInv, WorldSound
<1>8. HandSound'  BY <1>1 DEF PlanInv, HandSound
<1>9. FreshSound'  BY <1>1 DEF FreshSound
<1> QED BY <1>6, <1>7, <1>8, <1>9 DEF PlanInv

LEMMA ProfileRemovedKeepsPlan ==
  ASSUME PlanInv, ProfileRemoved
  PROVE  PlanInv'
<1>1. PICK s : s = server  OBVIOUS
<1>2. SoundOf(s) /\ s \in PlannedServers /\ s.val \in FieldMaps /\ s.stamp \in FieldMaps
  BY <1>1, ServerRecord, ServerParts DEF PlanInv, SoundOf
<1>3. PICK x : x = IF s.val.auth = "source" THEN "none" ELSE s.val.auth  OBVIOUS
<1>4. PICK y : y = IF s.val.auth = "source" THEN "none" ELSE s.stamp.auth  OBVIOUS
<1>5. x \in PlanValues /\ y \in PlanValues /\ x \in {"none", "mine", "source"}
  BY <1>2, <1>3, <1>4, MapValues, ValuesAreHosts DEF SoundOf, Sensible
<1>6. PICK a : a = [s.val EXCEPT !.auth = x]  OBVIOUS
<1>7. /\ a \in FieldMaps /\ a.auth = x /\ a.host = s.val.host /\ a.port = s.val.port /\ a.protocol = s.val.protocol
      /\ a.altHost = s.val.altHost /\ a.ipmiHost = s.val.ipmiHost /\ a.gateway = s.val.gateway
      /\ \A g \in Fields \ {"auth"} : a[g] = s.val[g]
  BY <1>2, <1>5, <1>6 DEF FieldMaps, Fields
<1>8. PICK b : b = [s.stamp EXCEPT !.auth = y]  OBVIOUS
<1>9. /\ b \in FieldMaps /\ b.auth = y /\ b.host = s.stamp.host /\ b.port = s.stamp.port
      /\ \A g \in Fields \ {"auth"} : b[g] = s.stamp[g]
  BY <1>2, <1>5, <1>8 DEF FieldMaps, Fields
<1>10. PICK t : t = [s EXCEPT !.val = a, !.stamp = b]  OBVIOUS
<1>11. /\ t \in PlannedServers /\ t.owner = s.owner /\ t.addressless = s.addressless /\ t.ownKey = s.ownKey /\ t.val = a /\ t.stamp = b
  BY <1>2, <1>7, <1>9, <1>10 DEF PlannedServers
<1>12. server' = t
  BY <1>1, <1>2, <1>3, <1>4, <1>6, <1>8, <1>10 DEF ProfileRemoved, PlannedServers
<1>13. /\ fresh' = FALSE /\ UNCHANGED <<focus, policy, attached, device, template, gateways, gwTree, rival>>
       /\ hand' = IF s.val.auth = "source" THEN hand \ {"auth"} ELSE hand
  BY <1>1 DEF ProfileRemoved
<1>14. s.val.auth # "source" => t = s
  BY <1>2, <1>3, <1>4, <1>6, <1>8, <1>11, SameServer DEF FieldMaps
<1>15. Sensible(t)  BY <1>2, <1>5, <1>7, <1>11 DEF SoundOf, Sensible
<1>16. SoundOf(t)
  <2>1. CASE s.val.auth # "source"  BY <2>1, <1>2, <1>14
  <2>2. CASE s.val.auth = "source"
    <3>1. s.owner # "nobody"  BY <2>2, <1>2, UnmadeServer, BlankMap DEF SoundOf
    <3> QED BY <3>1, <1>2, <1>7, <1>9, <1>11, <1>15 DEF SoundOf, Has
  <2> QED BY <2>1, <2>2
<1>17. ServerSound'
  BY <1>1, <1>7, <1>11, <1>13, <1>16, UnmadeServer, <1>12 DEF PlanInv, ServerSound, SoundOf, ValidRecord, Has
<1>18. WorldSound'  BY <1>1, <1>11, <1>12, <1>13 DEF PlanInv, WorldSound
<1>19. HandSound'
  BY <1>1, <1>12, <1>13, <1>14, <1>7, <1>9, <1>11 DEF PlanInv, HandSound
<1>20. FreshSound'  BY <1>13 DEF FreshSound
<1> QED BY <1>17, <1>18, <1>19, <1>20 DEF PlanInv

LEMMA DetachKeepsPlan ==
  ASSUME PlanInv, Detach
  PROVE  PlanInv'
<1>1. PICK s : s = server  OBVIOUS
<1>2. SoundOf(s) /\ s \in PlannedServers /\ s.stamp \in FieldMaps  BY <1>1, ServerRecord, ServerParts DEF PlanInv, SoundOf
<1>3. PICK b : b = [s.stamp EXCEPT !.host = 0, !.port = 0]  OBVIOUS
<1>4. /\ b \in FieldMaps /\ b.host = 0 /\ b.port = 0 /\ \A g \in Fields \ {"host", "port"} : b[g] = s.stamp[g]
  BY <1>2, <1>3, ValuesAreHosts DEF FieldMaps, Fields
<1>5. PICK k : k = [s EXCEPT !.owner = "kept", !.stamp = b]  OBVIOUS
<1>6. k \in PlannedServers /\ k.owner = "kept" /\ k.addressless = s.addressless /\ k.val = s.val /\ k.stamp = b
  BY <1>2, <1>4, <1>5 DEF PlannedServers
<1>7. PICK t : t = IF s.owner = "sync" THEN k ELSE s  OBVIOUS
<1>8. server' = t
  BY <1>1, <1>2, <1>3, <1>5, <1>7 DEF Detach, PlannedServers
<1>9. fresh' = FALSE /\ rival' = FALSE /\ UNCHANGED <<device, template, gateways, gwTree, hand>>
  BY DEF Detach
<1>11. ServerSound'
  <2>1. CASE s.owner # "sync"
    BY <2>1, <1>1, <1>7, <1>8, <1>9 DEF PlanInv, ServerSound, ValidRecord
  <2>2. CASE s.owner = "sync"
    <3>1. t = k  BY <2>2, <1>7
    <3>2. Sensible(k)  BY <1>2, <1>6 DEF SoundOf, Sensible
    <3>3. k.addressless => Has(k, "host", 0) /\ Has(k, "port", 0)
      BY <2>2, <1>2, <1>4, <1>6 DEF SoundOf, Has
    <3>4. k.val.gateway \in {"none"} \cup gateways  BY <1>1, <1>6 DEF PlanInv, ServerSound
    <3>5. ~k.addressless => k.val.host # 0 /\ k.val.port # 0  BY <2>2, <1>2, <1>6 DEF SoundOf
    <3>6. server' = k /\ gateways' = gateways  BY <3>1, <1>8, <1>9
    <3> QED BY <3>2, <3>3, <3>4, <3>5, <3>6, <1>6 DEF ServerSound, ValidRecord, Has
  <2> QED BY <2>1, <2>2
<1>12. WorldSound'  BY <1>9 DEF PlanInv, WorldSound
<1>13. HandSound'
  BY <1>1, <1>4, <1>6, <1>7, <1>8, <1>9 DEF PlanInv, HandSound
<1>14. FreshSound'  BY <1>9 DEF FreshSound
<1> QED BY <1>11, <1>12, <1>13, <1>14 DEF PlanInv

LEMMA StillPlan ==
  ASSUME PlanInv, UNCHANGED <<device, template, gateways, gwTree, server, rival, hand>>,
         fresh' = FALSE \/ UNCHANGED planVars
  PROVE  PlanInv'
<1>1. ServerSound'  BY DEF PlanInv, ServerSound, ValidRecord
<1>2. WorldSound'  BY DEF PlanInv, WorldSound
<1>3. HandSound'  BY DEF PlanInv, HandSound
<1>4. FreshSound'
  <2>1. CASE fresh' = FALSE  BY <2>1 DEF FreshSound
  <2>2. CASE UNCHANGED planVars
    <3>1. Settled <=> Settled'
      BY <2>2 DEF planVars, Settled, Survivors, Unlinks, MatrixWrites, Desired, Fills
    <3> QED BY <2>2, <3>1 DEF PlanInv, FreshSound, planVars
  <2> QED BY <2>1, <2>2
<1> QED BY <1>1, <1>2, <1>3, <1>4 DEF PlanInv

LEMMA AttachKeepsPlan ==
  ASSUME PlanInv, Attach
  PROVE  PlanInv'
BY DEF Attach, PlanInv, FreshSound, ServerSound, ValidRecord, WorldSound, HandSound

LEMMA PlanSteps ==
  ASSUME PlanInv, [PlanNext]_planVars
  PROVE  PlanInv'
<1>1. CASE \E choice \in {"adopt", "decline"} : Sync(choice)  BY <1>1, SyncKeepsPlan
<1>2. CASE UserEdits
  BY EditKeepsPlan, GiveAddressKeepsPlan, GiveKeyKeepsPlan, <1>2 DEF UserEdits
<1>3. CASE DeviceChanges \/ GatewayChanges \/ ProfileChanges  BY <1>3, WorldKeepsPlan
<1>4. CASE ProfileRemoved  BY <1>4, ProfileRemovedKeepsPlan
<1>5. CASE Detach  BY <1>5, DetachKeepsPlan
<1>6. CASE Attach  BY <1>6, AttachKeepsPlan
<1>7. CASE UNCHANGED planVars
  BY <1>7, StillPlan DEF planVars
<1> QED BY <1>1, <1>2, <1>3, <1>4, <1>5, <1>6, <1>7 DEF PlanNext

LEMMA PlanIsSound == PlanSpec => []PlanInv
BY PlanStarts, PlanSteps, PTL DEF PlanSpec

\* The record that a sync leaves can be stored and used, an unusable link of its
\* own is gone, and planning again changes nothing: whatever the addresses, the
\* gateways and the template, and whatever the user and the inventory did.
THEOREM PlanSettles == PlanSpec => []SettledAndUsable
<1>1. PlanInv => SettledAndUsable  BY PlanInvSettled
<1> QED BY <1>1, PlanIsSound, PTL

\* A sync leaves alone what the user typed, unless the device has it itself just
\* now, or it is a gateway that the sync deletes.
THEOREM HandEditsAreKept == PlanSpec => HandEditsSurvive
<1> DEFINE Survive == \A f \in hand, choice \in {"adopt", "decline"} :
                        server.val[f] \notin Offered(f) /\ Sync(choice) /\ server'.owner # "nobody" =>
                          \/ server'.val[f] = server.val[f]
                          \/ f = "gateway" /\ server.val[f] \notin gateways'
<1>1. ASSUME PlanInv PROVE Survive
  BY <1>1, HandAfterSync
<1>2. PlanInv /\ [PlanNext]_planVars => [Survive]_planVars  BY <1>1
<1>3. HandEditsSurvive <=> [][Survive]_planVars  BY DEF HandEditsSurvive
<1> HIDE DEF Survive
<1> QED BY <1>2, <1>3, PlanIsSound, PTL DEF PlanSpec
================================================================================
