------------------------------- MODULE MCWindow -------------------------------
(* What one window keeps and runs for its user: the macros, the records with  *)
(* their secrets, which commands, imports and resets change under one lock,   *)
(* the serial terminals with their sidecar, local servers and shells.  They   *)
(* share no state, and a behaviour is about one of them.                      *)
EXTENDS MacroStore, ConfigTransfer, SerialPorts, LocalProcesses

VARIABLE part   \* the component under test

allRecordVars == <<recordVars, transfer>>
MCVars == <<part, macroVars, allRecordVars, serialVars, localVars>>

MCSerialSetups ==
  {[modes |-> <<"smart">>, events |-> 2], [modes |-> <<"smart", "standard">>, events |-> 1]}

\* A part that stands still starts from one state only.
MCInit ==
  /\ part \in {"macros", "records", "serial", "local"}
  /\ MacroInit /\ (part # "macros" => disk = CHOOSE d \in InitialDisks : TRUE)
  /\ TransferInit /\ (part # "records" => file.kind = "share")
  /\ SerialInit /\ (part # "serial" => tally.modes = <<"smart">>)
  /\ LocalInit /\ (part # "local" => desk.kind = "server")

MCNext ==
  \/ part = "macros" /\ MacroNext /\ UNCHANGED <<part, allRecordVars, serialVars, localVars>>
  \/ part = "records" /\ TransferNext /\ UNCHANGED <<part, macroVars, serialVars, localVars>>
  \/ part = "serial" /\ SerialNext /\ UNCHANGED <<part, macroVars, allRecordVars, localVars>>
  \/ part = "local" /\ LocalNext /\ UNCHANGED <<part, macroVars, allRecordVars, serialVars>>

MCSpec == MCInit /\ [][MCNext]_MCVars

\* The macros on the disk: two with secrets, or one that shares its id with a plain one
\* or with a secret one.
MCSecret(soul, id) == [Macro(soul, id, TRUE, Blank) EXCEPT !.had = TRUE]
MCPlain(soul, id) == Macro(soul, id, FALSE, <<soul, 1>>)
MCDisks ==
  {<<MCPlain(1, 1), MCSecret(2, 1)>>, <<MCSecret(1, 1), MCSecret(2, 2)>>, <<MCSecret(1, 1), MCPlain(2, 1)>>,
   <<MCSecret(1, 1), MCSecret(2, 1)>>}

\* Server 1 comes from source 31, uses profile 11, its gateway is server 2, and
\* it has the password of proxy 91; template 21 sets proxy 92.
MCRecs ==
  [i \in AllIds |-> CASE i = 1 -> Rec(11, 2, {}, 31, 91, 1)
                      [] i = 21 -> Rec(11, None, {}, None, 92, 1)
                      [] i = 31 -> Rec(11, None, {21}, None, None, 1)
                      [] i \in {2, 11} -> Rec(None, None, {}, None, None, 1)
                      [] OTHER -> Gone]
EmptyVault == [i \in AllIds |-> NoKeys]
MCKeys ==
  [EmptyVault EXCEPT ![1].proxy = 91, ![1].login = 1, ![11].login = 1, ![31].login = 1, ![31].proxy = 1]
MCFile(kind, kept, bad, k) ==
  [kind |-> kind, bad |-> bad, keys |-> k,
   recs |-> [i \in AllIds |-> IF i \in kept THEN [MCRecs[i] EXCEPT !.proxy = IF @ = 91 THEN 92 ELSE @] ELSE Gone]]

\* A window with records and a file from elsewhere, one record of which does not
\* validate; or an empty window and a backup.
MCPopulations ==
  {[recs |-> MCRecs, keys |-> MCKeys, file |-> MCFile("plain", {1, 11, 31}, {11}, EmptyVault)],
   [recs |-> MCRecs, keys |-> MCKeys, file |-> MCFile("share", {1, 2, 11}, {11}, EmptyVault)],
   [recs |-> [i \in AllIds |-> Gone], keys |-> EmptyVault, file |-> [MCFile("backup", {}, {}, MCKeys) EXCEPT !.recs = MCRecs]]}
==============================================================================
