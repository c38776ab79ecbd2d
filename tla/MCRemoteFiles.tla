----------------------------- MODULE MCRemoteFiles -----------------------------
(* The files of a server: the SFTP service, the watcher of a session, and the *)
(* explorer that follows the terminals.  A behaviour is about one of them.    *)
EXTENDS SftpService, RemoteWatch, CwdSync

VARIABLE part   \* the component under test

MCVars == <<part, sftpVars, watchVars, cwdVars>>

MCInit ==
  /\ part \in {"sftp", "watch", "cwd"}
  /\ SftpInit /\ WatchInit /\ CwdInit

MCNext ==
  \/ part = "sftp" /\ SftpNext /\ UNCHANGED <<part, watchVars, cwdVars>>
  \/ part = "watch" /\ WatchNext /\ UNCHANGED <<part, sftpVars, cwdVars>>
  \/ part = "cwd" /\ CwdNext /\ UNCHANGED <<part, sftpVars, watchVars>>

MCSpec == MCInit /\ [][MCNext]_MCVars
================================================================================
