------------------------------ MODULE MCSessions ------------------------------
(* An SSH terminal, and what hangs on a terminal session: its script and its  *)
(* transcript.  They share no state, and a behaviour is about one of them.    *)
EXTENDS ScriptRuntime, SessionTranscript, SshTerminal

VARIABLE part   \* the component under test

MCVars == <<part, scriptVars, trVars, termVars>>

MCInit ==
  /\ part \in {"script", "transcript", "terminal"}
  /\ ScriptInit /\ TrInit /\ TermInit

MCNext ==
  \/ part = "script" /\ ScriptNext /\ UNCHANGED <<part, trVars, termVars>>
  \/ part = "transcript" /\ TrNext /\ UNCHANGED <<part, scriptVars, termVars>>
  \/ part = "terminal" /\ TermNext /\ UNCHANGED <<part, scriptVars, trVars>>

\* The fairness of ScriptSpec and of TrSpec, each for its own part.
MCScriptProgress == part = "script" /\ ScriptProgress /\ UNCHANGED <<part, trVars, termVars>>
MCTrProgress == part = "transcript" /\ TrProgress /\ UNCHANGED <<part, scriptVars, termVars>>

MCSpec ==
  MCInit /\ [][MCNext]_MCVars /\ WF_MCVars(MCScriptProgress) /\ WF_MCVars(MCTrProgress)
==============================================================================
