----------------------------- MODULE MCProcesses -----------------------------
(* Processes that come and go: the windows that share the tunnel registry, or *)
(* the daemon children under their host.  They share no state.                *)
EXTENDS TunnelRegistry, DaemonHost

VARIABLE part   \* the processes under test

MCVars == <<part, regVars, hostVars>>

MCInit == part \in {"windows", "daemon"} /\ RegInit /\ HostInit

MCNext ==
  \/ part = "windows" /\ RegNext /\ UNCHANGED <<part, hostVars>>
  \/ part = "daemon" /\ HostNext /\ UNCHANGED <<part, regVars>>

\* RegFairness and the fairness of HostSpec, each for its own part.
MCSyncFast(w) == part = "windows" /\ SyncFast(w) /\ UNCHANGED <<part, hostVars>>
MCSyncWithProbe(w) == part = "windows" /\ SyncWithProbe(w) /\ UNCHANGED <<part, hostVars>>
MCGrowStale(k) == part = "windows" /\ GrowStale(k) /\ UNCHANGED <<part, hostVars>>
MCProgress == part = "daemon" /\ Progress /\ UNCHANGED <<part, regVars>>
MCFairness ==
  /\ \A w \in Windows : WF_MCVars(MCSyncFast(w)) /\ WF_MCVars(MCSyncWithProbe(w))
  /\ \A k \in Keys : WF_MCVars(MCGrowStale(k))
  /\ WF_MCVars(MCProgress)

MCSpec == MCInit /\ [][MCNext]_MCVars /\ MCFairness
==============================================================================
