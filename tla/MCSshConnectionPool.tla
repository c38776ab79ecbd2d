------------------------- MODULE MCSshConnectionPool -------------------------
(* The pool with a few callers. *)
EXTENDS SshConnectionPool, TLC

Symmetry == Permutations(Leases)
==============================================================================
