---------------------------- MODULE MCLifecycle ----------------------------
(* Small instances of Lifecycle for TLC. *)
EXTENDS Lifecycle

CONSTANTS h, n, u1, u2

AllOps == {"pause", "resume", "cancel"}

\* one caller with a series of calls; two callers, one of which removes; two
\* downloads that compete for a name; a run whose events find the channel full
MCScenarios ==
  {[ids |-> {h}, users |-> {u1}, ops |-> AllOps, calls |-> 3, drops |-> 0],
   [ids |-> {h}, users |-> {u1, u2}, ops |-> {"pause", "cancel"}, calls |-> 3, drops |-> 0],
   [ids |-> {h, n}, users |-> {u1}, ops |-> {"cancel"}, calls |-> 1, drops |-> 0],
   [ids |-> {n}, users |-> {u1}, ops |-> {"pause", "resume"}, calls |-> 3, drops |-> 1]}

=============================================================================
