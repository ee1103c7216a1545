---------------------------- MODULE MCScheduler ----------------------------
(* Small instances of Scheduler. *)
EXTENDS SchedulerAdmits, TLC

CONSTANTS id1, id2, w1, w2, c1, c2, shut

Symmetry == Permutations(Workers) \cup Permutations(Callers \ {Shut})

\* sound where Hls is empty
SymmetryOfIds == Symmetry \cup Permutations(Ids)

\* Bound: the instance with pauses has one token less than the one without.
FewTokensWhenPausing == paused \cup pausing # {} => last < MaxToken
=============================================================================
