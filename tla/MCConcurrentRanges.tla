------------------------- MODULE MCConcurrentRanges -------------------------
(* Instances of ConcurrentRanges for TLC.                                  *)
EXTENDS ConcurrentRanges, TLC
CONSTANTS w1, w2

\* The balancer and the monitors treat the workers alike.
Symmetry == Permutations(Workers)

=============================================================================
