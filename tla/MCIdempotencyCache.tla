------------------------ MODULE MCIdempotencyCache ------------------------
(* Small instances of IdempotencyCache. *)
EXTENDS IdempotencyCache, TLC

CONSTANTS c1, c2, f1, f2, f3, r1, r2, d1, d2

Symmetry == Permutations(Conns) \cup Permutations(Frames)
            \cup Permutations(RequestIds) \cup Permutations(Digests)
=============================================================================
