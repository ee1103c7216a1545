---------------------------- MODULE MCAddDeduper ----------------------------
(* A small instance of AddDeduper: extension requests with and without a   *)
(* DedupKey beside the two candidates of a batch, on one URL.              *)
EXTENDS AddDeduper

CONSTANTS e1, b1, b2, u1, k1
=============================================================================
