--------------------------- MODULE MCHlsSegments ---------------------------
(* Bounds of the checked instance of HlsSegments. *)
EXTENDS HlsSegments
CONSTANTS w1, w2, w3

None == [slots |-> 2, runs |-> 1, kills |-> 0, drains |-> 0, pauses |-> 0,
         crashes |-> 0, faults |-> 0, errors |-> 0, expiries |-> 0]

\* Pauses and crashes with three workers; faults; control; expiring URIs.
Stops == [None EXCEPT !.slots = 3, !.runs = 3, !.pauses = 2, !.crashes = 1]
Faulty == [None EXCEPT !.runs = 3, !.pauses = 1, !.crashes = 2, !.faults = 2]
Controlled == [None EXCEPT !.runs = 2, !.kills = 2, !.drains = 2, !.pauses = 1]
Expiring == [None EXCEPT !.expiries = 2, !.errors = 1]

All == {Stops, Faulty, Controlled, Expiring}
Late == {[Stops EXCEPT !.slots = 2]}

Symmetry == Permutations(Workers)
=============================================================================
