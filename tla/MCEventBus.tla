----------------------------- MODULE MCEventBus -----------------------------
(* Model values of the event bus run. *)
EXTENDS EventBus

CONSTANTS p1, w1, o1
=============================================================================
