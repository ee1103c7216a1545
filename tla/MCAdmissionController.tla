------------------------ MODULE MCAdmissionController ------------------------
(* AdmissionController for TLC: its downloads as model values.             *)
EXTENDS AdmissionController

CONSTANTS a, b
=============================================================================
