------------------------------- MODULE MCStepping -------------------------------
(* Stepping with a few fibers beside the main program. *)
EXTENDS Stepping
=============================================================================
