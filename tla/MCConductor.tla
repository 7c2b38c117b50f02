----------------------------- MODULE MCConductor -----------------------------
(* TLC instance of Conductor.  Two slots are enough: a second session can  *)
(* only be alive after the one crash that MaxCrashes allows.               *)
EXTENDS Conductor
==============================================================================
