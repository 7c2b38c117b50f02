---------------------------- MODULE MCOnboarding ----------------------------
(* TLC instance of Onboarding: the flow of tree.py cut down to p0, p_seed  *)
(* (the seed flow), r_reality, p2 (whose questions are all optional) and   *)
(* one checkpoint after them.                                              *)
EXTENDS Onboarding

MCKind == <<"phase", "phase", "research", "phase", "checkpoint">>
=============================================================================
