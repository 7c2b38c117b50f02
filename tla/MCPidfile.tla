------------------------------ MODULE MCPidfile ------------------------------
(* TLC instance of Pidfile: processes differ in nothing but their names.   *)
EXTENDS Pidfile, TLC

MCSymmetry == Permutations(Procs)
==============================================================================
