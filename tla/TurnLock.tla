------------------------------- MODULE TurnLock -------------------------------
(***************************************************************************)
(* What team-state.json promises its readers, as the docstrings of         *)
(* kernel/state.py put it: ownership, turn number and feature count move   *)
(* only together and only forward, and the status moves only along         *)
(* _TRANSITIONS.  Every operation is one indivisible step here.            *)
(***************************************************************************)
EXTENDS TurnRules

VARIABLES
  owner,      (* whose turn it is                                          *)
  turn,       (* turns handed off so far                                   *)
  features,   (* features recorded in this turn                            *)
  phase       (* the status                                                *)

vars == <<owner, turn, features, phase>>

Start ==
  /\ owner \in Bosses
  /\ turn = 0
  /\ features = 0
  /\ phase = "ready"

(* The baton passes: a new turn begins, with nothing built in it yet.      *)
Pass ==
  /\ "awaiting_handoff" \in Allowed[phase]
  /\ owner' \in Bosses
  /\ turn' = turn + 1
  /\ features' = 0
  /\ phase' = "awaiting_handoff"

Move ==
  /\ phase' \in Allowed[phase]
  /\ UNCHANGED <<owner, turn, features>>

Record ==
  /\ features' = features + 1
  /\ UNCHANGED <<owner, turn, phase>>

(* init() starts the file over, whatever it held.                          *)
StartOver ==
  /\ owner' \in Bosses
  /\ turn' = 0
  /\ features' = 0
  /\ phase' = "ready"

Next == Pass \/ Move \/ Record \/ StartOver

Spec == Start /\ [][Next]_vars
==============================================================================
