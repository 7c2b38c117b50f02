------------------------------ MODULE TurnRules ------------------------------
(***************************************************************************)
(* The data of kernel/state.py: the record kept in team-state.json, the    *)
(* table of status transitions, and what each mutation of StateManager     *)
(* makes of the record.  The modules that run those mutations (TeamState,  *)
(* Scheduler) share these operators.                                       *)
(***************************************************************************)
EXTENDS Naturals

CONSTANTS
  Bosses,   (* the AI environments that may own a turn                     *)
  NoBoss,   (* Python's None for a boss: no previous boss, no actor given  *)
  Cap       (* max_features_per_turn in relay mode                         *)

ASSUME BossesAssumption == NoBoss \notin Bosses
ASSUME CapAssumption == Cap \in Nat \ {0}

Modes == {"relay", "continuous"}

Statuses == {"ready", "in_progress", "blocked", "awaiting_handoff", "done"}

(* The statuses a status may be replaced by.                               *)
Allowed ==
  [ready            |-> {"in_progress", "blocked"},
   in_progress      |-> {"in_progress", "blocked", "awaiting_handoff", "done"},
   blocked          |-> {"in_progress", "ready", "awaiting_handoff"},
   awaiting_handoff |-> {"ready", "in_progress"},
   done             |-> {"ready"}]

(* What validate() lets through.  The cap is not a field: validate ties it *)
(* to the mode, and no caller sets one that differs from the default.      *)
TeamStates ==
  [mode : Modes,
   current_boss : Bosses,
   previous_boss : Bosses \cup {NoBoss},
   turn_number : Nat,
   features_completed_this_turn : Nat,
   handoff_required : BOOLEAN,
   status : Statuses]

(* Mutant: the status Rule 45's own schema would write.                    *)
FreshForBoss(mode, boss) ==
  [mode |-> mode,
   current_boss |-> boss,
   previous_boss |-> NoBoss,
   turn_number |-> 0,
   features_completed_this_turn |-> 0,
   handoff_required |-> FALSE,
   status |-> "ready_for_claude"]

Fresh(mode, boss) ==
  [mode |-> mode,
   current_boss |-> boss,
   previous_boss |-> NoBoss,
   turn_number |-> 0,
   features_completed_this_turn |-> 0,
   handoff_required |-> FALSE,
   status |-> "ready"]

(* transition(): an actor that is named must own the turn, and a status    *)
(* that is named must be reachable from the present one.                   *)
OwnsTurn(s, actor) == actor = NoBoss \/ actor = s.current_boss

MayBecome(s, status) == status \in Allowed[s.status]

(* Mutant: the new turn inherits the old one's flag.                       *)
HandedOffKeepingFlag(s, first, next) ==
  [s EXCEPT !.status = "awaiting_handoff",
            !.previous_boss = first.current_boss,
            !.current_boss = next,
            !.turn_number = first.turn_number + 1,
            !.features_completed_this_turn = 0]

(* handoff(): s is the state transition() loaded, first the one handoff()  *)
(* itself had loaded to compute the new values from.                       *)
HandedOff(s, first, next) ==
  [s EXCEPT !.status = "awaiting_handoff",
            !.previous_boss = first.current_boss,
            !.current_boss = next,
            !.turn_number = first.turn_number + 1,
            !.features_completed_this_turn = 0,
            !.handoff_required = FALSE]

(* record_feature(): the same two loads; the count and the flag it sets    *)
(* are both computed from the first.                                       *)
Recorded(s, first) ==
  LET done == first.features_completed_this_turn + 1 IN
  [s EXCEPT !.features_completed_this_turn = done,
            !.handoff_required = (first.mode = "relay" /\ done >= Cap)]
==============================================================================
