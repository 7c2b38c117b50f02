----------------------------- MODULE MCScheduler -----------------------------
(* TLC instance of Scheduler: two bosses, a plan of a few tasks.           *)
EXTENDS Scheduler

(* The statuses run() itself provides for.                                 *)
MCReadyStarts == {"ready", "in_progress"}

(* Also the one handoff() leaves for the next boss.                        *)
MCRelayStarts == {"ready", "in_progress", "awaiting_handoff"}
==============================================================================
