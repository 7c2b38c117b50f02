------------------------------ MODULE Scheduler ------------------------------
(***************************************************************************)
(* Scheduler.run (kernel/scheduler.py) on the team state, turn after turn: *)
(* the boss of the turn runs the loop, the executor reports what it built, *)
(* and between two runs bosses and people move the status on.  One process *)
(* at a time uses the file here (TeamState is about several), so each call *)
(* on the StateManager is one step.                                        *)
(***************************************************************************)
EXTENDS TurnRules

CONSTANTS
  MaxTasks,       (* units of work in the plan                             *)
  MaxSteps,       (* max_steps, the loop valve                             *)
  StartStatuses,  (* statuses in which a boss calls run()                  *)
  None            (* Python's None: no outcome yet                         *)

ASSUME StepsAssumption == MaxTasks \in Nat /\ MaxSteps \in Nat
ASSUME StartAssumption == StartStatuses \subseteq Statuses
ASSUME NoneAssumption == None \notin [built : BOOLEAN, verified : BOOLEAN, blocked : BOOLEAN]

VARIABLES
  file,      (* team-state.json                                            *)
  tasks,     (* tasks_remaining                                            *)
  running,   (* a run() is in its loop                                     *)
  next,      (* its next_boss argument                                     *)
  last,      (* the last StepOutcome, or None                              *)
  steps,     (* executor calls made in this run                            *)
  features,  (* features_completed of this run's summary                   *)
  result,    (* how the last run ended                                     *)
  entry      (* history: tasks and feature count when the run began        *)

vars == <<file, tasks, running, next, last, steps, features, result, entry>>

Outcomes == [built : BOOLEAN, verified : BOOLEAN, blocked : BOOLEAN]

Decisions == {"build_next", "verify", "handoff", "stop_done", "stop_blocked"}

Results == {"none", "valve", "raised", "no_next_boss", "died"} \cup Decisions

TypeOK ==
  /\ file \in TeamStates
  /\ tasks \in 0..MaxTasks
  /\ running \in BOOLEAN
  /\ next \in Bosses \cup {NoBoss}
  /\ last \in Outcomes \cup {None}
  /\ steps \in 0..MaxSteps
  /\ features \in 0..MaxTasks
  /\ result \in Results
  /\ entry \in [tasks : 0..MaxTasks, count : Nat]

Init ==
  /\ file \in {Fresh(m, b) : m \in Modes, b \in Bosses}
  /\ tasks = MaxTasks
  /\ running = FALSE
  /\ next = NoBoss
  /\ last = None
  /\ steps = 0
  /\ features = 0
  /\ result = "none"
  /\ entry = [tasks |-> MaxTasks, count |-> 0]

------------------------------------------------------------------------------
(* decide(): a blocker first, then an unverified build, then the goal,     *)
(* then the cap of a relay turn.                                           *)

(* Mutants: a blocker heeded only when nothing was built; a cap that lets  *)
(* one feature more through.                                               *)
BlockedUnlessBuilt(o) == o # None /\ o.blocked /\ ~o.built
CapExceeded(s) == s.mode = "relay" /\ s.features_completed_this_turn > Cap

Blocked(o) == o # None /\ o.blocked
Unverified(o) == o # None /\ o.built /\ ~o.verified
CapReached(s) == s.mode = "relay" /\ s.features_completed_this_turn >= Cap

(* Mutant: the cap asked about before the goal.                            *)
DecideCapFirst(s, remaining, o) ==
  CASE Blocked(o)                       -> "stop_blocked"
    [] ~Blocked(o) /\ Unverified(o)     -> "verify"
    [] ~Blocked(o) /\ ~Unverified(o)    ->
         IF CapReached(s) THEN "handoff"
         ELSE IF remaining = 0 THEN "stop_done" ELSE "build_next"

Decide(s, remaining, o) ==
  CASE Blocked(o)                       -> "stop_blocked"
    [] ~Blocked(o) /\ Unverified(o)     -> "verify"
    [] ~Blocked(o) /\ ~Unverified(o)    ->
         IF remaining = 0 THEN "stop_done"
         ELSE IF CapReached(s) THEN "handoff" ELSE "build_next"

------------------------------------------------------------------------------
(* run(): a status change that transition() refuses raises StateError out  *)
(* of run, which then returns no summary.  The boss that runs the loop is  *)
(* the one that owns the turn, so the turn lock lets its calls through.    *)

SetStatus(status, ending) ==
  IF MayBecome(file, status)
  THEN file' = [file EXCEPT !.status = status] /\ result' = ending
  ELSE UNCHANGED file /\ result' = "raised"

(* Mutant: the loop starts on a "ready" turn as it is.                     *)
EnterRunAsIs(next_boss) ==
  /\ ~running
  /\ file.status \in StartStatuses
  /\ running' = TRUE
  /\ next' = next_boss
  /\ last' = None
  /\ steps' = 0
  /\ features' = 0
  /\ result' = "none"
  /\ entry' = [tasks |-> tasks, count |-> file.features_completed_this_turn]
  /\ UNCHANGED <<file, tasks>>

(* Only a "ready" turn is moved to in_progress; any other is left as it is.*)
EnterRun(next_boss) ==
  /\ ~running
  /\ file.status \in StartStatuses
  /\ file' = IF file.status = "ready"
             THEN [file EXCEPT !.status = "in_progress"] ELSE file
  /\ running' = TRUE
  /\ next' = next_boss
  /\ last' = None
  /\ steps' = 0
  /\ features' = 0
  /\ result' = "none"
  /\ entry' = [tasks |-> tasks, count |-> file.features_completed_this_turn]
  /\ UNCHANGED tasks

Looping(decision) ==
  /\ running
  /\ steps < MaxSteps
  /\ Decide(file, tasks, last) = decision

Leave ==
  /\ running' = FALSE
  /\ UNCHANGED <<tasks, next, last, steps, features, entry>>

(* The safety valve outranks every decision.                               *)
Valve ==
  /\ running
  /\ steps >= MaxSteps
  /\ SetStatus("blocked", "valve")
  /\ Leave

StopDone == Looping("stop_done") /\ SetStatus("done", "stop_done") /\ Leave

StopBlocked ==
  Looping("stop_blocked") /\ SetStatus("blocked", "stop_blocked") /\ Leave

(* handoff(next_boss): refused like any other status change.               *)
Handoff ==
  /\ Looping("handoff")
  /\ next # NoBoss
  /\ IF MayBecome(file, "awaiting_handoff")
     THEN file' = HandedOff(file, file, next) /\ result' = "handoff"
     ELSE UNCHANGED file /\ result' = "raised"
  /\ Leave

HandoffToNobody ==
  /\ Looping("handoff")
  /\ next = NoBoss
  /\ result' = "no_next_boss"
  /\ UNCHANGED file
  /\ Leave

(* Mutant: a build that does not count as a step.                          *)
BuildUncounted ==
  /\ Looping("build_next")
  /\ last' \in Outcomes
  /\ UNCHANGED <<file, tasks, running, next, steps, features, result, entry>>

Build ==
  /\ Looping("build_next")
  /\ last' \in Outcomes
  /\ steps' = steps + 1
  /\ UNCHANGED <<file, tasks, running, next, features, result, entry>>

Pass(counted) ==
  /\ file' = Recorded(file, file)
  /\ features' = features + 1
  /\ tasks' = tasks - counted
  /\ last' = None

Fail(o) == last' = o /\ UNCHANGED <<file, tasks, features>>

(* Mutant: a verified unit stays among the remaining tasks.                *)
VerifyKeepsTask ==
  /\ Looping("verify")
  /\ \E o \in Outcomes : IF o.verified THEN Pass(0) ELSE Fail(o)
  /\ steps' = steps + 1
  /\ UNCHANGED <<running, next, result, entry>>

(* The same unit goes back to the executor; only a passing verdict makes   *)
(* it a feature.                                                           *)
Verify ==
  /\ Looping("verify")
  /\ \E o \in Outcomes : IF o.verified THEN Pass(1) ELSE Fail(o)
  /\ steps' = steps + 1
  /\ UNCHANGED <<running, next, result, entry>>

(* The process running the loop is killed.                                 *)
Die ==
  /\ running
  /\ result' = "died"
  /\ UNCHANGED file
  /\ Leave

(* Between runs a boss or a person moves the status along the table:       *)
(* accepts a handoff, unblocks, reopens.                                   *)
MoveOn(status) ==
  /\ ~running
  /\ file.status \in {"awaiting_handoff", "blocked"}
  /\ MayBecome(file, status)
  /\ file' = [file EXCEPT !.status = status]
  /\ UNCHANGED <<tasks, running, next, last, steps, features, result, entry>>

Step ==
  \/ Valve \/ StopDone \/ StopBlocked \/ Handoff \/ HandoffToNobody
  \/ Build \/ Verify

Next ==
  \/ \E b \in Bosses \cup {NoBoss} : EnterRun(b)
  \/ Step
  \/ Die
  \/ \E s \in {"ready", "in_progress"} : MoveOn(s)

(* A run in its loop keeps going: each executor call returns.              *)
Spec == Init /\ [][Next]_vars /\ WF_vars(Step)

------------------------------------------------------------------------------
(* A relay turn never holds more features than the cap, over blocked runs, *)
(* crashes and re-runs of the same turn ("stop and hand off after          *)
(* max_features_per_turn verified features", scheduler.py:8-9).            *)
CapRespected ==
  file.mode = "relay" => file.features_completed_this_turn <= Cap

(* The three counts kept of one run agree: the features its summary        *)
(* reports, the tasks it took off the plan, and what it added to the       *)
(* turn's counter in the file (scheduler.py:121-125).                      *)
CountsAgree ==
  running => /\ entry.tasks - tasks = features
             /\ file.features_completed_this_turn - entry.count = features

(* A relay stops as done only with nothing left, and passes the baton only *)
(* with something left for the next boss to do (decide, scheduler.py:67).  *)
StopsForCause ==
  /\ file.status = "done" => tasks = 0
  /\ file.status = "awaiting_handoff" => tasks > 0

(* Once the executor reports a blocker, no further work is dispatched in   *)
(* that run: the next thing the run does is end (scheduler.py:63-64).      *)
BlockerStopsWork ==
  [][running /\ last # None /\ last.blocked => ~running']_vars

(* A run that was handed a next boss ends in a decision it can record: no  *)
(* status it wants to set is refused ("Run the loop until a terminal       *)
(* decision", scheduler.py:77).                                            *)
RunReachesDecision == result # "raised"

(* Every run ends, however the executor answers, because of the valve      *)
(* (Rule 18, scheduler.py:79-80).                                          *)
RunEnds == running ~> ~running
==============================================================================
