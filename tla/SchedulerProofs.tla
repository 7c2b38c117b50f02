--------------------------- MODULE SchedulerProofs ---------------------------
(***************************************************************************)
(* Theorems about Scheduler, for every set of bosses, every cap, plan and  *)
(* step limit.  TypeCorrect, CapCorrect, CountsCorrect and                 *)
(* BlockerCorrect hold whatever the status a run starts in;                *)
(* ReadyStopsForCause and ReadyReachesDecision need runs to start on the   *)
(* statuses run() provides for.                                            *)
(***************************************************************************)
EXTENDS Scheduler, TLAPS

(* What the loop knows while the executor's last answer is pending: there  *)
(* was a task to build and room for it under the cap, and the three counts *)
(* of the run agree.                                                       *)
RoomForLast ==
  running /\ last # None
    => tasks > 0 /\ (file.mode = "relay" => file.features_completed_this_turn < Cap)

IInv ==
  /\ TypeOK
  /\ CapRespected
  /\ CountsAgree
  /\ RoomForLast

LEMMA InitCorrect == Init => IInv
<1>. SUFFICES ASSUME Init PROVE IInv
  OBVIOUS
<1>1. PICK m \in Modes, b \in Bosses : file = Fresh(m, b)
  BY DEF Init
<1>2. /\ file \in TeamStates
      /\ file.features_completed_this_turn = 0
  BY <1>1 DEF Fresh, TeamStates, Statuses
<1>3. TypeOK
  <2>1. MaxTasks \in 0..MaxTasks /\ 0 \in 0..MaxTasks /\ 0 \in 0..MaxSteps
    BY StepsAssumption
  <2>2. [tasks |-> MaxTasks, count |-> 0] \in [tasks : 0..MaxTasks, count : Nat]
    BY <2>1
  <2>3. "none" \in Results
    BY DEF Results
  <2>. QED BY <1>2, <2>1, <2>2, <2>3 DEF Init, TypeOK
<1>4. CapRespected /\ CountsAgree /\ RoomForLast
  BY <1>2, CapAssumption DEF Init, CapRespected, CountsAgree, RoomForLast
<1>. QED
  BY <1>3, <1>4 DEF IInv

------------------------------------------------------------------------------
(* What the operations make of the file.                                   *)

LEMMA StatusSet ==
  ASSUME NEW s \in TeamStates, NEW t \in Statuses
  PROVE  LET r == [s EXCEPT !.status = t] IN
         /\ r \in TeamStates
         /\ r.status = t
         /\ r.mode = s.mode
         /\ r.features_completed_this_turn = s.features_completed_this_turn
BY DEF TeamStates

LEMMA HandedOffSet ==
  ASSUME NEW s \in TeamStates, NEW b \in Bosses
  PROVE  LET r == HandedOff(s, s, b) IN
         /\ r \in TeamStates
         /\ r.status = "awaiting_handoff"
         /\ r.features_completed_this_turn = 0
<1>1. s.current_boss \in Bosses /\ s.turn_number + 1 \in Nat
  BY DEF TeamStates
<1>2. "awaiting_handoff" \in Statuses
  BY DEF Statuses
<1>. QED
  BY <1>1, <1>2 DEF TeamStates, HandedOff

LEMMA RecordedSet ==
  ASSUME NEW s \in TeamStates
  PROVE  LET r == Recorded(s, s) IN
         /\ r \in TeamStates
         /\ r.status = s.status
         /\ r.mode = s.mode
         /\ r.features_completed_this_turn = s.features_completed_this_turn + 1
<1>1. s.features_completed_this_turn + 1 \in Nat
  BY DEF TeamStates
<1>2. ASSUME NEW n \in Nat, NEW flag \in BOOLEAN
      PROVE  LET r == [s EXCEPT !.features_completed_this_turn = n,
                                !.handoff_required = flag] IN
             /\ r \in TeamStates
             /\ r.status = s.status
             /\ r.mode = s.mode
             /\ r.features_completed_this_turn = n
  BY DEF TeamStates
<1>. QED
  BY <1>1, <1>2, Zenon DEF Recorded

(* decide() answers one of five decisions, for these reasons.              *)
LEMMA DecideReasons ==
  ASSUME NEW s \in TeamStates, NEW n \in Nat, NEW o
  PROVE  /\ Decide(s, n, o) = "verify" => Unverified(o) /\ ~Blocked(o)
         /\ Decide(s, n, o) = "stop_done" => n = 0
         /\ Decide(s, n, o) = "handoff" => n # 0
         /\ Decide(s, n, o) = "build_next"
              => n # 0 /\ ~CapReached(s) /\ ~Blocked(o)
<1>1. CASE Blocked(o)
  BY <1>1 DEF Decide
<1>2. CASE ~Blocked(o) /\ Unverified(o)
  BY <1>2 DEF Decide
<1>3. CASE ~Blocked(o) /\ ~Unverified(o)
  <2>1. Decide(s, n, o) = IF n = 0 THEN "stop_done"
                          ELSE IF CapReached(s) THEN "handoff" ELSE "build_next"
    BY <1>3 DEF Decide
  <2>. QED BY <1>3, <2>1
<1>. QED
  BY <1>1, <1>2, <1>3

------------------------------------------------------------------------------
(* One step of the loop, of a boss between runs, or of a crash.            *)

(* The three ways to set a status and leave keep the invariant.            *)
LEMMA LeaveStep ==
  ASSUME IInv, Leave, NEW t \in Statuses, NEW how \in Results,
         SetStatus(t, how)
  PROVE  IInv'
<1>. USE DEF IInv, Leave
<1>1. file \in TeamStates
  BY DEF TypeOK
<1>2. /\ file' \in TeamStates
      /\ result' \in Results
      /\ file'.mode = file.mode
      /\ file'.features_completed_this_turn = file.features_completed_this_turn
  <2>1. CASE file' = [file EXCEPT !.status = t] /\ result' = how
    BY <1>1, <2>1, StatusSet
  <2>2. CASE UNCHANGED file /\ result' = "raised"
    BY <1>1, <2>2 DEF Results
  <2>. QED BY <2>1, <2>2 DEF SetStatus
<1>3. TypeOK'
  BY <1>2 DEF TypeOK
<1>4. CapRespected'
  BY <1>2 DEF CapRespected
<1>5. CountsAgree' /\ RoomForLast'
  BY DEF CountsAgree, RoomForLast
<1>. QED
  BY <1>3, <1>4, <1>5

(* So do the endings that leave the file as it is.                         *)
LEMMA QuietLeaveStep ==
  ASSUME IInv, Leave, UNCHANGED file, result' \in Results
  PROVE  IInv'
BY DEF IInv, Leave, TypeOK, CapRespected, CountsAgree, RoomForLast

LEMMA StepCorrect == IInv /\ [Next]_vars => IInv'
<1>. SUFFICES ASSUME IInv, [Next]_vars PROVE IInv'
  OBVIOUS
<1>1. ASSUME NEW b \in Bosses \cup {NoBoss}, EnterRun(b) PROVE IInv'
  <2>1. /\ file' \in TeamStates
        /\ file'.mode = file.mode
        /\ file'.features_completed_this_turn = file.features_completed_this_turn
    <3>1. CASE file.status = "ready"
      <4>1. file' = [file EXCEPT !.status = "in_progress"]
        BY <1>1, <3>1 DEF EnterRun
      <4>2. "in_progress" \in Statuses
        BY DEF Statuses
      <4>. QED BY <4>1, <4>2, StatusSet DEF IInv, TypeOK
    <3>2. CASE file.status # "ready"
      BY <1>1, <3>2 DEF EnterRun, IInv, TypeOK
    <3>. QED BY <3>1, <3>2
  <2>2. file.features_completed_this_turn \in Nat
    BY DEF IInv, TypeOK, TeamStates
  <2>3. TypeOK'
    BY <1>1, <2>1, <2>2, StepsAssumption DEF EnterRun, IInv, TypeOK, Results
  <2>4. CapRespected' /\ CountsAgree' /\ RoomForLast'
    BY <1>1, <2>1, <2>2
       DEF EnterRun, IInv, TypeOK, CapRespected, CountsAgree, RoomForLast
  <2>. QED BY <2>3, <2>4 DEF IInv
<1>2. CASE Valve
  <2>1. "blocked" \in Statuses /\ "valve" \in Results
    BY DEF Statuses, Results
  <2>. QED BY <1>2, <2>1, LeaveStep DEF Valve
<1>3. CASE StopDone
  <2>1. "done" \in Statuses /\ "stop_done" \in Results
    BY DEF Statuses, Results, Decisions
  <2>. QED BY <1>3, <2>1, LeaveStep DEF StopDone
<1>4. CASE StopBlocked
  <2>1. "blocked" \in Statuses /\ "stop_blocked" \in Results
    BY DEF Statuses, Results, Decisions
  <2>. QED BY <1>4, <2>1, LeaveStep DEF StopBlocked
<1>5. CASE Handoff
  <2>1. CASE MayBecome(file, "awaiting_handoff")
    <3>1. file' = HandedOff(file, file, next) /\ result' = "handoff" /\ Leave
      BY <1>5, <2>1 DEF Handoff
    <3>2. next \in Bosses /\ file \in TeamStates
      BY <1>5 DEF Handoff, IInv, TypeOK
    <3>3. file' \in TeamStates /\ file'.features_completed_this_turn = 0
      BY <3>1, <3>2, HandedOffSet
    <3>4. TypeOK'
      BY <3>1, <3>3 DEF Leave, IInv, TypeOK, Results, Decisions
    <3>. QED
      BY <3>1, <3>3, <3>4, CapAssumption
         DEF Leave, IInv, CapRespected, CountsAgree, RoomForLast
  <2>2. CASE ~MayBecome(file, "awaiting_handoff")
    <3>1. UNCHANGED file /\ result' \in Results /\ Leave
      BY <1>5, <2>2 DEF Handoff, Results
    <3>. QED BY <3>1, QuietLeaveStep
  <2>. QED BY <2>1, <2>2
<1>6. CASE HandoffToNobody
  BY <1>6, QuietLeaveStep DEF HandoffToNobody, Results
<1>7. CASE Build
  <2>1. tasks # 0 /\ ~CapReached(file)
    <3>1. file \in TeamStates /\ tasks \in Nat
      BY DEF IInv, TypeOK
    <3>. QED BY <1>7, <3>1, DecideReasons DEF Build, Looping
  <2>2. TypeOK'
    BY <1>7, StepsAssumption DEF Build, Looping, IInv, TypeOK
  <2>3. CapRespected' /\ CountsAgree'
    BY <1>7 DEF Build, IInv, CapRespected, CountsAgree
  <2>4. RoomForLast'
    BY <1>7, <2>1, CapAssumption
       DEF Build, CapReached, IInv, TypeOK, TeamStates, RoomForLast
  <2>. QED BY <2>2, <2>3, <2>4 DEF IInv
<1>8. CASE Verify
  <2>1. running /\ last # None /\ steps < MaxSteps
    <3>1. file \in TeamStates /\ tasks \in Nat
      BY DEF IInv, TypeOK
    <3>. QED BY <1>8, <3>1, DecideReasons DEF Verify, Looping, Unverified
  <2>2. PICK o \in Outcomes : IF o.verified THEN Pass(1) ELSE Fail(o)
    BY <1>8 DEF Verify
  <2>3. /\ steps' = steps + 1
        /\ UNCHANGED <<running, next, result, entry>>
    BY <1>8 DEF Verify
  <2>4. CASE Pass(1)
    <3>1. /\ file' \in TeamStates
          /\ file'.mode = file.mode
          /\ file'.features_completed_this_turn
               = file.features_completed_this_turn + 1
      BY <2>4, RecordedSet DEF Pass, IInv, TypeOK
    <3>2. /\ tasks \in 0..MaxTasks /\ tasks > 0
          /\ entry.tasks - tasks = features
          /\ entry.tasks \in 0..MaxTasks
          /\ file.features_completed_this_turn - entry.count = features
          /\ entry.count \in Nat /\ file.features_completed_this_turn \in Nat
      BY <2>1 DEF IInv, TypeOK, TeamStates, CountsAgree, RoomForLast
    <3>3. features' = features + 1 /\ tasks' = tasks - 1 /\ last' = None
      BY <2>4 DEF Pass
    <3>4. /\ tasks' \in 0..MaxTasks /\ features' \in 0..MaxTasks
          /\ entry.tasks - tasks' = features'
      BY <3>2, <3>3, StepsAssumption DEF IInv, TypeOK
    <3>5. TypeOK'
      BY <2>1, <2>3, <3>1, <3>3, <3>4, StepsAssumption DEF IInv, TypeOK
    <3>6. CountsAgree'
      BY <2>3, <3>1, <3>2, <3>3, <3>4 DEF CountsAgree
    <3>7. CapRespected'
      BY <2>1, <3>1, <3>2, CapAssumption DEF IInv, CapRespected, RoomForLast
    <3>8. RoomForLast'
      BY <3>3 DEF RoomForLast
    <3>. QED BY <3>5, <3>6, <3>7, <3>8 DEF IInv
  <2>5. CASE Fail(o)
    <3>1. TypeOK'
      BY <2>1, <2>3, <2>5, StepsAssumption DEF Fail, IInv, TypeOK
    <3>. QED
      BY <2>1, <2>3, <2>5, <3>1
         DEF Fail, IInv, CapRespected, CountsAgree, RoomForLast
  <2>. QED BY <2>2, <2>4, <2>5
<1>9. CASE Die
  BY <1>9, QuietLeaveStep DEF Die, Results
<1>10. ASSUME NEW s \in {"ready", "in_progress"}, MoveOn(s) PROVE IInv'
  <2>1. s \in Statuses
    BY DEF Statuses
  <2>2. /\ file' \in TeamStates
        /\ file'.mode = file.mode
        /\ file'.features_completed_this_turn = file.features_completed_this_turn
    BY <1>10, <2>1, StatusSet DEF MoveOn, IInv, TypeOK
  <2>3. TypeOK'
    BY <1>10, <2>2 DEF MoveOn, IInv, TypeOK
  <2>. QED
    BY <1>10, <2>2, <2>3
       DEF MoveOn, IInv, CapRespected, CountsAgree, RoomForLast
<1>11. CASE UNCHANGED vars
  BY <1>11 DEF vars, IInv, TypeOK, CapRespected, CountsAgree, RoomForLast
<1>. QED
  BY <1>1, <1>2, <1>3, <1>4, <1>5, <1>6, <1>7, <1>8, <1>9, <1>10, <1>11
     DEF Next, Step

LEMMA Correct == Spec => []IInv
BY InitCorrect, StepCorrect, PTL DEF Spec

(* Type correctness: features never outnumber the plan, steps never exceed *)
(* the valve, and what is written passes validate().                       *)
THEOREM TypeCorrect == Spec => []TypeOK
<1>1. IInv => TypeOK
  BY DEF IInv
<1>. QED BY <1>1, Correct, PTL

(* A relay turn never holds more features than the cap, over any number of *)
(* blocked, crashed and repeated runs.                                     *)
THEOREM CapCorrect == Spec => []CapRespected
<1>1. IInv => CapRespected
  BY DEF IInv
<1>. QED BY <1>1, Correct, PTL

(* Summary, plan and turn counter agree on what a run built.               *)
THEOREM CountsCorrect == Spec => []CountsAgree
<1>1. IInv => CountsAgree
  BY DEF IInv
<1>. QED BY <1>1, Correct, PTL

(* Once the executor reports a blocker the run dispatches nothing more:    *)
(* its next step ends it.                                                  *)
THEOREM BlockerCorrect == Spec => BlockerStopsWork
<1>1. ASSUME IInv, [Next]_vars, running, last # None, last.blocked,
             vars' # vars
      PROVE  ~running'
  <2>1. Blocked(last)
    BY <1>1 DEF Blocked
  <2>2. Decide(file, tasks, last) = "stop_blocked"
    BY <2>1 DEF Decide
  <2>3. ~Build /\ ~Verify
    BY <2>2 DEF Build, Verify, Looping
  <2>. QED
    BY <1>1, <2>3 DEF Next, Step, EnterRun, Valve, StopDone, StopBlocked, Handoff,
       HandoffToNobody, Leave, Die, MoveOn, vars
<1>2. IInv /\ [Next]_vars => [running /\ last # None /\ last.blocked => ~running']_vars
  BY <1>1
<1>. QED BY <1>2, Correct, PTL DEF Spec, BlockerStopsWork

------------------------------------------------------------------------------
(* Runs that start on "ready" or "in_progress".                            *)

ReadyStarts == StartStatuses \subseteq {"ready", "in_progress"}

(* The run then works on a turn that is in progress, from which every      *)
(* status it may want to set is reachable.                                 *)
ReadyInv ==
  /\ running => file.status = "in_progress"
  /\ StopsForCause
  /\ RunReachesDecision

LEMMA ReadyInit == Init => ReadyInv
BY DEF Init, Fresh, ReadyInv, StopsForCause, RunReachesDecision

LEMMA ReadyStep ==
  ASSUME ReadyStarts
  PROVE  IInv /\ ReadyInv /\ [Next]_vars => ReadyInv'
<1>. SUFFICES ASSUME IInv, ReadyInv, [Next]_vars PROVE ReadyInv'
  OBVIOUS
<1>. USE DEF ReadyInv, StopsForCause, RunReachesDecision
<1>0. file \in TeamStates /\ tasks \in Nat
  BY DEF IInv, TypeOK
<1>1. ASSUME running, NEW t \in {"blocked", "done", "awaiting_handoff"}
      PROVE  MayBecome(file, t)
  BY <1>1 DEF MayBecome, Allowed
<1>2. ASSUME NEW b \in Bosses \cup {NoBoss}, EnterRun(b) PROVE ReadyInv'
  <2>1. file'.status = "in_progress"
    <3>1. CASE file.status = "ready"
      <4>1. file' = [file EXCEPT !.status = "in_progress"]
        BY <1>2, <3>1 DEF EnterRun
      <4>2. "in_progress" \in Statuses
        BY DEF Statuses
      <4>. QED BY <1>0, <4>1, <4>2, StatusSet
    <3>2. CASE file.status # "ready"
      BY <1>2, <3>2 DEF EnterRun, ReadyStarts
    <3>. QED BY <3>1, <3>2
  <2>. QED BY <1>2, <2>1 DEF EnterRun
<1>3. ASSUME running, NEW t \in {"blocked", "done"}, NEW how,
             SetStatus(t, how), how # "raised", t = "done" => tasks = 0, Leave
      PROVE  ReadyInv'
  <2>1. file' = [file EXCEPT !.status = t] /\ result' = how
    BY <1>1, <1>3 DEF SetStatus
  <2>2. t \in Statuses
    BY DEF Statuses
  <2>3. file'.status = t
    BY <1>0, <2>1, <2>2, StatusSet
  <2>. QED BY <1>3, <2>1, <2>3 DEF Leave
<1>4. CASE Valve
  BY <1>3, <1>4 DEF Valve
<1>5. CASE StopDone
  <2>1. running /\ tasks = 0
    BY <1>0, <1>5, DecideReasons DEF StopDone, Looping
  <2>. QED BY <1>3, <1>5, <2>1 DEF StopDone
<1>6. CASE StopBlocked
  BY <1>3, <1>6 DEF StopBlocked, Looping
<1>7. CASE Handoff
  <2>1. running /\ tasks # 0 /\ next # NoBoss /\ Leave
    BY <1>0, <1>7, DecideReasons DEF Handoff, Looping
  <2>2. file' = HandedOff(file, file, next) /\ result' = "handoff"
    BY <1>1, <1>7, <2>1 DEF Handoff
  <2>3. file'.status = "awaiting_handoff"
    BY <1>0, <2>1, <2>2, HandedOffSet DEF IInv, TypeOK
  <2>. QED BY <1>0, <2>1, <2>2, <2>3 DEF Leave
<1>8. CASE HandoffToNobody
  BY <1>8 DEF HandoffToNobody, Leave
<1>9. CASE Build
  BY <1>9 DEF Build
<1>10. CASE Verify
  <2>1. PICK o \in Outcomes : IF o.verified THEN Pass(1) ELSE Fail(o)
    BY <1>10 DEF Verify
  <2>2. running /\ UNCHANGED <<running, result>>
    BY <1>10 DEF Verify, Looping
  <2>3. file'.status = file.status
    BY <1>0, <2>1, RecordedSet DEF Pass, Fail
  <2>. QED BY <2>2, <2>3
<1>11. CASE Die
  BY <1>11 DEF Die, Leave
<1>12. ASSUME NEW s \in {"ready", "in_progress"}, MoveOn(s) PROVE ReadyInv'
  <2>1. s \in Statuses
    BY DEF Statuses
  <2>2. file'.status = s
    BY <1>0, <1>12, <2>1, StatusSet DEF MoveOn
  <2>. QED BY <1>12, <2>2 DEF MoveOn
<1>13. CASE UNCHANGED vars
  BY <1>13 DEF vars
<1>. QED
  BY <1>2, <1>4, <1>5, <1>6, <1>7, <1>8, <1>9, <1>10, <1>11, <1>12, <1>13
     DEF Next, Step

LEMMA ReadyCorrect ==
  ASSUME ReadyStarts
  PROVE  Spec => []ReadyInv
BY ReadyInit, ReadyStep, Correct, PTL DEF Spec

(* A relay is done only with nothing left, and handed off only with        *)
(* something left for the next boss.                                       *)
THEOREM ReadyStopsForCause ==
  ASSUME ReadyStarts
  PROVE  Spec => []StopsForCause
<1>1. ReadyInv => StopsForCause
  BY DEF ReadyInv
<1>. QED BY <1>1, ReadyCorrect, PTL

(* No status a run wants to set is refused.                                *)
THEOREM ReadyReachesDecision ==
  ASSUME ReadyStarts
  PROVE  Spec => []RunReachesDecision
<1>1. ReadyInv => RunReachesDecision
  BY DEF ReadyInv
<1>. QED BY <1>1, ReadyCorrect, PTL
==============================================================================
