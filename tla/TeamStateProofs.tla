--------------------------- MODULE TeamStateProofs ---------------------------
(***************************************************************************)
(* Theorems about TeamState, for every set of bosses and processes, every  *)
(* cap and every bound.  TypeCorrect and FlagCorrect hold however calls    *)
(* overlap; SerialKeepsPromise needs Serial.                               *)
(***************************************************************************)
EXTENDS TeamState, TLAPS

(* The operations make team states of team states.                         *)
LEMMA FreshType ==
  ASSUME NEW m \in Modes, NEW b \in Bosses
  PROVE  Fresh(m, b) \in TeamStates
BY DEF Fresh, TeamStates, Modes, Statuses

LEMMA ResultType ==
  ASSUME NEW s \in TeamStates, NEW r \in Requests, NEW f,
         r.kind \in {"handoff", "record"} => f \in TeamStates
  PROVE  Result(s, r, f) \in TeamStates
<1>1. CASE r.kind = "status"
  <2>1. r.to \in Statuses
    BY <1>1 DEF Requests
  <2>2. Result(s, r, f) = [s EXCEPT !.status = r.to]
    BY <1>1 DEF Result
  <2>. QED BY <2>1, <2>2 DEF TeamStates
<1>2. CASE r.kind = "mode"
  <2>1. r.to \in Modes
    BY <1>2 DEF Requests
  <2>2. Result(s, r, f) = [s EXCEPT !.mode = r.to]
    BY <1>2 DEF Result
  <2>. QED BY <2>1, <2>2 DEF TeamStates
<1>3. CASE r.kind = "handoff"
  <2>1. r.to \in Bosses /\ f \in TeamStates
    BY <1>3 DEF Requests
  <2>2. Result(s, r, f) = HandedOff(s, f, r.to)
    BY <1>3 DEF Result
  <2>3. f.current_boss \in Bosses /\ f.turn_number + 1 \in Nat
    BY <2>1 DEF TeamStates
  <2>4. "awaiting_handoff" \in Statuses
    BY DEF Statuses
  <2>5. HandedOff(s, f, r.to) \in TeamStates
    BY <2>1, <2>3, <2>4 DEF TeamStates, HandedOff
  <2>. QED BY <2>2, <2>5
<1>4. CASE r.kind = "record"
  <2>1. f \in TeamStates
    BY <1>4
  <2>2. Result(s, r, f) = Recorded(s, f)
    BY <1>4 DEF Result
  <2>3. f.features_completed_this_turn + 1 \in Nat
    BY <2>1 DEF TeamStates
  <2>4. ASSUME NEW n \in Nat, NEW flag \in BOOLEAN
        PROVE  [s EXCEPT !.features_completed_this_turn = n,
                         !.handoff_required = flag] \in TeamStates
    BY DEF TeamStates
  <2>5. Recorded(s, f) \in TeamStates
    BY <2>3, <2>4, Zenon DEF Recorded
  <2>. QED BY <2>2, <2>5
<1>. QED BY <1>1, <1>2, <1>3, <1>4 DEF Requests

------------------------------------------------------------------------------
(* Type correctness: what reaches the file always passes validate().       *)

LEMMA TypeStep == TypeOK /\ [Next]_vars => TypeOK'
<1>. SUFFICES ASSUME TypeOK, [Next]_vars PROVE TypeOK'
  OBVIOUS
<1>. USE DEF TypeOK
<1>1. ASSUME NEW c \in Callers, CallStatus(c) PROVE TypeOK'
  <2>1. PICK a \in ActorsOf(c), s \in Statuses :
          Begin(c, [kind |-> "status", actor |-> a, to |-> s], Null)
    BY <1>1 DEF CallStatus
  <2>2. [kind |-> "status", actor |-> a, to |-> s] \in Requests
    BY CallersAssumption DEF Requests, Actors, ActorsOf
  <2>. QED BY <2>1, <2>2 DEF Begin
<1>2. ASSUME NEW c \in Callers, CallMode(c) PROVE TypeOK'
  <2>1. PICK a \in ActorsOf(c), m \in Modes :
          Begin(c, [kind |-> "mode", actor |-> a, to |-> m], Null)
    BY <1>2 DEF CallMode
  <2>2. [kind |-> "mode", actor |-> a, to |-> m] \in Requests
    BY CallersAssumption DEF Requests, Actors, ActorsOf
  <2>. QED BY <2>1, <2>2 DEF Begin
<1>3. ASSUME NEW c \in Callers, CallHandoff(c) PROVE TypeOK'
  <2>1. PICK a \in ActorsOf(c), b \in Bosses :
          Begin(c, [kind |-> "handoff", to |-> b,
                    actor |-> IF a = NoBoss THEN file.current_boss ELSE a], file)
    BY <1>3 DEF CallHandoff
  <2>2. file.current_boss \in Bosses
    BY DEF TeamStates
  <2>3. [kind |-> "handoff", to |-> b,
         actor |-> IF a = NoBoss THEN file.current_boss ELSE a] \in Requests
    BY <2>2, CallersAssumption DEF Requests, Actors, ActorsOf
  <2>. QED BY <2>1, <2>3 DEF Begin
<1>4. ASSUME NEW c \in Callers, CallRecord(c) PROVE TypeOK'
  <2>1. [kind |-> "record", actor |-> BossOf[c], to |-> Null] \in Requests
    BY CallersAssumption DEF Requests, Actors
  <2>. QED BY <1>4, <2>1 DEF CallRecord, Begin
<1>5. ASSUME NEW c \in Callers, Load(c) PROVE TypeOK'
  BY <1>5 DEF Load
<1>6. ASSUME NEW c \in Callers, Refuse(c) PROVE TypeOK'
  BY <1>6 DEF Refuse, Finish
<1>7. ASSUME NEW c \in Callers, Write(c) PROVE TypeOK'
  <2>1. Result(snap[c], req[c], first[c]) \in TeamStates
    BY <1>7, ResultType DEF Write
  <2>. QED BY <1>7, <2>1 DEF Write, Finish
<1>8. ASSUME NEW c \in Callers, Die(c) PROVE TypeOK'
  BY <1>8 DEF Die, Finish
<1>9. ASSUME NEW c \in Callers, Reinit(c) PROVE TypeOK'
  BY <1>9, FreshType DEF Reinit
<1>10. CASE UNCHANGED vars
  BY <1>10 DEF vars
<1>. QED
  BY <1>1, <1>2, <1>3, <1>4, <1>5, <1>6, <1>7, <1>8, <1>9, <1>10 DEF Next

(* Every reachable file is one validate() accepts, and every pending call  *)
(* holds the snapshots its next step needs.                                *)
THEOREM TypeCorrect == Spec => []TypeOK
<1>1. Init => TypeOK
  BY FreshType DEF Init, TypeOK
<1>. QED BY <1>1, TypeStep, PTL DEF Spec

------------------------------------------------------------------------------
(* handoff_required.                                                       *)

FlagOf(s) == s.handoff_required => s.features_completed_this_turn >= Cap

(* The flag must be right in every snapshot too: a call writes the flag it *)
(* loaded back over whatever the file holds by then.                       *)
FlagInv ==
  /\ FlagOf(file)
  /\ \A c \in Callers : pc[c] = "write" => FlagOf(snap[c])

LEMMA ResultFlag ==
  ASSUME NEW s \in TeamStates, NEW r \in Requests, NEW f, FlagOf(s),
         r.kind \in {"handoff", "record"} => f \in TeamStates
  PROVE  FlagOf(Result(s, r, f))
<1>. USE DEF FlagOf, TeamStates
<1>1. CASE r.kind = "status"
  BY <1>1 DEF Result
<1>2. CASE r.kind = "mode"
  BY <1>2 DEF Result
<1>3. CASE r.kind = "handoff"
  BY <1>3 DEF Result, HandedOff
<1>4. CASE r.kind = "record"
  <2>1. Result(s, r, f) = Recorded(s, f)
    BY <1>4 DEF Result
  <2>. QED BY <1>4, <2>1 DEF Recorded
<1>. QED BY <1>1, <1>2, <1>3, <1>4 DEF Requests

(* The dashboard's handoff flag is never up before the cap is reached, for *)
(* any number of processes and any overlap of their calls.                 *)
THEOREM FlagCorrect == Spec => []FlagMeansCapReached
<1>1. Init => FlagInv
  BY DEF Init, FlagInv, FlagOf, Fresh
<1>2. TypeOK /\ FlagInv /\ [Next]_vars => FlagInv'
  <2>. SUFFICES ASSUME TypeOK, FlagInv, [Next]_vars PROVE FlagInv'
    OBVIOUS
  <2>. USE DEF FlagInv
  <2>1. ASSUME NEW c \in Callers,
               CallStatus(c) \/ CallMode(c) \/ CallHandoff(c) \/ CallRecord(c)
        PROVE  FlagInv'
    <3>1. /\ UNCHANGED <<file, snap>>
          /\ pc' = [pc EXCEPT ![c] = "transition"]
      BY <2>1 DEF CallStatus, CallMode, CallHandoff, CallRecord, Begin
    <3>. QED BY <3>1 DEF TypeOK
  <2>2. ASSUME NEW c \in Callers, Load(c) PROVE FlagInv'
    BY <2>2 DEF Load, TypeOK
  <2>3. ASSUME NEW c \in Callers, Refuse(c) \/ Die(c) PROVE FlagInv'
    BY <2>3 DEF Refuse, Die, Finish, TypeOK
  <2>4. ASSUME NEW c \in Callers, Write(c) PROVE FlagInv'
    <3>1. FlagOf(Result(snap[c], req[c], first[c]))
      BY <2>4, ResultFlag DEF Write, TypeOK
    <3>. QED BY <2>4, <3>1 DEF Write, Finish, TypeOK
  <2>5. ASSUME NEW c \in Callers, Reinit(c) PROVE FlagInv'
    BY <2>5 DEF Reinit, Fresh, FlagOf
  <2>6. CASE UNCHANGED vars
    BY <2>6 DEF vars
  <2>. QED BY <2>1, <2>2, <2>3, <2>4, <2>5, <2>6 DEF Next
<1>3. FlagInv => FlagMeansCapReached
  BY DEF FlagInv, FlagOf, FlagMeansCapReached
<1>. QED BY <1>1, <1>2, <1>3, TypeCorrect, PTL DEF Spec

------------------------------------------------------------------------------
(* Calls that do not overlap.                                              *)

(* With one call at a time, what a pending call loaded is what the file    *)
(* still holds, and its checks still stand when it writes.                 *)
SerialInv ==
  /\ \A c, d \in Callers : pc[c] # "idle" /\ pc[d] # "idle" => c = d
  /\ \A c \in Callers :
       /\ pc[c] # "idle" /\ req[c].kind \in {"handoff", "record"}
            => first[c] = file
       /\ pc[c] = "write" => snap[c] = file /\ Permits(file, req[c])

LEMMA SerialStep ==
  Serial /\ TypeOK /\ SerialInv /\ [Next]_vars => SerialInv'
<1>. SUFFICES ASSUME Serial, TypeOK, SerialInv, [Next]_vars PROVE SerialInv'
  OBVIOUS
<1>. USE DEF SerialInv
<1>1. ASSUME NEW c \in Callers, CallStatus(c) PROVE SerialInv'
  BY <1>1 DEF CallStatus, MayCall, Begin, TypeOK
<1>2. ASSUME NEW c \in Callers, CallMode(c) PROVE SerialInv'
  BY <1>2 DEF CallMode, MayCall, Begin, TypeOK
<1>3. ASSUME NEW c \in Callers, CallHandoff(c) PROVE SerialInv'
  BY <1>3 DEF CallHandoff, MayCall, Begin, TypeOK
<1>4. ASSUME NEW c \in Callers, CallRecord(c) PROVE SerialInv'
  BY <1>4 DEF CallRecord, MayCall, Begin, TypeOK
<1>5. ASSUME NEW c \in Callers, Load(c) PROVE SerialInv'
  BY <1>5 DEF Load, TypeOK, Permits, OwnsTurn, MayBecome
<1>6. ASSUME NEW c \in Callers, Refuse(c) \/ Die(c) PROVE SerialInv'
  BY <1>6 DEF Refuse, Die, Finish, TypeOK
<1>7. ASSUME NEW c \in Callers, Write(c) PROVE SerialInv'
  BY <1>7 DEF Write, Finish, TypeOK
<1>8. ASSUME NEW c \in Callers, Reinit(c) PROVE SerialInv'
  BY <1>8 DEF Reinit, MayCall, TypeOK
<1>9. CASE UNCHANGED vars
  BY <1>9 DEF vars, Permits, OwnsTurn, MayBecome
<1>. QED
  BY <1>1, <1>2, <1>3, <1>4, <1>5, <1>6, <1>7, <1>8, <1>9 DEF Next

LEMMA SerialCorrect == Serial /\ Spec => [](TypeOK /\ SerialInv)
<1>1. Init => SerialInv
  BY DEF Init, SerialInv
<1>2. CASE Serial
  <2>1. TypeOK /\ SerialInv /\ [Next]_vars => SerialInv'
    BY <1>2, SerialStep
  <2>. QED BY <1>1, <2>1, TypeCorrect, PTL DEF Spec
<1>3. CASE ~Serial
  BY <1>3
<1>. QED BY <1>2, <1>3

(* One call's write is one step of the promise, or leaves it unchanged.    *)
LEMMA WriteKeepsPromise ==
  ASSUME TypeOK, SerialInv, NEW c \in Callers, Write(c)
  PROVE  [Promise!Next]_(Promise!vars)
<1>. DEFINE r == req[c]
<1>1. /\ snap[c] = file
      /\ Permits(file, r)
      /\ r.kind \in {"handoff", "record"} => first[c] = file
      /\ file' = Result(file, r, first[c])
      /\ r \in Requests
      /\ file \in TeamStates
  BY DEF Write, SerialInv, TypeOK
<1>2. CASE r.kind = "status"
  <2>1. file' = [file EXCEPT !.status = r.to] /\ MayBecome(file, r.to)
    BY <1>1, <1>2 DEF Result, Permits
  <2>2. Promise!Move
    BY <1>1, <2>1 DEF Promise!Move, MayBecome, TeamStates,
                      Promise!Allowed, Allowed
  <2>. QED BY <2>2 DEF Promise!Next
<1>3. CASE r.kind = "mode"
  <2>1. file' = [file EXCEPT !.mode = r.to]
    BY <1>1, <1>3 DEF Result
  <2>. QED BY <1>1, <2>1 DEF Promise!vars, TeamStates
<1>4. CASE r.kind = "handoff"
  <2>1. file' = HandedOff(file, file, r.to) /\ MayBecome(file, "awaiting_handoff")
    BY <1>1, <1>4 DEF Result, Permits
  <2>2. r.to \in Bosses
    BY <1>1, <1>4 DEF Requests
  <2>3. Promise!Pass
    BY <1>1, <2>1, <2>2 DEF Promise!Pass, HandedOff, MayBecome, TeamStates,
                            Promise!Allowed, Allowed
  <2>. QED BY <2>3 DEF Promise!Next
<1>5. CASE r.kind = "record"
  <2>1. file' = Recorded(file, file)
    BY <1>1, <1>5 DEF Result
  <2>2. Promise!Record
    BY <1>1, <2>1 DEF Promise!Record, Recorded, TeamStates
  <2>. QED BY <2>2 DEF Promise!Next
<1>. QED BY <1>1, <1>2, <1>3, <1>4, <1>5 DEF Requests

(* StateManager implements the turn lock as long as calls do not overlap.  *)
THEOREM SerialKeepsPromise == Serial /\ Spec => ImplementsTurnLock
<1>1. Init => Promise!Start
  BY DEF Init, Promise!Start, Fresh
<1>2. TypeOK /\ SerialInv /\ [Next]_vars => [Promise!Next]_(Promise!vars)
  <2>. SUFFICES ASSUME TypeOK, SerialInv, [Next]_vars
                PROVE  [Promise!Next]_(Promise!vars)
    OBVIOUS
  <2>1. ASSUME NEW c \in Callers, Write(c)
        PROVE  [Promise!Next]_(Promise!vars)
    BY <2>1, WriteKeepsPromise
  <2>2. ASSUME NEW c \in Callers, Reinit(c)
        PROVE  [Promise!Next]_(Promise!vars)
    BY <2>2 DEF Reinit, Fresh, Promise!StartOver, Promise!Next
  <2>3. CASE UNCHANGED file
    BY <2>3 DEF Promise!vars
  <2>. QED
    BY <2>1, <2>2, <2>3 DEF Next, vars, CallStatus, CallMode, CallHandoff,
       CallRecord, Begin, Load, Refuse, Die
<1>. QED
  BY <1>1, <1>2, SerialCorrect, PTL DEF Spec, Promise!Spec, ImplementsTurnLock
==============================================================================
