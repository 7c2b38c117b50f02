------------------------------ MODULE TeamState ------------------------------
(***************************************************************************)
(* StateManager (kernel/state.py): several processes call transition,      *)
(* handoff, record_feature and init on one team-state.json.  Nothing locks *)
(* the file: a call loads it, checks what it loaded, and replaces the      *)
(* whole file later.  handoff and record_feature load it twice, once to    *)
(* compute the new values and once more inside transition.  A load and the *)
(* os.replace at the end of a write are one step each; calls of different  *)
(* processes interleave between them, unless Serial says that the          *)
(* environment makes one call at a time.                                   *)
(***************************************************************************)
EXTENDS TurnRules

CONSTANTS
  Callers,      (* processes that use the file                             *)
  BossOf,       (* the environment each process runs in                    *)
  Null,         (* no snapshot held                                        *)
  Serial,       (* calls do not overlap                                    *)
  MaxTurn,      (* bound on turn_number                                    *)
  MaxFeatures   (* bound on features_completed_this_turn                   *)

ASSUME CallersAssumption == BossOf \in [Callers -> Bosses]
ASSUME SerialAssumption == Serial \in BOOLEAN

VARIABLES
  file,    (* the content of team-state.json                               *)
  pc,      (* where each process is in its call                            *)
  req,     (* the call it makes: kind, actor and arguments                 *)
  first,   (* what handoff or record_feature loaded                        *)
  snap     (* what transition loaded                                       *)

vars == <<file, pc, req, first, snap>>

Actors == Bosses \cup {NoBoss}

Requests ==
  [kind : {"status"}, actor : Actors, to : Statuses]
    \cup [kind : {"mode"}, actor : Actors, to : Modes]
    \cup [kind : {"handoff"}, actor : Actors, to : Bosses]
    \cup [kind : {"record"}, actor : Actors, to : {Null}]

TypeOK ==
  /\ file \in TeamStates
  /\ pc \in [Callers -> {"idle", "transition", "write"}]
  /\ req \in [Callers -> Requests \cup {Null}]
  /\ first \in [Callers -> TeamStates \cup {Null}]
  /\ snap \in [Callers -> TeamStates \cup {Null}]
  /\ \A c \in Callers :
       /\ pc[c] # "idle" => req[c] \in Requests
       /\ pc[c] # "idle" /\ req[c].kind \in {"handoff", "record"}
            => first[c] \in TeamStates
       /\ pc[c] = "write" => snap[c] \in TeamStates

Init ==
  /\ file \in {Fresh(m, b) : m \in Modes, b \in Bosses}
  /\ pc = [c \in Callers |-> "idle"]
  /\ req = [c \in Callers |-> Null]
  /\ first = [c \in Callers |-> Null]
  /\ snap = [c \in Callers |-> Null]

------------------------------------------------------------------------------
(* The calls.  A process names its own environment as the actor, or none.  *)

MayCall(c) ==
  /\ pc[c] = "idle"
  /\ Serial => \A d \in Callers : pc[d] = "idle"

ActorsOf(c) == {BossOf[c], NoBoss}

Begin(c, r, f) ==
  /\ pc' = [pc EXCEPT ![c] = "transition"]
  /\ req' = [req EXCEPT ![c] = r]
  /\ first' = [first EXCEPT ![c] = f]
  /\ UNCHANGED <<file, snap>>

(* transition(actor=..., to_status=...).                                   *)
CallStatus(c) ==
  /\ MayCall(c)
  /\ \E a \in ActorsOf(c), s \in Statuses :
       Begin(c, [kind |-> "status", actor |-> a, to |-> s], Null)

(* transition(actor=..., mode=..., max_features_per_turn=...).             *)
CallMode(c) ==
  /\ MayCall(c)
  /\ \E a \in ActorsOf(c), m \in Modes :
       Begin(c, [kind |-> "mode", actor |-> a, to |-> m], Null)

(* handoff(next_boss, actor): outside relay mode it raises at once; an     *)
(* actor left out becomes the boss that was just loaded.                   *)
CallHandoff(c) ==
  /\ MayCall(c)
  /\ file.mode = "relay"
  /\ file.turn_number < MaxTurn
  /\ \E a \in ActorsOf(c), b \in Bosses :
       Begin(c, [kind |-> "handoff", to |-> b,
                 actor |-> IF a = NoBoss THEN file.current_boss ELSE a], file)

(* record_feature(actor): the actor is a required argument.                *)
CallRecord(c) ==
  /\ MayCall(c)
  /\ file.features_completed_this_turn < MaxFeatures
  /\ Begin(c, [kind |-> "record", actor |-> BossOf[c], to |-> Null], file)

------------------------------------------------------------------------------
(* transition(): load, check, write.                                       *)

(* Mutant: the status check dropped.                                       *)
PermitsAnyStatus(s, r) ==
  /\ r.kind \in {"handoff", "mode"} => r.actor # NoBoss
  /\ OwnsTurn(s, r.actor)

(* Ownership fields need a named actor, a named actor must own the turn,   *)
(* and the status must be reachable.                                       *)
Permits(s, r) ==
  /\ r.kind \in {"handoff", "mode"} => r.actor # NoBoss
  /\ OwnsTurn(s, r.actor)
  /\ r.kind = "status" => MayBecome(s, r.to)
  /\ r.kind = "handoff" => MayBecome(s, "awaiting_handoff")

Finish(c) ==
  /\ pc' = [pc EXCEPT ![c] = "idle"]
  /\ req' = [req EXCEPT ![c] = Null]
  /\ first' = [first EXCEPT ![c] = Null]
  /\ snap' = [snap EXCEPT ![c] = Null]

Load(c) ==
  /\ pc[c] = "transition"
  /\ Permits(file, req[c])
  /\ pc' = [pc EXCEPT ![c] = "write"]
  /\ snap' = [snap EXCEPT ![c] = file]
  /\ UNCHANGED <<file, req, first>>

(* StateError: the call ends and the file keeps its content.               *)
Refuse(c) ==
  /\ pc[c] = "transition"
  /\ ~Permits(file, req[c])
  /\ Finish(c)
  /\ UNCHANGED file

(* What the call writes: its own changes on top of what it loaded.         *)
Result(s, r, f) ==
  CASE r.kind = "status"  -> [s EXCEPT !.status = r.to]
    [] r.kind = "mode"    -> [s EXCEPT !.mode = r.to]
    [] r.kind = "handoff" -> HandedOff(s, f, r.to)
    [] r.kind = "record"  -> Recorded(s, f)

Write(c) ==
  /\ pc[c] = "write"
  /\ file' = Result(snap[c], req[c], first[c])
  /\ Finish(c)

(* The process dies before the replace: the old file stands.               *)
Die(c) ==
  /\ pc[c] # "idle"
  /\ Finish(c)
  /\ UNCHANGED file

(* init(): overwrites the file without loading it.                         *)
Reinit(c) ==
  /\ MayCall(c)
  /\ \E m \in Modes, b \in Bosses : file' = Fresh(m, b)
  /\ UNCHANGED <<pc, req, first, snap>>

Next ==
  \E c \in Callers :
    \/ CallStatus(c) \/ CallMode(c) \/ CallHandoff(c) \/ CallRecord(c)
    \/ Load(c) \/ Refuse(c) \/ Write(c) \/ Die(c) \/ Reinit(c)

Spec == Init /\ [][Next]_vars

------------------------------------------------------------------------------
(* handoff_required is set only when the cap is reached, however the calls *)
(* interleave: the dashboard shows the flag, and a stale one would send a  *)
(* boss away before its turn is over (state.py:182-199).                   *)
FlagMeansCapReached ==
  file.handoff_required => file.features_completed_this_turn >= Cap

(* When calls do not overlap, the file keeps the promise of TurnLock:      *)
(* ownership, turn and feature count move together and the status moves    *)
(* along _TRANSITIONS, although every call is several steps.               *)
Promise == INSTANCE TurnLock WITH
  owner <- file.current_boss,
  turn <- file.turn_number,
  features <- file.features_completed_this_turn,
  phase <- file.status

ImplementsTurnLock == Promise!Spec

(* Every status change that reaches the file is one _TRANSITIONS lists,    *)
(* or the file was started over ("every change is validated against ...    *)
(* the transition rules before it is persisted", state.py:12-14).          *)
StatusFollowsTable ==
  [][file'.status # file.status
       => \/ MayBecome(file, file'.status)
          \/ \E c \in Callers : Reinit(c)]_vars
==============================================================================
