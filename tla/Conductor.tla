------------------------------ MODULE Conductor ------------------------------
(***************************************************************************)
(* The relay loop (workstation/conductor.py) with the session hosts it     *)
(* drives (workstation/hosts.py).  The conductor polls team-state.json,    *)
(* probes the boss session by name and ignites a fresh one when the baton  *)
(* lies free; the sessions, which write the file, run on meanwhile.  A     *)
(* tick is split where they can get in between: after the load, after the  *)
(* decision, and inside ignite.  One conductor runs at a time (Pidfile is  *)
(* about that); it may be killed, and restarted with a fresh Watch.        *)
(***************************************************************************)
EXTENDS Naturals, FiniteSets

CONSTANTS
  Sessions,     (* slots for boss sessions                                 *)
  None,         (* no session, no snapshot, no turn_at_ignite              *)
  Hosts,        (* the session hosts to consider: "tmux", "headless"       *)
  DeadSessionValve,
  MaxTurn,      (* bound on turn_number                                    *)
  MaxCrashes    (* bound on conductor deaths                               *)

ASSUME HostsAssumption == Hosts \subseteq {"tmux", "headless"}
ASSUME ValveAssumption == DeadSessionValve \in Nat \ {0}
ASSUME NoneAssumption == None \notin Sessions /\ None \notin 0..MaxTurn
ASSUME BoundsAssumption == MaxTurn \in Nat /\ MaxCrashes \in Nat

VARIABLES
  status, turn,   (* team-state.json, as far as the conductor reads it     *)
  readable,       (* it parses and passes validate()                       *)
  host,           (* what pick_host resolved to                            *)
  stage,          (* what each session is doing                            *)
  tracked,        (* the session that the session name, or the pid file of *)
                  (* the headless host, stands for                         *)
  pc,             (* where the conductor is in its tick                    *)
  snap,           (* the state the tick loaded                             *)
  newborn,        (* the session ignite has just spawned                   *)
  watch,          (* the Watch record                                      *)
  action,         (* the last action decided, or why the loop ended        *)
  surfaced,       (* a session_end line reported the orphaned turn         *)
  crashes,        (* conductor deaths so far                               *)
  lost,           (* history: deaths between a spawn and its pid file      *)
  burnt           (* history: sessions this conductor has ignited since    *)
                  (* the turn last advanced                                *)

fileVars == <<status, turn, readable>>
sessionVars == <<stage, tracked>>
logVars == <<action, surfaced>>
historyVars == <<crashes, lost, burnt>>
vars == <<fileVars, host, sessionVars, pc, snap, newborn, watch, logVars, historyVars>>

Statuses == {"ready", "in_progress", "blocked", "awaiting_handoff", "done"}
Stages == {"none", "mute", "fresh", "working", "wrapping"}
Terminal == {"halt_blocked", "stop_done", "stop_valve"}
Snapshots == [status : Statuses, turn : 0..MaxTurn]

FreshWatch == [session_alive |-> FALSE, turn_at_ignite |-> None, dead_sessions |-> 0]

TypeOK ==
  /\ status \in Statuses
  /\ turn \in 0..MaxTurn
  /\ readable \in BOOLEAN
  /\ host \in Hosts
  /\ stage \in [Sessions -> Stages]
  /\ tracked \in Sessions \cup {None}
  /\ pc \in {"down", "poll", "loaded", "ignite", "spawned"}
  /\ snap \in Snapshots \cup {None}
  /\ newborn \in Sessions \cup {None}
  /\ watch \in [session_alive : BOOLEAN,
                turn_at_ignite : 0..MaxTurn \cup {None},
                dead_sessions : 0..DeadSessionValve]
  /\ action \in {"none", "ignite", "wait", "error"} \cup Terminal
  /\ surfaced \in BOOLEAN
  /\ crashes \in 0..MaxCrashes
  /\ lost \in 0..MaxCrashes
  /\ burnt \in Nat

Init ==
  /\ status = "ready"
  /\ turn = 0
  /\ readable = TRUE
  /\ host \in Hosts
  /\ stage = [s \in Sessions |-> "none"]
  /\ tracked = None
  /\ pc = "down"
  /\ snap = None
  /\ newborn = None
  /\ watch = FreshWatch
  /\ action = "none"
  /\ surfaced = FALSE
  /\ crashes = 0
  /\ lost = 0
  /\ burnt = 0

Live == {s \in Sessions : stage[s] # "none"}

(* host.alive(name).                                                       *)
Alive == tracked \in Live

------------------------------------------------------------------------------
(* The tick.                                                               *)

Down(why) ==
  /\ pc' = "down"
  /\ action' = why
  /\ snap' = None
  /\ newborn' = None

(* `danza conduct`: a new process, a new Watch.                            *)
Start ==
  /\ pc = "down"
  /\ pc' = "poll"
  /\ watch' = FreshWatch
  /\ action' = "none"
  /\ burnt' = 0
  /\ UNCHANGED <<fileVars, host, sessionVars, snap, newborn, surfaced, crashes, lost>>

(* An unreadable state ends the tick as WAIT, before the watch is          *)
(* refreshed; the next tick starts from the same place.                    *)
LoadState ==
  /\ pc = "poll"
  /\ readable
  /\ pc' = "loaded"
  /\ snap' = [status |-> status, turn |-> turn]
  /\ UNCHANGED <<fileVars, host, sessionVars, newborn, watch, logVars, historyVars>>

(* observe_session_end(): only a death without a turn advance counts.      *)
ObserveSessionEnd(s, w) ==
  LET advanced == w.turn_at_ignite = None \/ s.turn # w.turn_at_ignite IN
  [w EXCEPT !.session_alive = FALSE,
            !.dead_sessions = IF advanced THEN 0 ELSE w.dead_sessions + 1]

(* Mutant: a session that survived its conductor is not adopted.           *)
RefreshedNotAdopting(s, w) ==
  IF w.session_alive /\ ~Alive THEN ObserveSessionEnd(s, w) ELSE w

(* _refresh_watch(): a session seen alive and now gone has ended; one that *)
(* is alive unexpectedly is adopted.                                       *)
Refreshed(s, w) ==
  CASE w.session_alive /\ ~Alive -> ObserveSessionEnd(s, w)
    [] ~w.session_alive /\ Alive ->
         [w EXCEPT !.session_alive = TRUE, !.turn_at_ignite = s.turn]
    [] OTHER -> w

(* Mutants: a handed-off turn does not ignite; ignition outranks the valve.*)
DecideReadyOnly(s, w) ==
  CASE s.status = "blocked" -> "halt_blocked"
    [] s.status = "done"    -> "stop_done"
    [] s.status \notin {"blocked", "done"} ->
         IF w.dead_sessions >= DeadSessionValve THEN "stop_valve"
         ELSE IF s.status = "ready" /\ ~w.session_alive THEN "ignite" ELSE "wait"

DecideValveLast(s, w) ==
  CASE s.status = "blocked" -> "halt_blocked"
    [] s.status = "done"    -> "stop_done"
    [] s.status \notin {"blocked", "done"} ->
         IF s.status \in {"ready", "awaiting_handoff"} /\ ~w.session_alive
         THEN "ignite"
         ELSE IF w.dead_sessions >= DeadSessionValve THEN "stop_valve" ELSE "wait"

(* decide(): states that need a human outrank the valve, and the valve     *)
(* outranks ignition.                                                      *)
Decide(s, w) ==
  CASE s.status = "blocked" -> "halt_blocked"
    [] s.status = "done"    -> "stop_done"
    [] s.status \notin {"blocked", "done"} ->
         IF w.dead_sessions >= DeadSessionValve THEN "stop_valve"
         ELSE IF s.status \in {"ready", "awaiting_handoff"} /\ ~w.session_alive
              THEN "ignite" ELSE "wait"

(* Mutant: the report tied to a session the watch did not know.            *)
ReportsUnwatchedOrphan(s, w) ==
  ~w.session_alive /\ Alive /\ s.status = "in_progress"

(* The session_end line, with its orphaned_turn flag, is written when the  *)
(* watch sees a session end.                                               *)
ReportsOrphan(s, w) == w.session_alive /\ ~Alive /\ s.status = "in_progress"

(* Probe the session and decide, on the state loaded before.               *)
Observe ==
  /\ pc = "loaded"
  /\ watch' = Refreshed(snap, watch)
  /\ surfaced' = (surfaced \/ ReportsOrphan(snap, watch))
  /\ LET chosen == Decide(snap, watch') IN
       \/ /\ chosen \in Terminal
          /\ Down(chosen)
       \/ /\ chosen = "wait"
          /\ pc' = "poll"
          /\ action' = chosen
          /\ snap' = None
          /\ UNCHANGED newborn
       \/ /\ chosen = "ignite"
          /\ pc' = "ignite"
          /\ action' = chosen
          /\ UNCHANGED <<snap, newborn>>
  /\ UNCHANGED <<fileVars, host, sessionVars, historyVars>>

(* host.ignite(), first half.  tmux refuses a name that exists, and its    *)
(* session sits idle until the ignition phrase arrives; the headless host  *)
(* passes the phrase on the command line but records the pid only after.   *)
Spawn ==
  /\ pc = "ignite"
  /\ \E s \in Sessions \ Live :
       /\ newborn' = s
       /\ \/ /\ host = "tmux"
             /\ ~Alive
             /\ stage' = [stage EXCEPT ![s] = "mute"]
             /\ tracked' = s
          \/ /\ host = "headless"
             /\ stage' = [stage EXCEPT ![s] = "fresh"]
             /\ UNCHANGED tracked
  /\ pc' = "spawned"
  /\ burnt' = burnt + 1
  /\ UNCHANGED <<fileVars, host, snap, watch, logVars, crashes, lost>>

(* HostError: nothing was spawned; the error leaves tick() and ends the    *)
(* loop.                                                                   *)
SpawnFails ==
  /\ pc = "ignite"
  /\ Down("error")
  /\ UNCHANGED <<fileVars, host, sessionVars, watch, surfaced, historyVars>>

Ignited ==
  /\ watch' = [watch EXCEPT !.session_alive = TRUE, !.turn_at_ignite = snap.turn]
  /\ pc' = "poll"
  /\ snap' = None
  /\ newborn' = None

(* host.ignite(), second half, and the rest of the tick.                   *)
Deliver ==
  /\ pc = "spawned"
  /\ \/ /\ host = "tmux"
        /\ stage[newborn] = "mute"
        /\ stage' = [stage EXCEPT ![newborn] = "fresh"]
        /\ UNCHANGED tracked
     \/ /\ host = "headless"
        /\ tracked' = newborn
        /\ UNCHANGED stage
  /\ Ignited
  /\ UNCHANGED <<fileVars, host, logVars, historyVars>>

(* tmux send-keys fails: HostError, with the idle session left behind.     *)
DeliverFails ==
  /\ pc = "spawned"
  /\ host = "tmux"
  /\ Down("error")
  /\ UNCHANGED <<fileVars, host, sessionVars, watch, surfaced, historyVars>>

(* The conductor process is killed.                                        *)
Crash ==
  /\ pc # "down"
  /\ crashes < MaxCrashes
  /\ crashes' = crashes + 1
  /\ lost' = IF pc = "spawned" /\ host = "headless" THEN lost + 1 ELSE lost
  /\ Down("none")
  /\ UNCHANGED <<fileVars, host, sessionVars, watch, surfaced, burnt>>

------------------------------------------------------------------------------
(* The boss sessions and the people around them, who write the file.       *)

conductorVars == <<host, tracked, pc, snap, newborn, watch, action, crashes, lost>>

Become(s, st) == stage' = [stage EXCEPT ![s] = st]

(* A fresh boss takes the turn, or finds nothing for it to do.             *)
Claim(s) ==
  /\ stage[s] = "fresh"
  /\ readable
  /\ \/ /\ status \in {"ready", "awaiting_handoff", "in_progress"}
        /\ status' = "in_progress"
        /\ Become(s, "working")
        /\ surfaced' = FALSE
     \/ /\ status \in {"blocked", "done"}
        /\ Become(s, "wrapping")
        /\ UNCHANGED <<status, surfaced>>
  /\ UNCHANGED <<turn, readable, burnt, conductorVars>>

(* Its last act in the file: a handoff, the goal met, or a hard stop.      *)
EndTurn(s) ==
  /\ stage[s] = "working"
  /\ readable
  /\ status = "in_progress"
  /\ Become(s, "wrapping")
  /\ \/ /\ turn < MaxTurn
        /\ status' = "awaiting_handoff"
        /\ turn' = turn + 1
        /\ burnt' = 0
     \/ /\ status' \in {"done", "blocked"}
        /\ UNCHANGED <<turn, burnt>>
  /\ UNCHANGED <<readable, surfaced, conductorVars>>

(* A boss edits the file by hand and leaves it unreadable.                 *)
Garble(s) ==
  /\ stage[s] = "working"
  /\ readable
  /\ readable' = FALSE
  /\ UNCHANGED <<status, turn, burnt, stage, surfaced, conductorVars>>

(* A session ends: it is through, it fails, it is killed, it is closed.    *)
(* Its name, or its pid in the pid file, no longer stands for anything.    *)
Exit(s) ==
  /\ s \in Live
  /\ Become(s, "none")
  /\ tracked' = IF tracked = s THEN None ELSE tracked
  /\ UNCHANGED <<fileVars, burnt, surfaced, host, pc, snap, newborn, watch, action,
                 crashes, lost>>

(* A person repairs the file, unblocks the relay, or calls a halt.         *)
Intervene ==
  /\ \/ ~readable /\ readable' = TRUE /\ UNCHANGED status
     \/ readable /\ status = "blocked"
          /\ status' \in {"ready", "in_progress"} /\ UNCHANGED readable
     \/ readable /\ status = "in_progress"
          /\ status' = "blocked" /\ UNCHANGED readable
  /\ surfaced' = FALSE
  /\ UNCHANGED <<turn, burnt, stage, conductorVars>>

Tick == LoadState \/ Observe \/ Spawn \/ SpawnFails \/ Deliver \/ DeliverFails

Next ==
  \/ Start \/ Tick \/ Crash \/ Intervene
  \/ \E s \in Sessions : Claim(s) \/ EndTurn(s) \/ Garble(s) \/ Exit(s)

(* A conductor that runs keeps polling: its loop does nothing else.  No    *)
(* fairness for sessions, people, crashes or restarts.                     *)
Spec == Init /\ [][Next]_vars /\ WF_vars(Tick)

------------------------------------------------------------------------------
(* Never two bosses on one repository, except for a headless boss whose    *)
(* conductor died between the spawn and the write of its pid file; each    *)
(* such death can add one (Rule 38; hosts.py:251-258).                     *)
OneBoss == Cardinality(Live) <= 1 + lost

(* The valve bounds what a stuck relay costs: without the turn advancing a *)
(* conductor ignites at most one session more than the valve allows (the   *)
(* one more comes from comparing turns that were loaded before the probe;  *)
(* conductor.py:59-60, 79-86).                                             *)
ValveBoundsWaste == burnt <= DeadSessionValve + 1

Waiting == readable /\ status \in {"ready", "awaiting_handoff"} /\ Live = {}

(* A free baton is picked up by a running conductor, "ready" or handed off *)
(* ("waiting here would deadlock the relay", conductor.py:62-66).          *)
BatonPickedUp == Waiting /\ pc # "down" ~> ~Waiting \/ pc = "down"

Orphaned == readable /\ status = "in_progress" /\ Live = {}

(* A turn whose session died under the eyes of a running conductor is      *)
(* reported by it ("the one surface the human gets", conductor.py:228-231).*)
(* One that died while no conductor ran is not: the next starts with a     *)
(* fresh Watch.                                                            *)
WatchedOrphanSurfaced ==
  Orphaned /\ pc # "down" /\ watch.session_alive
    ~> surfaced \/ ~Orphaned \/ pc = "down"
==============================================================================
