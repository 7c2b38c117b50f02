--------------------------- MODULE ConductorProofs ---------------------------
(***************************************************************************)
(* Theorems about the two parts of workstation/conductor.py.  First        *)
(* Conductor, for every set of session slots, every threshold of the valve *)
(* and every bound: never two bosses beyond what deaths at the headless    *)
(* pid file allow, and what a stuck relay costs; nothing is assumed of how *)
(* sessions, people and deaths interleave with the tick.  Then Pidfile,    *)
(* for every set of conductor processes: PidfileTypeCorrect holds however  *)
(* the starts overlap; SerialOneConductor, SerialClaimKept and             *)
(* SerialNoManualCleanup need SerialStart, without which TLC refutes       *)
(* OneConductor.                                                           *)
(***************************************************************************)
EXTENDS Conductor, Pidfile, FiniteSetTheorems, TLAPS

Turns == 0..MaxTurn
Watches == [session_alive : BOOLEAN,
            turn_at_ignite : Turns \cup {None},
            dead_sessions : 0..DeadSessionValve]

(* What a tick has in hand at each of its steps.                           *)
InTick ==
  /\ pc \in {"loaded", "ignite", "spawned"} => snap \in Snapshots
  /\ pc = "spawned" => newborn \in Sessions
  /\ pc # "spawned" => newborn = None

(* A conductor that still runs has not met its valve, and one about to     *)
(* ignite has seen no session.                                             *)
BelowValve ==
  /\ pc # "down" => watch.dead_sessions < DeadSessionValve
  /\ pc \in {"ignite", "spawned"} => ~watch.session_alive

TypeInv == TypeOK /\ InTick /\ BelowValve /\ lost <= crashes

------------------------------------------------------------------------------
(* What the watch and the decision come to.                                *)

(* observe_session_end() counts one more death, or starts over when the    *)
(* turn has moved.                                                         *)
LEMMA SessionEnd ==
  ASSUME NEW s \in Snapshots, NEW w \in Watches,
         w.dead_sessions < DeadSessionValve
  PROVE  LET o == ObserveSessionEnd(s, w) IN
         /\ o \in Watches
         /\ ~o.session_alive
         /\ o.turn_at_ignite = w.turn_at_ignite
         /\ w.turn_at_ignite = None \/ s.turn # w.turn_at_ignite
              => o.dead_sessions = 0
         /\ ~(w.turn_at_ignite = None \/ s.turn # w.turn_at_ignite)
              => o.dead_sessions = w.dead_sessions + 1
<1>1. CASE w.turn_at_ignite = None \/ s.turn # w.turn_at_ignite
  <2>1. ObserveSessionEnd(s, w) =
          [w EXCEPT !.session_alive = FALSE, !.dead_sessions = 0]
    BY <1>1 DEF ObserveSessionEnd
  <2>2. ObserveSessionEnd(s, w) =
          [session_alive |-> FALSE, turn_at_ignite |-> w.turn_at_ignite,
           dead_sessions |-> 0]
    BY <2>1 DEF Watches
  <2>. QED BY <1>1, <2>2, ValveAssumption DEF Watches
<1>2. CASE ~(w.turn_at_ignite = None \/ s.turn # w.turn_at_ignite)
  <2>1. ObserveSessionEnd(s, w) =
          [w EXCEPT !.session_alive = FALSE, !.dead_sessions = w.dead_sessions + 1]
    BY <1>2 DEF ObserveSessionEnd
  <2>2. ObserveSessionEnd(s, w) =
          [session_alive |-> FALSE, turn_at_ignite |-> w.turn_at_ignite,
           dead_sessions |-> w.dead_sessions + 1]
    BY <2>1 DEF Watches
  <2>. QED BY <1>2, <2>2, ValveAssumption DEF Watches
<1>. QED BY <1>1, <1>2

(* After _refresh_watch() the watch knows a session exactly if one is      *)
(* alive.                                                                  *)
LEMMA RefreshedKnows ==
  ASSUME NEW s \in Snapshots, NEW w \in Watches,
         w.dead_sessions < DeadSessionValve
  PROVE  /\ Refreshed(s, w) \in Watches
         /\ Refreshed(s, w).session_alive <=> Alive
<1>1. CASE w.session_alive /\ ~Alive
  <2>1. Refreshed(s, w) = ObserveSessionEnd(s, w)
    BY <1>1 DEF Refreshed
  <2>. QED BY <1>1, <2>1, SessionEnd
<1>2. CASE ~w.session_alive /\ Alive
  <2>1. Refreshed(s, w) = [w EXCEPT !.session_alive = TRUE, !.turn_at_ignite = s.turn]
    BY <1>2 DEF Refreshed
  <2>. QED BY <1>2, <2>1 DEF Watches, Snapshots, Turns
<1>3. CASE ~(w.session_alive /\ ~Alive) /\ ~(~w.session_alive /\ Alive)
  <2>1. Refreshed(s, w) = w
    BY <1>3 DEF Refreshed
  <2>. QED BY <1>3, <2>1
<1>. QED BY <1>1, <1>2, <1>3

(* decide() ends the loop, waits below the valve, or ignites: then below   *)
(* the valve and with no session known.                                    *)
LEMMA DecideCases ==
  ASSUME NEW s \in Snapshots, NEW w \in Watches
  PROVE  /\ Decide(s, w) \in Terminal \cup {"wait", "ignite"}
         /\ Decide(s, w) \in {"wait", "ignite"} => w.dead_sessions < DeadSessionValve
         /\ Decide(s, w) = "ignite" => ~w.session_alive
<1>1. s.status \in Statuses /\ w.dead_sessions \in 0..DeadSessionValve
  BY DEF Snapshots, Watches
<1>2. CASE s.status = "blocked"
  BY <1>2 DEF Decide, Terminal
<1>3. CASE s.status = "done"
  BY <1>3 DEF Decide, Terminal
<1>4. CASE s.status \notin {"blocked", "done"}
  BY <1>1, <1>4, ValveAssumption DEF Decide, Terminal
<1>. QED BY <1>2, <1>3, <1>4

------------------------------------------------------------------------------
LEMMA InitType == Init => TypeInv
<1>. SUFFICES ASSUME Init PROVE TypeInv
  OBVIOUS
<1>1. watch \in Watches /\ watch.dead_sessions < DeadSessionValve
  BY ValveAssumption DEF Init, FreshWatch, Watches
<1>2. InTick /\ BelowValve /\ lost <= crashes
  BY <1>1 DEF Init, InTick, BelowValve
<1>3. 0 \in 0..MaxTurn /\ 0 \in 0..MaxCrashes /\ 0 \in Nat
  BY BoundsAssumption
<1>4. stage \in [Sessions -> Stages]
  BY DEF Init, Stages
<1>5. TypeOK
  BY <1>1, <1>3, <1>4, Zenon DEF Init, TypeOK, Statuses, Watches, Turns
<1>. QED BY <1>2, <1>5 DEF TypeInv

LEMMA StepType == TypeInv /\ [Next]_vars => TypeInv'
<1>. SUFFICES ASSUME TypeInv, [Next]_vars PROVE TypeInv'
  OBVIOUS
<1>. USE ValveAssumption, BoundsAssumption, NoneAssumption
     DEF TypeInv, TypeOK, InTick, BelowValve, fileVars, sessionVars, logVars,
         historyVars, conductorVars
<1>1. CASE Start
  BY <1>1 DEF Start, FreshWatch
<1>2. CASE LoadState
  BY <1>2 DEF LoadState, Snapshots
<1>3. CASE Observe
  <2>1. snap \in Snapshots /\ watch \in Watches /\ watch.dead_sessions < DeadSessionValve
    BY <1>3 DEF Observe, Watches, Turns
  <2>2. watch' = Refreshed(snap, watch) /\ watch' \in Watches
    BY <1>3, <2>1, RefreshedKnows DEF Observe
  <2>3. surfaced' \in BOOLEAN
    BY <1>3 DEF Observe, ReportsOrphan
  <2>. DEFINE chosen == Decide(snap, watch')
  <2>4. /\ chosen \in {"wait", "ignite"} => watch'.dead_sessions < DeadSessionValve
        /\ chosen = "ignite" => ~watch'.session_alive
    BY <2>1, <2>2, DecideCases
  <2>5. CASE chosen \in Terminal /\ Down(chosen)
    BY <1>3, <2>1, <2>2, <2>3, <2>5 DEF Observe, Down, Terminal, Watches, Turns
  <2>6. CASE chosen = "wait" /\ pc' = "poll" /\ action' = chosen /\ snap' = None
             /\ newborn' = newborn
    BY <1>3, <2>1, <2>2, <2>3, <2>4, <2>6 DEF Observe, Watches, Turns
  <2>7. CASE chosen = "ignite" /\ pc' = "ignite" /\ action' = chosen
             /\ snap' = snap /\ newborn' = newborn
    BY <1>3, <2>1, <2>2, <2>3, <2>4, <2>7 DEF Observe, Watches, Turns
  <2>. QED BY <1>3, <2>5, <2>6, <2>7 DEF Observe
<1>4. CASE Spawn
  BY <1>4 DEF Spawn, Stages, Live
<1>5. CASE SpawnFails
  BY <1>5 DEF SpawnFails, Down
<1>6. CASE Deliver
  BY <1>6 DEF Deliver, Ignited, Snapshots, Stages
<1>7. CASE DeliverFails
  BY <1>7 DEF DeliverFails, Down
<1>8. CASE Crash
  BY <1>8 DEF Crash, Down
<1>9. CASE Intervene
  <2>1. status' \in Statuses /\ readable' \in BOOLEAN /\ surfaced' \in BOOLEAN
    BY <1>9 DEF Intervene, Statuses
  <2>2. UNCHANGED <<turn, burnt, stage, conductorVars>>
    BY <1>9 DEF Intervene
  <2>. QED BY <2>1, <2>2
<1>10. ASSUME NEW s \in Sessions, Claim(s) PROVE TypeInv'
  <2>1. /\ stage' \in [Sessions -> Stages] /\ status' \in Statuses
        /\ surfaced' \in BOOLEAN
    BY <1>10 DEF Claim, Become, Statuses, Stages
  <2>2. UNCHANGED <<turn, readable, burnt, conductorVars>>
    BY <1>10 DEF Claim
  <2>. QED BY <2>1, <2>2
<1>11. ASSUME NEW s \in Sessions, EndTurn(s) PROVE TypeInv'
  <2>1. /\ stage' \in [Sessions -> Stages] /\ status' \in Statuses
        /\ turn' \in 0..MaxTurn /\ burnt' \in Nat
    BY <1>11 DEF EndTurn, Become, Statuses, Stages
  <2>2. UNCHANGED <<readable, surfaced, conductorVars>>
    BY <1>11 DEF EndTurn
  <2>. QED BY <2>1, <2>2
<1>12. ASSUME NEW s \in Sessions, Garble(s) PROVE TypeInv'
  <2>1. readable' \in BOOLEAN
    BY <1>12 DEF Garble
  <2>2. UNCHANGED <<status, turn, burnt, stage, surfaced, conductorVars>>
    BY <1>12 DEF Garble
  <2>. QED BY <2>1, <2>2
<1>13. ASSUME NEW s \in Sessions, Exit(s) PROVE TypeInv'
  BY <1>13 DEF Exit, Become, Stages, Live
<1>14. CASE UNCHANGED vars
  BY <1>14 DEF vars
<1>. QED
  BY <1>1, <1>2, <1>3, <1>4, <1>5, <1>6, <1>7, <1>8, <1>9, <1>10, <1>11, <1>12,
     <1>13, <1>14 DEF Next, Tick

(* Type correctness, with the loop's own bookkeeping.                      *)
THEOREM TypeCorrect == Spec => []TypeOK
<1>1. TypeInv => TypeOK
  BY DEF TypeInv
<1>. QED BY <1>1, InitType, StepType, PTL DEF Spec

------------------------------------------------------------------------------
(* Never two bosses: who is alive without the conductor knowing.           *)

(* The sessions that neither the name or pid file stands for nor ignite    *)
(* has in hand.                                                            *)
Strays == Live \ {tracked, newborn}

(* A tmux session is always known by its name; a headless one is unknown   *)
(* only when the conductor died before it wrote the pid file.              *)
BossInv ==
  /\ host = "tmux" => Live \subseteq {tracked}
  /\ pc = "ignite" => ~Alive
  /\ pc = "spawned" => ~Alive \/ tracked = newborn
  /\ IsFiniteSet(Live)
  /\ Cardinality(Strays) <= lost

LEMMA BossInit == Init => BossInv
<1>. SUFFICES ASSUME Init PROVE BossInv
  OBVIOUS
<1>1. Live = {}
  BY DEF Init, Live
<1>2. Strays = {}
  BY <1>1 DEF Strays
<1>. QED BY <1>1, <1>2, FS_EmptySet DEF Init, BossInv

(* What one more element, and what fewer, does to a finite set.            *)
LEMMA OneMore ==
  ASSUME NEW S, NEW x, IsFiniteSet(S)
  PROVE  /\ IsFiniteSet(S \cup {x})
         /\ Cardinality(S) \in Nat /\ Cardinality(S \cup {x}) \in Nat
         /\ Cardinality(S \cup {x}) <= Cardinality(S) + 1
<1>1. IsFiniteSet(S \cup {x})
  BY FS_AddElement
<1>2. Cardinality(S) \in Nat /\ Cardinality(S \cup {x}) \in Nat
  BY <1>1, FS_CardinalityType
<1>3. Cardinality(S \cup {x}) = Cardinality(S) \/ Cardinality(S \cup {x}) = Cardinality(S) + 1
  BY FS_AddElement
<1>. QED BY <1>1, <1>2, <1>3

LEMMA NoMore ==
  ASSUME NEW S, IsFiniteSet(S), NEW T, T \subseteq S
  PROVE  /\ IsFiniteSet(T)
         /\ Cardinality(S) \in Nat /\ Cardinality(T) \in Nat
         /\ Cardinality(T) <= Cardinality(S)
<1>1. IsFiniteSet(T) /\ Cardinality(T) <= Cardinality(S)
  BY FS_Subset
<1>. QED BY <1>1, FS_CardinalityType

(* A step that spawns nothing, forgets nothing and loses nothing.          *)
LEMMA FewerStrays ==
  ASSUME TypeInv, BossInv, Live' \subseteq Live, Strays' \subseteq Strays,
         lost' \in Nat, lost <= lost'
  PROVE  IsFiniteSet(Live') /\ Cardinality(Strays') <= lost'
<1>1. IsFiniteSet(Live) /\ IsFiniteSet(Strays)
  BY NoMore DEF BossInv, Strays
<1>2. IsFiniteSet(Live')
  BY <1>1, NoMore
<1>3. /\ Cardinality(Strays') <= Cardinality(Strays)
      /\ Cardinality(Strays) \in Nat /\ Cardinality(Strays') \in Nat
  BY <1>1, NoMore
<1>. QED BY <1>2, <1>3, BoundsAssumption DEF BossInv, TypeInv, TypeOK

LEMMA BossStep == TypeInv /\ TypeInv' /\ BossInv /\ [Next]_vars => BossInv'
<1>. SUFFICES ASSUME TypeInv, TypeInv', BossInv, [Next]_vars PROVE BossInv'
  OBVIOUS
<1>0. lost \in Nat /\ lost' \in Nat /\ lost <= lost
  BY BoundsAssumption DEF TypeInv, TypeOK
<1>. USE NoneAssumption DEF sessionVars, historyVars
(* Steps that leave the sessions alone and end with nothing in hand that   *)
(* was not accounted for.                                                  *)
<1>A. ASSUME stage' = stage, tracked' = tracked, host' = host, lost' = lost,
             newborn' = newborn \/ newborn \notin Live \/ newborn = tracked,
             pc' = "ignite" => pc = "ignite" \/ ~Alive,
             pc' = "spawned" => pc = "spawned" /\ newborn' = newborn
      PROVE  BossInv'
  <2>1. Live' = Live /\ (Alive' <=> Alive)
    BY <1>A DEF Live, Alive
  <2>2. Strays' \subseteq Strays
    BY <1>A, <2>1 DEF Strays
  <2>. QED BY <1>0, <1>A, <2>1, <2>2, FewerStrays DEF BossInv
(* Steps of sessions that keep who is alive.                               *)
<1>B. ASSUME NEW s \in Sessions, stage[s] # "none",
             \E st \in Stages \ {"none"} : Become(s, st),
             UNCHANGED <<host, tracked, pc, newborn, lost>>
      PROVE  BossInv'
  <2>1. Live' = Live
    BY <1>B DEF Live, Become, TypeInv, TypeOK
  <2>2. Strays' = Strays /\ (Alive' <=> Alive)
    BY <1>B, <2>1 DEF Strays, Alive
  <2>. QED BY <1>B, <2>1, <2>2 DEF BossInv
<1>1. CASE Start
  <2>1. pc' = "poll" /\ UNCHANGED <<stage, tracked, host, lost, newborn>>
    BY <1>1 DEF Start
  <2>. QED BY <1>A, <2>1
<1>2. CASE LoadState
  BY <1>2, <1>A DEF LoadState
<1>3. CASE Observe
  <2>1. snap \in Snapshots /\ watch \in Watches /\ watch.dead_sessions < DeadSessionValve
    BY <1>3 DEF Observe, TypeInv, TypeOK, InTick, BelowValve, Watches, Turns
  <2>2. /\ watch' = Refreshed(snap, watch)
        /\ stage' = stage /\ tracked' = tracked /\ host' = host /\ lost' = lost
        /\ pc = "loaded"
    BY <1>3 DEF Observe, historyVars
  <2>3. pc' = "ignite" => ~watch'.session_alive
    BY <1>3, <2>1, <2>2, DecideCases, RefreshedKnows DEF Observe, Down
  <2>4. newborn \notin Live
    BY <2>2 DEF TypeInv, InTick, Live
  <2>5. pc' # "spawned"
    BY <1>3 DEF Observe, Down
  <2>. QED BY <1>A, <2>1, <2>2, <2>3, <2>4, <2>5, RefreshedKnows
<1>4. CASE Spawn
  <2>1. PICK s \in Sessions \ Live :
          /\ newborn' = s
          /\ \/ /\ host = "tmux"
                /\ ~Alive
                /\ stage' = [stage EXCEPT ![s] = "mute"]
                /\ tracked' = s
             \/ /\ host = "headless"
                /\ stage' = [stage EXCEPT ![s] = "fresh"]
                /\ UNCHANGED tracked
    BY <1>4 DEF Spawn
  <2>2. pc' = "spawned" /\ host' = host /\ lost' = lost /\ newborn = None /\ ~Alive
    BY <1>4 DEF Spawn, TypeInv, InTick, BossInv
  <2>3. Live' = Live \cup {s}
    BY <2>1 DEF Live, TypeInv, TypeOK
  <2>4. IsFiniteSet(Live')
    BY <2>3, OneMore DEF BossInv
  <2>5. Strays' \subseteq Strays
    BY <2>1, <2>2, <2>3 DEF Strays, BossInv, Alive, Live
  <2>6. host = "tmux" => Live = {}
    BY <2>2 DEF BossInv, Alive
  <2>7. IsFiniteSet(Strays)
    BY NoMore DEF BossInv, Strays
  <2>8. /\ Cardinality(Strays') <= Cardinality(Strays)
        /\ Cardinality(Strays) \in Nat /\ Cardinality(Strays') \in Nat
    BY <2>5, <2>7, NoMore
  <2>9. Cardinality(Strays') <= lost'
    BY <1>0, <2>2, <2>8 DEF BossInv
  <2>10. ~Alive' \/ tracked' = newborn'
    BY <2>1, <2>2, <2>3 DEF Alive
  <2>. QED BY <2>1, <2>2, <2>3, <2>4, <2>6, <2>9, <2>10 DEF BossInv
<1>5. CASE SpawnFails
  BY <1>5, <1>A DEF SpawnFails, Down, historyVars, TypeInv, InTick, Live
<1>6. CASE Deliver
  <2>1. newborn \in Sessions /\ pc = "spawned"
    BY <1>6 DEF Deliver, TypeInv, InTick
  <2>2. newborn' = None /\ pc' = "poll" /\ host' = host /\ lost' = lost
    BY <1>6 DEF Deliver, Ignited, historyVars
  <2>3. CASE host = "tmux" /\ stage[newborn] = "mute"
             /\ stage' = [stage EXCEPT ![newborn] = "fresh"] /\ tracked' = tracked
    <3>1. Live' = Live /\ newborn \in Live
      BY <2>1, <2>3 DEF Live, TypeInv, TypeOK
    <3>2. newborn = tracked /\ Live \subseteq {tracked}
      BY <2>3, <3>1 DEF BossInv
    <3>3. Strays' \subseteq Strays
      BY <2>2, <2>3, <3>1, <3>2 DEF Strays
    <3>. QED BY <1>0, <2>2, <2>3, <3>1, <3>2, <3>3, FewerStrays DEF BossInv
  <2>4. CASE host = "headless" /\ tracked' = newborn /\ stage' = stage
    <3>1. Live' = Live
      BY <2>4 DEF Live
    <3>2. tracked \notin Live \/ tracked = newborn
      BY <2>1 DEF BossInv, Alive
    <3>3. Strays' \subseteq Strays
      BY <2>2, <2>4, <3>1, <3>2 DEF Strays
    <3>. QED BY <1>0, <2>2, <2>4, <3>1, <3>3, FewerStrays DEF BossInv
  <2>. QED BY <1>6, <2>3, <2>4 DEF Deliver
<1>7. CASE DeliverFails
  <2>1. newborn \notin Live \/ newborn = tracked
    BY <1>7 DEF DeliverFails, BossInv
  <2>. QED BY <1>7, <1>A, <2>1 DEF DeliverFails, Down, historyVars
<1>8. CASE Crash
  <2>1. /\ stage' = stage /\ tracked' = tracked /\ host' = host
        /\ pc' = "down" /\ newborn' = None
        /\ lost' = IF pc = "spawned" /\ host = "headless" THEN lost + 1 ELSE lost
    BY <1>8 DEF Crash, Down
  <2>2. CASE pc = "spawned" /\ host = "headless"
    <3>1. Live' = Live /\ Strays' \subseteq Strays \cup {newborn}
      BY <2>1 DEF Live, Strays
    <3>2. IsFiniteSet(Strays)
      BY NoMore DEF BossInv, Strays
    <3>3. /\ IsFiniteSet(Strays \cup {newborn})
          /\ Cardinality(Strays \cup {newborn}) <= Cardinality(Strays) + 1
          /\ Cardinality(Strays) \in Nat
      BY <3>2, OneMore
    <3>4. /\ Cardinality(Strays') <= Cardinality(Strays \cup {newborn})
          /\ Cardinality(Strays') \in Nat /\ Cardinality(Strays \cup {newborn}) \in Nat
      BY <3>1, <3>3, NoMore
    <3>5. Cardinality(Strays') <= lost + 1
      BY <1>0, <3>3, <3>4 DEF BossInv
    <3>. QED BY <2>1, <2>2, <3>1, <3>5 DEF BossInv
  <2>3. CASE ~(pc = "spawned" /\ host = "headless")
    <3>1. newborn \notin Live \/ newborn = tracked
      BY <2>3, HostsAssumption DEF BossInv, TypeInv, TypeOK, InTick, Live
    <3>. QED BY <1>A, <2>1, <2>3, <3>1
  <2>. QED BY <2>2, <2>3
<1>9. CASE Intervene
  BY <1>9, <1>A DEF Intervene, conductorVars
<1>10. ASSUME NEW s \in Sessions, Claim(s) PROVE BossInv'
  BY <1>10, <1>B DEF Claim, conductorVars, Stages
<1>11. ASSUME NEW s \in Sessions, EndTurn(s) PROVE BossInv'
  BY <1>11, <1>B DEF EndTurn, conductorVars, Stages
<1>12. ASSUME NEW s \in Sessions, Garble(s) PROVE BossInv'
  BY <1>12, <1>A DEF Garble, conductorVars
<1>13. ASSUME NEW s \in Sessions, Exit(s) PROVE BossInv'
  <2>1. /\ host' = host /\ pc' = pc /\ newborn' = newborn /\ lost' = lost
        /\ tracked' = IF tracked = s THEN None ELSE tracked
    BY <1>13 DEF Exit
  <2>2. Live' = Live \ {s}
    BY <1>13 DEF Exit, Become, Live, TypeInv, TypeOK
  <2>3. Strays' \subseteq Strays
    BY <2>1, <2>2 DEF Strays
  <2>4. Alive' => Alive /\ tracked' = tracked
    BY <2>1, <2>2 DEF Alive, Live
  <2>5. host = "tmux" => Live' \subseteq {tracked'}
    BY <2>1, <2>2 DEF BossInv
  <2>. QED BY <1>0, <2>1, <2>2, <2>3, <2>4, <2>5, FewerStrays DEF BossInv
<1>14. CASE UNCHANGED vars
  BY <1>14, <1>A DEF vars, historyVars
<1>. QED
  BY <1>1, <1>2, <1>3, <1>4, <1>5, <1>6, <1>7, <1>8, <1>9, <1>10, <1>11, <1>12,
     <1>13, <1>14 DEF Next, Tick

(* Never two bosses on one repository, but for the headless ones whose     *)
(* conductor died before it wrote their pid file: one more per such death. *)
THEOREM OneBossCorrect == Spec => []OneBoss
<1>1. ASSUME TypeInv, BossInv PROVE OneBoss
  <2>. DEFINE known == IF tracked \in Live THEN tracked ELSE newborn
  <2>1. Live \subseteq Strays \cup {known}
    BY <1>1, NoneAssumption DEF Strays, BossInv, TypeInv, InTick, Alive, Live
  <2>2. IsFiniteSet(Strays)
    BY <1>1, NoMore DEF BossInv, Strays
  <2>3. /\ IsFiniteSet(Strays \cup {known})
        /\ Cardinality(Strays \cup {known}) <= Cardinality(Strays) + 1
        /\ Cardinality(Strays) \in Nat
    BY <2>2, OneMore
  <2>4. /\ Cardinality(Live) <= Cardinality(Strays \cup {known})
        /\ Cardinality(Live) \in Nat /\ Cardinality(Strays \cup {known}) \in Nat
    BY <2>1, <2>3, NoMore
  <2>5. lost \in Nat /\ Cardinality(Strays) <= lost
    BY <1>1, BoundsAssumption DEF BossInv, TypeInv, TypeOK
  <2>. QED BY <2>3, <2>4, <2>5 DEF OneBoss
<1>. QED BY <1>1, InitType, StepType, BossInit, BossStep, PTL DEF Spec

------------------------------------------------------------------------------
(* What a stuck relay costs.  Deaths are counted against the turn a tick   *)
(* loaded, which the file may have left behind since.                      *)

(* Turns only grow: from ignition or adoption to the load, to the present. *)
TurnsInOrder ==
  /\ pc \in {"loaded", "ignite", "spawned"} => snap.turn <= turn
  /\ pc # "down" /\ watch.session_alive =>
       /\ watch.turn_at_ignite \in Turns
       /\ watch.turn_at_ignite <= turn
       /\ pc = "loaded" => watch.turn_at_ignite <= snap.turn

(* Sessions ignited in the present turn, against the deaths the valve has  *)
(* counted.  A session ignited on a turn already past is the one the valve *)
(* does not count.                                                         *)
Accounted ==
  /\ pc \in {"poll", "loaded", "ignite"} /\ ~watch.session_alive =>
       burnt <= watch.dead_sessions + 1
  /\ pc # "down" /\ watch.session_alive =>
       burnt <= IF watch.turn_at_ignite = turn THEN watch.dead_sessions + 2 ELSE 1
  /\ pc = "spawned" =>
       burnt <= IF snap.turn = turn THEN watch.dead_sessions + 2 ELSE 1
  /\ pc \in {"loaded", "ignite"} /\ snap.turn # turn => burnt = 0

WasteInv == TurnsInOrder /\ Accounted /\ ValveBoundsWaste

LEMMA WasteInit == Init => WasteInv
BY ValveAssumption DEF Init, WasteInv, TurnsInOrder, Accounted, ValveBoundsWaste

LEMMA WasteStep == TypeInv /\ TypeInv' /\ WasteInv /\ [Next]_vars => WasteInv'
<1>. SUFFICES ASSUME TypeInv, TypeInv', WasteInv, [Next]_vars PROVE WasteInv'
  OBVIOUS
<1>0. /\ turn \in Nat /\ burnt \in Nat
      /\ watch.dead_sessions \in 0..DeadSessionValve
      /\ pc # "down" => watch.dead_sessions + 1 <= DeadSessionValve
      /\ watch.session_alive \in BOOLEAN
      /\ watch.turn_at_ignite \in Turns \cup {None}
      /\ pc \in {"loaded", "ignite", "spawned"} => snap.turn \in Turns
      /\ pc \in {"ignite", "spawned"} => ~watch.session_alive
      /\ pc \in {"down", "poll", "loaded", "ignite", "spawned"}
  BY ValveAssumption, BoundsAssumption
     DEF TypeInv, TypeOK, InTick, BelowValve, Snapshots, Turns
<1>. USE ValveAssumption, BoundsAssumption, NoneAssumption, <1>0
     DEF WasteInv, TurnsInOrder, Accounted, ValveBoundsWaste, Turns
<1>A. ASSUME UNCHANGED <<turn, pc, snap, watch, burnt>> PROVE WasteInv'
  BY <1>A
<1>B. ASSUME pc' = "down", burnt' = burnt PROVE WasteInv'
  BY <1>B
<1>1. CASE Start
  BY <1>1 DEF Start, FreshWatch
<1>2. CASE LoadState
  <2>1. /\ pc = "poll" /\ pc' = "loaded" /\ snap'.turn = turn
        /\ UNCHANGED <<turn, watch, burnt>>
    BY <1>2 DEF LoadState, fileVars, historyVars
  <2>. QED BY <2>1
<1>3. CASE Observe
  <2>1. snap \in Snapshots /\ watch \in Watches /\ watch.dead_sessions < DeadSessionValve
    BY <1>3 DEF Observe, TypeInv, TypeOK, InTick, BelowValve, Watches
  <2>2. /\ pc = "loaded" /\ watch' = Refreshed(snap, watch)
        /\ turn' = turn /\ burnt' = burnt
        /\ pc' = "poll" \/ (pc' = "ignite" /\ snap' = snap) \/ pc' = "down"
    BY <1>3 DEF Observe, Down, fileVars, historyVars
  <2>3. CASE watch.session_alive /\ ~Alive
    <3>1. watch' = ObserveSessionEnd(snap, watch)
      BY <2>2, <2>3 DEF Refreshed
    <3>2. /\ ~watch'.session_alive
          /\ watch'.dead_sessions \in Nat
          /\ burnt <= watch'.dead_sessions + 1
      BY <2>1, <2>2, <2>3, <3>1, SessionEnd DEF Watches
    <3>. QED BY <2>2, <3>2
  <2>4. CASE ~watch.session_alive /\ Alive
    <3>1. watch' = [watch EXCEPT !.session_alive = TRUE, !.turn_at_ignite = snap.turn]
      BY <2>2, <2>4 DEF Refreshed
    <3>2. /\ watch'.session_alive /\ watch'.turn_at_ignite = snap.turn
          /\ watch'.dead_sessions = watch.dead_sessions
      BY <2>1, <3>1 DEF Watches
    <3>3. pc' # "ignite"
      BY <1>3, <2>1, <2>2, <3>2, RefreshedKnows, DecideCases DEF Observe, Down
    <3>. QED BY <2>2, <2>4, <3>2, <3>3
  <2>5. CASE ~(watch.session_alive /\ ~Alive) /\ ~(~watch.session_alive /\ Alive)
    <3>1. watch' = watch
      BY <2>2, <2>5 DEF Refreshed
    <3>. QED BY <2>2, <3>1
  <2>. QED BY <2>3, <2>4, <2>5
<1>4. CASE Spawn
  <2>1. /\ pc = "ignite" /\ pc' = "spawned" /\ burnt' = burnt + 1
        /\ UNCHANGED <<turn, snap, watch>>
    BY <1>4 DEF Spawn, fileVars
  <2>. QED BY <2>1
<1>5. CASE SpawnFails
  BY <1>5, <1>B DEF SpawnFails, Down, historyVars
<1>6. CASE Deliver
  <2>1. /\ pc = "spawned" /\ pc' = "poll"
        /\ watch' = [watch EXCEPT !.session_alive = TRUE, !.turn_at_ignite = snap.turn]
        /\ UNCHANGED <<turn, burnt>>
    BY <1>6 DEF Deliver, Ignited, fileVars, historyVars
  <2>2. /\ watch'.session_alive /\ watch'.turn_at_ignite = snap.turn
        /\ watch'.dead_sessions = watch.dead_sessions
    BY <2>1 DEF TypeInv, TypeOK
  <2>. QED BY <2>1, <2>2
<1>7. CASE DeliverFails
  BY <1>7, <1>B DEF DeliverFails, Down, historyVars
<1>8. CASE Crash
  BY <1>8, <1>B DEF Crash, Down
<1>9. CASE Intervene
  BY <1>9, <1>A DEF Intervene, conductorVars
<1>10. ASSUME NEW s \in Sessions, Claim(s) PROVE WasteInv'
  BY <1>10, <1>A DEF Claim, conductorVars
<1>11. ASSUME NEW s \in Sessions, EndTurn(s) PROVE WasteInv'
  <2>1. UNCHANGED <<pc, snap, watch>>
    BY <1>11 DEF EndTurn, conductorVars
  <2>2. CASE turn' = turn + 1 /\ burnt' = 0
    BY <2>1, <2>2
  <2>3. CASE UNCHANGED <<turn, burnt>>
    BY <2>1, <2>3, <1>A
  <2>. QED BY <1>11, <2>2, <2>3 DEF EndTurn
<1>12. ASSUME NEW s \in Sessions, Garble(s) PROVE WasteInv'
  BY <1>12, <1>A DEF Garble, conductorVars
<1>13. ASSUME NEW s \in Sessions, Exit(s) PROVE WasteInv'
  BY <1>13, <1>A DEF Exit, fileVars
<1>14. CASE UNCHANGED vars
  BY <1>14, <1>A DEF vars, fileVars, historyVars
<1>. QED
  BY <1>1, <1>2, <1>3, <1>4, <1>5, <1>6, <1>7, <1>8, <1>9, <1>10, <1>11, <1>12,
     <1>13, <1>14 DEF Next, Tick

(* However sessions die and turns move under the conductor, a turn that    *)
(* does not advance costs one session more than the valve allows, at most. *)
THEOREM ValveCorrect == Spec => []ValveBoundsWaste
<1>1. WasteInv => ValveBoundsWaste
  BY DEF WasteInv
<1>. QED BY <1>1, InitType, StepType, WasteInit, WasteStep, PTL DEF Spec

------------------------------------------------------------------------------
(* The pidfile that keeps a second conductor out.                          *)
(* A process that can still reclaim has reclaimed at most once: after its  *)
(* second unlink it gives up.                                              *)
TriesLeft == \A p \in Procs : at[p] \in Acquiring \/ at[p] = "out" => tries[p] <= 1

PidfileTypeInv == PidfileTypeOK /\ TriesLeft

LEMMA PidfileInitType == PidfileInit => PidfileTypeInv
BY DEF PidfileInit, PidfileTypeInv, PidfileTypeOK, TriesLeft, Acquiring

LEMMA PidfileStepType == PidfileTypeInv /\ [PidfileNext]_pidfileVars => PidfileTypeInv'
<1>. SUFFICES ASSUME PidfileTypeInv, [PidfileNext]_pidfileVars PROVE PidfileTypeInv'
  OBVIOUS
<1>. USE NoPidAssumption DEF PidfileTypeInv, PidfileTypeOK, TriesLeft, Acquiring, Holding
<1>1. ASSUME NEW p \in Procs, Launch(p) PROVE PidfileTypeInv'
  BY <1>1 DEF Launch, Goto
<1>2. ASSUME NEW p \in Procs, Open(p) PROVE PidfileTypeInv'
  BY <1>2 DEF Open, Goto
<1>3. ASSUME NEW p \in Procs, ReadPid(p) PROVE PidfileTypeInv'
  BY <1>3 DEF ReadPid, Goto, End
<1>4. ASSUME NEW p \in Procs, Probe(p) PROVE PidfileTypeInv'
  BY <1>4 DEF Probe, Goto, End
<1>5. ASSUME NEW p \in Procs, Reclaim(p) PROVE PidfileTypeInv'
  BY <1>5 DEF Reclaim, Goto, End
<1>6. ASSUME NEW p \in Procs, WritePid(p) PROVE PidfileTypeInv'
  BY <1>6 DEF WritePid, Goto
<1>7. ASSUME NEW p \in Procs, CheckOwn(p) PROVE PidfileTypeInv'
  BY <1>7 DEF CheckOwn, Goto, End
<1>8. ASSUME NEW p \in Procs, Unlink(p) PROVE PidfileTypeInv'
  BY <1>8 DEF Unlink, Goto, End
<1>9. ASSUME NEW p \in Procs, Kill(p) PROVE PidfileTypeInv'
  BY <1>9 DEF Kill, Goto, End
<1>10. CASE UNCHANGED pidfileVars
  BY <1>10 DEF pidfileVars
<1>. QED
  BY <1>1, <1>2, <1>3, <1>4, <1>5, <1>6, <1>7, <1>8, <1>9, <1>10 DEF PidfileNext

(* Type correctness, however starts overlap.                               *)
THEOREM PidfileTypeCorrect == PidfileSpec => []PidfileTypeOK
<1>1. PidfileTypeInv => PidfileTypeOK
  BY DEF PidfileTypeInv
<1>. QED
  BY <1>1, PidfileInitType, PidfileStepType, PTL DEF PidfileSpec

------------------------------------------------------------------------------
(* Why one conductor at a time is enough to start safely.                  *)

(* A holder's pid is in the file, and the file is its own.                 *)
HolderInFile ==
  \A p \in Procs : at[p] \in Holding => file = p /\ p \in written

(* The creator's file is still there when it writes its pid.               *)
CreatorInFile == \A p \in Procs : at[p] = "created" => file = p

OneAcquirer ==
  \A p, q \in Procs : at[p] \in Acquiring /\ at[q] \in Acquiring => p = q

(* Whoever probes while somebody holds the claim has read the holder's     *)
(* pid, and whoever reclaims does so while nobody holds it.                *)
ProberSawHolder ==
  \A p, q \in Procs : at[p] = "probe" /\ at[q] \in Holding => seen[p] = q

ReclaimerAlone ==
  \A p, q \in Procs : at[p] = "reclaim" => at[q] \notin Holding

SerialInv ==
  /\ PidfileTypeInv
  /\ HolderInFile
  /\ CreatorInFile
  /\ OneAcquirer
  /\ ProberSawHolder
  /\ ReclaimerAlone

LEMMA InitSerial == PidfileInit => SerialInv
BY PidfileInitType DEF PidfileInit, SerialInv, HolderInFile, CreatorInFile, OneAcquirer,
   ProberSawHolder, ReclaimerAlone, Acquiring, Holding

LEMMA StepSerial ==
  ASSUME SerialStart
  PROVE  SerialInv /\ [PidfileNext]_pidfileVars => SerialInv'
<1>. SUFFICES ASSUME SerialInv, [PidfileNext]_pidfileVars PROVE SerialInv'
  OBVIOUS
<1>0. PidfileTypeInv'
  BY PidfileStepType DEF SerialInv
<1>. USE NoPidAssumption, SerialStart, <1>0
     DEF SerialInv, PidfileTypeInv, PidfileTypeOK, HolderInFile, CreatorInFile, OneAcquirer,
         ProberSawHolder, ReclaimerAlone, Acquiring, Holding
<1>1. ASSUME NEW p \in Procs, Launch(p) PROVE SerialInv'
  BY <1>1 DEF Launch, Goto
<1>2. ASSUME NEW p \in Procs, Open(p) PROVE SerialInv'
  BY <1>2 DEF Open, Goto
<1>3. ASSUME NEW p \in Procs, ReadPid(p) PROVE SerialInv'
  BY <1>3 DEF ReadPid, Goto, End
<1>4. ASSUME NEW p \in Procs, Probe(p) PROVE SerialInv'
  BY <1>4 DEF Probe, SeesLive, AliveProc, Goto, End
<1>5. ASSUME NEW p \in Procs, Reclaim(p) PROVE SerialInv'
  BY <1>5 DEF Reclaim, Goto, End
<1>6. ASSUME NEW p \in Procs, WritePid(p) PROVE SerialInv'
  BY <1>6 DEF WritePid, Goto
<1>7. ASSUME NEW p \in Procs, CheckOwn(p) PROVE SerialInv'
  BY <1>7 DEF CheckOwn, Goto, End
<1>8. ASSUME NEW p \in Procs, Unlink(p) PROVE SerialInv'
  BY <1>8 DEF Unlink, Goto, End
<1>9. ASSUME NEW p \in Procs, Kill(p) PROVE SerialInv'
  BY <1>9 DEF Kill, AliveProc, Goto, End
<1>10. CASE UNCHANGED pidfileVars
  BY <1>10 DEF pidfileVars
<1>. QED
  BY <1>1, <1>2, <1>3, <1>4, <1>5, <1>6, <1>7, <1>8, <1>9, <1>10 DEF PidfileNext

LEMMA SerialCorrect ==
  ASSUME SerialStart
  PROVE  PidfileSpec => []SerialInv
BY InitSerial, StepSerial, PTL DEF PidfileSpec

(* While starts do not overlap, two conductors are never in their loops    *)
(* together, whatever crashes leave behind.                                *)
THEOREM SerialOneConductor ==
  ASSUME SerialStart
  PROVE  PidfileSpec => []OneConductor
<1>1. SerialInv => OneConductor
  BY DEF SerialInv, HolderInFile, OneConductor
<1>. QED
  BY <1>1, SerialCorrect, PTL

(* While starts do not overlap, nobody takes a running conductor's claim.  *)
THEOREM SerialClaimKept ==
  ASSUME SerialStart
  PROVE  PidfileSpec => []ClaimKept
<1>1. SerialInv => ClaimKept
  BY DEF SerialInv, HolderInFile, ClaimKept, Holding
<1>. QED
  BY <1>1, SerialCorrect, PTL

------------------------------------------------------------------------------
(* Why a conductor that starts while none is alive gets the claim.         *)

(* It stays alone until it has acquired: nobody starts meanwhile.          *)
FreshAlone ==
  \A p, q \in Procs :
    at[p] \in Acquiring /\ ~met[p] /\ q # p => ~AliveProc(q)

(* A process that has not created its file does not find its own pid.      *)
NotOwnFile ==
  \A p \in Procs : at[p] \in {"out", "open", "exists", "probe", "reclaim"} => file # p

NotOwnPid == \A p \in Procs : at[p] = "probe" => seen[p] # p

(* It finds at most one stale file, which stays until it reclaims it; its  *)
(* second attempt finds the path free.                                     *)
OneStaleFile ==
  \A p \in Procs :
    /\ at[p] = "out" => tries[p] = 0
    /\ ~met[p] =>
      /\ at[p] = "open" /\ tries[p] # 0 => file = NoPid
      /\ at[p] \in {"exists", "probe", "reclaim"} => tries[p] = 0 /\ file # NoPid

NotEndedYet == \A p \in Procs : at[p] # "gone" => ended[p] = "not_yet"

FreshInv ==
  /\ SerialInv
  /\ FreshAlone
  /\ NotOwnFile
  /\ NotOwnPid
  /\ OneStaleFile
  /\ NotEndedYet
  /\ NoManualCleanup

LEMMA InitFresh == PidfileInit => FreshInv
BY InitSerial, NoPidAssumption
   DEF PidfileInit, FreshInv, FreshAlone, NotOwnFile, NotOwnPid, OneStaleFile,
       NotEndedYet, NoManualCleanup, Acquiring

LEMMA StepFresh ==
  ASSUME SerialStart
  PROVE  FreshInv /\ [PidfileNext]_pidfileVars => FreshInv'
<1>. SUFFICES ASSUME FreshInv, [PidfileNext]_pidfileVars PROVE FreshInv'
  OBVIOUS
<1>0. SerialInv'
  BY StepSerial DEF FreshInv
<1>. USE NoPidAssumption, SerialStart, <1>0
     DEF FreshInv, SerialInv, PidfileTypeInv, PidfileTypeOK, HolderInFile, OneAcquirer, FreshAlone,
         NotOwnFile, NotOwnPid, OneStaleFile, NotEndedYet, NoManualCleanup,
         AliveProc, Acquiring, Holding
<1>1. ASSUME NEW p \in Procs, Launch(p) PROVE FreshInv'
  <2>1. /\ at[p] = "out" /\ \A q \in Procs : at[q] \notin Acquiring
        /\ at' = [at EXCEPT ![p] = "open"]
        /\ met'[p] = \E q \in Procs : AliveProc(q)
        /\ \A q \in Procs \ {p} : met'[q] = met[q]
        /\ UNCHANGED <<file, written, seen, tries, ended>>
    BY <1>1 DEF Launch, Goto
  <2>2. FreshAlone'
    <3>. SUFFICES ASSUME NEW r \in Procs, NEW q \in Procs,
                         at'[r] \in Acquiring, ~met'[r], q # r
                  PROVE  at'[q] \in {"out", "gone"}
      OBVIOUS
    <3>1. r = p
      BY <2>1
    <3>2. ~AliveProc(q)
      BY <2>1, <3>1
    <3>. QED BY <2>1, <3>1, <3>2
  <2>3. NotOwnFile' /\ NotOwnPid'
    BY <2>1
  <2>4. OneStaleFile'
    BY <2>1
  <2>5. NotEndedYet' /\ NoManualCleanup'
    BY <2>1
  <2>. QED BY <2>2, <2>3, <2>4, <2>5
<1>2. ASSUME NEW p \in Procs, Open(p) PROVE FreshInv'
  BY <1>2 DEF Open, Goto
<1>3. ASSUME NEW p \in Procs, ReadPid(p) PROVE FreshInv'
  BY <1>3 DEF ReadPid, Goto, End
<1>4. ASSUME NEW p \in Procs, Probe(p) PROVE FreshInv'
  BY <1>4 DEF Probe, SeesLive, Goto, End
<1>5. ASSUME NEW p \in Procs, Reclaim(p) PROVE FreshInv'
  BY <1>5 DEF Reclaim, Goto, End
<1>6. ASSUME NEW p \in Procs, WritePid(p) PROVE FreshInv'
  BY <1>6 DEF WritePid, Goto
<1>7. ASSUME NEW p \in Procs, CheckOwn(p) PROVE FreshInv'
  BY <1>7 DEF CheckOwn, Goto, End
<1>8. ASSUME NEW p \in Procs, Unlink(p) PROVE FreshInv'
  BY <1>8 DEF Unlink, Goto, End
<1>9. ASSUME NEW p \in Procs, Kill(p) PROVE FreshInv'
  BY <1>9 DEF Kill, Goto, End
<1>10. CASE UNCHANGED pidfileVars
  BY <1>10 DEF pidfileVars
<1>. QED
  BY <1>1, <1>2, <1>3, <1>4, <1>5, <1>6, <1>7, <1>8, <1>9, <1>10 DEF PidfileNext

(* While starts do not overlap, a conductor started when none is alive     *)
(* gets the claim, whatever files the dead left behind.                    *)
THEOREM SerialNoManualCleanup ==
  ASSUME SerialStart
  PROVE  PidfileSpec => []NoManualCleanup
<1>1. FreshInv => NoManualCleanup
  BY DEF FreshInv
<1>. QED
  BY <1>1, InitFresh, StepFresh, PTL DEF PidfileSpec
==============================================================================
