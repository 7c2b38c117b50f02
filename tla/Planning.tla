------------------------------ MODULE Planning ------------------------------
(***************************************************************************)
(* Finish and what the dashboard shows of it (workstation/server.py,       *)
(* compiler.py, planner.py).  POST /finish compiles spec.md from the       *)
(* approved answers, asks the boss for a plan up to MAX_ROUNDS times, each *)
(* reply going through PlanOrder's calls, and replaces plan.json, then     *)
(* plan.md.  It holds _POST_LOCK for all of that; GETs and the event       *)
(* stream take no lock.  The server may die at any point.                  *)
(*                                                                         *)
(* Files are numbered: answers by edit, spec.md by the answers it was      *)
(* compiled from, plan.json by the writes of it, plan.md and the parts of   *)
(* an answer by the plan.json they show; 0 is a missing file.  The wizard   *)
(* (module Onboarding) appears as the gates that Finish reads.             *)
(***************************************************************************)
EXTENDS PlanOrder

CONSTANTS
  Replies,      (* the plans the boss may reply with                       *)
  MaxRounds,    (* MAX_ROUNDS of a planning run                            *)
  MaxEdits, MaxPlans     (* bounds: edits of the answers, plan.json writes *)

ASSUME RepliesAssumption == Replies \subseteq Plans
ASSUME BoundsAssumption == {MaxRounds, MaxEdits, MaxPlans} \subseteq Nat \ {0}

VARIABLES
  ready,     (* every step terminal, no grill open, an app project         *)
  answers, spec, json, md,    (* the files                                 *)
  fin,       (* POST /finish: "off", "idle", "planning" or "md"            *)
  round,     (* rounds of the planning run                                 *)
  stream,    (* the answer's event stream: "closed" or "open"                *)
  seen,      (* last = snapshot_token(root): nothing to report             *)
  reading,   (* the GET /api/plan that the last refresh event started:     *)
             (* "idle", or the part it reads next                          *)
  answer     (* its answer: [summary, md, tree]                            *)

order == vars
files == <<ready, answers, spec, json, md>>
finish == <<fin, round>>
view == <<stream, seen, reading, answer>>
allVars == <<order, files, finish, view>>

PlanningTypeOK ==
  /\ ready \in BOOLEAN /\ answers \in 1 .. MaxEdits
  /\ spec \in 0 .. answers /\ json \in 0 .. MaxPlans /\ md \in 0 .. json
  /\ fin \in {"off", "idle", "planning", "md"} /\ round \in 0 .. MaxRounds
  /\ stream \in {"closed", "open"} /\ seen \in BOOLEAN
  /\ reading \in {"idle", "summary", "md", "tree"}
  /\ answer \in [{"summary", "md", "tree"} -> 0 .. json]

(* A call begins, or the last one is forgotten ("none").                  *)
SetCall(p, state) ==
  call' = "plan" /\ plan' = p /\ limit' = 0 /\ waves' = <<>> /\ outcome' = state

NoPlan == CHOOSE p \in Plans : TRUE

Forget == SetCall(NoPlan, "none")

(* A behaviour is either one bare call of order_tasks or plan_waves        *)
(* ("off"), or the life of a repository with its dashboard.                *)
PlanningInit ==
  /\ \/ Init /\ fin = "off"
     \/ /\ call = "plan" /\ plan = NoPlan /\ limit = 0 /\ waves = <<>> /\ outcome = "none"
        /\ fin = "idle"
  /\ ready = FALSE /\ answers = 1 /\ spec = 0 /\ json = 0 /\ md = 0
  /\ round = 0
  /\ stream = "closed" /\ seen = TRUE
  /\ reading = "idle" /\ answer = [part \in {"summary", "md", "tree"} |-> 0]

------------------------------------------------------------------------------
(* Finish.                                                                 *)

(* Mutant: the token leaves out plan.json.                                 *)
StattedButPlan(file) == file \in {"state", "spec.md"}

(* snapshot_token stats these files, and not plan.md.                      *)
Statted(file) == file \in {"state", "spec.md", "plan.json"}

(* A change of a file that it stats shows in the next poll.                *)
Replaced(file) ==
  /\ seen' = (seen /\ ~Statted(file))
  /\ UNCHANGED <<stream, reading, answer>>

(* Mutant: the lock covers the gates of Finish, not the planning run.      *)
LockFreeEarly == fin \in {"idle", "planning"}

(* _POST_LOCK is free.                                                     *)
LockFree == fin = "idle"

(* Any other POST of the onboarding: answers may change, and with them     *)
(* whether Finish may run; a review or an approval changes the latter only.*)
Onboard(edit) ==
  /\ LockFree
  /\ edit => answers < MaxEdits
  /\ answers' = IF edit THEN answers + 1 ELSE answers
  /\ ready' \in BOOLEAN
  /\ Replaced("state")
  /\ UNCHANGED <<order, spec, json, md, finish>>

(* compile_spec and write_spec: spec.md says what the answers say by now.  *)
CompileSpec == spec' = answers

(* finish_onboarding up to write_spec; with a gate closed, or without a    *)
(* boss, it changes nothing and is no step.                                *)
WriteSpec ==
  /\ fin = "idle" /\ ready /\ json < MaxPlans
  /\ CompileSpec
  /\ fin' = "planning" /\ round' = 0
  /\ Replaced("spec.md")
  /\ UNCHANGED <<order, ready, answers, json, md>>

InCall == outcome \in {"called", "running"}

(* No JSON object can be read from the reply, or no plan from the object.  *)
Unusable == SetCall(NoPlan, "refused")

(* run_planning: the next round's reply is parsed and checked.             *)
Reply ==
  /\ fin = "planning" /\ ~InCall /\ outcome # "ok"
  /\ round < MaxRounds
  /\ round' = round + 1
  /\ \/ \E p \in Replies : SetCall(p, "called")
     \/ Unusable
  /\ UNCHANGED <<files, fin, view>>

(* run_headless of the next round: no such command, a timeout, a nonzero   *)
(* exit.                                                                   *)
BossFails == round < MaxRounds

(* PlanningError after the last round, or PlanningUnavailable before it:   *)
(* spec.md stays, and so does the plan of an earlier Finish.               *)
GiveUp ==
  /\ fin = "planning" /\ ~InCall /\ outcome # "ok"
  /\ round = MaxRounds \/ BossFails
  /\ fin' = "idle" /\ round' = 0
  /\ Forget
  /\ UNCHANGED <<files, view>>

(* Mutant: a cycle found by order_tasks is reported, then written anyway.  *)
AcceptsOrderErrors == outcome \in {"ok", "cycle"}

(* No violation and a complete order.                                      *)
Accepted == outcome = "ok"

(* write_plan, first file.                                                 *)
WriteJson ==
  /\ fin = "planning" /\ Accepted
  /\ json' = json + 1
  /\ fin' = "md"
  /\ Replaced("plan.json")
  /\ UNCHANGED <<order, ready, answers, spec, md, round>>

(* write_plan, second file.                                                *)
WriteMd ==
  /\ fin = "md"
  /\ md' = json
  /\ fin' = "idle" /\ round' = 0
  /\ Forget
  /\ Replaced("plan.md")
  /\ UNCHANGED <<ready, answers, spec, json>>

(* The server dies.                                                        *)
Die ==
  /\ fin # "off" /\ (fin # "idle" \/ stream = "open" \/ reading # "idle")
  /\ fin' = "idle" /\ round' = 0
  /\ Forget
  /\ stream' = "closed" /\ seen' = TRUE /\ reading' = "idle"
  /\ UNCHANGED <<files, answer>>

------------------------------------------------------------------------------
(* The event stream.                                                       *)

(* _plan_summary and the tree are read from plan.json, the text is plan.md.*)
Shown(part) == IF part = "md" THEN md ELSE json

(* plan_detail reads plan.json, plan.md, and plan.json once more.          *)
Read ==
  /\ reading # "idle"
  /\ answer' = [answer EXCEPT ![reading] = Shown(reading)]
  /\ reading' = CASE reading = "summary" -> "md"
                  [] reading = "md" -> "tree"
                  [] OTHER -> "idle"
  /\ UNCHANGED <<order, files, finish, stream, seen>>

(* connectSSE(), also on its own after a lost connection: the stream       *)
(* starts from the token of now and sends nothing for what came before.    *)
Connect ==
  /\ fin # "off" /\ stream = "closed"
  /\ stream' = "open" /\ seen' = TRUE
  /\ UNCHANGED <<order, files, finish, reading, answer>>

(* _danza_events, one turn of the loop that finds a new token: the page    *)
(* asks again.  A GET takes less than the two seconds between two turns.   *)
Poll ==
  /\ stream = "open" /\ ~seen /\ reading = "idle"
  /\ seen' = TRUE
  /\ reading' = "summary"
  /\ UNCHANGED <<order, files, finish, stream, answer>>

PlanCall == (fin = "off" \/ fin = "planning") /\ Next /\ UNCHANGED <<files, finish, view>>

PlanningNext ==
  \/ PlanCall
  \/ \E edit \in BOOLEAN : Onboard(edit)
  \/ WriteSpec \/ Reply \/ GiveUp \/ WriteJson \/ WriteMd \/ Die
  \/ Read \/ Connect \/ Poll

(* The planning thread runs on, a GET is answered, the stream's loop polls *)
(* every two seconds.                                                      *)
Fairness == WF_allVars(PlanCall) /\ WF_allVars(Read) /\ WF_allVars(Poll)

PlanningSpec == PlanningInit /\ [][PlanningNext]_allVars /\ Fairness

------------------------------------------------------------------------------
(* A plan reaches plan.json only for the answers as they are, approved as  *)
(* they are: nothing is edited or reopened in the minutes between the      *)
(* gates and the last round (server.py:53-56, 354-391).                    *)
PlanForPresentAnswers == [][json' # json => ready /\ spec = answers]_allVars

(* What reaches plan.json can be built: every leaf passes, and no leaves   *)
(* wait for each other, whatever was bounced in the rounds before          *)
(* ("a plan that never validates must not arm the button",                 *)
(* planner.py:401-402).                                                    *)
ArmedPlanBuildable ==
  [][json' # json =>
       /\ plan.fit = Leaf
       /\ \A s \in SUBSET Leaf : s # {} => \E l \in s : WaitsFor(l) \cap s = {}]_allVars

(* A change of plan.json under an open stream gets into the summary and    *)
(* the tree of an answer, also when it falls between the two reads of      *)
(* plan.json of an answer under way (server.py:232-249, 522-543).          *)
PlanReachesPage ==
  stream = "open" /\ ~seen ~>
    (answer["summary"] = json /\ answer["tree"] = json) \/ stream = "closed"
=============================================================================
