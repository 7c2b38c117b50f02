------------------------------- MODULE Cortex -------------------------------
(***************************************************************************)
(* CORTEX (cortex/): processes that read and rewrite the rows of the       *)
(* observation store, and the sessions whose events they distil.  A        *)
(* process runs one call at a time (a hook or a `cortex` command); every   *)
(* commit is a step, and what a call has read it may write back after      *)
(* others have changed it: there is no lock.  A process may die between    *)
(* any two commits.                                                        *)
(***************************************************************************)
EXTENDS CortexRules, Profile, FiniteSets, Sequences

CONSTANTS
  Procs,       (* processes that can run a call                            *)
  Sessions,
  Events,      (* tool events a session may produce                        *)
  Floor,       (* the topics the three rules draft from a batch of events  *)
  MinEvents,   (* the profile's distill_min_events                         *)
  Tier3,       (* an LLM worker is configured                              *)
  Reported,    (* importances agents report                                *)
  MaxTime,     (* bound on the clock                                       *)
  MaxUses,     (* bound on the uses of a row                               *)
  MaxDeaths,   (* bound on processes that die in a call                    *)
  Spare        (* bound: ids that reports leave for drafts                 *)

ASSUME FloorAssumption == Floor \in [SUBSET Events -> SUBSET Topics]
ASSUME MinEventsAssumption == MinEvents \in Nat \ {0}
ASSUME Tier3Assumption == Tier3 \in BOOLEAN
ASSUME ReportedAssumption == Reported \subseteq Importances
ASSUME NoneIsNoSession == None \notin Sessions

VARIABLES
  now,
  rows,        (* the observations table of both databases                 *)
  log,         (* rows of usage_log per observation                        *)
  sess,        (* the sessions table                                       *)
  queue,       (* unprocessed events per session                           *)
  call,        (* the call each process is in                              *)
  asked,       (* how often a Stop hook has answered "block" (history)     *)
  recorded,    (* events captured so far (history)                         *)
  overlapped,  (* two calls have run at the same time (history)            *)
  deaths

vars == <<now, rows, log, sess, queue, call, asked, recorded, overlapped,
          deaths>>
store == <<rows, log>>
capture == <<sess, queue, asked, recorded>>
world == <<now, overlapped, deaths>>

Kinds == {"start", "age", "learn", "use", "observe", "nothing", "stop"}
Steps == {"load", "sweep", "inject", "find", "old", "put", "log", "item",
          "note", "mark", "flag", "ask", "extract", "draft"}
Phases == {"age_project", "age_global", "learn"}

Nothing == [i \in Ids |-> None]

(* phases: passes of a sweep still to make.  held: rows read and about to  *)
(* be rewritten.  from: the time the call began.  obs: the observation in  *)
(* hand, with its id once that shows.  batch: the events a Stop read.      *)
(* drafts, left: what it drafts, and what of that is not stored.  due: the *)
(* rows that had expired when a session start began (history).             *)
Calls ==
  [kind : Kinds, step : Steps, s : Sessions \cup {None}, from : Nat,
   phases : Seq(Phases), held : Tables,
   obs : Observations \cup {None}, id : Ids \cup {None},
   batch : SUBSET Events, drafts : SUBSET Topics, left : SUBSET Topics,
   due : SUBSET Ids]

TypeOK ==
  /\ now \in Nat
  /\ rows \in Tables
  /\ log \in [Ids -> Nat]
  /\ sess \in [Sessions -> [open : BOOLEAN, distilled : BOOLEAN, blocked : BOOLEAN]]
  /\ queue \in [Sessions -> SUBSET Events]
  /\ call \in [Procs -> Calls \cup {None}]
  /\ asked \in [Sessions -> Nat]
  /\ recorded \in SUBSET Events
  /\ overlapped \in BOOLEAN
  /\ deaths \in Nat

Init ==
  /\ now = 0
  /\ rows = Nothing
  /\ log = [i \in Ids |-> 0]
  /\ sess = [s \in Sessions |->
               [open |-> FALSE, distilled |-> FALSE, blocked |-> FALSE]]
  /\ queue = [s \in Sessions |-> {}]
  /\ call = [p \in Procs |-> None]
  /\ asked = [s \in Sessions |-> 0]
  /\ recorded = {}
  /\ overlapped = FALSE
  /\ deaths = 0

------------------------------------------------------------------------------
(* Beginning, continuing and ending a call.                                *)

At(p, step) == call[p] # None /\ call[p].step = step

Blank(kind, step, s) ==
  [kind |-> kind, step |-> step, s |-> s, from |-> now, phases |-> <<>>,
   held |-> Nothing, obs |-> None, id |-> None, batch |-> {}, drafts |-> {}, left |-> {},
   due |-> {}]

Begin(p, c) ==
  /\ call[p] = None
  /\ call' = [call EXCEPT ![p] = c]
  /\ overlapped' = (overlapped \/ \E q \in Procs \ {p} : call[q] # None)
  /\ UNCHANGED <<now, deaths>>

Become(p, c) == call' = [call EXCEPT ![p] = c] /\ UNCHANGED world

Goto(p, step) == Become(p, [call[p] EXCEPT !.step = step])

End(p) == Become(p, None)

Held(p) == {i \in Ids : call[p].held[i] # None}

(* Ids no row has and no row names as its successor.                       *)
FreeIds ==
  {i \in Ids : /\ rows[i] = None
               /\ \A j \in Ids : rows[j] = None \/ rows[j].by # i
               /\ \A q \in Procs : call[q] = None \/ call[q].id # i}

------------------------------------------------------------------------------
(* Session start, `cortex age`, `cortex learn`: passes over the rows.      *)

(* open_session(): a session that is known stays as it is.                 *)
Opened(s) == sess' = [sess EXCEPT ![s].open = TRUE]

SessionStart(p) ==
  /\ \E s \in Sessions :
       /\ Opened(s)
       /\ Begin(p, [Blank("start", "load", s) EXCEPT
                      !.phases = <<"age_project", "age_global", "learn">>,
                      !.due = {i \in Ids : rows[i] # None /\ Expired(rows[i], now)}])
  /\ UNCHANGED <<store, queue, asked, recorded>>

AgeCommand(p) ==
  /\ Begin(p, [Blank("age", "load", None) EXCEPT
                 !.phases = <<"age_project", "age_global">>])
  /\ UNCHANGED <<store, capture>>

LearnCommand(p) ==
  /\ Begin(p, [Blank("learn", "load", None) EXCEPT !.phases = <<"learn">>])
  /\ UNCHANGED <<store, capture>>

(* Mutant: the shared database is not aged.                                *)
DueInProject(phase) ==
  {i \in Ids :
     /\ rows[i] # None
     /\ \/ phase = "age_project" /\ rows[i].home = "project" /\ Expired(rows[i], now)
        \/ /\ phase = "learn"
           /\ i \in Visible(rows, "")
           /\ Learned(rows[i]) # rows[i]}

(* The rows a pass is about to rewrite; it reads all of them at once.      *)
Due(phase) ==
  {i \in Ids :
     /\ rows[i] # None
     /\ \/ phase = "age_project" /\ rows[i].home = "project" /\ Expired(rows[i], now)
        \/ phase = "age_global" /\ rows[i].home = "global" /\ Expired(rows[i], now)
        \/ /\ phase = "learn"
           /\ i \in Visible(rows, "")
           /\ Learned(rows[i]) # rows[i]}

Load(p) ==
  /\ At(p, "load")
  /\ Become(p, [call[p] EXCEPT
                  !.step = "sweep",
                  !.held = [i \in Ids |-> IF i \in Due(Head(call[p].phases))
                                            THEN rows[i] ELSE None]])
  /\ UNCHANGED <<store, capture>>

Sweep(p) ==
  /\ At(p, "sweep")
  /\ \E i \in Held(p) :
       /\ rows' = [rows EXCEPT ![i] = IF Head(call[p].phases) = "learn"
                                        THEN Learned(call[p].held[i])
                                        ELSE Archive(call[p].held[i])]
       /\ Become(p, [call[p] EXCEPT !.held[i] = None])
  /\ UNCHANGED <<log, capture>>

(* The pass is over: the next one, or the end.  A started session gets its *)
(* context where the profile it finds by then injects one.                 *)
Swept(p) ==
  /\ At(p, "sweep")
  /\ Held(p) = {}
  /\ \/ /\ Len(call[p].phases) > 1
        /\ Become(p, [call[p] EXCEPT !.step = "load", !.phases = Tail(@)])
     \/ /\ Len(call[p].phases) = 1
        /\ \E name \in Found :
             IF call[p].kind = "start" /\ name \in Runtime THEN Goto(p, "inject") ELSE End(p)
  /\ UNCHANGED <<store, capture>>

(* What build_context may list: neither superseded nor archived.           *)
Context ==
  {i \in Visible(rows, Own) : rows[i].by = None /\ rows[i].imp # "archive"}

Inject(p) == At(p, "inject") /\ End(p) /\ UNCHANGED <<store, capture>>

------------------------------------------------------------------------------
(* get, retrieve, driver context, MCP: a row is used.                      *)

Use(p) ==
  /\ \E i \in Ids :
       /\ rows[i] # None
       /\ rows[i].uses < MaxUses
       /\ Begin(p, [Blank("use", "put", None) EXCEPT !.held[i] = rows[i]])
  /\ UNCHANGED <<store, capture>>

PutUse(p) ==
  /\ At(p, "put") /\ call[p].kind = "use"
  /\ \E i \in Held(p) : rows' = [rows EXCEPT ![i] = Used(call[p].held[i], now)]
  /\ Goto(p, "log")
  /\ UNCHANGED <<log, capture>>

LogUse(p) ==
  /\ At(p, "log")
  /\ \E i \in Held(p) : log' = [log EXCEPT ![i] = @ + 1]
  /\ End(p)
  /\ UNCHANGED <<rows, capture>>

------------------------------------------------------------------------------
(* upsert(), for the observations an agent reports and for drafts.         *)

Room == Cardinality(FreeIds) > Spare

(* What it may report; it supersedes rows it has been shown.               *)
Reports ==
  {o \in Observations : o.imp \in Reported /\ (o.sup = None \/ rows[o.sup] # None)}

Observe(p) ==
  /\ Room
  /\ \E s \in Sessions \cup {None}, o \in Reports :
       Begin(p, [Blank("observe", "find", s) EXCEPT !.obs = o])
  /\ UNCHANGED <<store, capture>>

(* Mutant: the replaced row is looked for in the new one's database only.  *)
OldHere(o) == {i \in Ids : o.sup = i /\ rows[i] # None /\ rows[i].home = o.home}

(* The row an observation replaces, in whichever database it lives.        *)
Old(o) == {i \in Ids : o.sup = i /\ rows[i] # None}

(* The row to mark as superseded, or a near-duplicate to merge into, or    *)
(* neither.                                                                *)
Find(p) ==
  /\ At(p, "find")
  /\ LET o == call[p].obs
         near == IF o.sup = None THEN Matches(rows, o) ELSE {}
     IN  \/ \E i \in Old(o), new \in FreeIds :
              Become(p, [call[p] EXCEPT !.step = "old", !.id = new,
                                        !.held[i] = rows[i]])
         \/ \E i \in near :
              Become(p, [call[p] EXCEPT !.step = "put", !.held[i] = rows[i]])
         \/ /\ Old(o) = {} /\ near = {}
            /\ \E new \in FreeIds :
                 Become(p, [call[p] EXCEPT !.step = "put", !.id = new])
  /\ UNCHANGED <<store, capture>>

PutOld(p) ==
  /\ At(p, "old")
  /\ \E i \in Held(p) :
       rows' = [rows EXCEPT ![i] = [call[p].held[i] EXCEPT !.by = call[p].id]]
  /\ Become(p, [call[p] EXCEPT !.step = "put", !.held = Nothing])
  /\ UNCHANGED <<log, capture>>

PutObs(p) ==
  /\ At(p, "put") /\ call[p].kind # "use"
  /\ LET c == call[p]
     IN  \/ \E i \in Held(p) : rows' = [rows EXCEPT ![i] = Merge(c.held[i], c.obs)]
         \/ /\ Held(p) = {}
            /\ rows' = [rows EXCEPT ![c.id] = Insert(c.obs, now)]
  /\ Become(p, [call[p] EXCEPT
                  !.step = IF call[p].kind = "stop" THEN "draft" ELSE "item",
                  !.held = Nothing, !.obs = None, !.id = None])
  /\ UNCHANGED <<log, capture>>

(* One call reports a list: another item, a malformed one (the command     *)
(* returns without noting those it has stored), or the end of the list.    *)
NextItem(p) ==
  /\ At(p, "item")
  /\ Room
  /\ \E o \in Reports : Become(p, [call[p] EXCEPT !.step = "find", !.obs = o])
  /\ UNCHANGED <<store, capture>>

BadItem(p) == At(p, "item") /\ End(p) /\ UNCHANGED <<store, capture>>

LastItem(p) ==
  /\ At(p, "item")
  /\ IF call[p].s = None THEN End(p) ELSE Goto(p, "note")
  /\ UNCHANGED <<store, capture>>

Note(p) ==
  /\ At(p, "note")
  /\ sess' = [sess EXCEPT ![call[p].s].distilled = @ \/ sess[call[p].s].open]
  /\ Goto(p, "mark")
  /\ UNCHANGED <<store, queue, asked, recorded>>

------------------------------------------------------------------------------
(* Capture, and the end of a turn.                                         *)

(* The PostToolUse hook: one insert, at any time, where the profile it     *)
(* finds captures.                                                         *)
RecordEvent(s, e) ==
  /\ \E name \in Found : name \in Runtime
  /\ e \notin recorded
  /\ Opened(s)
  /\ queue' = [queue EXCEPT ![s] = @ \cup {e}]
  /\ recorded' = recorded \cup {e}
  /\ UNCHANGED <<store, asked, world, call>>

(* observe --nothing-meaningful.                                           *)
NothingMeaningful(p) ==
  /\ \E s \in Sessions :
       /\ queue' = [queue EXCEPT ![s] = {}]
       /\ Begin(p, Blank("nothing", "flag", s))
  /\ UNCHANGED <<store, sess, asked, recorded>>

Flag(p) ==
  /\ At(p, "flag")
  /\ sess' = [sess EXCEPT ![call[p].s].blocked = @ \/ sess[call[p].s].open]
  /\ End(p)
  /\ UNCHANGED <<store, queue, asked, recorded>>

(* distillation_gate.                                                      *)
Blocks(s) ==
  /\ Cardinality(queue[s]) >= MinEvents
  /\ ~sess[s].distilled
  /\ ~sess[s].blocked

(* Mutant: the floor gives way once the gate has asked.                    *)
FloorDueUnasked(s) ==
  /\ Cardinality(queue[s]) >= MinEvents
  /\ ~sess[s].distilled
  /\ ~sess[s].blocked

FloorDue(s) ==
  /\ Cardinality(queue[s]) >= MinEvents
  /\ ~sess[s].distilled

(* The Stop hook reads the session, finds the profile, and only where that *)
(* gates the session's unprocessed events, of which it makes its decision. *)
(* Elsewhere they are marked unread; where the profile raises, the hook    *)
(* fails open.                                                             *)
Stop(p) ==
  /\ \E s \in Sessions, name \in Found \ {"error"} :
       /\ sess[s].open
       /\ Begin(p, IF name \notin Runtime THEN Blank("stop", "mark", s)
                   ELSE [Blank("stop",
                               CASE Blocks(s) -> "ask"
                                 [] ~Blocks(s) /\ FloorDue(s) -> "extract"
                                 [] OTHER -> "mark", s)
                         EXCEPT !.batch = queue[s]])
  /\ UNCHANGED <<store, capture>>

(* Mutant: the question is not noted.                                      *)
AskUnflagged(p) ==
  /\ At(p, "ask")
  /\ asked' = [asked EXCEPT ![call[p].s] = @ + 1]
  /\ End(p)
  /\ UNCHANGED <<store, sess, queue, recorded>>

(* mark_gate_blocked, then the answer.                                     *)
Ask(p) ==
  /\ At(p, "ask")
  /\ sess' = [sess EXCEPT ![call[p].s].blocked = TRUE]
  /\ asked' = [asked EXCEPT ![call[p].s] = @ + 1]
  /\ End(p)
  /\ UNCHANGED <<store, queue, recorded>>

(* The worker's drafts if it has any, else those of the floor rules.       *)
Drafts(batch) ==
  {Floor[batch]} \cup (IF Tier3 THEN (SUBSET Topics) \ {{}} ELSE {})

Extract(p) ==
  /\ At(p, "extract")
  /\ \E D \in Drafts(call[p].batch) :
       Become(p, [call[p] EXCEPT !.step = "draft", !.drafts = D, !.left = D])
  /\ UNCHANGED <<store, capture>>

(* A worker's answer that raises leaves the handler, which fails open.     *)
WorkerRaises(p) ==
  /\ At(p, "extract") /\ Tier3
  /\ End(p)
  /\ UNCHANGED <<store, capture>>

(* One draft after the other goes through upsert(); a worker's count as    *)
(* project observations of low importance, as those of the rules are.      *)
Draft(p) ==
  /\ At(p, "draft")
  /\ \/ \E t \in call[p].left :
          Become(p, [call[p] EXCEPT
            !.step = "find", !.left = @ \ {t},
            !.obs = [topic |-> t, home |-> "project", proj |-> Own, imp |-> "low",
                     sup |-> None]])
     \/ call[p].left = {} /\ Goto(p, "mark")
  /\ UNCHANGED <<store, capture>>

(* mark_processed takes every event that is unprocessed by now.            *)
Mark(p) ==
  /\ At(p, "mark")
  /\ queue' = [queue EXCEPT ![call[p].s] = {}]
  /\ End(p)
  /\ UNCHANGED <<store, sess, asked, recorded>>

------------------------------------------------------------------------------
(* Around the calls.                                                       *)

Tick ==
  /\ now < MaxTime
  /\ now' = now + 1
  /\ UNCHANGED <<store, capture, call, overlapped, deaths>>

Die(p) ==
  /\ call[p] # None
  /\ deaths < MaxDeaths
  /\ deaths' = deaths + 1
  /\ call' = [call EXCEPT ![p] = None]
  /\ UNCHANGED <<store, capture, now, overlapped>>

Next ==
  \/ \E p \in Procs :
       \/ SessionStart(p) \/ AgeCommand(p) \/ LearnCommand(p)
       \/ Load(p) \/ Sweep(p) \/ Swept(p) \/ Inject(p)
       \/ Use(p) \/ PutUse(p) \/ LogUse(p)
       \/ Observe(p) \/ Find(p) \/ PutOld(p) \/ PutObs(p)
       \/ NextItem(p) \/ BadItem(p) \/ LastItem(p) \/ Note(p)
       \/ NothingMeaningful(p) \/ Flag(p)
       \/ Stop(p) \/ Ask(p) \/ Extract(p) \/ WorkerRaises(p)
       \/ Draft(p) \/ Mark(p) \/ Die(p)
  \/ \E s \in Sessions, e \in Events : RecordEvent(s, e)
  \/ Tick

Spec == Init /\ [][Next]_vars

------------------------------------------------------------------------------
(* Properties.  As the code takes no lock, those that need one say "as     *)
(* long as calls have not overlapped".                                     *)

(* A session is asked to distil once at most, whatever it captures, stores *)
(* and declares in between, and whichever of its hooks die.                *)
GateAsksOnce == overlapped \/ \A s \in Sessions : asked[s] <= 1

Stored(t) == \E i \in Ids : rows[i] # None /\ t \in rows[i].links

(* When a Stop drops the events of a session that distilled nothing, what  *)
(* the floor rules (or the worker) make of those it has read is in the     *)
(* store, also when an earlier Stop died half way through, or the profile  *)
(* did not gate for a while.  (Nothing is promised of events that no Stop  *)
(* reads: those captured while it runs, and all that are pending when the  *)
(* Stop finds a profile that does not gate, which drops them undrafted.)   *)
FloorBeforeForget ==
  [][\A p \in Procs :
       /\ At(p, "mark") /\ call[p].kind = "stop" /\ deaths' = deaths
       /\ call'[p] = None
       /\ ~sess[call[p].s].distilled
       /\ Cardinality(call[p].batch) >= MinEvents
       => \/ overlapped
          \/ /\ \A t \in call[p].drafts : Stored(t)
             /\ \/ call[p].drafts = Floor[call[p].batch]
                \/ Tier3 /\ call[p].drafts # {}]_vars

(* A stored row and the row it replaces are never both live, in whichever  *)
(* of the two databases each lives and wherever a call has died.           *)
ReplacedAreMarked ==
  overlapped \/
  \A i, j \in Ids :
    rows[i] # None /\ rows[i].sup = j /\ rows[j] # None => rows[j].by # None

(* "upsert() MERGES a near-duplicate instead of inserting a second copy"   *)
(* (store.py:7): what is stored as new, and replaces nothing, is near to no*)
(* live row of its database and project as that row is by then, with all it*)
(* has collected since it was stored.  (The shared database may well hold  *)
(* a near row of another project; one that names no project is near to no  *)
(* row of any.)                                                            *)
InsertsNoTwin ==
  [][\A i, j \in Ids :
       /\ rows[i] = None /\ rows'[i] # None /\ rows'[i].sup = None
       /\ rows[j] # None /\ rows[j].by = None
       /\ rows[j].home = rows'[i].home
       /\ rows'[i].proj \in {"", rows[j].proj}
       => overlapped \/ <<Subject(rows[j]), Subject(rows'[i])>> \notin Near]_vars

(* The context a session starts with holds no row that had expired when    *)
(* the session start began, in either database: aging comes before         *)
(* learning, whose refresh could no longer save such a row, and neither it *)
(* nor use brings an archived row back.                                    *)
InjectsNothingExpired ==
  overlapped \/ \A p \in Procs : At(p, "inject") => Context \cap call[p].due = {}

(* Replaying the usage log never credits a row with a use it has not had.  *)
ReplayNeverOvershoots ==
  overlapped \/
  \A i \in Ids : log[i] > 0 => rows[i] # None /\ log[i] <= rows[i].uses

(* learn.py: "use keeps memories alive: expiry extends to last_used + the  *)
(* TTL".  So a row is archived only when that time after its last use has  *)
(* passed.  Fails: a session start ages before it learns.                  *)
UseKeepsAlive ==
  [][\A i \in Ids :
       /\ rows[i] # None /\ rows[i].imp \in DOMAIN Ttl /\ rows[i].last # None
       /\ rows'[i].imp = "archive"
       => rows[i].last + Ttl[rows[i].imp] <= now]_vars

(* extract.py: "a broken worker must never cost a session its Tier-2       *)
(* floor".  A Stop that is due to draft and returns has stored drafts.     *)
(* Fails: an answer with an unknown importance raises out of the handler.  *)
WorkerCostsNoFloor ==
  [][\A p \in Procs :
       /\ call[p] # None /\ call[p].kind = "stop"
       /\ call'[p] = None /\ deaths' = deaths
       /\ call[p].step # "ask"
       /\ ~sess[call[p].s].distilled
       /\ Cardinality(call[p].batch) >= MinEvents
       => \A t \in Floor[call[p].batch] : Stored(t) \/ call[p].drafts # {}]_vars
=============================================================================
