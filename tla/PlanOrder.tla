----------------------------- MODULE PlanOrder -----------------------------
(***************************************************************************)
(* The two loops that put tasks into an order: order_tasks, which a        *)
(* planning round runs on a plan that validate_plan accepts                *)
(* (workstation/planner.py), and plan_waves (orchestration/parallel.py).   *)
(* Both repeat "take what is ready" and refuse a cycle.  A behaviour is    *)
(* one call; a step is one layer or one wave.                              *)
(*                                                                         *)
(* Ids of leaves are numbers, in the order of _id_key.  Of a leaf's own    *)
(* fields (kind, size, description, flags, verification) the model keeps   *)
(* whether they pass.                                                      *)
(***************************************************************************)
EXTENDS Naturals, FiniteSets, Sequences

CONSTANTS
  Leaf,       (* ids of the leaves of the plan                             *)
  Path,       (* a leaf's own id and those of the nodes above it           *)
  Ids,        (* ids that may stand in depends_on, known or not            *)
  File,       (* what a task may write                                     *)
  MaxWrites,  (* MAX_WRITES                                                *)
  Plans,      (* the parsed plans, or lists of tasks, a call may get       *)
  Limits      (* values of max_parallel                                    *)

ASSUME LeafAssumption == Leaf \subseteq Nat /\ IsFiniteSet(Leaf)
ASSUME PathAssumption == DOMAIN Path = Leaf /\ \A l \in Leaf : l \in Path[l]
ASSUME LimitsAssumption == Limits \subseteq Nat

Node == UNION {Path[l] : l \in Leaf}

(* What parse_plan lets through: shapes are checked, ids in depends_on are *)
(* not.  fit: the leaves whose own fields pass.                            *)
ParsedPlans ==
  [depends : [Leaf -> SUBSET Ids], writes : [Leaf -> SUBSET File], fit : SUBSET Leaf]

ASSUME PlansAssumption == Plans # {} /\ \A p \in Plans : p \in ParsedPlans

VARIABLES
  call,      (* "plan": a planning round; "waves": plan_waves              *)
  plan,      (* its argument                                               *)
  limit,     (* max_parallel, for waves                                    *)
  waves,     (* the layers or waves so far, without empty ones             *)
  outcome    (* "none" before a call, "called", "running", and what it     *)
             (* ended with: "ok", "refused" or "cycle"                     *)

vars == <<call, plan, limit, waves, outcome>>

TypeOK ==
  /\ call \in {"plan", "waves"}
  /\ plan \in ParsedPlans
  /\ limit \in Limits \cup {0}
  /\ waves \in Seq(SUBSET Leaf)
  /\ outcome \in {"none", "called", "running", "ok", "refused", "cycle"}

(* max_parallel plays no part in a planning round.                         *)
Init ==
  /\ call \in {"plan", "waves"}
  /\ plan \in Plans
  /\ limit \in IF call = "waves" THEN Limits ELSE {0}
  /\ waves = <<>>
  /\ outcome = "called"

------------------------------------------------------------------------------
(* _leaves(): the leaves at or under a node.                               *)
Under(n) == {l \in Leaf : n \in Path[l]}

(* assert_dispatchable(): every leaf under the task can be verified.       *)
Dispatchable(n, p) == Under(n) \subseteq p.fit

(* The leaves for which validate_plan has something to bounce.  It is      *)
(* ancestors only that may not be depended on, not what is under them.     *)
Violations(p) ==
  {l \in Leaf :
     \/ ~Dispatchable(l, p)
     \/ p.writes[l] = {} \/ Cardinality(p.writes[l]) > MaxWrites
     \/ \E d \in p.depends[l] : d \notin Node \/ d \in Path[l]}

(* plan_waves refuses what cannot be verified and what is not in its list. *)
Unplannable(p) == {l \in Leaf : ~Dispatchable(l, p) \/ ~(p.depends[l] \subseteq Leaf)}

(* Mutant: a dependency on a node counts for the node's own id only.       *)
NeedsUnexpanded(p, l) == p.depends[l] \cap Leaf

(* The leaves that leaf l waits for: a node stands for all under it.       *)
Needs(p, l) == UNION {Under(d) : d \in p.depends[l]}

Scheduled == UNION {waves[i] : i \in DOMAIN waves}
Remaining == Leaf \ Scheduled

(* Mutant: done is the last wave only, not all of them.                    *)
ReadyAfterLast ==
  {l \in Remaining :
     Needs(plan, l) \subseteq IF waves = <<>> THEN {} ELSE waves[Len(waves)]}

Ready == {l \in Remaining : Needs(plan, l) \subseteq Scheduled}

Conflict(p, l, k) == l # k /\ p.writes[l] \cap p.writes[k] # {}

Before(w, l) == {k \in w : k < l}

(* Mutant: a conflict is looked for with the last task taken only.         *)
GreedyLast(w) ==
  \A l \in Ready :
    l \in w <=> /\ Cardinality(Before(w, l)) < limit
                /\ \A k \in Before(w, l) :
                     Conflict(plan, l, k) => \E j \in Before(w, l) : k < j

(* Mutant: the cap is compared as if the task had been taken already.      *)
GreedyShort(w) ==
  \A l \in Ready :
    l \in w <=> /\ Cardinality(Before(w, l)) + 1 < limit
                /\ \A k \in Before(w, l) : ~Conflict(plan, l, k)

(* The wave that walking the ready tasks by id fills up: a task is in it   *)
(* unless the wave was full or wrote one of its files when its turn came.  *)
Greedy(w) ==
  \A l \in Ready :
    l \in w <=> /\ Cardinality(Before(w, l)) < limit
                /\ \A k \in Before(w, l) : ~Conflict(plan, l, k)

------------------------------------------------------------------------------
(* The checks before the loop.                                             *)
Check ==
  /\ outcome = "called"
  /\ outcome' = IF (IF call = "plan" THEN Violations(plan) ELSE Unplannable(plan)) = {}
                THEN "running" ELSE "refused"
  /\ UNCHANGED <<call, plan, limit, waves>>

(* One turn of the loop.  With max_parallel = 0 the wave is empty and the  *)
(* loop is where it was.                                                   *)
Take(w) ==
  /\ outcome = "running"
  /\ Ready # {}
  /\ IF call = "plan" THEN w = Ready ELSE Greedy(w)
  /\ waves' = IF w = {} THEN waves ELSE Append(waves, w)
  /\ UNCHANGED <<call, plan, limit, outcome>>

(* Nothing is ready: the order is complete, or the rest is a cycle.        *)
Stop ==
  /\ outcome = "running"
  /\ Ready = {}
  /\ outcome' = IF Remaining = {} THEN "ok" ELSE "cycle"
  /\ UNCHANGED <<call, plan, limit, waves>>

Next == Check \/ Stop \/ \E w \in SUBSET Leaf : w \subseteq Ready /\ Take(w)

Spec == Init /\ [][Next]_vars /\ WF_vars(Next)

------------------------------------------------------------------------------
(* The reference for both loops: the leaves at or under an id that leaf l  *)
(* lists.                                                                  *)
WaitsFor(l) == {k \in Leaf : Path[k] \cap plan.depends[l] # {}}

(* Whatever was put into a layer or wave needs nothing of that layer or of *)
(* a later one, and nothing is put into two: the order runs dependencies   *)
(* first, also for a dependency on a whole section (planner.py:199-208,    *)
(* parallel.py:35-36).                                                     *)
DependenciesFirst ==
  \A i \in DOMAIN waves : \A l \in waves[i] :
    /\ \A k \in WaitsFor(l) : \E j \in 1 .. i - 1 : k \in waves[j]
    /\ \A j \in DOMAIN waves : l \in waves[j] => j = i

(* Tasks of one wave may run at once: no two of them write the same file,  *)
(* however conflicts chain among the ready ones (parallel.py:37).          *)
WaveMembersIndependent ==
  call = "waves" => \A i \in DOMAIN waves : \A l, k \in waves[i] : ~Conflict(plan, l, k)

(* The loops refuse exactly the impossible: what they call a cycle holds a *)
(* set of leaves that all wait for one another, and what they finish has   *)
(* every leaf (planner.py:239-241, parallel.py:57-59).                     *)
RefusesOnlyCycles ==
  /\ outcome = "cycle" =>
       \E s \in SUBSET Leaf : s # {} /\ \A l \in s : WaitsFor(l) \cap s # {}
  /\ outcome = "ok" => Scheduled = Leaf

(* Every call ends, write conflicts deferring tasks or not, as long as at  *)
(* least one task may run (the loop of parallel.py:53-75 has no other      *)
(* bound; with max_parallel = 0 it never ends).                            *)
CallEnds ==
  outcome = "called" /\ (call = "waves" => limit > 0)
    ~> outcome \notin {"called", "running"}
=============================================================================
