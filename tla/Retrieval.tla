----------------------------- MODULE Retrieval ------------------------------
(***************************************************************************)
(* The read path of CORTEX: build_package (cortex/quality.py) on top of    *)
(* hybrid_retrieve (retrieve.py), assemble (assemble.py) and               *)
(* compress_entry (compress.py), as `danza cortex retrieve', the MCP tool  *)
(* and compile_driver_context call it.  It reads the store and the graph   *)
(* of module CodeGraph, and reads both again when the first package fails  *)
(* the quality gate; sessions write the store in between.                  *)
(*                                                                         *)
(* Scores are sums of fractions: the model lets any order come out of them *)
(* and any marks, within what the caps, the kills and an empty package     *)
(* settle.  Texts are their token counts.                                  *)
(***************************************************************************)
EXTENDS CodeGraph

CONSTANTS
  Category,
  Cat,         (* [Obs -> Category]                                        *)
  Ladder,      (* [Obs -> tokens of the entry as compress_entry trims it,  *)
               (* from the full text down to the floor]                    *)
  Fractions,   (* percent of the budget: one row of BUDGET_FRACTIONS       *)
  MinEntry,    (* MIN_ENTRY_TOKENS                                         *)
  Cap,         (* SIGNAL_CAP                                               *)
  ImpactDepth, (* max_depth of the graph signal                            *)
  Marks, Passing,                     (* overall marks, and the threshold  *)
  Queries      (* the calls: [budget, limit, types, kills, changed]        *)

ASSUME RetrievalAssumption ==
  /\ Cat \in [Obs -> Category] /\ Fractions \in [Category -> 0 .. 100]
  /\ FoldFunction(+, 0, Fractions) = 100
  /\ MinEntry \in Nat \ {0} /\ Marks \subseteq Nat /\ Passing \in Marks \ {0}
  /\ Ladder \in [Obs -> Seq(Nat)]
  /\ \A o \in Obs : Ladder[o] # <<>>
       /\ \A i \in 2 .. Len(Ladder[o]) : Ladder[o][i] <= Ladder[o][i - 1]
  /\ IsFiniteSet(Category)
  /\ Queries \subseteq [budget : Nat, limit : Nat, types : SUBSET Category, kills : SUBSET Obs,
                        changed : SUBSET Path]

VARIABLES
  stage,     (* "off" in behaviours of the index alone; "idle", "asked",   *)
             (* "failed": the first package was too weak; "using"          *)
  query,     (* the call under way                                         *)
  bundle,    (* its package: [items, out, dropped, used, mark]             *)
  using      (* the entries whose use is not recorded yet                  *)

callVars == <<stage, query, bundle, using>>
readVars == <<graphVars, callVars>>

NoQuery == CHOOSE q \in Queries : TRUE
Nothing == [items |-> <<>>, out |-> <<>>, dropped |-> {}, used |-> 0, mark |-> 0]

RetrievalInit ==
  /\ CodeGraphInit /\ stage = "off"
  /\ query = NoQuery /\ bundle = Nothing /\ using = <<>>

(* A repository whose store is full, its graph built or about to be.       *)
FilledInit ==
  /\ tree \in [File -> Imports]
  /\ store = [o \in Obs |-> "live"]
  /\ \/ nodes = NodesOf(tree, Obs) /\ edges = CodeEdgesOf(tree) \cup ObsEdgesOf(tree, Obs)
     \/ nodes = {} /\ edges = {}
  /\ run = [r \in Run |-> [phase |-> "idle", todo |-> <<>>]]
  /\ edits = 0
  /\ seen = [r \in Run |-> [tree |-> <<>>, obs |-> {}]]
  /\ cleared = (CHOOSE r \in Run : TRUE) /\ overlap = FALSE
  /\ stage = "idle" /\ query = NoQuery /\ bundle = Nothing /\ using = <<>>

------------------------------------------------------------------------------
(* hybrid_retrieve.                                                        *)
Candidates(q) == {o \in Obs : store[o] = "live" /\ Cat[o] \in q.types}

(* _sig_graph: what is attached to a changed file or to what depends on it.*)
GraphSignal(q) ==
  LET starts == UNION {Resolve(p) : p \in q.changed}
      reached == starts \cup {row[1] : row \in UNION {Impact(n, ImpactDepth) : n \in starts}}
  IN UNION {Attached(n) : n \in reached} \cap Candidates(q)

(* What the signals may list between them: the recency signal lists as     *)
(* many candidates as the cap lets it, the graph signal what it reaches,   *)
(* the others any.                                                         *)
Listed(q) ==
  {s \in SUBSET Candidates(q) :
     /\ Cardinality(s) >= Min({Cap, Cardinality(Candidates(q))})
     /\ Cardinality(GraphSignal(q)) <= Cap => GraphSignal(q) \subseteq s}

(* The results of a call, in any order of their scores: what is not        *)
(* relevant to the intent is killed before the limit cuts.                 *)
Ranked(q, limit) ==
  LET Orders(s) == {i \in [1 .. Min({limit, Cardinality(s)}) -> s] : IsInjective(i)}
  IN UNION {Orders(s \ q.kills) : s \in Listed(q)}

------------------------------------------------------------------------------
(* assemble.                                                               *)
(* compress_entry: the first rung that fits, else the floor.               *)
Fit(o, room) ==
  LET rungs == {i \in DOMAIN Ladder[o] : Ladder[o][i] <= room}
  IN Ladder[o][IF rungs = {} THEN Len(Ladder[o]) ELSE CHOOSE i \in rungs : \A j \in rungs : i <= j]

Allocation(budget, drops) ==
  LET kept == Category \ drops
      total == FoldFunctionOnSet(+, 0, Fractions, kept)
  IN [c \in kept |-> (budget * Fractions[c]) \div IF total = 0 THEN 1 ELSE total]

Entry(o, cost) == [obs |-> o, cost |-> cost]

(* Pass 1: every category up to its quota.                                 *)
QuotaStep(acc, o, alloc) ==
  LET room == alloc[Cat[o]] - acc.spent[Cat[o]]
      cost == Fit(o, room)
  IN CASE Cat[o] \notin DOMAIN alloc -> [acc EXCEPT !.dropped = @ \cup {o}]
       [] Cat[o] \in DOMAIN alloc /\ (room < MinEntry \/ cost > room) ->
            [acc EXCEPT !.deferred = Append(@, o)]
       [] OTHER -> [acc EXCEPT !.spent[Cat[o]] = @ + cost, !.used = @ + cost,
                               !.out = Append(@, Entry(o, cost))]

Quota(items, alloc) ==
  FoldLeft(LAMBDA acc, o : QuotaStep(acc, o, alloc),
           [spent |-> [c \in DOMAIN alloc |-> 0], used |-> 0, out |-> <<>>,
            dropped |-> {}, deferred |-> <<>>], items)

(* Pass 2: the leftover goes to the best of the deferred.                  *)
LeftoverStep(acc, o, budget) ==
  LET cost == Fit(o, budget - acc.used)
  IN IF budget - acc.used < MinEntry \/ cost > budget - acc.used
     THEN [acc EXCEPT !.dropped = @ \cup {o}]
     ELSE [acc EXCEPT !.used = @ + cost, !.out = Append(@, Entry(o, cost))]

(* Mutant: an entry that does not fit the leftover is skipped silently.    *)
LeftoverSilent(acc, budget) ==
  LET Step(a, o) == IF /\ budget - a.used >= MinEntry
                       /\ Fit(o, budget - a.used) > budget - a.used
                    THEN a ELSE LeftoverStep(a, o, budget)
  IN FoldLeft(Step, acc, acc.deferred)

Leftover(acc, budget) == FoldLeft(LAMBDA a, o : LeftoverStep(a, o, budget), acc, acc.deferred)

Assemble(items, budget, drops) ==
  LET a == Leftover(Quota(items, Allocation(budget, drops)), budget)
  IN [items |-> items, out |-> a.out, dropped |-> a.dropped, used |-> a.used,
      mark |-> 0]

------------------------------------------------------------------------------
(* build_package.                                                          *)
(* score_package: an empty package has no marks.                           *)
Scored(p) ==
  {[p EXCEPT !.mark = m] : m \in IF p.out = <<>> THEN {0} ELSE Marks}

(* _weakest_category: one without an entry is worth nothing.               *)
Weakest(p) ==
  LET filled == {Cat[p.out[i].obs] : i \in DOMAIN p.out}
  IN IF filled = Category THEN Category ELSE {CHOOSE c \in Category \ filled : TRUE}

Ask ==
  /\ stage = "idle"
  /\ query' \in Queries
  /\ stage' = "asked"
  /\ UNCHANGED <<graphVars, bundle, using>>

Ship(p) == bundle' = p /\ using' = p.out /\ stage' = "using"

First ==
  /\ stage = "asked"
  /\ \E items \in Ranked(query, query.limit) :
       \E p \in Scored(Assemble(items, query.budget, {})) :
         IF p.mark >= Passing THEN Ship(p)
         ELSE bundle' = p /\ stage' = "failed" /\ UNCHANGED using
  /\ UNCHANGED <<graphVars, query>>

(* The one re-plan: twice the results, the weakest category dropped; the   *)
(* better package is shipped.                                              *)
Replan ==
  /\ stage = "failed"
  /\ \E items \in Ranked(query, 2 * query.limit), drop \in Weakest(bundle) :
       \E p \in Scored(Assemble(items, query.budget, {drop})) :
         Ship(IF p.mark > bundle.mark THEN p ELSE bundle)
  /\ UNCHANGED <<graphVars, query>>

(* The callers record the use of each entry, then print the package.       *)
RecordUse ==
  /\ stage = "using" /\ using # <<>>
  /\ using' = Tail(using)
  /\ UNCHANGED <<graphVars, stage, query, bundle>>

Answer ==
  /\ stage = "using" /\ using = <<>>
  /\ stage' = "idle" /\ query' = NoQuery /\ bundle' = Nothing
  /\ UNCHANGED <<graphVars, using>>

RetrievalNext ==
  \/ stage = "off" /\ CodeGraphNext /\ UNCHANGED callVars
  \/ stage # "off" /\ EditStore /\ UNCHANGED callVars
  \/ Ask \/ First \/ Replan \/ RecordUse \/ Answer

RetrievalSpec == (RetrievalInit \/ FilledInit) /\ [][RetrievalNext]_readVars

------------------------------------------------------------------------------
(* The accounts of a package: its entries keep within the budget and their *)
(* costs add up to what it reports, each is a whole rung of its ladder, and *)
(* all that was retrieved is in it once or in its list of what was dropped. *)
Accounts(p, budget) ==
  /\ p.used = FoldLeft(LAMBDA n, e : n + e.cost, 0, p.out)
  /\ p.used <= budget
  /\ \A i \in DOMAIN p.out : p.out[i].cost \in Range(Ladder[p.out[i].obs])
  /\ \A o \in Range(p.items) :
       Cardinality({i \in DOMAIN p.out : p.out[i].obs = o}) = IF o \in p.dropped THEN 0 ELSE 1

(* Whatever is shipped has its accounts in order: within the budget, every *)
(* retrieved entry in it once or named as dropped ("the assembler never    *)
(* silently drops", assemble.py:10-11).                                    *)
PackageAccounts == stage = "using" => Accounts(bundle, query.budget)
=============================================================================
