----------------------------- MODULE CortexRules -----------------------------
(***************************************************************************)
(* What CORTEX does to one observation: the row it stores, near-duplicates *)
(* and merging (cortex/store.py), expiry and aging (cortex/observation.py, *)
(* store.py), promotion and refresh by use (cortex/learn.py), and which    *)
(* rows of the shared store a project sees (cortex/federate.py).           *)
(*                                                                         *)
(* A topic stands for what title, type and links of an observation say.  A *)
(* row keeps the title and type it came with and collects the links of     *)
(* what is merged into it, so that it may come near to other things than   *)
(* at first.  Summary, confidence, tags and history are left out: no       *)
(* decision below reads them.                                              *)
(***************************************************************************)
EXTENDS Naturals

CONSTANTS
  Ids,         (* observation ids                                          *)
  Topics,      (* what observations are about                              *)
  Near,        (* the pairs of subjects that reach the merge threshold     *)
  Ttl,         (* time to live of each importance that expires             *)
  PromoteAt,   (* uses that earn a promotion                               *)
  Projects,    (* the projects that rows are of, "" when they name none    *)
  Own,         (* the project of this repository                           *)
  None

(* Type and title of one topic, links of several.                          *)
Subjects == Topics \X SUBSET Topics

ASSUME NearAssumption == Near \subseteq Subjects \X Subjects
ASSUME TtlAssumption == Ttl \in [{"temporary", "low", "medium", "high"} -> Nat]
ASSUME PromoteAssumption == PromoteAt \in Nat
ASSUME OwnAssumption == Own \in Projects /\ Own # ""

Importances == {"archive", "temporary", "low", "medium", "high", "critical"}

(* The order of the ranking weights.                                       *)
Rank == [archive |-> 0, temporary |-> 1, low |-> 2, medium |-> 3, high |-> 4,
         critical |-> 5]

(* One step of promotion; critical is never reached by use.                *)
Ladder == [temporary |-> "low", low |-> "medium", medium |-> "high"]

(* The repository's own database, and the one all repositories share.      *)
Homes == {"project", "global"}

Observations ==
  [topic : Topics, home : Homes, proj : Projects, imp : Importances,
   sup : Ids \cup {None}]

Rows ==
  [topic : Topics, links : SUBSET Topics, home : Homes, proj : Projects,
   imp : Importances, uses : Nat,
   last : Nat \cup {None}, exp : Nat \cup {None},
   by : Ids \cup {None}, sup : Ids \cup {None}]

Tables == [Ids -> Rows \cup {None}]

ASSUME NoneAssumption == None \notin Ids \cup Nat \cup Rows

------------------------------------------------------------------------------
(* A new observation at time t.  Critical and archived ones never expire.  *)
Expiry(imp, t) == IF imp \in DOMAIN Ttl THEN t + Ttl[imp] ELSE None

Insert(o, t) ==
  [topic |-> o.topic, links |-> {o.topic}, home |-> o.home, proj |-> o.proj,
   imp |-> o.imp, uses |-> 0, last |-> None, exp |-> Expiry(o.imp, t), by |-> None, sup |-> o.sup]

(* all(project) of one database: without a project, every row.             *)
Listed(row, project) == project \in {"", row.proj}

(* What a row, and a new observation, is compared by.                      *)
Subject(r) == <<r.topic, r.links>>
NewSubject(o) == <<o.topic, {o.topic}>>

(* Mutant: a row is compared by what it was stored with.                   *)
MatchesAsStored(table, o) ==
  {i \in Ids : /\ table[i] # None
               /\ table[i].by = None
               /\ table[i].home = o.home
               /\ Listed(table[i], o.proj)
               /\ <<NewSubject(table[i]), NewSubject(o)>> \in Near}

(* The rows an incoming observation may be merged into: of its own         *)
(* database and project, not superseded, near enough.  Archived ones count.*)
Matches(table, o) ==
  {i \in Ids : /\ table[i] # None
               /\ table[i].by = None
               /\ table[i].home = o.home
               /\ Listed(table[i], o.proj)
               /\ <<Subject(table[i]), NewSubject(o)>> \in Near}

(* Mutant: the merged row starts its count of uses again.                  *)
MergeUncounted(r, o) ==
  [r EXCEPT !.links = r.links \cup {o.topic}, !.uses = 0,
            !.imp = IF Rank[o.imp] > Rank[r.imp] THEN o.imp ELSE r.imp]

(* Merging keeps the row, adds the links and raises the importance; expiry *)
(* stays.                                                                  *)
Merge(r, o) ==
  [r EXCEPT !.links = r.links \cup {o.topic},
            !.imp = IF Rank[o.imp] > Rank[r.imp] THEN o.imp ELSE r.imp]

Expired(r, t) ==
  /\ r.imp \notin {"critical", "archive"}
  /\ r.exp # None
  /\ r.exp <= t

(* Mutant: an importance nothing else knows.                               *)
ArchiveUnknown(r) == [r EXCEPT !.imp = "archived"]

Archive(r) == [r EXCEPT !.imp = "archive"]

(* learn(): one step up the ladder once the row has been used often, and   *)
(* an expiry counted from the last use, if that is later.                  *)
Promoted(r) ==
  IF r.uses >= PromoteAt /\ r.imp \in DOMAIN Ladder
    THEN [r EXCEPT !.imp = Ladder[r.imp]] ELSE r

Refreshed(r) ==
  IF /\ r.last # None
     /\ r.imp \in DOMAIN Ttl
     /\ r.exp = None \/ r.last + Ttl[r.imp] > r.exp
    THEN [r EXCEPT !.exp = r.last + Ttl[r.imp]] ELSE r

Learned(r) == Refreshed(Promoted(r))

Used(r, t) == [r EXCEPT !.uses = @ + 1, !.last = t]

------------------------------------------------------------------------------
(* What federated reads for a project return: the project rows listed for  *)
(* it, and the shared rows, whatever their project, that none of those     *)
(* which is live makes redundant.                                          *)
Local(table, project) ==
  {j \in Ids : /\ table[j] # None
               /\ table[j].home = "project"
               /\ Listed(table[j], project)}

Shadowed(table, project, i) ==
  \E j \in Local(table, project) :
    table[j].by = None /\ <<Subject(table[j]), Subject(table[i])>> \in Near

Visible(table, project) ==
  Local(table, project) \cup
  {i \in Ids : /\ table[i] # None
               /\ table[i].home = "global"
               /\ ~Shadowed(table, project, i)}
==============================================================================
