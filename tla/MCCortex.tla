------------------------------ MODULE MCCortex ------------------------------
(* TLC instances of Cortex.  Topics are near by their links, of which v    *)
(* shares one with t and one with u; a row of t that v is merged into is   *)
(* then near to u.  The two runs of whole sessions have one topic and one  *)
(* captured event, which the floor rules catch; a time to live outlasts    *)
(* the clock for all but temporary rows.                                   *)
EXTENDS Cortex, TLC

CONSTANTS t, u, v, commit

LinksOf == (t :> {1}) @@ (u :> {2}) @@ (v :> {1, 2})
Bag(subject) == UNION {LinksOf[x] : x \in subject[2]}

(* Same title, or the two bags of links overlap by half.                   *)
MCNear ==
  {pair \in Subjects \X Subjects :
     \/ pair[1][1] = pair[2][1]
     \/ LET a == Bag(pair[1])
            b == Bag(pair[2])
        IN  a # {} /\ 2 * Cardinality(a \cap b) >= Cardinality(a \cup b)}
MCTtl == [temporary |-> 1, low |-> 2, medium |-> 2, high |-> 2]
MCFloor == [b \in SUBSET Events |-> IF commit \in b THEN {t} ELSE {}]
Symmetry == Permutations(Ids)

(* Two worlds in one instance: either all rows are of one topic and this   *)
(* repository's, archived rows being reported to the project's database    *)
(* only and no process dying beside one, or they are of all topics and     *)
(* projects while reports are all that happens.                            *)
OneTopic ==
  /\ deaths = 0 \/ \A i \in Ids : rows[i] # None => rows[i].imp # "archive"
  /\ \A i \in Ids :
       rows[i] # None => Subject(rows[i]) = <<t, {t}>> /\ rows[i].proj = Own
  /\ \A q \in Procs :
       call[q] # None =>
         /\ call[q].obs # None =>
              /\ call[q].obs.topic = t /\ call[q].obs.proj = Own
              /\ call[q].obs.imp = "archive" => call[q].obs.home = "project"
         /\ call[q].drafts \subseteq {t}
OnlyReports ==
  /\ now = 0 /\ recorded = {}
  /\ \A x \in Sessions : ~sess[x].open
  /\ \A q \in Procs :
       call[q] # None =>
         /\ call[q].kind = "observe" /\ call[q].s = None
         /\ call[q].obs # None => call[q].obs.imp = "temporary"
  /\ \A i \in Ids : rows[i] # None => rows[i].uses = 0
OneWorld == OneTopic \/ OnlyReports
=============================================================================
