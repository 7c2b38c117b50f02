----------------------------- MODULE MCReadPath -----------------------------
(* TLC instance of CodeGraph and Retrieval: two paths that share a tail    *)
(* ("/r/d/x.py" ends with both names), a file that may import the others   *)
(* in a cycle, one commit; observations whose entries fit a small budget   *)
(* whole, trimmed or not at all.                                           *)
EXTENDS Retrieval

MCTouches == [c \in Commit |-> {"x.py", "y.py"}]
MCAbout == [o \in Obs |-> CASE o = "o1" -> {"/r/d/x.py"} [] o = "o2" -> {"y.py"} [] OTHER -> {}]
MCCites == [o \in Obs |-> IF o = "o1" THEN Commit ELSE {}]
MCTails == [p \in Path |-> IF p \in {"d/x.py", "/r/d/x.py"} THEN {"x.py", "d/x.py"} ELSE {p}]
MCImports == {{}, {"y.py"}, {"x.py", "lib"}}
MCTrees == [{"x.py"} -> {{}, {"x.py", "lib"}}]
MCStores == {[o \in Obs |-> CASE o = "o1" -> "archived" [] o = "o2" -> "superseded" [] OTHER -> "absent"]}

MCCat == [o \in Obs |-> IF o = "o2" THEN "code" ELSE "diagnostics"]
MCLadder == [o \in Obs |-> CASE o = "o1" -> <<9, 6, 4>> [] o = "o2" -> <<7, 5>> [] OTHER -> <<8, 3>>]
MCFractions == [c \in Category |-> CASE c = "code" -> 40 [] c = "diagnostics" -> 35 [] OTHER -> 25]

MCQueries ==
  [budget : {6, 15}, limit : {2}, types : {Category, {"diagnostics"}}, kills : {{}, {"o3"}},
   changed : {{"x.py"}}]
=============================================================================
