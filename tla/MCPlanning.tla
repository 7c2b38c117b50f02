----------------------------- MODULE MCPlanning -----------------------------
(* TLC instance of Planning and PlanOrder: section 10 with the leaves 1 to *)
(* 3 (1 and 2 in one feature, 11) and a section that is itself a leaf, 4.  *)
(* The plans of bare calls depend forwards, backwards, on nodes above and  *)
(* beside them, and on an unknown id, 99; the boss replies with an unfit   *)
(* plan, a cyclic one and a good one.                                      *)
EXTENDS Planning, TLC

MCPath == (1 :> {1, 11, 10}) @@ (2 :> {2, 11, 10}) @@ (3 :> {3, 10}) @@ (4 :> {4})

Deps(l) ==
  CASE l = 1 -> {{}, {2}, {3}, {11}, {99}}
    [] l = 2 -> {{}, {1}, {3}, {10}, {4}}
    [] l = 3 -> {{}, {1}, {4}, {11}, {11, 4}}
    [] l = 4 -> {{}, {1}, {10}, {2, 3}}

MCWrites ==
  { <<{"a"}, {"a"}, {"b"}, {"b"}>>, <<{"a", "b"}, {"a"}, {"b"}, {"c"}>>,
    <<{"a"}, {"b"}, {"a"}, {}>> }

MCPlans ==
  { [depends |-> <<d1, d2, d3, d4>>, writes |-> w, fit |-> f] :
      d1 \in Deps(1), d2 \in Deps(2), d3 \in Deps(3), d4 \in Deps(4),
      w \in MCWrites, f \in {1..4, {1, 2, 4}} }

MCReply(d1, d3, f) ==
  [depends |-> <<d1, {}, d3, {}>>, writes |-> <<{"a"}, {"a"}, {"b"}, {"b"}>>, fit |-> f]

MCReplies == { MCReply({}, {11}, {1, 2, 4}), MCReply({3}, {11}, 1..4), MCReply({2}, {4}, 1..4) }
=============================================================================
