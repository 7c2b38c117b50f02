---------------------------- MODULE MCGovernance ----------------------------
(* TLC instance of Governance: a builder who writes and tests, and a boss  *)
(* who owns the turn; events with every mark and some with two, a few of   *)
(* them with another actor, without a task or with a token, minted or not. *)
EXTENDS Governance, TLC

MCSymmetry == Permutations(Registry) \cup Permutations(Token)

MCGrants == [a \in Agent |-> IF a = Boss THEN {} ELSE {"write_code", "run_tests"}]
MCEvents ==
  LET Event(tool, marks, big) ==
        [tool |-> tool, marks |-> marks, big |-> big, actor |-> "builder", task |-> "1.1",
         token |-> NoToken]
      Own == Event("Write", {"state"}, FALSE)
      Asked == Event("Write", {"domain"}, FALSE)
      Notebook == Event("NotebookEdit", {"domain", "immutable"}, FALSE)
  IN {Event("Write", ms, FALSE) : ms \in SUBSET {"domain", "immutable", "log"} \cup {{"template"}}}
       \cup {Event("Bash", ms, FALSE) : ms \in SUBSET {"domain", "destructive"}}
       \cup {Event("Task", {}, b) : b \in BOOLEAN}
       \cup {Event("Edit", {"log"}, FALSE), Event("Read", {"domain"}, FALSE), Own, Notebook,
             [Own EXCEPT !.actor = Boss], [Asked EXCEPT !.task = NoTask]}
       \cup {[Asked EXCEPT !.token = t] : t \in Token \cup {Unminted}}
MCCallWorld == [env |-> "", file |-> "absent", team |-> TRUE, approved |-> FALSE]
=============================================================================
