------------------------------- MODULE Guards -------------------------------
(***************************************************************************)
(* The guards that run before a tool is used (hooks/guards.py) and the     *)
(* live hook, which knows neither who acts nor for which task (cli.py,     *)
(* _hook_decision).                                                        *)
(*                                                                         *)
(* An event is a record [tool, marks, big, actor, task, token].  What the  *)
(* patterns find in its path or command is a set of marks; big says that a *)
(* dispatch exceeds its token budget.  "Edit" stands for MultiEdit too,    *)
(* "Task" for both ways to dispatch a sub-agent.                           *)
(***************************************************************************)
EXTENDS Naturals, Profile

CONSTANTS NoToken, NoTask

CodeWriteTools == {"Write", "Edit", "NotebookEdit"}

(* Patterns of the three domains (auth, payment, db_schema) are one mark.  *)
Marks == {"domain", "destructive", "template", "immutable", "log", "state"}

(* The capability that capability_guard asks the registry for.             *)
CapabilityOf(tool) ==
  IF tool \in CodeWriteTools THEN "write_code"
  ELSE IF tool = "Bash" THEN "run_tests" ELSE "none"

Destructive(ev) == ev.tool = "Bash" /\ "destructive" \in ev.marks

(* Any token that is not None opens a hard stop; the guard looks no        *)
(* further into it.                                                        *)
HardStop(ev) == ("domain" \in ev.marks \/ Destructive(ev)) /\ ev.token = NoToken

TurnLocked(ev, boss) ==
  ev.tool \in CodeWriteTools /\ "state" \in ev.marks /\ ev.actor # boss

Protected(ev, approval) ==
  /\ ev.tool \in CodeWriteTools
  /\ \/ "template" \in ev.marks
     \/ "immutable" \in ev.marks /\ ~approval
     \/ ev.tool = "Write" /\ "log" \in ev.marks

OutOfScope(ev, tasks) == ev.tool \in CodeWriteTools /\ ev.task \notin tasks

OverBudget(ev) == ev.tool = "Task" /\ ev.big

------------------------------------------------------------------------------
(* constitution_binding, domain_ask_active and ~claude_write_approval are  *)
(* the same profiles.                                                      *)
Binding(w) == ActiveProfile(w) \in Runtime
Approval(w) == w.approved \/ ~Binding(w)

(* The tools whose use calls the hook: the matcher of the shipped settings.*)
Wired == {"Write", "Edit", "Bash"}

(* Claude Code's name for the part of a tool's input that carries marks.   *)
InputKey(tool) ==
  CASE tool = "Bash" -> "command"
    [] tool = "NotebookEdit" -> "notebook_path"
    [] tool = "Task" -> "prompt"
    [] OTHER -> "file_path"

(* The event the hook makes of a payload: it reads file_path, path and     *)
(* command, and knows neither actor nor task nor token.                    *)
Seen(ev) ==
  [ev EXCEPT !.marks = IF InputKey(ev.tool) \in {"file_path", "path", "command"} THEN @ ELSE {},
             !.actor = "", !.task = NoTask, !.token = NoToken]

(* Mutant: an approval is taken for every hard stop.                       *)
HookDecisionTrusting(ev, w) ==
  LET seen == Seen(ev)
  IN IF ActiveProfile(w) = "error" THEN "allow"
     ELSE IF Protected(seen, Approval(w)) THEN "deny"
     ELSE IF HardStop(seen) /\ ~Approval(w) THEN IF Destructive(seen) THEN "deny" ELSE "ask"
     ELSE IF Binding(w) /\ OverBudget(seen) THEN "deny" ELSE "allow"

(* _hook_decision, and _cmd_hook that allows where it raises.  A payload   *)
(* that cannot be read, which is no event here, is allowed too.            *)
HookDecision(ev, w) ==
  LET seen == Seen(ev)
  IN IF ActiveProfile(w) = "error" THEN "allow"
     ELSE IF Protected(seen, Approval(w)) \/ Destructive(seen) THEN "deny"
     ELSE IF HardStop(seen) /\ Binding(w) /\ ~Approval(w) THEN "ask"
     ELSE IF Binding(w) /\ OverBudget(seen) THEN "deny" ELSE "allow"
==============================================================================
