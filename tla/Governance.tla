----------------------------- MODULE Governance -----------------------------
(***************************************************************************)
(* Capabilities (security/capabilities.py) and the dispatcher in front of  *)
(* them (hooks/dispatcher.py).  A registry lives in one process, with its  *)
(* elevation tokens in memory; runner.dispatcher() makes a new one each    *)
(* time, over the same audit file.  A call of mint_elevation, check or     *)
(* pre_tool_use changes the memory, appends a line to the file, which may  *)
(* fail, and returns; the process may end at any of these points.          *)
(***************************************************************************)
EXTENDS Guards, Sequences

CONSTANTS
  Registry,  (* processes with a registry                                  *)
  Agent, Boss,               (* Boss: current_boss of the dispatchers      *)
  Elevated, Plain,           (* capabilities                               *)
  Grants,    (* [Agent -> SUBSET Plain]                                    *)
  Token,     (* names for tokens: a new token takes one never used before  *)
  Unminted,  (* anything else that is shown as a token                     *)
  Tasks,     (* approved_task_ids                                          *)
  Events,    (* the events a dispatcher is asked about                     *)
  CallWorld, (* bound: the configuration calls are explored in (they read  *)
             (* none of it)                                                *)
  MaxCalls   (* bound: calls                                               *)

ASSUME GovernanceAssumption ==
  /\ {NoToken, Unminted} \cap Token = {} /\ NoToken # Unminted /\ Elevated \cap Plain = {}
  /\ {"write_code", "run_tests"} \subseteq Plain /\ NoTask \notin Tasks
  /\ Events \subseteq [tool : CodeWriteTools \cup {"Bash", "Task", "Read"},
                       marks : SUBSET Marks, big : BOOLEAN, actor : Agent, task : Tasks \cup {NoTask},
                       token : Token \cup {NoToken, Unminted}]
  /\ CallWorld \in Worlds /\ MaxCalls \in Nat

VARIABLES
  world,     (* the configuration, read by the live hook                   *)
  tokens,    (* [Registry -> [its tokens -> [cap, agent, used]]]           *)
  minted,    (* every token there ever was                                 *)
  known,     (* those that mint_elevation has returned                     *)
  call,      (* [Registry -> [phase, line, fine]]: the line to append,     *)
             (* and whether the other guards have nothing against the event*)
  audit,     (* the lines of the file                                      *)
  passed,    (* history: the lines of the calls that let an action through *)
  calls      (* calls so far                                               *)

memory == <<tokens, minted>>
vars == <<world, memory, known, call, audit, passed, calls>>

Line(event, agent, cap, t) == [event |-> event, agent |-> agent, cap |-> cap, token |-> t]

NoCall == [phase |-> "none", line |-> Line("none", Boss, "none", NoToken), fine |-> TRUE]

Init ==
  /\ world \in Worlds
  /\ tokens = [r \in Registry |-> <<>>] /\ minted = {} /\ known = {}
  /\ call = [r \in Registry |-> NoCall]
  /\ audit = <<>> /\ passed = <<>> /\ calls = 0

(* The user or the activation changes the configuration.                   *)
Configure == calls = 0 /\ world' \in Worlds /\ UNCHANGED <<memory, known, call, audit, passed, calls>>

Enter(r, line, fine) ==
  /\ call[r].phase = "none" /\ world = CallWorld
  /\ calls < MaxCalls /\ calls' = calls + 1
  /\ call' = [call EXCEPT ![r] = [phase |-> "audit", line |-> line, fine |-> fine]]
  /\ UNCHANGED <<world, known, audit, passed>>

(* ElevationToken; its name is the key, reason and time are left out.      *)
NewToken(agent, cap) == [cap |-> cap, agent |-> agent, used |-> FALSE]

(* mint_elevation of an elevated capability (another raises first).        *)
Mint(r, agent, cap) ==
  \E t \in Token \ minted :
    /\ Enter(r, Line("mint_elevation", agent, cap, t), TRUE)
    /\ minted' = minted \cup {t}
    /\ tokens' = [tokens EXCEPT ![r] =
         [x \in DOMAIN @ \cup {t} |-> IF x = t THEN NewToken(agent, cap) ELSE @[x]]]

Good(r, agent, cap, t) ==
  t \in DOMAIN tokens[r] /\ ~tokens[r][t].used
    /\ tokens[r][t].cap = cap /\ tokens[r][t].agent = agent

(* Mutant: the token is marked only once the line is written.              *)
SpendNot(r, agent, cap, t) ==
  /\ Good(r, agent, cap, t) /\ UNCHANGED memory
  /\ Enter(r, Line("allowed_elevated", agent, cap, t), TRUE)

(* check(): an elevated capability takes a token, any other a grant.  A    *)
(* token that is no ElevationToken raises before anything changes.         *)
Spend(r, agent, cap, t) ==
  /\ Good(r, agent, cap, t)
  /\ tokens' = [tokens EXCEPT ![r][t].used = TRUE] /\ UNCHANGED minted
  /\ Enter(r, Line("allowed_elevated", agent, cap, t), TRUE)

Refuse(r, agent, cap, t) ==
  /\ ~Good(r, agent, cap, t) /\ UNCHANGED memory
  /\ Enter(r, Line("denied", agent, cap, NoToken), TRUE)

CheckPlain(r, agent, cap, fine) ==
  /\ Enter(r, Line(IF cap \in Grants[agent] THEN "allowed" ELSE "denied", agent, cap, NoToken), fine)
  /\ UNCHANGED memory

(* What the other guards say of an event; runner.py gives a dispatcher no  *)
(* approval for .claude/.                                                  *)
OthersAllow(ev) ==
  ~(HardStop(ev) \/ TurnLocked(ev, Boss) \/ Protected(ev, FALSE) \/ OutOfScope(ev, Tasks)
      \/ OverBudget(ev))

(* pre_tool_use asks the registry first (a tool without a capability is    *)
(* answered at once and changes nothing).  The capabilities it asks for    *)
(* take grants, so the event's token is neither looked up nor spent nor    *)
(* named in the line: all it does is to open a hard stop.                  *)
PreToolUse(r, ev) ==
  /\ CapabilityOf(ev.tool) # "none"
  /\ CheckPlain(r, ev.actor, CapabilityOf(ev.tool), OthersAllow(ev))

(* _audit: one appended line, or an OSError out of the whole call.         *)
Append_(r) ==
  /\ call[r].phase = "audit"
  /\ audit' = Append(audit, call[r].line)
  /\ call' = [call EXCEPT ![r].phase = "return"]
  /\ UNCHANGED <<world, memory, known, passed, calls>>

AppendFails(r) ==
  /\ call[r].phase = "audit" /\ call' = [call EXCEPT ![r] = NoCall]
  /\ UNCHANGED <<world, memory, known, audit, passed, calls>>

Return(r) ==
  /\ call[r].phase = "return" /\ call' = [call EXCEPT ![r] = NoCall]
  /\ known' = IF call[r].line.event = "mint_elevation" THEN known \cup {call[r].line.token} ELSE known
  /\ passed' = IF call[r].line.event \in {"allowed", "allowed_elevated"} /\ call[r].fine
               THEN Append(passed, call[r].line) ELSE passed
  /\ UNCHANGED <<world, memory, audit, calls>>

(* The process ends; the next has an empty registry.                       *)
Restart(r) ==
  /\ tokens[r] # <<>> \/ call[r] # NoCall
  /\ tokens' = [tokens EXCEPT ![r] = <<>>] /\ call' = [call EXCEPT ![r] = NoCall]
  /\ UNCHANGED <<world, minted, known, audit, passed, calls>>

Next ==
  \/ Configure
  \/ \E r \in Registry :
       \/ \E agent \in Agent, cap \in Elevated :
            \/ Mint(r, agent, cap)
            \/ \E t \in known \cup {NoToken, Unminted} : Spend(r, agent, cap, t) \/ Refuse(r, agent, cap, t)
       \/ \E agent \in Agent, cap \in Plain : CheckPlain(r, agent, cap, TRUE)
       \/ \E ev \in Events : ev.token \in known \cup {NoToken, Unminted} /\ PreToolUse(r, ev)
       \/ Append_(r) \/ AppendFails(r) \/ Return(r) \/ Restart(r)

Spec == Init /\ [][Next]_vars
------------------------------------------------------------------------------
(* What check() lets through is in the audit file, and an elevated action  *)
(* is there once, after the line that minted its token for the same agent  *)
(* and capability: check() takes a token at most once, over failing        *)
(* appends, restarts and registries that share the file, whoever shows it  *)
(* and however often pre_tool_use was shown it (ElevationToken: "A         *)
(* single-use, logged grant", capabilities.py:62-64).  Of the hard stops   *)
(* themselves nothing is said: hard_stop_guard takes any token, a spent or *)
(* unminted one too, keeps none and logs none (guards.py:76), so a token   *)
(* opens as many of them as it is shown at.                                *)
ChecksAccounted ==
  \A i \in DOMAIN passed :
    LET line == passed[i] IN
      /\ \E n \in DOMAIN audit : audit[n] = line
      /\ line.event = "allowed_elevated" =>
           /\ \A j \in DOMAIN passed : passed[j].token = line.token => j = i
           /\ \E m, n \in DOMAIN audit :
                /\ m < n /\ audit[n] = line
                /\ audit[m] = Line("mint_elevation", line.agent, line.cap, line.token)

(* For the tools whose use calls it the live hook, which knows less than   *)
(* the dispatcher, is no laxer: under runtime law without an approval it   *)
(* lets nothing through that the guards which need no actor refuse to      *)
(* everybody, and destructive commands, templates and overwritten logs it  *)
(* denies wherever a profile resolves (cli.py:107-156; profile.py:         *)
(* "destructive-command denial ... binding in every profile").  A notebook *)
(* edit, whose path the hook would not see, and a dispatch are not among   *)
(* these tools.                                                            *)
HookNoLaxer ==
  \A ev \in {e \in Events : e.tool \in Wired} :
    /\ ActiveProfile(world) # "error" /\ (Destructive(ev) \/ Protected(ev, TRUE)) =>
         HookDecision(ev, world) = "deny"
    /\ Binding(world) /\ ~world.approved /\ (HardStop(ev) \/ Protected(ev, FALSE)) =>
         HookDecision(ev, world) # "allow"
==============================================================================
