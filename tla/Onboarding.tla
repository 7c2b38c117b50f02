----------------------------- MODULE Onboarding -----------------------------
(***************************************************************************)
(* Onboarding: the wizard (workstation/wizard.py), the interview that      *)
(* grills every phase (interview.py), the AI checkpoints and the research  *)
(* pass (checkpoints.py, research.py), and the POST handlers of the        *)
(* dashboard that drive them (server.py).  _POST_LOCK lets one POST in at  *)
(* a time, so a handler is one step, except that submit and follow-up      *)
(* save more than once and the server may die between two saves.           *)
(*                                                                         *)
(* Steps are numbered in the order of tree.FLOW; step 1 asks for the       *)
(* project type.  Of an answer the model keeps whether it was given, and   *)
(* of a submission whether it changed one.  A rejected POST changes        *)
(* nothing and is no step.                                                 *)
(***************************************************************************)
EXTENDS Naturals, FiniteSets

CONSTANTS
  N,           (* number of steps in FLOW                                  *)
  Kind,        (* "phase", "research" or "checkpoint", by step             *)
  SeedSteps,   (* steps of the short flow for project seeds                *)
  Optional,    (* phases whose questions may all stay unanswered           *)
  MaxRounds    (* MAX_ROUNDS of a grill                                    *)

Steps == 1..N

ASSUME KindAssumption ==
  /\ N \in Nat \ {0}
  /\ Kind \in [Steps -> {"phase", "research", "checkpoint"}]
  /\ Kind[1] = "phase"
ASSUME SeedAssumption == SeedSteps \subseteq 2..N
ASSUME OptionalAssumption == Optional \subseteq {s \in 2..N : Kind[s] = "phase"}
ASSUME RoundsAssumption == MaxRounds \in Nat \ {0}

VARIABLES
  ptype,     (* the project type, as far as it selects a flow              *)
  status,    (* steps[...].status                                          *)
  result,    (* a research digest or a verdict is stored                   *)
  grill,     (* the phase's interview record                               *)
  rounds,    (* rounds in that record                                      *)
  pc, cur,   (* what a POST still has to do, and on which phase (1 if      *)
             (* nothing)                                                   *)
  edited,    (* history: phases whose answers changed since the step was   *)
             (* last earned, for the steps that count as earned            *)
  outdated   (* history: an earlier answer changed since the stored        *)
             (* verdict was given                                          *)

wizardVars == <<ptype, status, result, edited, outdated>>
grillVars == <<grill, rounds>>
vars == <<wizardVars, grillVars, pc, cur>>

Phases == {s \in Steps : Kind[s] = "phase"}
Reviewed == Steps \ Phases
Terminal == {"complete", "approved"}

TypeOK ==
  /\ ptype \in {"unset", "app", "seed"}
  /\ status \in [Steps -> {"pending", "stale"} \cup Terminal]
  /\ result \in [Reviewed -> BOOLEAN]
  /\ grill \in [Phases -> {"none", "open", "clear", "degraded", "decide", "resolved"}]
  /\ rounds \in [Phases -> 0..MaxRounds]
  /\ pc \in {"idle", "begin", "round"}
  /\ cur \in Phases
  /\ edited \in [Steps -> SUBSET Phases]
  /\ outdated \in [Reviewed -> BOOLEAN]

Init ==
  /\ ptype = "unset"
  /\ status = [s \in Steps |-> "pending"]
  /\ result = [s \in Reviewed |-> FALSE]
  /\ grill = [p \in Phases |-> "none"]
  /\ rounds = [p \in Phases |-> 0]
  /\ pc = "idle"
  /\ cur = 1
  /\ edited = [s \in Steps |-> {}]
  /\ outdated = [s \in Reviewed |-> FALSE]

------------------------------------------------------------------------------
(* Reading the state.                                                      *)

(* step_applies(): seed projects skip the full interview.                  *)
Applies(s, type) ==
  \/ s = 1
  \/ type = "app" /\ s \notin SeedSteps
  \/ type = "seed" /\ s \in SeedSteps

InFlow(s) == Applies(s, ptype)

(* phase_clear(): no record at all counts as clear.                        *)
PhaseClear(p) == grill[p] \in {"none", "clear", "degraded", "resolved"}

Blocks(p) == p \in Phases /\ InFlow(p) /\ status[p] \in Terminal /\ ~PhaseClear(p)

(* Mutant: the interview no longer counts a user's decision as settling.   *)
SettledByMachine(g) == g \in {"clear", "degraded", "decide"}

(* A record on which run_interview_round makes no further call.            *)
Settled(g) == g \in {"clear", "degraded", "decide", "resolved"}

------------------------------------------------------------------------------
(* Writing the wizard state.                                               *)

(* Mutant: staling walks the active flow instead of the full tree.         *)
StaleAfterInFlow(p, st, type) ==
  [s \in Steps |->
     IF s > p /\ Applies(s, type) /\ st[s] \in Terminal THEN "stale" ELSE st[s]]

(* _stale_after(): every later terminal step of the full tree.             *)
StaleAfter(p, st, type) ==
  [s \in Steps |-> IF s > p /\ st[s] \in Terminal THEN "stale" ELSE st[s]]

(* Step s is earned anew: nothing has changed since.                       *)
Earn(s, earnedStatus) ==
  /\ status' = [status EXCEPT ![s] = earnedStatus]
  /\ edited' = [edited EXCEPT ![s] = {}]

(* Mutant: any phase may be submitted while another blocks.                *)
MaySubmitAnyway(p) == TRUE

(* submit() is refused while the grill of another phase is open.           *)
MaySubmit(p) == \A q \in Phases : Blocks(q) => q = p

(* post_submit, first save: Wizard.submit().  A first answer is a change;  *)
(* only a change of an already terminal phase makes later steps stale.     *)
Submit(p, type, changed) ==
  /\ pc = "idle"
  /\ InFlow(p)
  /\ MaySubmit(p)
  /\ (status[p] = "pending" /\ p \notin Optional) \/ type # ptype => changed
  /\ ptype' = type
  /\ LET st == [status EXCEPT ![p] = "complete"] IN
       status' = IF changed /\ status[p] \in Terminal
                 THEN StaleAfter(p, st, type) ELSE st
  /\ edited' = [s \in Steps |->
                  IF s = p \/ status'[s] \notin Terminal THEN {}
                  ELSE IF s > p /\ changed THEN edited[s] \cup {p} ELSE edited[s]]
  /\ outdated' = [s \in Reviewed |->
                    outdated[s] \/ (s > p /\ changed /\ result[s])]
  /\ pc' = "begin"
  /\ cur' = p
  /\ UNCHANGED <<result, grillVars>>

(* Step 1 sets the project type; every other phase leaves it alone.        *)
SubmitPhase ==
  \E p \in Phases, changed \in BOOLEAN :
    \E type \in IF p = 1 THEN {"app", "seed"} ELSE {ptype} :
      Submit(p, type, changed)

(* post_checkpoint: a verdict, degraded or not, asks for approval again.   *)
Review(s) ==
  /\ pc = "idle"
  /\ InFlow(s)
  /\ Kind[s] = "checkpoint"
  /\ Earn(s, "pending")
  /\ result' = [result EXCEPT ![s] = TRUE]
  /\ outdated' = [outdated EXCEPT ![s] = FALSE]
  /\ UNCHANGED <<ptype, grillVars, pc, cur>>

(* post_research: a digest, or a skipped one, completes the step.          *)
Research(s) ==
  /\ pc = "idle"
  /\ InFlow(s)
  /\ Kind[s] = "research"
  /\ Earn(s, "complete")
  /\ result' = [result EXCEPT ![s] = TRUE]
  /\ outdated' = [outdated EXCEPT ![s] = FALSE]
  /\ UNCHANGED <<ptype, grillVars, pc, cur>>

(* Mutant: an approval does not wait for the steps before it.              *)
MayApproveEarly(s) == result[s] /\ \A p \in Phases : ~Blocks(p)

(* No open grill, a stored result, and everything earlier terminal.        *)
MayApprove(s) ==
  /\ result[s]
  /\ \A p \in Phases : ~Blocks(p)
  /\ \A e \in Steps : e < s /\ InFlow(e) => status[e] \in Terminal

(* post_approve: the stored result is recorded once more as approved; a    *)
(* research step becomes complete the same way.                            *)
Approve(s) ==
  /\ pc = "idle"
  /\ s \in Reviewed
  /\ InFlow(s)
  /\ MayApprove(s)
  /\ Earn(s, IF Kind[s] = "checkpoint" THEN "approved" ELSE "complete")
  /\ UNCHANGED <<ptype, result, outdated, grillVars, pc, cur>>

------------------------------------------------------------------------------
(* The grill.                                                              *)

Record(p, state, n) ==
  /\ grill' = [grill EXCEPT ![p] = state]
  /\ rounds' = [rounds EXCEPT ![p] = n]

(* The POST is through.                                                    *)
Done == pc' = "idle" /\ cur' = 1

(* post_submit, second save: begin_phase() restarts the record.            *)
Begin ==
  /\ pc = "begin"
  /\ Record(cur, "open", 0)
  /\ pc' = "round"
  /\ UNCHANGED <<wizardVars, cur>>

(* Mutant: the cap compared with the rounds before this one.               *)
AfterReplyLate(n) == IF n > MaxRounds THEN "decide" ELSE "open"

(* What an unclear n-th reply makes of it: the cap escalates to the user.  *)
AfterReply(n) == IF n >= MaxRounds THEN "decide" ELSE "open"

(* parse_reply(): "clear" counts only from a boss that lists nothing left  *)
(* to ask, and a reply that is neither clear nor asks makes no sense.      *)
Parsed(reply) ==
  IF reply.asks THEN "unclear" ELSE IF reply.clear THEN "clear" ELSE "nonsense"

(* call_interview(): what comes of asking once, and once more after        *)
(* nonsense; "nonsense" stands for every failure.                          *)
Heard == {"nonsense"} \cup {Parsed(r) : r \in [asks : BOOLEAN, clear : BOOLEAN]}

(* run_interview_round(): nothing for a settled record or a phase that has *)
(* left the flow; degraded when the boss cannot be asked or makes no       *)
(* sense; otherwise one more round.  Its defensive check of the cap before *)
(* the call is never met (GrillBounded).                                   *)
Round ==
  /\ pc = "round"
  /\ Done
  /\ \/ /\ Settled(grill[cur]) \/ ~InFlow(cur)
        /\ UNCHANGED grillVars
     \/ /\ ~Settled(grill[cur]) /\ InFlow(cur)
        /\ \E heard \in Heard :
             \/ heard = "nonsense" /\ Record(cur, "degraded", rounds[cur])
             \/ heard = "clear" /\ Record(cur, "clear", rounds[cur] + 1)
             \/ heard = "unclear"
                /\ Record(cur, AfterReply(rounds[cur] + 1), rounds[cur] + 1)
  /\ UNCHANGED wizardVars

(* post_followup: the answers join the open round, then the next round.    *)
Followup(p) ==
  /\ pc = "idle"
  /\ rounds[p] > 0
  /\ ~Settled(grill[p])
  /\ pc' = "round"
  /\ cur' = p
  /\ UNCHANGED <<wizardVars, grillVars>>

(* post_resolve: the user's final word, before or after escalation.        *)
Resolve(p) ==
  /\ pc = "idle"
  /\ grill[p] \in {"open", "degraded", "decide"}
  /\ Record(p, "resolved", rounds[p])
  /\ UNCHANGED <<wizardVars, pc, cur>>

(* The server dies, or the POST fails, between two saves.                  *)
Cut ==
  /\ pc # "idle"
  /\ Done
  /\ UNCHANGED <<wizardVars, grillVars>>

Next ==
  \/ SubmitPhase \/ Begin \/ Round \/ Cut
  \/ \E s \in Steps : Review(s) \/ Research(s) \/ Approve(s)
  \/ \E p \in Phases : Followup(p) \/ Resolve(p)

Spec == Init /\ [][Next]_vars

------------------------------------------------------------------------------
(* An approval never survives a change of an earlier answer, in whatever   *)
(* order phases were first answered, edited, staled and earned again       *)
(* ("approvals must be re-earned", wizard.py:4-6; the guard of             *)
(* wizard.py:136-146 is what makes first answers safe, which never stale). *)
ApprovalSurvivesNoEdit ==
  \A s \in Steps : status[s] = "approved" => edited[s] = {}

(* Nothing counts as earned that was earned for another project type, not  *)
(* even after flipping the type away and back (wizard.py:170-176).         *)
TypeChangeRevokesAll ==
  \A s \in Steps : status[s] \in Terminal => 1 \notin edited[s]

(* At most one phase is grilled at a time: two of them blocking each other *)
(* would refuse each other's resubmission (server.py:287-290).             *)
OneOpenGrill == \A p, q \in Phases : Blocks(p) /\ Blocks(q) => p = q

(* A grill ends after MAX_ROUNDS replies, at the latest by asking the user *)
(* to decide; it neither asks on nor gives up early (interview.py:180-208).*)
GrillBounded ==
  \A p \in Phases :
    /\ grill[p] = "open" => rounds[p] < MaxRounds
    /\ grill[p] = "decide" => rounds[p] = MaxRounds

(* The user's final word closes the grill until the phase is submitted     *)
(* again: no late follow-up or reply reopens it (interview.py:238-241).    *)
FinalWordStands ==
  [][\A p \in Phases :
       grill[p] = "resolved" /\ grill'[p] # "resolved" => pc = "begin" /\ cur = p]_vars

(* What is approved is a verdict about the present answers, not about ones *)
(* that were changed since ("An approval must postdate everything it       *)
(* approves", wizard.py:137; "run the review first", server.py:349).       *)
ApprovedVerdictIsCurrent ==
  \A s \in Reviewed : status[s] = "approved" => ~outdated[s]
==============================================================================
