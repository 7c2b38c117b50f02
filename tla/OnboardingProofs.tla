-------------------------- MODULE OnboardingProofs --------------------------
(* Proofs about Onboarding, for every flow, seed flow and cap of rounds.   *)
EXTENDS Onboarding, TLAPS

(* Nothing is earned before the project type is answered.                  *)
TypeComesFirst ==
  \/ status[1] = "complete"
  \/ ptype = "unset" /\ \A s \in Steps : status[s] = "pending"

(* Nothing precedes step 1, so it is never earned against an older answer. *)
FirstIsFresh == edited[1] = {}

(* An approved step has every earlier phase of the flow behind it.  (Not   *)
(* every earlier step: an earlier checkpoint may be reviewed again.)       *)
ApprovedComeLast ==
  \A s \in Steps, p \in Phases :
    status[s] = "approved" /\ p < s /\ InFlow(p) => status[p] \in Terminal

(* Between its two saves a submission is the only possible blocker.        *)
SubmittedBlocksAlone ==
  pc = "begin" => \A p \in Phases : Blocks(p) => p = cur

(* A round is only run on an open record.                                  *)
RoundIsOpen == pc = "round" => grill[cur] = "open"

(* A missing record has no rounds.                                         *)
NoRecordNoRounds == \A p \in Phases : grill[p] = "none" => rounds[p] = 0

WizardInv ==
  /\ TypeComesFirst
  /\ FirstIsFresh
  /\ ApprovedComeLast
  /\ ApprovalSurvivesNoEdit
  /\ TypeChangeRevokesAll

GrillInv == RoundIsOpen /\ NoRecordNoRounds /\ GrillBounded

BlockInv == SubmittedBlocksAlone /\ OneOpenGrill

IInv == TypeOK /\ WizardInv /\ GrillInv /\ BlockInv
------------------------------------------------------------------------------
(* Step 1 is a phase; a step is a phase or is reviewed, never both.        *)
LEMMA StepFacts ==
  /\ 1 \in Steps /\ 1 \in Phases
  /\ Phases \subseteq Steps /\ Reviewed \subseteq Steps
  /\ \A s \in Steps : s \in Nat /\ s >= 1
  /\ \A s \in Steps : s \in Reviewed <=> s \notin Phases
  /\ \A s \in Steps : Kind[s] \in {"research", "checkpoint"} => s \in Reviewed
  BY KindAssumption DEF Steps, Phases, Reviewed

(* What a submission does to the statuses, read once for all invariants.   *)
LEMMA SubmitStatus ==
  ASSUME TypeOK, NEW p \in Phases, NEW type \in {"unset", "app", "seed"},
         NEW changed \in BOOLEAN, Submit(p, type, changed)
  PROVE  /\ status' \in [Steps -> {"pending", "stale"} \cup Terminal]
         /\ status'[p] = "complete"
         /\ \A s \in Steps \ {p} : status'[s] = status[s] \/ status'[s] = "stale"
         /\ changed /\ status[p] \in Terminal =>
              \A s \in Steps : s > p => status'[s] \notin Terminal
         /\ ~(changed /\ status[p] \in Terminal) =>
              status' = [status EXCEPT ![p] = "complete"]
         /\ \A s \in Steps : s < p => status'[s] = status[s]
  <1> DEFINE st == [status EXCEPT ![p] = "complete"]
  <1>1. /\ p \in Steps
        /\ st \in [Steps -> {"pending", "stale"} \cup Terminal]
        /\ st[p] = "complete"
        /\ \A s \in Steps \ {p} : st[s] = status[s]
    BY StepFacts DEF TypeOK, Terminal
  <1>2. status' = IF changed /\ status[p] \in Terminal
                  THEN StaleAfter(p, st, type) ELSE st
    BY DEF Submit
  <1>3. CASE changed /\ status[p] \in Terminal
    <2>1. status' = [s \in Steps |->
                       IF s > p /\ st[s] \in Terminal THEN "stale" ELSE st[s]]
      BY <1>2, <1>3 DEF StaleAfter
    <2> HIDE DEF st
    <2>2. \A s \in Steps : s \in Nat
      BY StepFacts
    <2> QED
      BY <1>1, <1>3, <2>1, <2>2 DEF Terminal
  <1>4. CASE ~(changed /\ status[p] \in Terminal)
    <2>1. status' = st
      BY <1>2, <1>4
    <2>2. \A s \in Steps : s \in Nat
      BY StepFacts
    <2> QED
      BY <1>1, <1>4, <2>1, <2>2
  <1> QED
    BY <1>3, <1>4

------------------------------------------------------------------------------
(* Types.                                                                  *)
LEMMA TypeStep == TypeOK /\ GrillInv /\ [Next]_vars => TypeOK'
  <1> SUFFICES ASSUME TypeOK, GrillInv, [Next]_vars PROVE TypeOK'
    OBVIOUS
  <1> USE StepFacts
  <1>1. CASE SubmitPhase
    <2>0. PICK p \in Phases, changed \in BOOLEAN :
            \E type \in IF p = 1 THEN {"app", "seed"} ELSE {ptype} :
              Submit(p, type, changed)
      BY <1>1 DEF SubmitPhase
    <2>1. PICK type \in IF p = 1 THEN {"app", "seed"} ELSE {ptype} :
            Submit(p, type, changed)
      BY <2>0
    <2>2. type \in {"unset", "app", "seed"}
      BY DEF TypeOK
    <2>3. status' \in [Steps -> {"pending", "stale"} \cup Terminal]
      BY <2>1, <2>2, SubmitStatus
    <2>4. edited' \in [Steps -> SUBSET Phases]
      BY <2>1 DEF Submit, TypeOK
    <2>5. outdated' \in [Reviewed -> BOOLEAN]
      BY <2>1 DEF Submit, TypeOK
    <2> QED
      BY <2>1, <2>2, <2>3, <2>4, <2>5 DEF Submit, TypeOK, grillVars
  <1>2. CASE Begin \/ Cut
    BY <1>2, RoundsAssumption
    DEF Begin, Cut, Record, Done, TypeOK, wizardVars, grillVars
  <1>3. CASE Round
    <2>1. ~Settled(grill[cur]) => rounds[cur] + 1 \in 0..MaxRounds
      BY <1>3, RoundsAssumption
      DEF Round, GrillInv, RoundIsOpen, GrillBounded, TypeOK
    <2>2. grill' \in [Phases -> {"none", "open", "clear", "degraded", "decide", "resolved"}]
      BY <1>3 DEF Round, Record, AfterReply, TypeOK, grillVars
    <2>3. rounds' \in [Phases -> 0..MaxRounds]
      BY <1>3, <2>1 DEF Round, Record, TypeOK, grillVars
    <2> QED
      BY <1>3, <2>2, <2>3 DEF Round, Done, TypeOK, wizardVars
  <1>4. ASSUME NEW s \in Steps, Review(s) \/ Research(s) \/ Approve(s) PROVE TypeOK'
    <2>1. s \in Reviewed
      BY <1>4 DEF Review, Research, Approve
    <2> QED
      BY <1>4, <2>1
      DEF Review, Research, Approve, Earn, Terminal, TypeOK, grillVars
  <1>5. ASSUME NEW p \in Phases, Followup(p) \/ Resolve(p) PROVE TypeOK'
    BY <1>5 DEF Followup, Resolve, Record, TypeOK, wizardVars, grillVars
  <1>6. CASE UNCHANGED vars
    BY <1>6 DEF vars, wizardVars, grillVars, TypeOK
  <1> QED
    BY <1>1, <1>2, <1>3, <1>4, <1>5, <1>6 DEF Next

------------------------------------------------------------------------------
(* The grill: the cap, and what a round starts from.                       *)
LEMMA GrillStep == TypeOK /\ GrillInv /\ [Next]_vars => GrillInv'
  <1> SUFFICES ASSUME TypeOK, GrillInv, [Next]_vars PROVE GrillInv'
    OBVIOUS
  <1> USE DEF GrillInv, RoundIsOpen, NoRecordNoRounds, GrillBounded
  <1>1. CASE SubmitPhase
    BY <1>1 DEF SubmitPhase, Submit, grillVars
  <1>2. CASE Begin
    BY <1>2, RoundsAssumption DEF Begin, Record, TypeOK
  <1>3. CASE Cut
    BY <1>3 DEF Cut, Done, grillVars
  <1>4. CASE Round
    <2>1. CASE UNCHANGED grillVars
      BY <1>4, <2>1 DEF Round, Done, grillVars
    <2>2. CASE Record(cur, "degraded", rounds[cur]) \/ Record(cur, "clear", rounds[cur] + 1)
      BY <1>4, <2>2 DEF Round, Done, Record, TypeOK
    <2>3. CASE Record(cur, AfterReply(rounds[cur] + 1), rounds[cur] + 1)
      <3>1. grill[cur] = "open" /\ rounds[cur] \in Nat /\ rounds[cur] < MaxRounds
        BY <1>4 DEF Round, TypeOK
      <3> QED
        BY <1>4, <2>3, <3>1, RoundsAssumption
        DEF Round, Done, Record, AfterReply, TypeOK
    <2> QED
      BY <1>4, <2>1, <2>2, <2>3 DEF Round
  <1>5. ASSUME NEW s \in Steps, Review(s) \/ Research(s) \/ Approve(s) PROVE GrillInv'
    BY <1>5 DEF Review, Research, Approve, grillVars
  <1>6. ASSUME NEW p \in Phases, Followup(p) PROVE GrillInv'
    BY <1>6 DEF Followup, Settled, TypeOK, grillVars
  <1>7. ASSUME NEW p \in Phases, Resolve(p) PROVE GrillInv'
    BY <1>7 DEF Resolve, Record, TypeOK
  <1>8. CASE UNCHANGED vars
    BY <1>8 DEF vars, grillVars
  <1> QED
    BY <1>1, <1>2, <1>3, <1>4, <1>5, <1>6, <1>7, <1>8 DEF Next
------------------------------------------------------------------------------
(* The statuses: what staling and the guard on approvals keep between them.*)
LEMMA WizardSubmitStep ==
  ASSUME TypeOK, WizardInv, NEW p \in Phases, NEW type \in {"unset", "app", "seed"},
         p # 1 => type = ptype, p = 1 => type # "unset",
         NEW changed \in BOOLEAN, Submit(p, type, changed)
  PROVE  WizardInv'
  <1> USE StepFacts
  <1>1. /\ status' \in [Steps -> {"pending", "stale"} \cup Terminal]
        /\ status'[p] = "complete"
        /\ \A s \in Steps \ {p} : status'[s] = status[s] \/ status'[s] = "stale"
        /\ changed /\ status[p] \in Terminal =>
             \A s \in Steps : s > p => status'[s] \notin Terminal
        /\ ~(changed /\ status[p] \in Terminal) =>
             status' = [status EXCEPT ![p] = "complete"]
        /\ \A s \in Steps : s < p => status'[s] = status[s]
    BY SubmitStatus
  <1>2. /\ ptype' = type
        /\ InFlow(p)
        /\ type # ptype => changed
        /\ edited' = [s \in Steps |->
                        IF s = p \/ status'[s] \notin Terminal THEN {}
                        ELSE IF s > p /\ changed THEN edited[s] \cup {p} ELSE edited[s]]
    BY DEF Submit
  <1>3. status[1] = "complete" \/ p = 1
    BY <1>2 DEF WizardInv, TypeComesFirst, InFlow, Applies
  <1>4. \A s \in Steps : s # p /\ status'[s] \in Terminal =>
          status'[s] = status[s] /\ status[s] \in Terminal
    BY <1>1 DEF Terminal
  <1>5. p = 1 => status[1] = "complete" \/ \A s \in Steps : status[s] = "pending"
    BY DEF WizardInv, TypeComesFirst
  <1>6. TypeComesFirst'
    <2>1. CASE p = 1
      BY <1>1, <2>1 DEF TypeComesFirst
    <2>2. CASE p # 1
      BY <1>1, <1>3, <2>2 DEF TypeComesFirst
    <2> QED
      BY <2>1, <2>2
  <1>7. FirstIsFresh'
    BY <1>2 DEF WizardInv, FirstIsFresh
  <1>8. ApprovedComeLast'
    <2> SUFFICES ASSUME NEW s \in Steps, NEW q \in Phases,
                        status'[s] = "approved", q < s, InFlow(q)'
                 PROVE  status'[q] \in Terminal
      BY DEF ApprovedComeLast
    <2>1. s # p /\ status[s] = "approved"
      BY <1>1, <1>4 DEF Terminal
    <2>2. CASE p = 1
      <3>1. status[1] = "complete"
        BY <1>5, <2>1, <2>2
      <3>2. ~changed
        BY <1>1, <2>1, <2>2, <3>1 DEF Terminal
      <3>3. ptype' = ptype /\ status' = [status EXCEPT ![p] = "complete"]
        BY <1>1, <1>2, <3>2
      <3>4. InFlow(q)
        BY <3>3 DEF InFlow, Applies
      <3> QED
        BY <2>1, <3>3, <3>4 DEF WizardInv, ApprovedComeLast, TypeOK, Terminal
    <2>3. CASE p # 1
      <3>1. InFlow(q)
        BY <1>2, <2>3 DEF InFlow, Applies
      <3>2. status[q] \in Terminal
        BY <2>1, <3>1 DEF WizardInv, ApprovedComeLast
      <3>3. CASE q = p
        BY <1>1, <3>3 DEF Terminal
      <3>4. CASE q < p
        BY <1>1, <3>2, <3>4
      <3>5. CASE q > p
        BY <1>1, <2>1, <3>2, <3>5 DEF Terminal, TypeOK
      <3> QED
        BY <3>3, <3>4, <3>5
    <2> QED
      BY <2>2, <2>3
  <1>9. ApprovalSurvivesNoEdit'
    <2> SUFFICES ASSUME NEW s \in Steps, status'[s] = "approved"
                 PROVE  edited'[s] = {}
      BY DEF ApprovalSurvivesNoEdit
    <2>1. s # p /\ status[s] = "approved"
      BY <1>1, <1>4 DEF Terminal
    <2>2. edited[s] = {}
      BY <2>1 DEF WizardInv, ApprovalSurvivesNoEdit
    <2>3. ~(s > p /\ changed)
      <3> SUFFICES ASSUME s > p, changed PROVE FALSE
        OBVIOUS
      <3>1. status[p] \in Terminal
        <4>1. CASE p = 1
          BY <1>5, <2>1, <4>1 DEF Terminal
        <4>2. CASE p # 1
          BY <1>2, <2>1 DEF WizardInv, ApprovedComeLast
        <4> QED
          BY <4>1, <4>2
      <3> QED
        BY <1>1, <2>1, <3>1 DEF Terminal
    <2> QED
      BY <1>2, <2>2, <2>3
  <1>10. TypeChangeRevokesAll'
    <2> SUFFICES ASSUME NEW s \in Steps, status'[s] \in Terminal
                 PROVE  1 \notin edited'[s]
      BY DEF TypeChangeRevokesAll
    <2>1. CASE s = p
      BY <1>2, <2>1
    <2>2. CASE s # p /\ p # 1
      <3>1. 1 \notin edited[s]
        BY <1>4, <2>2 DEF WizardInv, TypeChangeRevokesAll
      <3> QED
        BY <1>2, <2>2, <3>1
    <2>3. CASE s # p /\ p = 1
      <3>1. 1 \notin edited[s] /\ status[s] \in Terminal
        BY <1>4, <2>3 DEF WizardInv, TypeChangeRevokesAll
      <3>2. status[1] \in Terminal
        BY <1>5, <2>3, <3>1 DEF Terminal
      <3>3. s > p
        BY <2>3
      <3>4. ~changed
        BY <1>1, <2>3, <3>2, <3>3
      <3> QED
        BY <1>2, <2>3, <3>1, <3>4
    <2> QED
      BY <2>1, <2>2, <2>3
  <1> QED
    BY <1>6, <1>7, <1>8, <1>9, <1>10 DEF WizardInv

LEMMA WizardStep == TypeOK /\ WizardInv /\ [Next]_vars => WizardInv'
  <1> SUFFICES ASSUME TypeOK, WizardInv, [Next]_vars PROVE WizardInv'
    OBVIOUS
  <1> USE StepFacts
  <1>1. CASE SubmitPhase
    <2>1. PICK p \in Phases, changed \in BOOLEAN :
            \E type \in IF p = 1 THEN {"app", "seed"} ELSE {ptype} :
              Submit(p, type, changed)
      BY <1>1 DEF SubmitPhase
    <2>2. PICK type \in IF p = 1 THEN {"app", "seed"} ELSE {ptype} :
            Submit(p, type, changed)
      BY <2>1
    <2>3. type \in {"unset", "app", "seed"}
      BY DEF TypeOK
    <2> QED
      BY <2>2, <2>3, WizardSubmitStep
  <1>2. CASE UNCHANGED wizardVars
    BY <1>2 DEF wizardVars, WizardInv, TypeComesFirst, FirstIsFresh,
                ApprovedComeLast, ApprovalSurvivesNoEdit, TypeChangeRevokesAll,
                InFlow
  <1>3. ASSUME NEW s \in Steps, Review(s) \/ Research(s) \/ Approve(s) PROVE WizardInv'
    <2>1. /\ s \in Reviewed /\ s # 1
          /\ \/ status' = [status EXCEPT ![s] = "pending"]
             \/ status' = [status EXCEPT ![s] = "complete"]
             \/ status' = [status EXCEPT ![s] = "approved"] /\ MayApprove(s)
          /\ edited' = [edited EXCEPT ![s] = {}]
          /\ ptype' = ptype
          /\ InFlow(s)
      BY <1>3 DEF Review, Research, Approve, Earn
    <2>2. status[1] = "complete"
      BY <2>1 DEF WizardInv, TypeComesFirst, InFlow, Applies
    <2>3. \A e \in Steps : status'[e] = IF e = s THEN status'[s] ELSE status[e]
      BY <2>1 DEF TypeOK
    <2>4. \A e \in Steps : edited'[e] = IF e = s THEN {} ELSE edited[e]
      BY <2>1 DEF TypeOK
    <2>5. TypeComesFirst' /\ FirstIsFresh'
      BY <2>1, <2>2, <2>3, <2>4 DEF TypeComesFirst, FirstIsFresh, WizardInv
    <2>6. ApprovedComeLast'
      <3> SUFFICES ASSUME NEW e \in Steps, NEW q \in Phases,
                          status'[e] = "approved", q < e, InFlow(q)'
                   PROVE  status'[q] \in Terminal
        BY DEF ApprovedComeLast
      <3>1. InFlow(q) /\ q # s
        BY <2>1 DEF InFlow, Applies
      <3>2. status'[q] = status[q]
        BY <2>3, <3>1
      <3>3. CASE e = s
        BY <2>1, <3>1, <3>2, <3>3 DEF MayApprove, TypeOK
      <3>4. CASE e # s
        BY <2>3, <3>1, <3>2, <3>4 DEF WizardInv, ApprovedComeLast
      <3> QED
        BY <3>3, <3>4
    <2>7. ApprovalSurvivesNoEdit' /\ TypeChangeRevokesAll'
      BY <2>3, <2>4 DEF ApprovalSurvivesNoEdit, TypeChangeRevokesAll, WizardInv
    <2> QED
      BY <2>5, <2>6, <2>7 DEF WizardInv
  <1>4. CASE Begin \/ Round \/ Cut
    BY <1>2, <1>4 DEF Begin, Round, Cut
  <1>5. ASSUME NEW p \in Phases, Followup(p) \/ Resolve(p) PROVE WizardInv'
    BY <1>2, <1>5 DEF Followup, Resolve, wizardVars
  <1>6. CASE UNCHANGED vars
    BY <1>2, <1>6 DEF vars
  <1> QED
    BY <1>1, <1>3, <1>4, <1>5, <1>6 DEF Next

------------------------------------------------------------------------------
(* Blocking: at most one phase is in the way of the others.                *)
LEMMA BlockStep == IInv /\ [Next]_vars => BlockInv'
  <1> SUFFICES ASSUME IInv, [Next]_vars PROVE BlockInv'
    OBVIOUS
  <1> USE StepFacts DEF IInv, BlockInv, SubmittedBlocksAlone, OneOpenGrill
  <1>1. CASE SubmitPhase
    <2>0. PICK p \in Phases, changed \in BOOLEAN :
            \E type \in IF p = 1 THEN {"app", "seed"} ELSE {ptype} :
              Submit(p, type, changed)
      BY <1>1 DEF SubmitPhase
    <2>1. PICK type \in IF p = 1 THEN {"app", "seed"} ELSE {ptype} :
            Submit(p, type, changed)
      BY <2>0
    <2>2. type \in {"unset", "app", "seed"}
      BY DEF TypeOK
    <2>3. /\ \A s \in Steps \ {p} : status'[s] = status[s] \/ status'[s] = "stale"
          /\ changed /\ status[p] \in Terminal =>
               \A s \in Steps : s > p => status'[s] \notin Terminal
      BY <2>1, <2>2, SubmitStatus
    <2>4. /\ pc' = "begin" /\ cur' = p /\ ptype' = type /\ grill' = grill
          /\ MaySubmit(p)
          /\ type # ptype => changed
      BY <2>1 DEF Submit, grillVars
    <2>5. \A q \in Phases : Blocks(q)' => q = p
      <3> SUFFICES ASSUME NEW q \in Phases, q # p, Blocks(q)' PROVE FALSE
        OBVIOUS
      <3>1. /\ status'[q] = status[q] /\ status[q] \in Terminal /\ ~PhaseClear(q)
            /\ Applies(q, type)
        BY <2>3, <2>4 DEF Blocks, PhaseClear, InFlow, Terminal
      <3>2. CASE type = ptype
        BY <2>4, <3>1, <3>2 DEF MaySubmit, Blocks, InFlow
      <3>3. CASE type # ptype
        <4>1. p = 1 /\ q > 1
          BY <3>3
        <4>2. status[1] \in Terminal
          BY <3>1 DEF WizardInv, TypeComesFirst, Terminal
        <4> QED
          BY <2>3, <2>4, <3>1, <3>3, <4>1, <4>2
      <3> QED
        BY <3>2, <3>3
    <2> QED
      BY <2>4, <2>5
  <1>2. CASE Begin
    <2>1. \A q \in Phases : Blocks(q)' => q = cur
      BY <1>2 DEF Begin, Record, Blocks, PhaseClear, InFlow, TypeOK, wizardVars
    <2> QED
      BY <1>2, <2>1 DEF Begin
  <1>3. CASE Round
    <2>1. \A q \in Phases : Blocks(q)' => Blocks(q)
      <3>1. CASE UNCHANGED grillVars
        BY <1>3, <3>1 DEF Round, Blocks, PhaseClear, InFlow, wizardVars, grillVars
      <3>2. CASE ~UNCHANGED grillVars
        <4>1. ~PhaseClear(cur)
          BY <1>3 DEF Round, GrillInv, RoundIsOpen, PhaseClear
        <4>2. \A q \in Phases : q # cur => grill'[q] = grill[q]
          BY <1>3, <3>2 DEF Round, Record, TypeOK
        <4> QED
          BY <1>3, <4>1, <4>2 DEF Round, Blocks, PhaseClear, InFlow, wizardVars
      <3> QED
        BY <3>1, <3>2
    <2> QED
      BY <1>3, <2>1 DEF Round, Done
  <1>4. CASE Cut
    BY <1>4 DEF Cut, Done, Blocks, PhaseClear, InFlow, wizardVars, grillVars
  <1>5. ASSUME NEW s \in Steps, Review(s) \/ Research(s) \/ Approve(s) PROVE BlockInv'
    <2>1. /\ s \notin Phases /\ UNCHANGED <<ptype, grill, pc, cur>> /\ pc = "idle"
          /\ \A q \in Phases : status'[q] = status[q]
      BY <1>5 DEF Review, Research, Approve, Earn, TypeOK, grillVars
    <2>2. \A q \in Phases : Blocks(q)' <=> Blocks(q)
      BY <2>1 DEF Blocks, PhaseClear, InFlow
    <2> QED
      BY <2>1, <2>2
  <1>6. ASSUME NEW p \in Phases, Followup(p) PROVE BlockInv'
    BY <1>6 DEF Followup, Blocks, PhaseClear, InFlow, wizardVars, grillVars
  <1>7. ASSUME NEW p \in Phases, Resolve(p) PROVE BlockInv'
    <2>1. \A q \in Phases : Blocks(q)' => Blocks(q)
      BY <1>7 DEF Resolve, Record, Blocks, PhaseClear, InFlow, TypeOK, wizardVars
    <2> QED
      BY <1>7, <2>1 DEF Resolve
  <1>8. CASE UNCHANGED vars
    BY <1>8 DEF vars, Blocks, PhaseClear, InFlow, wizardVars, grillVars
  <1> QED
    BY <1>1, <1>2, <1>3, <1>4, <1>5, <1>6, <1>7, <1>8 DEF Next

------------------------------------------------------------------------------
LEMMA InitInv == Init => IInv
  BY StepFacts, RoundsAssumption
  DEF Init, IInv, TypeOK, WizardInv, TypeComesFirst, FirstIsFresh, ApprovedComeLast,
      ApprovalSurvivesNoEdit, TypeChangeRevokesAll, GrillInv, RoundIsOpen,
      NoRecordNoRounds, GrillBounded, BlockInv, SubmittedBlocksAlone, OneOpenGrill,
      Blocks, Terminal

LEMMA InvHolds == Spec => []IInv
  <1>1. IInv /\ [Next]_vars => IInv'
    BY TypeStep, GrillStep, WizardStep, BlockStep DEF IInv
  <1> QED
    BY InitInv, <1>1, PTL DEF Spec

(* Whatever the order of POSTs and of server deaths, the onboarding state  *)
(* stays well-formed.                                                      *)
THEOREM TypeCorrect == Spec => []TypeOK
  BY InvHolds, PTL DEF IInv

(* For every flow: no approval outlives a change of an answer before it.   *)
THEOREM ApprovalCorrect == Spec => []ApprovalSurvivesNoEdit
  <1>1. IInv => ApprovalSurvivesNoEdit
    BY DEF IInv, WizardInv
  <1> QED
    BY InvHolds, <1>1, PTL

(* For every flow: nothing earned survives a change of the project type.   *)
THEOREM TypeChangeCorrect == Spec => []TypeChangeRevokesAll
  <1>1. IInv => TypeChangeRevokesAll
    BY DEF IInv, WizardInv
  <1> QED
    BY InvHolds, <1>1, PTL

(* For every flow: two grilled phases never wait on each other, although   *)
(* nothing but the guard of submit keeps the records apart.                *)
THEOREM OneGrillCorrect == Spec => []OneOpenGrill
  <1>1. IInv => OneOpenGrill
    BY DEF IInv, BlockInv
  <1> QED
    BY InvHolds, <1>1, PTL

(* For every MAX_ROUNDS: a grill ends, and ends asking the user exactly at *)
(* the cap.                                                                *)
THEOREM GrillCorrect == Spec => []GrillBounded
  <1>1. IInv => GrillBounded
    BY DEF IInv, GrillInv
  <1> QED
    BY InvHolds, <1>1, PTL

(* A settled decision is only ever reopened by submitting the phase again. *)
THEOREM FinalWordCorrect == Spec => FinalWordStands
  <1>1. TypeOK /\ [Next]_vars =>
          [\A p \in Phases :
             grill[p] = "resolved" /\ grill'[p] # "resolved" => pc = "begin" /\ cur = p]_vars
    <2> SUFFICES ASSUME TypeOK, [Next]_vars, NEW p \in Phases,
                        grill[p] = "resolved", grill'[p] # "resolved"
                 PROVE  pc = "begin" /\ cur = p
      OBVIOUS
    <2>1. CASE SubmitPhase \/ Cut \/ UNCHANGED vars
      BY <2>1 DEF SubmitPhase, Submit, Cut, vars, grillVars
    <2>2. CASE Begin
      BY <2>2 DEF Begin, Record, TypeOK
    <2>3. CASE Round
      BY <2>3 DEF Round, Record, Settled, TypeOK, grillVars
    <2>4. ASSUME NEW s \in Steps, Review(s) \/ Research(s) \/ Approve(s)
          PROVE  grill' = grill
      BY <2>4 DEF Review, Research, Approve, grillVars
    <2>5. ASSUME NEW q \in Phases, Followup(q) \/ Resolve(q)
          PROVE  grill'[p] = "resolved"
      BY <2>5 DEF Followup, Resolve, Record, TypeOK, grillVars
    <2> QED
      BY <2>1, <2>2, <2>3, <2>4, <2>5 DEF Next
  <1> QED
    BY TypeCorrect, <1>1, PTL DEF Spec, FinalWordStands
==============================================================================
