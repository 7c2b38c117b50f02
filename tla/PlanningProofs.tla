--------------------------- MODULE PlanningProofs ---------------------------
(***************************************************************************)
(* Proofs about Planning and the calls of PlanOrder inside it, for every   *)
(* set of leaves and nodes, every plan and reply, every limit.             *)
(*                                                                         *)
(* OrderInv is about the call under way.  Its part NoKnot carries the      *)
(* acyclicity of what has been ordered so far from one layer to the next.  *)
(* LockInv is about the gates while POST /finish holds the lock.           *)
(***************************************************************************)
EXTENDS Planning, TLAPS

(* What is in the waves holds no set of leaves that all wait within it.    *)
NoKnot ==
  \A s \in SUBSET Leaf :
    s # {} /\ s \subseteq Scheduled => \E l \in s : WaitsFor(l) \cap s = {}

CallTypeOK ==
  plan \in ParsedPlans /\ waves \in Seq(SUBSET Leaf)

(* What the checks and the end of the loop established still holds.        *)
Established ==
  /\ call = "plan" /\ outcome \in {"running", "ok", "cycle"} => Violations(plan) = {}
  /\ outcome = "cycle" => Ready = {} /\ Remaining # {}
  /\ outcome = "ok" => Remaining = {}

OrderInv ==
  CallTypeOK /\ DependenciesFirst /\ WaveMembersIndependent /\ NoKnot /\ Established

LockInv ==
  /\ fin = "planning" => ready /\ spec = answers
  /\ fin # "off" => call = "plan"

------------------------------------------------------------------------------
LEMMA NeedsIsWaitsFor ==
  ASSUME CallTypeOK, NEW l \in Leaf
  PROVE  Needs(plan, l) = WaitsFor(l)
<1>1. Needs(plan, l) \subseteq WaitsFor(l)
  BY DEF Needs, Under, WaitsFor
<1>2. WaitsFor(l) \subseteq Needs(plan, l)
  BY DEF Needs, Under, WaitsFor
<1>. QED
  BY <1>1, <1>2

LEMMA ScheduledIsOfLeaves ==
  ASSUME CallTypeOK
  PROVE  /\ Scheduled \subseteq Leaf
         /\ \A l \in Scheduled : \E i \in DOMAIN waves : l \in waves[i]
         /\ DOMAIN waves = 1 .. Len(waves) /\ Len(waves) \in Nat
  BY DEF CallTypeOK, Scheduled

(* What waits in a wave waits for scheduled leaves.                        *)
LEMMA ScheduledClosed ==
  ASSUME CallTypeOK, DependenciesFirst, NEW l \in Scheduled
  PROVE  WaitsFor(l) \subseteq Scheduled
<1>1. PICK i \in DOMAIN waves : l \in waves[i]
  BY ScheduledIsOfLeaves
<1>2. ASSUME NEW k \in WaitsFor(l) PROVE k \in Scheduled
  <2>1. PICK j \in 1 .. i - 1 : k \in waves[j]
    BY <1>1 DEF DependenciesFirst
  <2>2. j \in DOMAIN waves
    BY <1>1, ScheduledIsOfLeaves
  <2>. QED
    BY <2>1, <2>2 DEF Scheduled
<1>. QED
  BY <1>2

(* An empty call satisfies the invariant.                                  *)
LEMMA EmptyCall ==
  ASSUME plan \in Plans, waves = <<>>, outcome \in {"none", "called", "refused"}
  PROVE  OrderInv
<1>1. CallTypeOK
  BY PlansAssumption DEF CallTypeOK
<1>2. Scheduled = {} /\ DOMAIN waves = {}
  BY DEF Scheduled
<1>. QED
  BY <1>1, <1>2 DEF OrderInv, DependenciesFirst, WaveMembersIndependent, NoKnot, Established

LEMMA EmptyCallNext ==
  ASSUME plan' \in Plans, waves' = <<>>, outcome' \in {"none", "called", "refused"}
  PROVE  OrderInv'
<1>1. CallTypeOK'
  BY PlansAssumption DEF CallTypeOK
<1>2. Scheduled' = {} /\ DOMAIN waves' = {}
  BY DEF Scheduled
<1>3. NoKnot'
  BY <1>2 DEF NoKnot
<1>4. DependenciesFirst' /\ WaveMembersIndependent'
  BY <1>2 DEF DependenciesFirst, WaveMembersIndependent
<1>5. Established'
  BY DEF Established
<1>. QED
  BY <1>1, <1>3, <1>4, <1>5 DEF OrderInv

LEMMA SameOrder ==
  ASSUME OrderInv, UNCHANGED order
  PROVE  OrderInv'
<1>1. /\ call' = call /\ plan' = plan /\ waves' = waves /\ outcome' = outcome
      /\ limit' = limit
  BY DEF order, vars
<1>2. Scheduled' = Scheduled /\ Remaining' = Remaining /\ Ready' = Ready
  BY <1>1 DEF Scheduled, Remaining, Ready
<1>3. \A l : WaitsFor(l)' = WaitsFor(l)
  BY <1>1 DEF WaitsFor
<1>4. CallTypeOK'
  BY <1>1 DEF OrderInv, CallTypeOK
<1>5. DependenciesFirst'
  BY <1>1, <1>3 DEF OrderInv, DependenciesFirst
<1>6. WaveMembersIndependent'
  BY <1>1 DEF OrderInv, WaveMembersIndependent
<1>7. NoKnot'
  BY <1>2, <1>3 DEF OrderInv, NoKnot
<1>8. Established'
  BY <1>1, <1>2 DEF OrderInv, Established
<1>. QED
  BY <1>4, <1>5, <1>6, <1>7, <1>8 DEF OrderInv

------------------------------------------------------------------------------
(* One wave is taken.                                                      *)
LEMMA TakeKeeps ==
  ASSUME OrderInv, NEW w \in SUBSET Leaf, w \subseteq Ready, Take(w)
  PROVE  OrderInv'
<1>1. /\ call' = call /\ plan' = plan /\ outcome' = outcome /\ limit' = limit
      /\ outcome = "running"
  BY DEF Take
<1>2. \A l : WaitsFor(l)' = WaitsFor(l)
  BY <1>1 DEF WaitsFor
<1>3. CASE w = {}
  BY <1>3, <1>1, SameOrder DEF Take, order, vars
<1>4. CASE w # {}
  <2>1. waves' = Append(waves, w) /\ CallTypeOK
    BY <1>4 DEF Take, OrderInv
  <2>2. CallTypeOK'
    BY <2>1, <1>1 DEF CallTypeOK
  <2>3. /\ Len(waves) \in Nat /\ DOMAIN waves = 1 .. Len(waves)
        /\ DOMAIN waves' = 1 .. Len(waves) + 1
        /\ \A i \in DOMAIN waves : waves'[i] = waves[i]
        /\ waves'[Len(waves) + 1] = w
    BY <2>1 DEF CallTypeOK
  <2>4. Scheduled' = Scheduled \cup w
    <3>1. ASSUME NEW l \in Scheduled' PROVE l \in Scheduled \cup w
      <4>1. PICK i \in DOMAIN waves' : l \in waves'[i]
        BY DEF Scheduled
      <4>2. i \in DOMAIN waves \/ i = Len(waves) + 1
        BY <4>1, <2>3
      <4>. QED
        BY <4>1, <4>2, <2>3 DEF Scheduled
    <3>2. ASSUME NEW l \in Scheduled PROVE l \in Scheduled'
      <4>1. PICK i \in DOMAIN waves : l \in waves[i]
        BY DEF Scheduled
      <4>2. i \in DOMAIN waves' /\ l \in waves'[i]
        BY <4>1, <2>3
      <4>. QED
        BY <4>2 DEF Scheduled
    <3>3. ASSUME NEW l \in w PROVE l \in Scheduled'
      <4>1. Len(waves) + 1 \in DOMAIN waves' /\ l \in waves'[Len(waves) + 1]
        BY <2>3
      <4>. QED
        BY <4>1 DEF Scheduled
    <3>. QED
      BY <3>1, <3>2, <3>3
  <2>5. \A l \in w : l \in Leaf /\ l \notin Scheduled /\ WaitsFor(l) \subseteq Scheduled
    BY NeedsIsWaitsFor, <2>1 DEF Ready, Remaining
  <2>6. DependenciesFirst'
    <3>1. SUFFICES ASSUME NEW i \in DOMAIN waves', NEW l \in waves'[i]
                   PROVE  /\ \A k \in WaitsFor(l) : \E j \in 1 .. i - 1 : k \in waves'[j]
                          /\ \A j \in DOMAIN waves' : l \in waves'[j] => j = i
      BY <1>2 DEF DependenciesFirst
    <3>2. CASE i \in DOMAIN waves
      <4>1. /\ \A k \in WaitsFor(l) : \E j \in 1 .. i - 1 : k \in waves[j]
            /\ \A j \in DOMAIN waves : l \in waves[j] => j = i
        BY <3>2, <2>3 DEF OrderInv, DependenciesFirst
      <4>2. \A k \in WaitsFor(l) : \E j \in 1 .. i - 1 : k \in waves'[j]
        BY <4>1, <3>2, <2>3
      <4>3. l \in Scheduled
        BY <3>2, <2>3 DEF Scheduled
      <4>4. l \notin waves'[Len(waves) + 1]
        BY <4>3, <2>3, <2>5
      <4>. QED
        BY <4>1, <4>2, <4>4, <2>3
    <3>3. CASE i = Len(waves) + 1
      <4>1. l \in w
        BY <3>3, <2>3
      <4>2. ASSUME NEW k \in WaitsFor(l) PROVE \E j \in 1 .. i - 1 : k \in waves'[j]
        <5>1. PICK j \in DOMAIN waves : k \in waves[j]
          BY <4>1, <2>5 DEF Scheduled
        <5>2. j \in 1 .. i - 1 /\ k \in waves'[j]
          BY <5>1, <3>3, <2>3
        <5>. QED
          BY <5>2
      <4>3. \A j \in DOMAIN waves : l \notin waves'[j]
        BY <4>1, <2>5, <2>3 DEF Scheduled
      <4>. QED
        BY <4>2, <4>3, <3>3, <2>3
    <3>. QED
      BY <3>2, <3>3, <2>3
  <2>7. WaveMembersIndependent'
    <3>1. SUFFICES ASSUME call = "waves", NEW i \in DOMAIN waves',
                          NEW l \in waves'[i], NEW k \in waves'[i]
                   PROVE  ~Conflict(plan, l, k)
      BY <1>1 DEF WaveMembersIndependent, Conflict
    <3>2. CASE i \in DOMAIN waves
      BY <3>1, <3>2, <2>3 DEF OrderInv, WaveMembersIndependent
    <3>3. CASE i = Len(waves) + 1
      <4>1. l \in w /\ k \in w /\ w \subseteq Ready /\ Greedy(w)
        BY <3>1, <3>3, <2>3 DEF Take
      <4>2. l \in Nat /\ k \in Nat
        BY <4>1, LeafAssumption
      <4>3. CASE k < l
        BY <4>1, <4>3 DEF Greedy, Before
      <4>4. CASE l < k
        <5>1. ~Conflict(plan, k, l)
          BY <4>1, <4>4 DEF Greedy, Before
        <5>. QED
          BY <5>1 DEF Conflict
      <4>5. CASE l = k
        BY <4>5 DEF Conflict
      <4>. QED
        BY <4>2, <4>3, <4>4, <4>5
    <3>. QED
      BY <3>2, <3>3, <2>3
  <2>8. NoKnot'
    <3>1. SUFFICES ASSUME NEW s \in SUBSET Leaf, s # {}, s \subseteq Scheduled \cup w
                   PROVE  \E l \in s : WaitsFor(l) \cap s = {}
      BY <2>4, <1>2 DEF NoKnot
    <3>2. CASE s \cap Scheduled # {}
      <4>1. PICK l \in s \cap Scheduled : WaitsFor(l) \cap (s \cap Scheduled) = {}
        BY <3>2, s \cap Scheduled \in SUBSET Leaf DEF OrderInv, NoKnot
      <4>2. WaitsFor(l) \subseteq Scheduled
        BY ScheduledClosed, <2>1 DEF OrderInv
      <4>. QED
        BY <4>1, <4>2
    <3>3. CASE s \cap Scheduled = {}
      <4>1. PICK l \in s : TRUE
        BY <3>1
      <4>2. l \in w
        BY <3>1, <3>3
      <4>. QED
        BY <4>1, <4>2, <2>5, <3>3
    <3>. QED
      BY <3>2, <3>3
  <2>9. Established'
    BY <1>1 DEF OrderInv, Established, Violations
  <2>. QED
    BY <2>2, <2>6, <2>7, <2>8, <2>9 DEF OrderInv
<1>. QED
  BY <1>3, <1>4

LEMMA NextKeeps ==
  ASSUME OrderInv, Next
  PROVE  OrderInv'
<1>1. CASE Check \/ Stop
  <2>1. call' = call /\ plan' = plan /\ waves' = waves /\ limit' = limit
    BY <1>1 DEF Check, Stop
  <2>2. Scheduled' = Scheduled /\ Remaining' = Remaining /\ Ready' = Ready
    BY <2>1 DEF Scheduled, Remaining, Ready
  <2>3. \A l : WaitsFor(l)' = WaitsFor(l)
    BY <2>1 DEF WaitsFor
  <2>4. CallTypeOK'
    BY <2>1 DEF OrderInv, CallTypeOK
  <2>5. DependenciesFirst'
    BY <2>1, <2>3 DEF OrderInv, DependenciesFirst
  <2>6. WaveMembersIndependent'
    BY <2>1 DEF OrderInv, WaveMembersIndependent
  <2>7. NoKnot'
    BY <2>2, <2>3 DEF OrderInv, NoKnot
  <2>8. Violations(plan)' = Violations(plan)
    BY <2>1 DEF Violations
  <2>9. Established'
    <3>1. CASE Check
      BY <3>1, <2>1, <2>8 DEF Check, Established
    <3>2. CASE Stop
      BY <3>2, <2>1, <2>2, <2>8 DEF Stop, Established, OrderInv
    <3>. QED
      BY <1>1, <3>1, <3>2
  <2>. QED
    BY <2>4, <2>5, <2>6, <2>7, <2>9 DEF OrderInv
<1>2. CASE \E w \in SUBSET Leaf : w \subseteq Ready /\ Take(w)
  BY <1>2, TakeKeeps
<1>. QED
  BY <1>1, <1>2 DEF Next

------------------------------------------------------------------------------
(* Finish around the calls.                                                *)
LEMMA NoPlanIsAPlan == NoPlan \in Plans
  BY PlansAssumption DEF NoPlan

LEMMA PlanningNextKeeps ==
  ASSUME OrderInv, [PlanningNext]_allVars
  PROVE  OrderInv'
<1>1. CASE PlanCall
  BY <1>1, NextKeeps DEF PlanCall
<1>2. CASE \E edit \in BOOLEAN : Onboard(edit)
  BY <1>2, SameOrder DEF Onboard
<1>3. CASE WriteSpec \/ WriteJson
  BY <1>3, SameOrder DEF WriteSpec, WriteJson
<1>4. CASE Reply
  BY <1>4, EmptyCallNext, NoPlanIsAPlan, RepliesAssumption DEF Reply, Unusable, SetCall
<1>5. CASE GiveUp \/ WriteMd \/ Die
  BY <1>5, EmptyCallNext, NoPlanIsAPlan DEF GiveUp, WriteMd, Die, Forget, SetCall
<1>6. CASE Read \/ Connect \/ Poll
  BY <1>6, SameOrder DEF Read, Connect, Poll
<1>7. CASE UNCHANGED allVars
  BY <1>7, SameOrder DEF allVars
<1>. QED
  BY <1>1, <1>2, <1>3, <1>4, <1>5, <1>6, <1>7 DEF PlanningNext

LEMMA OrderInvariant == PlanningSpec => []OrderInv
<1>1. PlanningInit => OrderInv
  <2>1. PlanningInit => plan \in Plans /\ waves = <<>> /\ outcome \in {"none", "called"}
    BY NoPlanIsAPlan DEF PlanningInit, Init
  <2>. QED
    BY <2>1, EmptyCall
<1>2. OrderInv /\ [PlanningNext]_allVars => OrderInv'
  BY PlanningNextKeeps
<1>. QED
  BY <1>1, <1>2, PTL DEF PlanningSpec

(* Both loops put dependencies first, for every plan.                      *)
THEOREM OrderIsSound == PlanningSpec => []DependenciesFirst
<1>1. OrderInv => DependenciesFirst
  BY DEF OrderInv
<1>. QED
  BY <1>1, OrderInvariant, PTL

(* No two tasks of a wave write one file, for every limit.                 *)
THEOREM WavesAreIndependent == PlanningSpec => []WaveMembersIndependent
<1>1. OrderInv => WaveMembersIndependent
  BY DEF OrderInv
<1>. QED
  BY <1>1, OrderInvariant, PTL

(* What is refused as a cycle is one, and what is accepted is complete.    *)
THEOREM RefusalsAreCycles == PlanningSpec => []RefusesOnlyCycles
<1>1. OrderInv => RefusesOnlyCycles
  <2>1. SUFFICES ASSUME OrderInv PROVE RefusesOnlyCycles
    OBVIOUS
  <2>2. CallTypeOK
    BY <2>1 DEF OrderInv
  <2>3. ASSUME outcome = "cycle"
        PROVE  \E s \in SUBSET Leaf : s # {} /\ \A l \in s : WaitsFor(l) \cap s # {}
    <3>1. Ready = {} /\ Remaining # {} /\ Remaining \in SUBSET Leaf
      BY <2>1, <2>3 DEF OrderInv, Established, Remaining
    <3>2. ASSUME NEW l \in Remaining PROVE WaitsFor(l) \cap Remaining # {}
      <4>1. ~(WaitsFor(l) \subseteq Scheduled)
        BY <3>1, <2>2, NeedsIsWaitsFor DEF Ready, Remaining
      <4>. QED
        BY <4>1 DEF Remaining, WaitsFor
    <3>. QED
      BY <3>1, <3>2
  <2>4. ASSUME outcome = "ok" PROVE Scheduled = Leaf
    BY <2>1, <2>2, <2>4, ScheduledIsOfLeaves DEF OrderInv, Established, Remaining
  <2>. QED
    BY <2>3, <2>4 DEF RefusesOnlyCycles
<1>. QED
  BY <1>1, OrderInvariant, PTL

LEMMA LockInvariant == PlanningSpec => []LockInv
<1>1. PlanningInit => LockInv
  BY DEF PlanningInit, LockInv
<1>2. LockInv /\ [PlanningNext]_allVars => LockInv'
  <2>1. SUFFICES ASSUME LockInv, [PlanningNext]_allVars PROVE LockInv'
    OBVIOUS
  <2>2. CASE PlanCall
    BY <2>1, <2>2 DEF PlanCall, Next, Check, Take, Stop, LockInv, files, finish
  <2>3. CASE Read \/ Connect \/ Poll \/ UNCHANGED allVars
    BY <2>1, <2>3 DEF Read, Connect, Poll, LockInv, allVars, files, finish, order, vars
  <2>4. CASE Reply
    BY <2>1, <2>4 DEF Reply, Unusable, SetCall, LockInv, files
  <2>5. CASE \E edit \in BOOLEAN : Onboard(edit)
    BY <2>1, <2>5 DEF Onboard, LockFree, LockInv, finish, order, vars
  <2>6. CASE WriteSpec \/ WriteJson
    BY <2>1, <2>6 DEF WriteSpec, CompileSpec, WriteJson, LockInv, order, vars
  <2>7. CASE GiveUp \/ WriteMd \/ Die
    BY <2>1, <2>7 DEF GiveUp, WriteMd, Die, Forget, SetCall, LockInv
  <2>. QED
    BY <2>1, <2>2, <2>3, <2>4, <2>5, <2>6, <2>7 DEF PlanningNext
<1>. QED
  BY <1>1, <1>2, PTL DEF PlanningSpec

(* The lock held by Finish keeps its gates true until the plan is written. *)
THEOREM PlanIsForPresentAnswers == PlanningSpec => PlanForPresentAnswers
<1>1. LockInv /\ [PlanningNext]_allVars => (json' # json => ready /\ spec = answers)
  <2>1. SUFFICES ASSUME LockInv, [PlanningNext]_allVars, json' # json
                 PROVE  ready /\ spec = answers
    OBVIOUS
  <2>2. WriteJson
    BY <2>1 DEF PlanningNext, PlanCall, Onboard, WriteSpec, Reply, GiveUp, WriteMd, Die, Read,
                Connect, Poll, allVars, files
  <2>. QED
    BY <2>1, <2>2 DEF WriteJson, LockInv
<1>. QED
  BY <1>1, LockInvariant, PTL DEF PlanningSpec, PlanForPresentAnswers

(* What arms the button is a plan of fit leaves without a cycle.           *)
THEOREM ArmedPlanIsBuildable == PlanningSpec => ArmedPlanBuildable
<1>1. OrderInv /\ LockInv /\ [PlanningNext]_allVars =>
        (json' # json =>
           /\ plan.fit = Leaf
           /\ \A s \in SUBSET Leaf : s # {} => \E l \in s : WaitsFor(l) \cap s = {})
  <2>1. SUFFICES ASSUME OrderInv, LockInv, [PlanningNext]_allVars, json' # json
                 PROVE  /\ plan.fit = Leaf
                        /\ \A s \in SUBSET Leaf :
                             s # {} => \E l \in s : WaitsFor(l) \cap s = {}
    OBVIOUS
  <2>2. WriteJson
    BY <2>1 DEF PlanningNext, PlanCall, Onboard, WriteSpec, Reply, GiveUp, WriteMd, Die, Read,
                Connect, Poll, allVars, files
  <2>3. outcome = "ok" /\ Remaining = {} /\ CallTypeOK
    BY <2>1, <2>2 DEF WriteJson, Accepted, OrderInv, Established
  <2>4. Scheduled = Leaf
    BY <2>3, ScheduledIsOfLeaves DEF Remaining
  <2>5. \A s \in SUBSET Leaf : s # {} => \E l \in s : WaitsFor(l) \cap s = {}
    BY <2>1, <2>4 DEF OrderInv, NoKnot
  <2>6. call = "plan"
    BY <2>1, <2>2 DEF LockInv, WriteJson
  <2>7. Violations(plan) = {}
    BY <2>1, <2>3, <2>6 DEF OrderInv, Established
  <2>8. ASSUME NEW l \in Leaf PROVE l \in plan.fit
    BY <2>7, PathAssumption DEF Violations, Dispatchable, Under
  <2>9. plan.fit \subseteq Leaf
    BY <2>3 DEF CallTypeOK, ParsedPlans
  <2>. QED
    BY <2>5, <2>8, <2>9
<1>. QED
  BY <1>1, OrderInvariant, LockInvariant, PTL DEF PlanningSpec, ArmedPlanBuildable
=============================================================================
