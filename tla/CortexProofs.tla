----------------------------- MODULE CortexProofs -----------------------------
(***************************************************************************)
(* Theorems about Cortex, for every set of processes, sessions, ids and    *)
(* topics, every threshold and every bound.  First type correctness and    *)
(* the fields calls go by; then the Stop hook's gate; then, as long as     *)
(* calls do not overlap, the rows (StoreInv), and on top of that what      *)
(* upsert(), a session start and a Stop have settled by each of their steps*)
(* (TrackInv).                                                             *)
(***************************************************************************)
EXTENDS Cortex, FiniteSetTheorems, TLAPS

(* What a call looks like: the steps that store an observation have one in *)
(* hand.                                                                   *)
Shaped(c) ==
  c.step \in {"find", "old"} \/ (c.step = "put" /\ c.kind # "use")
    => c.obs \in Observations

CallsShaped == \A p \in Procs : call[p] # None => Shaped(call[p])

TypeInv == TypeOK /\ CallsShaped

(* Its parts: what calls are in, what is stored, what is captured.         *)
WorldOK ==
  /\ call \in [Procs -> Calls \cup {None}] /\ CallsShaped
  /\ now \in Nat /\ overlapped \in BOOLEAN /\ deaths \in Nat

StoreOK == rows \in Tables /\ log \in [Ids -> Nat]

CaptureOK ==
  /\ sess \in [Sessions -> [open : BOOLEAN, distilled : BOOLEAN, blocked : BOOLEAN]]
  /\ queue \in [Sessions -> SUBSET Events]
  /\ asked \in [Sessions -> Nat]
  /\ recorded \in SUBSET Events

LEMMA TypeParts ==
  /\ TypeInv <=> WorldOK /\ StoreOK /\ CaptureOK
  /\ TypeInv' <=> WorldOK' /\ StoreOK' /\ CaptureOK'
BY DEF TypeInv, TypeOK, WorldOK, StoreOK, CaptureOK

------------------------------------------------------------------------------
(* The operations make rows of rows.                                       *)

LEMMA ExpiryType ==
  ASSUME NEW imp \in Importances, NEW n \in Nat
  PROVE  Expiry(imp, n) \in Nat \cup {None}
BY TtlAssumption DEF Expiry, Importances

LEMMA InsertType ==
  ASSUME NEW o \in Observations, NEW n \in Nat
  PROVE  Insert(o, n) \in Rows
BY ExpiryType DEF Insert, Rows, Observations

LEMMA MergeType ==
  ASSUME NEW r \in Rows, NEW o \in Observations
  PROVE  Merge(r, o) \in Rows
BY DEF Merge, Rows, Observations

LEMMA ArchiveType ==
  ASSUME NEW r \in Rows PROVE Archive(r) \in Rows
BY DEF Archive, Rows, Importances

LEMMA UsedType ==
  ASSUME NEW r \in Rows, NEW n \in Nat
  PROVE  Used(r, n) \in Rows
<1>1. r.uses + 1 \in Nat
  BY DEF Rows
<1>2. ASSUME NEW k \in Nat PROVE [r EXCEPT !.uses = k, !.last = n] \in Rows
  BY DEF Rows
<1>. QED BY <1>1, <1>2 DEF Used

LEMMA LearnedType ==
  ASSUME NEW r \in Rows PROVE Learned(r) \in Rows
<1>1. Promoted(r) \in Rows
  BY DEF Promoted, Rows, Importances, Ladder
<1>2. ASSUME NEW q \in Rows PROVE Refreshed(q) \in Rows
  <2>1. CASE q.last # None /\ q.imp \in DOMAIN Ttl
    <3>1. q.last + Ttl[q.imp] \in Nat
      BY <2>1, TtlAssumption DEF Rows
    <3>. QED BY <3>1 DEF Refreshed, Rows
  <2>2. CASE ~(q.last # None /\ q.imp \in DOMAIN Ttl)
    BY <2>2 DEF Refreshed
  <2>. QED BY <2>1, <2>2
<1>. QED BY <1>1, <1>2 DEF Learned

------------------------------------------------------------------------------
(* Calls are calls.                                                        *)

LEMMA BlankType ==
  ASSUME TypeOK, NEW k \in Kinds, NEW st \in Steps, NEW s \in Sessions \cup {None}
  PROVE  Blank(k, st, s) \in Calls
<1>1. Nothing \in Tables
  BY DEF Nothing, Tables
<1>2. << >> \in Seq(Phases)
  OBVIOUS
<1>. QED BY <1>1, <1>2 DEF TypeOK, Blank, Calls

(* What a session start and a Stop begin with.                             *)
LEMMA StartBegins ==
  ASSUME NEW p \in Procs, SessionStart(p)
  PROVE  \E s \in Sessions :
           /\ Opened(s)
           /\ Begin(p, [Blank("start", "load", s) EXCEPT
                          !.phases = <<"age_project", "age_global", "learn">>,
                          !.due = {i \in Ids : rows[i] # None /\ Expired(rows[i], now)}])
BY Zenon DEF SessionStart

LEMMA StopBegins ==
  ASSUME NEW p \in Procs, Stop(p)
  PROVE  \E s \in Sessions, st \in {"mark", "ask", "extract"} : \E B \in {{}, queue[s]} :
           /\ Begin(p, [Blank("stop", st, s) EXCEPT !.batch = B])
           /\ st = "ask" => Blocks(s)
           /\ st = "mark" => B = {} \/ ~FloorDue(s)
<1>1. PICK s \in Sessions, name \in Found \ {"error"} :
        Begin(p, IF name \notin Runtime THEN Blank("stop", "mark", s)
                 ELSE [Blank("stop",
                             CASE Blocks(s) -> "ask"
                               [] ~Blocks(s) /\ FloorDue(s) -> "extract"
                               [] OTHER -> "mark", s)
                       EXCEPT !.batch = queue[s]])
  BY DEF Stop
<1>2. CASE name \notin Runtime
  <2>. DEFINE b == Blank("stop", "mark", s)
  <2>1. [b EXCEPT !.batch = {}] = b
    <3>1. b.batch = {} /\ b = [f \in DOMAIN b |-> b[f]]
      BY DEF Blank
    <3>. HIDE DEF b
    <3>. QED BY <3>1
  <2>2. Begin(p, Blank("stop", "mark", s))
    BY <1>1, <1>2, Zenon
  <2>3. Begin(p, [Blank("stop", "mark", s) EXCEPT !.batch = {}])
    BY <2>1, <2>2, Zenon
  <2>. QED BY <2>3
<1>3. CASE name \in Runtime
  <2>1. PICK st : st = CASE Blocks(s) -> "ask"
                         [] ~Blocks(s) /\ FloorDue(s) -> "extract"
                         [] OTHER -> "mark"
    OBVIOUS
  <2>2. Begin(p, [Blank("stop", st, s) EXCEPT !.batch = queue[s]])
    BY <1>1, <1>3, <2>1
  <2>3. Blocks(s) => FloorDue(s)
    BY Zenon DEF Blocks, FloorDue
  <2>4. /\ st \in {"mark", "ask", "extract"}
        /\ st = "ask" => Blocks(s)
        /\ st = "mark" => ~FloorDue(s)
    BY <2>1, <2>3
  <2>. QED BY <2>2, <2>4
<1>. QED BY <1>2, <1>3

LEMMA CallStep ==
  ASSUME TypeInv, NEW p \in Procs, NEW c \in Calls \cup {None},
         c # None => Shaped(c), call' = [call EXCEPT ![p] = c]
  PROVE  call' \in [Procs -> Calls \cup {None}] /\ CallsShaped'
BY DEF TypeInv, TypeOK, CallsShaped

(* The three ways a call moves on keep the world's type.                   *)
LEMMA BeginType ==
  ASSUME TypeInv, NEW p \in Procs, NEW c \in Calls, Shaped(c), Begin(p, c)
  PROVE  WorldOK'
BY CallStep DEF TypeInv, TypeOK, WorldOK, Begin

LEMMA BecomeType ==
  ASSUME TypeInv, NEW p \in Procs, NEW c \in Calls, Shaped(c), Become(p, c)
  PROVE  WorldOK'
BY CallStep DEF TypeInv, TypeOK, Become, world, WorldOK

LEMMA EndType ==
  ASSUME TypeInv, NEW p \in Procs, End(p)
  PROVE  WorldOK'
BY CallStep DEF TypeInv, TypeOK, End, Become, world, WorldOK

(* Passing to a step that stores nothing.                                  *)
LEMMA GotoType ==
  ASSUME TypeInv, NEW p \in Procs, NEW st \in Steps \ {"find", "old", "put"},
         call[p] # None, Goto(p, st)
  PROVE  WorldOK'
<1>1. call[p] \in Calls
  BY DEF TypeInv, TypeOK
<1>2. [call[p] EXCEPT !.step = st] \in Calls /\ Shaped([call[p] EXCEPT !.step = st])
  BY <1>1 DEF Calls, Shaped
<1>. QED BY <1>2, BecomeType DEF Goto

------------------------------------------------------------------------------
(* Type correctness, one family of calls at a time.                        *)

LEMMA Untouched ==
  /\ StoreOK /\ UNCHANGED store => StoreOK'
  /\ CaptureOK /\ UNCHANGED capture => CaptureOK'
BY DEF StoreOK, CaptureOK, store, capture

LEMMA SweepTypes ==
  ASSUME TypeInv, NEW p \in Procs,
         \/ SessionStart(p) \/ AgeCommand(p) \/ LearnCommand(p)
         \/ Load(p) \/ Sweep(p) \/ Swept(p) \/ Inject(p)
  PROVE  TypeInv'
<1>. StoreOK /\ CaptureOK /\ WorldOK /\ TypeOK
  BY TypeParts DEF TypeInv
<1>t. ASSUME NEW k \in {"start", "age", "learn"}, NEW s \in Sessions \cup {None},
             NEW ph \in Seq(Phases)
      PROVE  /\ [Blank(k, "load", s) EXCEPT !.phases = ph] \in Calls
             /\ Shaped([Blank(k, "load", s) EXCEPT !.phases = ph])
  <2>1. Blank(k, "load", s) \in Calls
    BY BlankType DEF Kinds, Steps
  <2>2. Blank(k, "load", s).step = "load"
    BY DEF Blank
  <2>. QED BY <2>1, <2>2 DEF Calls, Shaped
<1>c. ASSUME call[p] # None PROVE call[p] \in Calls /\ Shaped(call[p])
  BY <1>c DEF TypeOK, TypeInv, CallsShaped
<1>ph. /\ <<"age_project", "age_global", "learn">> \in Seq(Phases)
       /\ <<"age_project", "age_global">> \in Seq(Phases)
       /\ <<"learn">> \in Seq(Phases)
  BY DEF Phases
<1>1. CASE SessionStart(p)
  <2>. DEFINE D == {i \in Ids : rows[i] # None /\ Expired(rows[i], now)}
              b(s) == [Blank("start", "load", s) EXCEPT
                         !.phases = <<"age_project", "age_global", "learn">>]
              c(s) == [Blank("start", "load", s) EXCEPT
                         !.phases = <<"age_project", "age_global", "learn">>, !.due = D]
  <2>0. PICK s \in Sessions : Opened(s) /\ Begin(p, c(s))
    BY <1>1, StartBegins
  <2>a. b(s) \in Calls /\ Shaped(b(s))
    BY <1>t, <1>ph
  <2>b. c(s) = [b(s) EXCEPT !.due = D]
    BY DEF Blank
  <2>c. D \in SUBSET Ids
    OBVIOUS
  <2>d. c(s) \in Calls /\ Shaped(c(s))
    <3>. HIDE DEF b, c, D
    <3>. QED BY <2>a, <2>b, <2>c DEF Calls, Shaped
  <2>1. WorldOK'
    BY <2>0, <2>d, BeginType
  <2>2. StoreOK'
    <3>. HIDE DEF b, c, D
    <3>1. UNCHANGED store
      BY <1>1 DEF SessionStart
    <3>. QED BY <3>1, Untouched
  <2>3. CaptureOK'
    <3>. HIDE DEF b, c, D
    <3>1. UNCHANGED <<queue, asked, recorded>>
      BY <1>1 DEF SessionStart
    <3>. QED BY <2>0, <3>1 DEF Opened, CaptureOK
  <2>. QED BY <2>1, <2>2, <2>3, TypeParts
<1>2. CASE AgeCommand(p)
  BY <1>2, <1>t, <1>ph, BeginType, Untouched, TypeParts DEF AgeCommand
<1>3. CASE LearnCommand(p)
  BY <1>3, <1>t, <1>ph, BeginType, Untouched, TypeParts DEF LearnCommand
<1>4. CASE Load(p)
  <2>. DEFINE h == [i \in Ids |-> IF i \in Due(Head(call[p].phases))
                                    THEN rows[i] ELSE None]
              c == [call[p] EXCEPT !.step = "sweep", !.held = h]
  <2>1. h \in Tables
    BY DEF TypeOK, Tables
  <2>2. c \in Calls /\ Shaped(c)
    BY <1>4, <1>c, <2>1 DEF Load, At, Calls, Shaped, Steps
  <2>. QED BY <1>4, <2>2, BecomeType, Untouched, TypeParts DEF Load
<1>5. CASE Sweep(p)
  <2>1. PICK i \in Held(p) :
          /\ rows' = [rows EXCEPT ![i] = IF Head(call[p].phases) = "learn"
                                        THEN Learned(call[p].held[i])
                                        ELSE Archive(call[p].held[i])]
          /\ Become(p, [call[p] EXCEPT !.held[i] = None])
    BY <1>5 DEF Sweep
  <2>2. call[p] # None /\ call[p].step = "sweep"
    BY <1>5 DEF Sweep, At
  <2>3. i \in Ids /\ call[p].held[i] \in Rows /\ call[p].held \in Tables
    BY <1>c, <2>2 DEF Held, Calls, Tables
  <2>4. rows' \in Tables
    BY <2>1, <2>3, LearnedType, ArchiveType DEF TypeOK, Tables
  <2>5. [call[p].held EXCEPT ![i] = None] \in Tables
    BY <2>3 DEF Tables
  <2>6. /\ [call[p] EXCEPT !.held[i] = None] \in Calls
        /\ Shaped([call[p] EXCEPT !.held[i] = None])
    BY <1>c, <2>2, <2>5 DEF Calls, Shaped
  <2>7. WorldOK'
    BY <2>1, <2>6, BecomeType
  <2>. QED BY <1>5, <2>4, <2>7, Untouched, TypeParts DEF Sweep, StoreOK
<1>6. CASE Swept(p)
  <2>1. call[p] # None
    BY <1>6 DEF Swept, At
  <2>2. ASSUME Len(call[p].phases) > 1
        PROVE  /\ [call[p] EXCEPT !.step = "load", !.phases = Tail(@)] \in Calls
               /\ Shaped([call[p] EXCEPT !.step = "load", !.phases = Tail(@)])
    <3>1. call[p].phases \in Seq(Phases)
      BY <1>c, <2>1 DEF Calls
    <3>2. Tail(call[p].phases) \in Seq(Phases)
      BY <2>2, <3>1
    <3>. QED BY <1>c, <2>1, <3>2 DEF Calls, Steps, Shaped
  <2>3. WorldOK'
    BY <1>6, <2>1, <2>2, BecomeType, EndType, GotoType DEF Swept, Steps
  <2>. QED BY <1>6, <2>3, Untouched, TypeParts DEF Swept
<1>7. CASE Inject(p)
  BY <1>7, EndType, Untouched, TypeParts DEF Inject
<1>. QED BY <1>1, <1>2, <1>3, <1>4, <1>5, <1>6, <1>7

LEMMA UseTypes ==
  ASSUME TypeInv, NEW p \in Procs, Use(p) \/ PutUse(p) \/ LogUse(p)
  PROVE  TypeInv'
<1>. StoreOK /\ CaptureOK /\ WorldOK /\ TypeOK
  BY TypeParts DEF TypeInv
<1>c. ASSUME call[p] # None PROVE call[p] \in Calls /\ Shaped(call[p])
  BY <1>c DEF TypeOK, TypeInv, CallsShaped
<1>1. CASE Use(p)
  <2>1. PICK i \in Ids : Begin(p, [Blank("use", "put", None) EXCEPT !.held[i] = rows[i]])
    BY <1>1 DEF Use
  <2>. DEFINE b == Blank("use", "put", None)
  <2>2. b \in Calls /\ b.step = "put" /\ b.kind = "use" /\ b.held \in Tables
    BY BlankType DEF Kinds, Steps, Blank, Calls
  <2>3. [b.held EXCEPT ![i] = rows[i]] \in Tables
    BY <2>2 DEF Tables, TypeOK
  <2>4. [b EXCEPT !.held[i] = rows[i]] \in Calls /\ Shaped([b EXCEPT !.held[i] = rows[i]])
    <3>. HIDE DEF b
    <3>. QED BY <2>2, <2>3 DEF Calls, Shaped
  <2>5. WorldOK'
    BY <2>1, <2>4, BeginType
  <2>. QED BY <1>1, <2>5, Untouched, TypeParts DEF Use
<1>2. CASE PutUse(p)
  <2>1. PICK i \in Held(p) : rows' = [rows EXCEPT ![i] = Used(call[p].held[i], now)]
    BY <1>2 DEF PutUse
  <2>2. call[p] # None /\ Goto(p, "log")
    BY <1>2 DEF PutUse, At
  <2>3. call[p].held[i] \in Rows
    BY <1>c, <2>2 DEF Held, Calls, Tables
  <2>4. rows' \in Tables
    BY <2>1, <2>3, UsedType DEF TypeOK, Tables
  <2>5. WorldOK'
    BY <2>2, GotoType DEF Steps
  <2>. QED BY <1>2, <2>4, <2>5, Untouched, TypeParts DEF PutUse, StoreOK
<1>3. CASE LogUse(p)
  <2>1. WorldOK'
    BY <1>3, EndType DEF LogUse
  <2>2. log' \in [Ids -> Nat]
    <3>1. PICK i \in Held(p) : log' = [log EXCEPT ![i] = @ + 1]
      BY <1>3 DEF LogUse
    <3>2. i \in Ids /\ log[i] + 1 \in Nat
      BY DEF Held, StoreOK
    <3>. QED BY <3>1, <3>2 DEF StoreOK
  <2>. QED BY <1>3, <2>1, <2>2, Untouched, TypeParts DEF LogUse, StoreOK
<1>. QED BY <1>1, <1>2, <1>3

LEMMA ObserveTypes ==
  ASSUME TypeInv, NEW p \in Procs,
         \/ Observe(p) \/ Find(p) \/ PutOld(p) \/ PutObs(p)
         \/ NextItem(p) \/ BadItem(p) \/ LastItem(p) \/ Note(p)
  PROVE  TypeInv'
<1>. StoreOK /\ CaptureOK /\ WorldOK /\ TypeOK
  BY TypeParts DEF TypeInv
<1>c. ASSUME call[p] # None PROVE call[p] \in Calls /\ Shaped(call[p])
  BY <1>c DEF TypeOK, TypeInv, CallsShaped
<1>1. CASE Observe(p)
  <2>1. PICK s \in Sessions \cup {None}, o \in Reports :
          Begin(p, [Blank("observe", "find", s) EXCEPT !.obs = o])
    BY <1>1 DEF Observe
  <2>. DEFINE b == Blank("observe", "find", s)
  <2>2. b \in Calls
    BY BlankType DEF Kinds, Steps
  <2>3. [b EXCEPT !.obs = o] \in Calls /\ Shaped([b EXCEPT !.obs = o])
    <3>1. o \in Observations
      BY DEF Reports
    <3>. HIDE DEF b
    <3>. QED BY <2>2, <3>1 DEF Calls, Shaped
  <2>4. WorldOK'
    BY <2>1, <2>3, BeginType
  <2>. QED BY <1>1, <2>4, Untouched, TypeParts DEF Observe
<1>2. CASE Find(p)
  <2>0. call[p] # None /\ call[p].step = "find"
    BY <1>2 DEF Find, At
  <2>1. call[p] \in Calls /\ call[p].obs \in Observations /\ call[p].held \in Tables
    BY <2>0, <1>c DEF Shaped, Calls
  <2>2. ASSUME NEW st \in {"old", "put"}, NEW i \in Ids, NEW new \in Ids
        PROVE  LET c == [call[p] EXCEPT !.step = st, !.id = new, !.held[i] = rows[i]]
                   d == [call[p] EXCEPT !.step = st, !.held[i] = rows[i]]
                   e == [call[p] EXCEPT !.step = st, !.id = new]
               IN  /\ c \in Calls /\ Shaped(c)
                   /\ d \in Calls /\ Shaped(d)
                   /\ e \in Calls /\ Shaped(e)
    <3>1. [call[p].held EXCEPT ![i] = rows[i]] \in Tables
      BY <2>1 DEF Tables, TypeOK
    <3>. QED BY <2>1, <3>1 DEF Calls, Shaped, Steps
  <2>3. WorldOK'
    <3>1. CASE \E i \in Old(call[p].obs), new \in FreeIds :
                 Become(p, [call[p] EXCEPT !.step = "old", !.id = new,
                                           !.held[i] = rows[i]])
      BY <2>2, <3>1, BecomeType DEF Old, FreeIds
    <3>2. CASE \E i \in Matches(rows, call[p].obs) :
                 Become(p, [call[p] EXCEPT !.step = "put", !.held[i] = rows[i]])
      BY <2>2, <3>2, BecomeType DEF Matches
    <3>3. CASE \E new \in FreeIds :
                 Become(p, [call[p] EXCEPT !.step = "put", !.id = new])
      BY <2>2, <3>3, BecomeType DEF FreeIds
    <3>. QED BY <1>2, <3>1, <3>2, <3>3 DEF Find
  <2>. QED BY <1>2, <2>3, Untouched, TypeParts DEF Find
<1>3. CASE PutOld(p)
  <2>1. call[p] # None /\ call[p].step = "old"
    BY <1>3 DEF PutOld, At
  <2>2. PICK i \in Held(p) : rows' = [rows EXCEPT ![i] = [call[p].held[i] EXCEPT !.by = call[p].id]]
    BY <1>3 DEF PutOld
  <2>3. call[p].held[i] \in Rows /\ call[p].id \in Ids \cup {None}
    BY <1>c, <2>1 DEF Held, Calls, Tables
  <2>4. [call[p].held[i] EXCEPT !.by = call[p].id] \in Rows
    BY <2>3 DEF Rows
  <2>5. rows' \in Tables
    BY <2>2, <2>4 DEF Tables, TypeOK
  <2>6. Nothing \in Tables
    BY DEF Nothing, Tables
  <2>7. /\ [call[p] EXCEPT !.step = "put", !.held = Nothing] \in Calls
        /\ Shaped([call[p] EXCEPT !.step = "put", !.held = Nothing])
    BY <1>c, <2>1, <2>6 DEF Calls, Steps, Shaped
  <2>8. WorldOK'
    BY <1>3, <2>7, BecomeType DEF PutOld
  <2>. QED BY <1>3, <2>5, <2>8, Untouched, TypeParts DEF PutOld, StoreOK
<1>4. CASE PutObs(p)
  <2>1. /\ call[p] \in Calls /\ call[p].obs \in Observations
        /\ call[p].held \in Tables
    BY <1>4, <1>c DEF PutObs, At, Shaped, Calls
  <2>2. rows' \in Tables
    <3>1. CASE \E i \in Held(p) : rows' = [rows EXCEPT ![i] = Merge(call[p].held[i], call[p].obs)]
      <4>1. PICK i \in Held(p) : rows' = [rows EXCEPT ![i] = Merge(call[p].held[i], call[p].obs)]
        BY <3>1
      <4>2. call[p].held[i] \in Rows
        BY <2>1 DEF Held, Tables
      <4>. QED BY <2>1, <4>1, <4>2, MergeType DEF Tables, TypeOK
    <3>2. CASE rows' = [rows EXCEPT ![call[p].id] = Insert(call[p].obs, now)]
      <4>1. Insert(call[p].obs, now) \in Rows
        BY <2>1, InsertType DEF TypeOK
      <4>. QED BY <3>2, <4>1 DEF Tables, TypeOK
    <3>. QED BY <1>4, <3>1, <3>2 DEF PutObs
  <2>3. Nothing \in Tables
    BY DEF Nothing, Tables
  <2>4. ASSUME NEW st \in {"draft", "item"}
        PROVE  LET c == [call[p] EXCEPT !.step = st, !.held = Nothing,
                                        !.obs = None, !.id = None]
               IN  c \in Calls /\ Shaped(c)
    BY <2>1, <2>3 DEF Calls, Steps, Shaped
  <2>5. WorldOK'
    BY <1>4, <2>4, BecomeType DEF PutObs
  <2>. QED BY <1>4, <2>2, <2>5, Untouched, TypeParts DEF PutObs, StoreOK
<1>5. CASE NextItem(p)
  <2>1. PICK o \in Reports : Become(p, [call[p] EXCEPT !.step = "find", !.obs = o])
    BY <1>5 DEF NextItem
  <2>2. call[p] \in Calls /\ o \in Observations
    BY <1>5, <1>c DEF NextItem, At, Reports
  <2>3. /\ [call[p] EXCEPT !.step = "find", !.obs = o] \in Calls
        /\ Shaped([call[p] EXCEPT !.step = "find", !.obs = o])
    BY <2>2 DEF Calls, Steps, Shaped
  <2>4. WorldOK'
    BY <2>1, <2>3, BecomeType
  <2>. QED BY <1>5, <2>4, Untouched, TypeParts DEF NextItem
<1>6. CASE BadItem(p)
  BY <1>6, EndType, Untouched, TypeParts DEF BadItem
<1>7. CASE LastItem(p)
  <2>1. call[p] # None
    BY <1>7 DEF LastItem, At
  <2>2. WorldOK'
    BY <1>7, <2>1, EndType, GotoType DEF LastItem, Steps
  <2>. QED BY <1>7, <2>2, Untouched, TypeParts DEF LastItem
<1>8. CASE Note(p)
  <2>1. call[p] # None
    BY <1>8 DEF Note, At
  <2>2. WorldOK'
    BY <1>8, <2>1, GotoType DEF Note, Steps
  <2>3. CaptureOK'
    <3>1. sess' = [sess EXCEPT ![call[p].s].distilled = @ \/ sess[call[p].s].open]
      BY <1>8, Zenon DEF Note
    <3>2. sess \in [Sessions -> [open : BOOLEAN, distilled : BOOLEAN, blocked : BOOLEAN]]
      BY DEF CaptureOK
    <3> DEFINE changed(s) == [sess[s] EXCEPT !.distilled = @ \/ sess[call[p].s].open]
    <3>3. sess' = [s \in Sessions |-> IF s = call[p].s THEN changed(s) ELSE sess[s]]
      BY <3>1, <3>2
    <3>4. ASSUME NEW s \in Sessions, s = call[p].s
          PROVE  changed(s) \in [open : BOOLEAN, distilled : BOOLEAN, blocked : BOOLEAN]
      BY <3>2, <3>4
    <3> HIDE DEF changed
    <3>5. sess' \in [Sessions -> [open : BOOLEAN, distilled : BOOLEAN, blocked : BOOLEAN]]
      BY <3>2, <3>3, <3>4
    <3>. QED BY <1>8, <3>5 DEF Note, CaptureOK
  <2>. QED BY <1>8, <2>2, <2>3, Untouched, TypeParts DEF Note
<1>. QED BY <1>1, <1>2, <1>3, <1>4, <1>5, <1>6, <1>7, <1>8

LEMMA SessionTypes ==
  ASSUME TypeInv, NEW p \in Procs,
         \/ NothingMeaningful(p) \/ Flag(p) \/ Stop(p) \/ Ask(p) \/ Extract(p)
         \/ WorkerRaises(p) \/ Draft(p) \/ Mark(p) \/ Die(p)
  PROVE  TypeInv'
<1>. StoreOK /\ CaptureOK /\ WorldOK /\ TypeOK
  BY TypeParts DEF TypeInv
<1>c. ASSUME call[p] # None PROVE call[p] \in Calls /\ Shaped(call[p])
  BY <1>c DEF TypeOK, TypeInv, CallsShaped
<1>1. CASE NothingMeaningful(p)
  <2>1. PICK s \in Sessions : /\ queue' = [queue EXCEPT ![s] = {}]
                              /\ Begin(p, Blank("nothing", "flag", s))
    BY <1>1 DEF NothingMeaningful
  <2>2. /\ Blank("nothing", "flag", s) \in Calls
        /\ Shaped(Blank("nothing", "flag", s))
    BY BlankType DEF Kinds, Steps, Blank, Shaped
  <2>3. WorldOK'
    BY <2>1, <2>2, BeginType
  <2>4. CaptureOK'
    BY <1>1, <2>1 DEF NothingMeaningful, CaptureOK
  <2>. QED BY <1>1, <2>3, <2>4, Untouched, TypeParts DEF NothingMeaningful
<1>2. CASE Flag(p)
  <2>1. WorldOK'
    BY <1>2, EndType DEF Flag
  <2>2. CaptureOK'
    <3>1. sess' = [sess EXCEPT ![call[p].s].blocked = @ \/ sess[call[p].s].open]
      BY <1>2, Zenon DEF Flag
    <3>2. sess \in [Sessions -> [open : BOOLEAN, distilled : BOOLEAN, blocked : BOOLEAN]]
      BY DEF CaptureOK
    <3> DEFINE changed(s) == [sess[s] EXCEPT !.blocked = @ \/ sess[call[p].s].open]
    <3>3. sess' = [s \in Sessions |-> IF s = call[p].s THEN changed(s) ELSE sess[s]]
      BY <3>1, <3>2
    <3>4. ASSUME NEW s \in Sessions, s = call[p].s
          PROVE  changed(s) \in [open : BOOLEAN, distilled : BOOLEAN, blocked : BOOLEAN]
      BY <3>2, <3>4
    <3> HIDE DEF changed
    <3>5. sess' \in [Sessions -> [open : BOOLEAN, distilled : BOOLEAN, blocked : BOOLEAN]]
      BY <3>2, <3>3, <3>4
    <3>. QED BY <1>2, <3>5 DEF Flag, CaptureOK
  <2>. QED BY <1>2, <2>1, <2>2, Untouched, TypeParts DEF Flag
<1>3. CASE Stop(p)
  <2>1. PICK s \in Sessions, st \in {"mark", "ask", "extract"} :
          \E B \in {{}, queue[s]} : Begin(p, [Blank("stop", st, s) EXCEPT !.batch = B])
    BY <1>3, StopBegins
  <2>B. PICK B \in {{}, queue[s]} : Begin(p, [Blank("stop", st, s) EXCEPT !.batch = B])
    BY <2>1
  <2>. DEFINE b == Blank("stop", st, s)
  <2>2. b \in Calls /\ b.step = st
    BY BlankType DEF Kinds, Steps, Blank
  <2>3. [b EXCEPT !.batch = B] \in Calls /\ Shaped([b EXCEPT !.batch = B])
    <3>1. B \in SUBSET Events
      BY DEF CaptureOK
    <3>. HIDE DEF b
    <3>. QED BY <2>2, <3>1 DEF Calls, Shaped
  <2>4. WorldOK'
    BY <2>B, <2>3, BeginType
  <2>. QED BY <1>3, <2>4, Untouched, TypeParts DEF Stop
<1>4. CASE Ask(p)
  <2>1. WorldOK'
    BY <1>4, EndType DEF Ask
  <2>2. \A s \in Sessions : asked[s] + 1 \in Nat
    BY DEF CaptureOK
  <2>3. asked' \in [Sessions -> Nat]
    BY <1>4, <2>2 DEF Ask, CaptureOK
  <2>4. CaptureOK'
    BY <1>4, <2>3 DEF Ask, CaptureOK
  <2>. QED BY <1>4, <2>1, <2>4, Untouched, TypeParts DEF Ask
<1>5. CASE Extract(p)
  <2>1. call[p] \in Calls /\ call[p].batch \in SUBSET Events
    BY <1>5, <1>c DEF Extract, At, Calls
  <2>2. PICK D \in SUBSET Topics :
          Become(p, [call[p] EXCEPT !.step = "draft", !.drafts = D, !.left = D])
    BY <1>5, <2>1, FloorAssumption DEF Extract, Drafts
  <2>3. LET c == [call[p] EXCEPT !.step = "draft", !.drafts = D, !.left = D]
        IN  c \in Calls /\ Shaped(c)
    BY <2>1 DEF Calls, Steps, Shaped
  <2>4. WorldOK'
    BY <2>2, <2>3, BecomeType
  <2>. QED BY <1>5, <2>4, Untouched, TypeParts DEF Extract
<1>6. CASE WorkerRaises(p)
  BY <1>6, EndType, Untouched, TypeParts DEF WorkerRaises
<1>7. CASE Draft(p)
  <2>1. call[p] # None /\ call[p] \in Calls
    BY <1>7, <1>c DEF Draft, At
  <2>2. ASSUME NEW t \in call[p].left,
               Become(p, [call[p] EXCEPT
                 !.step = "find", !.left = @ \ {t},
                 !.obs = [topic |-> t, home |-> "project", proj |-> Own,
                          imp |-> "low", sup |-> None]])
        PROVE  WorldOK'
    <3>. DEFINE o == [topic |-> t, home |-> "project", proj |-> Own, imp |-> "low",
                      sup |-> None]
                c == [call[p] EXCEPT !.step = "find", !.left = @ \ {t}, !.obs = o]
    <3>1. o \in Observations
      BY <2>1, OwnAssumption DEF Calls, Observations, Homes, Importances
    <3>2. c \in Calls /\ c.obs = o
      <4>. HIDE DEF o
      <4>. QED BY <2>1, <3>1 DEF Calls, Steps
    <3>3. Shaped(c)
      BY <3>1, <3>2 DEF Shaped
    <3>. QED BY <2>2, <3>2, <3>3, BecomeType
  <2>3. WorldOK'
    BY <1>7, <2>1, <2>2, GotoType DEF Draft, Steps
  <2>. QED BY <1>7, <2>3, Untouched, TypeParts DEF Draft
<1>8. CASE Mark(p)
  <2>1. WorldOK'
    BY <1>8, EndType DEF Mark
  <2>2. CaptureOK'
    BY <1>8 DEF Mark, CaptureOK
  <2>. QED BY <1>8, <2>1, <2>2, Untouched, TypeParts DEF Mark
<1>9. CASE Die(p)
  <2>1. call' = [call EXCEPT ![p] = None] /\ deaths' = deaths + 1
    BY <1>9 DEF Die
  <2>2. call' \in [Procs -> Calls \cup {None}] /\ CallsShaped'
    BY <2>1, CallStep
  <2>3. WorldOK'
    BY <1>9, <2>1, <2>2 DEF Die, WorldOK
  <2>. QED BY <1>9, <2>3, Untouched, TypeParts DEF Die
<1>. QED BY <1>1, <1>2, <1>3, <1>4, <1>5, <1>6, <1>7, <1>8, <1>9

LEMMA AroundTypes ==
  ASSUME TypeInv,
         \/ \E s \in Sessions, e \in Events : RecordEvent(s, e)
         \/ Tick \/ UNCHANGED vars
  PROVE  TypeInv'
<1>. StoreOK /\ CaptureOK /\ WorldOK
  BY TypeParts
<1>1. ASSUME NEW s \in Sessions, NEW e \in Events, RecordEvent(s, e) PROVE TypeInv'
  <2>1. CaptureOK'
    BY <1>1 DEF RecordEvent, Opened, CaptureOK
  <2>2. WorldOK'
    BY <1>1 DEF RecordEvent, WorldOK, world, CallsShaped
  <2>. QED BY <1>1, <2>1, <2>2, Untouched, TypeParts DEF RecordEvent
<1>2. CASE Tick
  <2>1. WorldOK'
    BY <1>2 DEF Tick, WorldOK, CallsShaped
  <2>. QED BY <1>2, <2>1, Untouched, TypeParts DEF Tick
<1>3. CASE UNCHANGED vars
  <2>1. WorldOK'
    BY <1>3 DEF vars, WorldOK, CallsShaped
  <2>. QED BY <1>3, <2>1, Untouched, TypeParts DEF vars, store, capture
<1>. QED BY <1>1, <1>2, <1>3

LEMMA TypeInit == Init => TypeInv
<1>. SUFFICES ASSUME Init PROVE TypeInv
  OBVIOUS
<1>1. rows \in Tables
  BY DEF Init, Nothing, Tables
<1>2. CallsShaped
  BY DEF Init, CallsShaped
<1>3. /\ sess \in [Sessions -> [open : BOOLEAN, distilled : BOOLEAN, blocked : BOOLEAN]]
      /\ call \in [Procs -> Calls \cup {None}]
      /\ queue \in [Sessions -> SUBSET Events]
      /\ log \in [Ids -> Nat] /\ asked \in [Sessions -> Nat]
  BY DEF Init
<1>. QED BY <1>1, <1>2, <1>3 DEF Init, TypeInv, TypeOK

LEMMA TypeStep == TypeInv /\ [Next]_vars => TypeInv'
BY SweepTypes, UseTypes, ObserveTypes, SessionTypes, AroundTypes, Zenon DEF Next

(* Whatever calls overlap and wherever they die, the tables, the queues and*)
(* what every call holds keep their shape.                                 *)
THEOREM TypeCorrect == Spec => []TypeOK
<1>1. TypeInv => TypeOK
  BY DEF TypeInv
<1>. QED BY TypeInit, TypeStep, <1>1, PTL DEF Spec

------------------------------------------------------------------------------
(* As long as calls have not overlapped, at most one is in flight.         *)

Serial == \A p, q \in Procs : call[p] # None /\ call[q] # None => p = q

SerialInv == overlapped \/ Serial

(* What a step does to the calls: it begins one, moves one, or none.       *)
Moves(p, c) ==
  call[p] # None /\ call' = [call EXCEPT ![p] = c] /\ overlapped' = overlapped

(* The steps of a process, and all others.                                 *)
ProcStep(p) ==
  \/ SessionStart(p) \/ AgeCommand(p) \/ LearnCommand(p)
  \/ Load(p) \/ Sweep(p) \/ Swept(p) \/ Inject(p)
  \/ Use(p) \/ PutUse(p) \/ LogUse(p)
  \/ Observe(p) \/ Find(p) \/ PutOld(p) \/ PutObs(p)
  \/ NextItem(p) \/ BadItem(p) \/ LastItem(p) \/ Note(p)
  \/ NothingMeaningful(p) \/ Flag(p)
  \/ Stop(p) \/ Ask(p) \/ Extract(p) \/ WorkerRaises(p)
  \/ Draft(p) \/ Mark(p) \/ Die(p)

Around ==
  \/ \E s \in Sessions, e \in Events : RecordEvent(s, e)
  \/ Tick
  \/ UNCHANGED vars

LEMMA NextParts == [Next]_vars => (\E p \in Procs : ProcStep(p)) \/ Around
BY Zenon DEF Next, ProcStep, Around

LEMMA ProcForms ==
  ASSUME NEW p \in Procs, ProcStep(p)
  PROVE  \E c : Begin(p, c) \/ Moves(p, c)
<1>1. CASE \/ SessionStart(p) \/ AgeCommand(p) \/ LearnCommand(p) \/ Use(p)
           \/ Observe(p) \/ NothingMeaningful(p) \/ Stop(p)
  BY <1>1, Zenon DEF SessionStart, AgeCommand, LearnCommand, Use, Observe,
                     NothingMeaningful, Stop
<1>2. ASSUME call[p] # None, \E c : Become(p, c) PROVE \E c : Moves(p, c)
  BY <1>2 DEF Become, Moves, world
<1>3. CASE \/ Load(p) \/ Sweep(p) \/ Swept(p) \/ Inject(p) \/ PutUse(p) \/ LogUse(p)
  <2>1. call[p] # None
    BY <1>3 DEF Load, Sweep, Swept, Inject, PutUse, LogUse, At
  <2>2. \E c : Become(p, c)
    BY <1>3, Zenon DEF Load, Sweep, Swept, Inject, PutUse, LogUse, Goto, End
  <2>. QED BY <1>2, <2>1, <2>2
<1>4. CASE \/ Find(p) \/ PutOld(p) \/ PutObs(p) \/ NextItem(p) \/ BadItem(p)
           \/ LastItem(p) \/ Note(p)
  <2>1. call[p] # None
    BY <1>4 DEF Find, PutOld, PutObs, NextItem, BadItem, LastItem, Note, At
  <2>2. \E c : Become(p, c)
    BY <1>4, Zenon DEF Find, PutOld, PutObs, NextItem, BadItem, LastItem, Note,
                       Goto, End
  <2>. QED BY <1>2, <2>1, <2>2
<1>5. CASE \/ Flag(p) \/ Ask(p) \/ Extract(p) \/ WorkerRaises(p) \/ Draft(p) \/ Mark(p)
  <2>1. call[p] # None
    BY <1>5 DEF Flag, Ask, Extract, WorkerRaises, Draft, Mark, At
  <2>2. \E c : Become(p, c)
    BY <1>5, Zenon DEF Flag, Ask, Extract, WorkerRaises, Draft, Mark, Goto, End
  <2>. QED BY <1>2, <2>1, <2>2
<1>6. CASE Die(p)
  BY <1>6 DEF Die, Moves
<1>. QED BY <1>1, <1>3, <1>4, <1>5, <1>6, Zenon DEF ProcStep

LEMMA AroundForm == Around => UNCHANGED <<call, overlapped>>
BY DEF Around, RecordEvent, Tick, vars, world

LEMMA Forms ==
  ASSUME [Next]_vars
  PROVE  \/ \E p \in Procs : \E c : Begin(p, c) \/ Moves(p, c)
         \/ UNCHANGED <<call, overlapped>>
BY NextParts, ProcForms, AroundForm, Zenon

LEMMA OverlapStays == TypeInv /\ [Next]_vars /\ overlapped => overlapped'
<1>. SUFFICES ASSUME TypeInv, [Next]_vars, overlapped PROVE overlapped'
  OBVIOUS
<1>1. ASSUME NEW p \in Procs, NEW c, Begin(p, c) PROVE overlapped'
  BY <1>1 DEF Begin
<1>2. ASSUME NEW p \in Procs, NEW c, Moves(p, c) PROVE overlapped'
  BY <1>2 DEF Moves
<1>. QED BY <1>1, <1>2, Forms

LEMMA SerialStep == TypeInv /\ SerialInv /\ [Next]_vars => SerialInv'
<1>. SUFFICES ASSUME TypeInv, SerialInv, [Next]_vars, ~overlapped' PROVE Serial'
  BY DEF SerialInv
<1>0. Serial /\ call \in [Procs -> Calls \cup {None}]
  BY OverlapStays DEF SerialInv, TypeInv, TypeOK
<1>1. ASSUME NEW p \in Procs, NEW c, Begin(p, c) PROVE Serial'
  <2>1. \A q \in Procs \ {p} : call[q] = None
    BY <1>1 DEF Begin
  <2>. QED BY <1>0, <1>1, <2>1 DEF Begin, Serial
<1>2. ASSUME NEW p \in Procs, NEW c, Moves(p, c) PROVE Serial'
  BY <1>0, <1>2 DEF Moves, Serial
<1>3. CASE UNCHANGED <<call, overlapped>>
  BY <1>0, <1>3 DEF Serial
<1>. QED BY <1>1, <1>2, <1>3, Forms

(* The call that moves is then the only one.                               *)
LEMMA OnlyCall ==
  ASSUME TypeInv, Serial', NEW p \in Procs, NEW c, call' = [call EXCEPT ![p] = c],
         c # None, NEW q \in Procs, call'[q] # None
  PROVE  q = p /\ call'[q] = c
BY DEF Serial, TypeInv, TypeOK

------------------------------------------------------------------------------
(* The gate.  A session that has been asked carries the flag, and a hook on*)
(* its way to asking has read a session that did not.                      *)

GateInv ==
  overlapped \/
  /\ \A s \in Sessions : asked[s] <= 1 /\ (asked[s] = 1 => sess[s].blocked)
  /\ \A p \in Procs : At(p, "ask") => asked[call[p].s] = 0 \/ call[p].s \notin Sessions

(* Flags are never taken back, and only Ask asks.                          *)
LEMMA FlagsStay ==
  ASSUME TypeInv, [Next]_vars, NEW s \in Sessions
  PROVE  /\ sess[s].blocked => sess'[s].blocked
         /\ (\E p \in Procs : Ask(p)) \/ asked' = asked
<1>. /\ sess \in [Sessions -> [open : BOOLEAN, distilled : BOOLEAN, blocked : BOOLEAN]]
     /\ asked \in [Sessions -> Nat]
  BY DEF TypeInv, TypeOK
<1>. DEFINE Goal == /\ sess[s].blocked => sess'[s].blocked
                    /\ (\E p \in Procs : Ask(p)) \/ asked' = asked
<1>0. CASE UNCHANGED <<sess, asked>>
  BY <1>0
<1>1. CASE UNCHANGED capture \/ UNCHANGED vars
  BY <1>1 DEF capture, vars
<1>2. ASSUME NEW p \in Procs, SessionStart(p) \/ Note(p) \/ Flag(p) PROVE Goal
  <2>1. CASE SessionStart(p)
    <3>1. PICK q \in Sessions : sess' = [sess EXCEPT ![q].open = TRUE]
      BY <2>1, Zenon DEF SessionStart, Opened
    <3>2. sess'[s].blocked = sess[s].blocked
      BY <3>1
    <3>3. asked' = asked
      BY <2>1, Zenon DEF SessionStart
    <3>. QED BY <3>2, <3>3
  <2>2. CASE Note(p)
    <3>1. /\ sess' = [sess EXCEPT ![call[p].s].distilled = @ \/ sess[call[p].s].open]
          /\ asked' = asked
      BY <2>2, Zenon DEF Note
    <3>2. sess'[s].blocked = sess[s].blocked
      BY <3>1
    <3>. QED BY <3>1, <3>2
  <2>3. CASE Flag(p)
    <3>1. /\ sess' = [sess EXCEPT ![call[p].s].blocked = @ \/ sess[call[p].s].open]
          /\ asked' = asked
      BY <2>3, Zenon DEF Flag
    <3>2. sess[s].blocked => sess'[s].blocked
      BY <3>1
    <3>. QED BY <3>1, <3>2
  <2>. QED BY <1>2, <2>1, <2>2, <2>3
<1>3. ASSUME NEW p \in Procs, NothingMeaningful(p) \/ Mark(p) PROVE Goal
  BY <1>3 DEF NothingMeaningful, Mark
<1>4. ASSUME NEW p \in Procs, Ask(p) PROVE Goal
  BY <1>4 DEF Ask
<1>5. ASSUME NEW q \in Sessions, NEW e \in Events, RecordEvent(q, e) PROVE Goal
  BY <1>5 DEF RecordEvent, Opened
<1>6. CASE Tick
  BY <1>6 DEF Tick, capture
<1>7. ASSUME NEW p \in Procs,
             \/ AgeCommand(p) \/ LearnCommand(p) \/ Load(p) \/ Sweep(p) \/ Swept(p)
             \/ Inject(p) \/ Use(p) \/ PutUse(p) \/ LogUse(p) \/ Observe(p) \/ Find(p)
             \/ PutOld(p) \/ PutObs(p) \/ NextItem(p) \/ BadItem(p) \/ LastItem(p)
             \/ Stop(p) \/ Extract(p) \/ WorkerRaises(p) \/ Draft(p) \/ Die(p)
      PROVE  UNCHANGED <<sess, asked>>
  BY <1>7, Zenon DEF AgeCommand, LearnCommand, Load, Sweep, Swept, Inject, Use, PutUse,
       LogUse, Observe, Find, PutOld, PutObs, NextItem, BadItem, LastItem, Stop,
       Extract, WorkerRaises, Draft, Die, capture
<1>. QED
  <2>. HIDE DEF Goal
  <2>1. UNCHANGED <<sess, asked>> => Goal
    BY <1>0 DEF Goal
  <2>2. UNCHANGED vars => Goal
    BY <1>1 DEF Goal
  <2>3. Tick => Goal
    BY <1>6 DEF Goal
  <2>4. Goal
    BY <1>2, <1>3, <1>4, <1>5, <1>7, <2>1, <2>2, <2>3, Zenon DEF Next
  <2>. QED BY <2>4 DEF Goal

(* A call that is to ask has come from Stop.                               *)
LEMMA OnlyStopAsks ==
  ASSUME TypeInv, [Next]_vars, NEW p \in Procs, At(p, "ask")'
  PROVE  \/ At(p, "ask") /\ call'[p].s = call[p].s /\ ~Ask(p)
         \/ Stop(p)
<1>. /\ call \in [Procs -> Calls \cup {None}]
     /\ call'[p] # None /\ call'[p].step = "ask"
  BY DEF TypeInv, TypeOK, At
<1>. DEFINE Goal == \/ At(p, "ask") /\ call'[p].s = call[p].s /\ ~Ask(p)
                    \/ Stop(p)
<1>1. ASSUME call'[p] = call[p] PROVE Goal
  <2>1. At(p, "ask")
    BY <1>1 DEF At
  <2>2. ~Ask(p)
    BY DEF Ask, End, Become
  <2>. QED BY <1>1, <2>1, <2>2
<1>2. ASSUME NEW q \in Procs, NEW c, Begin(q, c), q # p PROVE call'[p] = call[p]
  BY <1>2 DEF Begin
<1>3. ASSUME NEW q \in Procs, NEW c, Moves(q, c), q # p PROVE call'[p] = call[p]
  BY <1>3 DEF Moves
<1>4. ASSUME NEW c, Begin(p, c) \/ Become(p, c) PROVE call'[p] = c
  BY <1>4 DEF Begin, Become
<1>5. ASSUME NEW k, NEW st, NEW s, st # "ask",
             \/ \E x : Begin(p, [Blank(k, st, s) EXCEPT !.phases = x])
             \/ \E x, y : Begin(p, [Blank(k, st, s) EXCEPT !.phases = x, !.due = y])
             \/ \E x : Begin(p, [Blank(k, st, s) EXCEPT !.obs = x])
             \/ \E x, i : Begin(p, [Blank(k, st, s) EXCEPT !.held[i] = x])
             \/ Begin(p, Blank(k, st, s))
      PROVE  FALSE
  <2>1. ASSUME NEW x, NEW i
        PROVE  /\ [Blank(k, st, s) EXCEPT !.phases = x].step = st
               /\ [Blank(k, st, s) EXCEPT !.phases = x, !.due = i].step = st
               /\ [Blank(k, st, s) EXCEPT !.obs = x].step = st
               /\ [Blank(k, st, s) EXCEPT !.held[i] = x].step = st
               /\ Blank(k, st, s).step = st
    BY DEF Blank
  <2>2. ASSUME NEW c, Begin(p, c) PROVE c.step = "ask"
    BY <1>4, <2>2
  <2>3. ASSUME NEW x, NEW y, Begin(p, [Blank(k, st, s) EXCEPT !.phases = x, !.due = y])
        PROVE  FALSE
    <3>1. PICK c : c = [Blank(k, st, s) EXCEPT !.phases = x, !.due = y]
      OBVIOUS
    <3>2. c.step = st
      BY <2>1, <3>1
    <3>. QED BY <1>5, <2>2, <2>3, <3>1, <3>2, Zenon
  <2>4. ASSUME NEW x, \/ Begin(p, [Blank(k, st, s) EXCEPT !.phases = x])
                      \/ Begin(p, [Blank(k, st, s) EXCEPT !.obs = x])
        PROVE  FALSE
    BY <1>5, <2>1, <2>2, <2>4
  <2>5. ASSUME NEW x, NEW i, Begin(p, [Blank(k, st, s) EXCEPT !.held[i] = x])
        PROVE  FALSE
    <3>1. PICK c : c = [Blank(k, st, s) EXCEPT !.held[i] = x]
      OBVIOUS
    <3>2. c.step = st
      BY <2>1, <3>1
    <3>. QED BY <1>5, <2>2, <2>5, <3>1, <3>2, Zenon
  <2>6. ~Begin(p, Blank(k, st, s))
    BY <1>5, <2>1, <2>2
  <2>. QED BY <1>5, <2>3, <2>4, <2>5, <2>6, Zenon
<1>6. ~SessionStart(p) /\ ~AgeCommand(p) /\ ~LearnCommand(p)
  <2>1. ~SessionStart(p)
    BY <1>5, StartBegins
  <2>. QED BY <1>5, <2>1 DEF AgeCommand, LearnCommand
<1>7. ~Use(p) /\ ~Observe(p) /\ ~NothingMeaningful(p)
  BY <1>5 DEF Use, Observe, NothingMeaningful
<1>8. ~End(p)
  BY <1>4 DEF End
<1>9. ASSUME NEW st, st # "ask", call[p] # None, Goto(p, st) PROVE FALSE
  <2>1. call[p] \in Calls
    BY <1>9
  <2>. QED BY <1>4, <1>9, <2>1 DEF Goto, Calls
<1>10. ~Load(p) /\ ~Sweep(p) /\ ~Swept(p) /\ ~Inject(p)
  <2>1. ASSUME call[p] # None PROVE call[p] \in Calls
    BY <2>1
  <2>2. ~Load(p)
    BY <1>4, <2>1 DEF Load, At, Calls
  <2>3. ~Sweep(p)
    BY <1>4, <2>1 DEF Sweep, At, Calls
  <2>4. ~Swept(p) /\ ~Inject(p)
    BY <1>4, <1>8, <1>9, <2>1 DEF Swept, Inject, At, Calls
  <2>. QED BY <2>2, <2>3, <2>4
<1>11. ~PutUse(p) /\ ~LogUse(p) /\ ~BadItem(p) /\ ~LastItem(p) /\ ~Note(p)
  BY <1>8, <1>9 DEF PutUse, LogUse, BadItem, LastItem, Note, At
<1>12. ~Find(p) /\ ~PutOld(p) /\ ~PutObs(p) /\ ~NextItem(p)
  <2>1. ASSUME call[p] # None PROVE call[p] \in Calls
    BY <2>1
  <2>2. ~Find(p)
    <3>1. ASSUME call[p] # None, NEW new, NEW i
          PROVE  /\ [call[p] EXCEPT !.step = "old", !.id = new, !.held[i] = rows[i]].step # "ask"
                 /\ [call[p] EXCEPT !.step = "put", !.held[i] = rows[i]].step # "ask"
                 /\ [call[p] EXCEPT !.step = "put", !.id = new].step # "ask"
      BY <2>1, <3>1 DEF Calls
    <3>2. ASSUME NEW c, Become(p, c) PROVE c.step = "ask"
      BY <1>4, <3>2
    <3>. SUFFICES ASSUME Find(p) PROVE FALSE
      OBVIOUS
    <3>4. call[p] # None
      BY DEF Find, At
    <3>5. CASE \E i \in Old(call[p].obs), new \in FreeIds :
                 Become(p, [call[p] EXCEPT !.step = "old", !.id = new, !.held[i] = rows[i]])
      BY <3>1, <3>2, <3>4, <3>5
    <3>6. CASE \E i \in (IF call[p].obs.sup = None THEN Matches(rows, call[p].obs) ELSE {}) :
                 Become(p, [call[p] EXCEPT !.step = "put", !.held[i] = rows[i]])
      BY <3>1, <3>2, <3>4, <3>6
    <3>7. CASE \E new \in FreeIds :
                 Become(p, [call[p] EXCEPT !.step = "put", !.id = new])
      BY <3>1, <3>2, <3>4, <3>7
    <3>. QED BY <3>5, <3>6, <3>7 DEF Find
  <2>3. ~PutOld(p)
    BY <1>4, <2>1 DEF PutOld, At, Calls
  <2>4. ~PutObs(p)
    <3>1. ASSUME call[p] # None, NEW st \in {"draft", "item"}
          PROVE  [call[p] EXCEPT !.step = st, !.held = Nothing, !.obs = None,
                                 !.id = None].step # "ask"
      BY <2>1, <3>1 DEF Calls
    <3>. QED BY <1>4, <3>1 DEF PutObs, At
  <2>5. ~NextItem(p)
    BY <1>4, <2>1 DEF NextItem, At, Calls
  <2>. QED BY <2>2, <2>3, <2>4, <2>5
<1>13. ~Flag(p) /\ ~Ask(p) /\ ~WorkerRaises(p) /\ ~Mark(p)
  BY <1>8 DEF Flag, Ask, WorkerRaises, Mark
<1>14. ~Extract(p) /\ ~Draft(p) /\ ~Die(p)
  <2>1. ASSUME call[p] # None PROVE call[p] \in Calls
    BY <2>1
  <2>2. ~Extract(p)
    BY <1>4, <2>1 DEF Extract, At, Calls
  <2>3. ~Draft(p)
    BY <1>4, <1>9, <2>1 DEF Draft, At, Calls
  <2>4. ~Die(p)
    BY DEF Die
  <2>. QED BY <2>2, <2>3, <2>4
<1>15. CASE ProcStep(p)
  BY <1>6, <1>7, <1>10, <1>11, <1>12, <1>13, <1>14, <1>15 DEF ProcStep
<1>16. ASSUME NEW q \in Procs, q # p, ProcStep(q) PROVE Goal
  BY <1>1, <1>2, <1>3, <1>16, ProcForms
<1>17. CASE Around
  BY <1>1, <1>17, AroundForm
<1>. QED BY <1>15, <1>16, <1>17, NextParts

LEMMA GateStep == TypeInv /\ SerialInv /\ GateInv /\ [Next]_vars => GateInv'
<1>. SUFFICES ASSUME TypeInv, SerialInv, GateInv, [Next]_vars, ~overlapped'
              PROVE  GateInv'
  BY DEF GateInv
<1>0. /\ asked \in [Sessions -> Nat]
      /\ sess \in [Sessions -> [open : BOOLEAN, distilled : BOOLEAN, blocked : BOOLEAN]]
      /\ call \in [Procs -> Calls \cup {None}]
  BY DEF TypeInv, TypeOK
<1>1. /\ Serial
      /\ \A s \in Sessions : asked[s] <= 1 /\ (asked[s] = 1 => sess[s].blocked)
      /\ \A p \in Procs : At(p, "ask") => asked[call[p].s] = 0 \/ call[p].s \notin Sessions
  BY OverlapStays DEF SerialInv, GateInv
<1>2. ASSUME NEW p \in Procs, Ask(p) PROVE GateInv'
  <2>1. /\ asked' = [asked EXCEPT ![call[p].s] = @ + 1]
        /\ sess' = [sess EXCEPT ![call[p].s].blocked = TRUE]
        /\ At(p, "ask") /\ call' = [call EXCEPT ![p] = None]
    BY <1>2 DEF Ask, End, Become
  <2>2. ASSUME NEW s \in Sessions
        PROVE  asked'[s] <= 1 /\ (asked'[s] = 1 => sess'[s].blocked)
    BY <1>0, <1>1, <2>1
  <2>3. ASSUME NEW q \in Procs, At(q, "ask")' PROVE FALSE
    BY <1>0, <1>1, <2>1, <2>3 DEF At, Serial
  <2>. QED BY <2>2, <2>3 DEF GateInv
<1>3. CASE asked' = asked
  <2>1. ASSUME NEW s \in Sessions
        PROVE  asked'[s] <= 1 /\ (asked'[s] = 1 => sess'[s].blocked)
    BY <1>1, <1>3, FlagsStay
  <2>2. ASSUME NEW p \in Procs, At(p, "ask")'
        PROVE  (asked[call[p].s] = 0 \/ call[p].s \notin Sessions)'
    <3>1. CASE At(p, "ask") /\ call'[p].s = call[p].s
      BY <1>1, <1>3, <3>1
    <3>2. CASE Stop(p)
      <4>0. PICK s \in Sessions, st \in {"mark", "ask", "extract"} :
              \E B \in {{}, queue[s]} :
                /\ Begin(p, [Blank("stop", st, s) EXCEPT !.batch = B])
                /\ st = "ask" => Blocks(s)
        BY <3>2, StopBegins
      <4>1. PICK B \in {{}, queue[s]} :
              /\ Begin(p, [Blank("stop", st, s) EXCEPT !.batch = B])
              /\ st = "ask" => Blocks(s)
        BY <4>0
      <4>2. call'[p] = [Blank("stop", st, s) EXCEPT !.batch = B]
        BY <1>0, <4>1 DEF Begin
      <4>3. call'[p].step = st /\ call'[p].s = s
        BY <4>2 DEF Blank
      <4>4. Blocks(s)
        BY <2>2, <4>1, <4>3 DEF At
      <4>5. asked[s] = 0
        <5>1. ~sess[s].blocked
          BY <4>4, Zenon DEF Blocks
        <5>2. asked[s] \in Nat /\ asked[s] <= 1 /\ asked[s] # 1
          BY <1>0, <1>1, <5>1
        <5>. QED BY <5>2
      <4>. QED BY <1>3, <4>3, <4>5
    <3>. QED BY <2>2, <3>1, <3>2, OnlyStopAsks
  <2>. QED BY <2>1, <2>2 DEF GateInv
<1>. QED BY <1>2, <1>3, FlagsStay, Zenon DEF GateInv

LEMMA GateInit == Init => SerialInv /\ GateInv
BY DEF Init, SerialInv, GateInv, Serial, At

(* A session is asked once at most, whatever its hooks and commands do in  *)
(* between and wherever they die, unless calls have overlapped.            *)
THEOREM GateCorrect == Spec => []GateAsksOnce
<1>1. GateInv => GateAsksOnce
  BY DEF GateInv, GateAsksOnce
<1>. QED BY TypeInit, TypeStep, GateInit, SerialStep, GateStep, <1>1, PTL DEF Spec

------------------------------------------------------------------------------
(* The rows CORTEX stores, as long as calls do not overlap: what is        *)
(* replaced is marked, and replaying the usage log never counts more than  *)
(* the rows do.                                                            *)

(* The log is behind the counts; a row that is replaced is there, marked.  *)
LogCovered ==
  \A i \in Ids : log[i] > 0 => rows[i] # None /\ log[i] <= rows[i].uses

ReplacedSettled ==
  \A i, j \in Ids :
    rows[i] # None /\ rows[i].sup = j => rows[j] # None /\ rows[j].by # None

(* What a call has read is still so.  Once it has counted a use, the count *)
(* is ahead of the log.                                                    *)
HeldCurrent(c) ==
  \A i \in Ids :
    c.held[i] # None =>
      /\ rows[i] # None
      /\ IF c.step = "log" THEN log[i] + 1 <= rows[i].uses ELSE c.held[i] = rows[i]

(* A use is of one row.                                                    *)
UseOfOne(c) ==
  /\ c.step = "log" => c.kind = "use"
  /\ c.kind = "use" =>
       /\ c.step \in {"put", "log"}
       /\ \A i, j \in Ids : c.held[i] # None /\ c.held[j] # None => i = j

(* An observation on its way to the store: its id is free, what it replaces*)
(* is there, is the row in hand before it is marked, and is marked by then.*)
Placing(c) ==
  /\ c.id # None => rows[c.id] = None
  /\ c.step \in {"find", "item", "draft", "extract"} => c.held = Nothing
  /\ c.step \in {"find", "old"} \/ (c.step = "put" /\ c.kind # "use")
       => (c.obs.sup # None => rows[c.obs.sup] # None)
  /\ c.step = "old" => /\ c.id \in Ids
                       /\ \A i \in Ids : c.held[i] # None => i = c.obs.sup
  /\ c.step = "put" /\ c.kind # "use" /\ c.obs.sup # None
       => rows[c.obs.sup].by # None

Honest(c) == HeldCurrent(c) /\ UseOfOne(c) /\ Placing(c)

Consistent ==
  /\ LogCovered
  /\ ReplacedSettled
  /\ \A p \in Procs : call[p] # None => Honest(call[p])

StoreInv == overlapped \/ Consistent

------------------------------------------------------------------------------
(* What the operations leave of a row.                                     *)

LEMMA LearnedKeeps ==
  ASSUME NEW r \in Rows
  PROVE  /\ Learned(r).uses = r.uses /\ Learned(r).by = r.by
         /\ Learned(r).sup = r.sup
<1>1. ASSUME NEW q \in Rows
      PROVE  /\ Promoted(q) \in Rows
             /\ Promoted(q).uses = q.uses /\ Promoted(q).by = q.by
             /\ Promoted(q).sup = q.sup
  BY DEF Promoted, Rows, Importances, Ladder
<1>2. ASSUME NEW q \in Rows
      PROVE  /\ Refreshed(q).uses = q.uses /\ Refreshed(q).by = q.by
             /\ Refreshed(q).sup = q.sup
  BY DEF Refreshed, Rows
<1>. QED BY <1>1, <1>2 DEF Learned

LEMMA ArchiveKeeps ==
  ASSUME NEW r \in Rows
  PROVE  /\ Archive(r).uses = r.uses /\ Archive(r).by = r.by
         /\ Archive(r).sup = r.sup
BY DEF Archive, Rows

LEMMA MergeKeeps ==
  ASSUME NEW r \in Rows, NEW o
  PROVE  /\ Merge(r, o).uses = r.uses /\ Merge(r, o).by = r.by
         /\ Merge(r, o).sup = r.sup
BY DEF Merge, Rows

LEMMA UsedCounts ==
  ASSUME NEW r \in Rows, NEW n
  PROVE  /\ Used(r, n).uses = r.uses + 1 /\ Used(r, n).by = r.by
         /\ Used(r, n).sup = r.sup
BY DEF Used, Rows

LEMMA RowsAreRows == ASSUME NEW r \in Rows PROVE r # None
BY NoneAssumption

(* Rewriting a row with one that keeps its marks and its count keeps what  *)
(* is said of the tables.                                                  *)
LEMMA Rewrite ==
  ASSUME rows \in Tables, log \in [Ids -> Nat], LogCovered, ReplacedSettled,
         NEW i \in Ids, NEW r \in Rows, rows[i] # None,
         rows' = [rows EXCEPT ![i] = r], UNCHANGED log,
         r.sup = rows[i].sup, r.uses >= rows[i].uses,
         r.by # None \/ rows[i].by = None
  PROVE  LogCovered' /\ ReplacedSettled'
<1>1. r # None
  BY RowsAreRows
<1>2. rows'[i] = r /\ \A j \in Ids : j # i => rows'[j] = rows[j]
  BY DEF Tables
<1>3. \A j \in Ids : log[j] \in Nat /\ (rows[j] # None => rows[j].uses \in Nat)
  BY DEF Tables, Rows
<1>4. LogCovered'
  BY <1>1, <1>2, <1>3 DEF LogCovered, Rows
<1>5. ReplacedSettled'
  BY <1>1, <1>2 DEF ReplacedSettled
<1>. QED BY <1>4, <1>5

(* Nobody but p is in a call.                                              *)
Only(p) == \A q \in Procs \ {p} : call[q] = None

LEMMA Moved ==
  ASSUME TypeInv, NEW p \in Procs, NEW c, Only(p), call' = [call EXCEPT ![p] = c],
         LogCovered', ReplacedSettled',
         HeldCurrent(c)', UseOfOne(c), Placing(c)'
  PROVE  Consistent'
<1>1. ASSUME NEW q \in Procs, call'[q] # None PROVE Honest(call[q])'
  <2>1. call'[q] = c
    BY <1>1 DEF Only, TypeInv, TypeOK
  <2>. QED BY <2>1 DEF Honest, UseOfOne, HeldCurrent, Placing
<1>. QED BY <1>1 DEF Consistent

(* Where no row changes, nothing that is said of the tables does.          *)
LEMMA MovedOnly ==
  ASSUME TypeInv, NEW p \in Procs, NEW c, Only(p), call' = [call EXCEPT ![p] = c],
         Consistent, UNCHANGED store, HeldCurrent(c), UseOfOne(c), Placing(c)
  PROVE  Consistent'
<1>1. rows' = rows /\ log' = log
  BY DEF store
<1>2. LogCovered' /\ ReplacedSettled'
  BY <1>1 DEF Consistent, LogCovered, ReplacedSettled
<1>3. HeldCurrent(c)' /\ Placing(c)'
  BY <1>1 DEF HeldCurrent, Placing
<1>. QED BY <1>2, <1>3, Moved

LEMMA Gone ==
  ASSUME TypeInv, NEW p \in Procs, Only(p), call' = [call EXCEPT ![p] = None],
         LogCovered', ReplacedSettled'
  PROVE  Consistent'
BY DEF Only, Consistent, TypeInv, TypeOK

LEMMA GoneOnly ==
  ASSUME TypeInv, NEW p \in Procs, Only(p), call' = [call EXCEPT ![p] = None],
         Consistent, UNCHANGED store
  PROVE  Consistent'
<1>1. LogCovered' /\ ReplacedSettled'
  BY DEF Consistent, LogCovered, ReplacedSettled, store
<1>. QED BY <1>1, Gone

LEMMA OnlyMover ==
  ASSUME TypeInv, SerialInv, NEW p \in Procs, ProcStep(p), ~overlapped'
  PROVE  ~overlapped /\ Only(p)
<1>1. ASSUME NEW c, Begin(p, c) PROVE ~overlapped /\ Only(p)
  BY <1>1 DEF Begin, Only
<1>2. ASSUME NEW c, Moves(p, c) PROVE ~overlapped /\ Only(p)
  BY <1>2 DEF Moves, Only, SerialInv, Serial
<1>. QED BY <1>1, <1>2, ProcForms

------------------------------------------------------------------------------
(* A call begins.                                                          *)

LEMMA BlankHonest ==
  ASSUME NEW k \in Kinds \ {"use"}, NEW st \in Steps \ {"find", "old", "put", "log"}, NEW s,
         NEW x, NEW y
  PROVE  LET b == Blank(k, st, s)
             c == [b EXCEPT !.phases = x]
             d == [b EXCEPT !.batch = y]
             e == [b EXCEPT !.phases = x, !.due = y]
         IN  /\ HeldCurrent(b) /\ UseOfOne(b) /\ Placing(b)
             /\ HeldCurrent(c) /\ UseOfOne(c) /\ Placing(c)
             /\ HeldCurrent(d) /\ UseOfOne(d) /\ Placing(d)
             /\ HeldCurrent(e) /\ UseOfOne(e) /\ Placing(e)
BY DEF Blank, Nothing, HeldCurrent, UseOfOne, Placing, Steps, Kinds

LEMMA BeginStep ==
  ASSUME TypeInv, NEW p \in Procs, Only(p), Consistent,
         \/ SessionStart(p) \/ AgeCommand(p) \/ LearnCommand(p) \/ Use(p)
         \/ Observe(p) \/ NothingMeaningful(p) \/ Stop(p)
  PROVE  Consistent'
<1>1. CASE SessionStart(p)
  <2>1. PICK s \in Sessions, D \in SUBSET Ids :
          Begin(p, [Blank("start", "load", s) EXCEPT
                      !.phases = <<"age_project", "age_global", "learn">>, !.due = D])
    BY <1>1, StartBegins
  <2>. DEFINE c == [Blank("start", "load", s) EXCEPT
                      !.phases = <<"age_project", "age_global", "learn">>, !.due = D]
  <2>2. HeldCurrent(c) /\ UseOfOne(c) /\ Placing(c)
    BY BlankHonest DEF Kinds, Steps
  <2>3. call' = [call EXCEPT ![p] = c]
    BY <2>1 DEF Begin
  <2>4. UNCHANGED store
    BY <1>1 DEF SessionStart
  <2>. HIDE DEF c
  <2>. QED BY <2>2, <2>3, <2>4, MovedOnly
<1>2. CASE AgeCommand(p)
  BY <1>2, BlankHonest, MovedOnly DEF AgeCommand, Begin, Kinds, Steps
<1>3. CASE LearnCommand(p)
  BY <1>3, BlankHonest, MovedOnly DEF LearnCommand, Begin, Kinds, Steps
<1>4. CASE Use(p)
  <2>1. PICK i \in Ids : /\ rows[i] # None
                         /\ Begin(p, [Blank("use", "put", None) EXCEPT !.held[i] = rows[i]])
    BY <1>4 DEF Use
  <2>. DEFINE c == [Blank("use", "put", None) EXCEPT !.held[i] = rows[i]]
  <2>2. /\ c.held = [Nothing EXCEPT ![i] = rows[i]] /\ c.step = "put"
        /\ c.kind = "use" /\ c.id = None
    BY DEF Blank
  <2>3. HeldCurrent(c) /\ UseOfOne(c) /\ Placing(c)
    <3>. HIDE DEF c
    <3>. QED BY <2>1, <2>2 DEF Nothing, HeldCurrent, UseOfOne, Placing
  <2>. QED BY <1>4, <2>1, <2>3, MovedOnly DEF Use, Begin
<1>5. CASE Observe(p)
  <2>1. PICK s \in Sessions \cup {None}, o \in Reports :
          Begin(p, [Blank("observe", "find", s) EXCEPT !.obs = o])
    BY <1>5 DEF Observe
  <2>. DEFINE c == [Blank("observe", "find", s) EXCEPT !.obs = o]
  <2>2. /\ c.held = Nothing /\ c.step = "find" /\ c.kind = "observe"
        /\ c.id = None /\ c.obs = o
    BY DEF Blank
  <2>3. HeldCurrent(c) /\ UseOfOne(c) /\ Placing(c)
    <3>. HIDE DEF c
    <3>. QED BY <2>1, <2>2 DEF Nothing, HeldCurrent, UseOfOne, Placing, Reports
  <2>. QED BY <1>5, <2>1, <2>3, MovedOnly DEF Observe, Begin
<1>6. CASE NothingMeaningful(p)
  BY <1>6, BlankHonest, MovedOnly DEF NothingMeaningful, Begin, Kinds, Steps
<1>7. CASE Stop(p)
  <2>1. PICK s \in Sessions, st \in {"mark", "ask", "extract"} :
          \E B \in {{}, queue[s]} : Begin(p, [Blank("stop", st, s) EXCEPT !.batch = B])
    BY <1>7, StopBegins
  <2>2. PICK c : /\ Begin(p, c)
                 /\ HeldCurrent(c) /\ UseOfOne(c) /\ Placing(c)
    BY <2>1, BlankHonest DEF Kinds, Steps
  <2>. QED BY <1>7, <2>2, MovedOnly DEF Stop, Begin
<1>. QED BY <1>1, <1>2, <1>3, <1>4, <1>5, <1>6, <1>7

(* A call ends.                                                            *)
LEMMA EndStep ==
  ASSUME TypeInv, NEW p \in Procs, Only(p), Consistent,
         \/ Inject(p) \/ BadItem(p) \/ Flag(p) \/ Ask(p) \/ WorkerRaises(p)
         \/ Mark(p) \/ Die(p)
  PROVE  Consistent'
<1>1. call' = [call EXCEPT ![p] = None]
  BY DEF Inject, BadItem, Flag, Ask, WorkerRaises, Mark, Die, End, Become
<1>2. UNCHANGED store
  BY DEF Inject, BadItem, Flag, Ask, WorkerRaises, Mark, Die, store
<1>. QED BY <1>1, <1>2, GoneOnly

------------------------------------------------------------------------------
(* A call goes on.                                                         *)

(* To a step that neither places nor logs.                                 *)
LEMMA GotoStep ==
  ASSUME TypeInv, NEW p \in Procs, Only(p), Consistent, UNCHANGED store,
         call[p] # None, call[p].kind # "use",
         NEW st \in {"inject", "note", "mark"}, Goto(p, st)
  PROVE  Consistent'
<1>. DEFINE c == [call[p] EXCEPT !.step = st]
<1>1. call[p] \in Calls /\ Honest(call[p])
  BY DEF TypeInv, TypeOK, Consistent
<1>2. /\ c.step = st /\ c.kind = call[p].kind /\ c.held = call[p].held
      /\ c.id = call[p].id /\ c.obs = call[p].obs
  BY <1>1 DEF Calls
<1>3. call[p].step # "log"
  BY <1>1 DEF Honest, UseOfOne
<1>4. HeldCurrent(c) /\ UseOfOne(c) /\ Placing(c)
  <2>. HIDE DEF c
  <2>. QED BY <1>1, <1>2, <1>3 DEF Honest, HeldCurrent, UseOfOne, Placing
<1>. QED BY <1>4, MovedOnly DEF Goto, Become

LEMMA SweepStep ==
  ASSUME TypeInv, NEW p \in Procs, Only(p), Consistent,
         Load(p) \/ Sweep(p) \/ Swept(p)
  PROVE  Consistent'
<1>. /\ call[p] \in Calls /\ Honest(call[p]) /\ call[p] # None
     /\ rows \in Tables /\ log \in [Ids -> Nat]
     /\ LogCovered /\ ReplacedSettled
  BY DEF Load, Sweep, Swept, At, TypeInv, TypeOK, Consistent
<1>k. call[p].kind # "use" /\ call[p].step \in {"load", "sweep"}
  BY DEF Load, Sweep, Swept, At, Honest, UseOfOne
<1>1. CASE Load(p)
  <2>. DEFINE h == [i \in Ids |-> IF i \in Due(Head(call[p].phases))
                                    THEN rows[i] ELSE None]
              c == [call[p] EXCEPT !.step = "sweep", !.held = h]
  <2>1. /\ c.step = "sweep" /\ c.kind = call[p].kind /\ c.held = h
        /\ c.id = call[p].id /\ c.obs = call[p].obs
    <3>. HIDE DEF h
    <3>. QED BY DEF Calls
  <2>2. \A i \in Ids : h[i] # None => h[i] = rows[i]
    OBVIOUS
  <2>3. HeldCurrent(c) /\ UseOfOne(c) /\ Placing(c)
    <3>. HIDE DEF h, c
    <3>. QED BY <1>k, <2>1, <2>2 DEF Honest, HeldCurrent, UseOfOne, Placing
  <2>. QED BY <1>1, <2>3, MovedOnly DEF Load, Become
<1>2. CASE Sweep(p)
  <2>1. PICK i \in Held(p) :
          /\ rows' = [rows EXCEPT ![i] = IF Head(call[p].phases) = "learn"
                                        THEN Learned(call[p].held[i])
                                        ELSE Archive(call[p].held[i])]
          /\ Become(p, [call[p] EXCEPT !.held[i] = None])
    BY <1>2 DEF Sweep
  <2>. DEFINE r == IF Head(call[p].phases) = "learn"
                     THEN Learned(call[p].held[i]) ELSE Archive(call[p].held[i])
  <2>0. PICK c : c = [call[p] EXCEPT !.held[i] = None]
    OBVIOUS
  <2>2. i \in Ids /\ rows[i] # None /\ call[p].held[i] = rows[i] /\ rows[i] \in Rows
    BY <1>k DEF Held, Honest, HeldCurrent, Tables
  <2>3. r \in Rows /\ r.uses = rows[i].uses /\ r.sup = rows[i].sup /\ r.by = rows[i].by
    BY <2>2, LearnedType, LearnedKeeps, ArchiveType, ArchiveKeeps
  <2>4. LogCovered' /\ ReplacedSettled'
    <3>1. r.uses >= rows[i].uses
      BY <2>2, <2>3 DEF Rows
    <3>2. UNCHANGED log
      BY <1>2 DEF Sweep
    <3>3. rows' = [rows EXCEPT ![i] = r]
      BY <2>1
    <3>. HIDE DEF r
    <3>. QED BY <2>2, <2>3, <3>1, <3>2, <3>3, Rewrite
  <2>5. /\ c.step = "sweep" /\ c.kind = call[p].kind /\ c.id = call[p].id
        /\ c.held = [call[p].held EXCEPT ![i] = None]
    BY <1>2, <2>0 DEF Sweep, At, Calls
  <2>6. /\ \A j \in Ids : c.held[j] # None => j # i /\ c.held[j] = call[p].held[j]
        /\ \A j \in Ids : j # i => rows'[j] = rows[j]
    BY <2>1, <2>2, <2>5 DEF Calls, Tables
  <2>7. HeldCurrent(c)' /\ UseOfOne(c) /\ Placing(c)'
    <3>1. HeldCurrent(c)'
      BY <1>k, <2>5, <2>6 DEF Honest, HeldCurrent
    <3>2. UseOfOne(c)
      BY <1>k, <2>5 DEF UseOfOne
    <3>3. c.id # None => c.id \in Ids /\ c.id # i
      BY <2>2, <2>5 DEF Honest, Placing, Calls
    <3>4. Placing(c)'
      BY <2>5, <2>6, <3>3 DEF Honest, Placing
    <3>. QED BY <3>1, <3>2, <3>4
  <2>8. call' = [call EXCEPT ![p] = c]
    BY <2>0, <2>1 DEF Become
  <2>. QED BY <2>4, <2>7, <2>8, Moved
<1>3. CASE Swept(p)
  <2>1. ASSUME Become(p, [call[p] EXCEPT !.step = "load", !.phases = Tail(@)])
        PROVE  Consistent'
    <3>. DEFINE c == [call[p] EXCEPT !.step = "load", !.phases = Tail(@)]
    <3>1. /\ c.step = "load" /\ c.kind = call[p].kind /\ c.held = call[p].held
          /\ c.id = call[p].id /\ c.obs = call[p].obs
      BY DEF Calls
    <3>2. HeldCurrent(c) /\ UseOfOne(c) /\ Placing(c)
      <4>. HIDE DEF c
      <4>. QED BY <1>k, <3>1 DEF Honest, HeldCurrent, UseOfOne, Placing
    <3>. QED BY <1>3, <2>1, <3>2, MovedOnly DEF Swept, Become
  <2>2. ASSUME End(p) PROVE Consistent'
    BY <1>3, <2>2, GoneOnly DEF Swept, End, Become
  <2>3. ASSUME Goto(p, "inject") PROVE Consistent'
    BY <1>3, <1>k, <2>3, GotoStep DEF Swept
  <2>. QED BY <1>3, <2>1, <2>2, <2>3 DEF Swept
<1>. QED BY <1>1, <1>2, <1>3

LEMMA UseStep ==
  ASSUME TypeInv, NEW p \in Procs, Only(p), Consistent, PutUse(p) \/ LogUse(p)
  PROVE  Consistent'
<1>. /\ call[p] \in Calls /\ Honest(call[p]) /\ call[p] # None
     /\ rows \in Tables /\ log \in [Ids -> Nat] /\ now \in Nat
     /\ LogCovered /\ ReplacedSettled
  BY DEF PutUse, LogUse, At, TypeInv, TypeOK, Consistent
<1>1. CASE PutUse(p)
  <2>1. PICK i \in Held(p) : rows' = [rows EXCEPT ![i] = Used(call[p].held[i], now)]
    BY <1>1 DEF PutUse
  <2>0. PICK c : c = [call[p] EXCEPT !.step = "log"]
    OBVIOUS
  <2>. DEFINE r == Used(rows[i], now)
  <2>2. call[p].step = "put" /\ call[p].kind = "use" /\ UNCHANGED log
    BY <1>1 DEF PutUse, At
  <2>3. i \in Ids /\ rows[i] # None /\ call[p].held[i] = rows[i] /\ rows[i] \in Rows
    BY <2>2 DEF Held, Honest, HeldCurrent, Tables
  <2>4. /\ r \in Rows /\ r.uses = rows[i].uses + 1 /\ r.sup = rows[i].sup
        /\ r.by = rows[i].by /\ rows[i].uses \in Nat /\ log[i] \in Nat
    BY <2>3, UsedType, UsedCounts DEF Rows
  <2>5. LogCovered' /\ ReplacedSettled'
    <3>1. rows' = [rows EXCEPT ![i] = r] /\ r.uses >= rows[i].uses
      BY <2>1, <2>3, <2>4
    <3>. HIDE DEF r
    <3>. QED BY <2>2, <2>3, <2>4, <3>1, Rewrite
  <2>6. /\ c.step = "log" /\ c.kind = "use" /\ c.held = call[p].held
        /\ c.id = call[p].id
    BY <2>0, <2>2 DEF Calls
  <2>7. HeldCurrent(c)'
    <3>1. \A j \in Ids : c.held[j] # None => j = i
      BY <2>2, <2>3, <2>6 DEF Honest, UseOfOne
    <3>2. rows'[i] = r /\ rows'[i] # None
      BY <2>1, <2>3, <2>4, RowsAreRows DEF Tables
    <3>3. log[i] <= rows[i].uses
      BY <2>3, <2>4 DEF LogCovered
    <3>. HIDE DEF r
    <3>. QED BY <2>2, <2>4, <2>6, <3>1, <3>2, <3>3 DEF HeldCurrent
  <2>8. UseOfOne(c)
    BY <2>2, <2>6 DEF Honest, UseOfOne
  <2>9. Placing(c)'
    <3>1. c.id # None => c.id \in Ids /\ c.id # i
      BY <2>3, <2>6 DEF Honest, Placing, Calls
    <3>. QED BY <2>1, <2>3, <2>6, <3>1 DEF Honest, Placing, Tables
  <2>10. call' = [call EXCEPT ![p] = c]
    BY <1>1, <2>0 DEF PutUse, Goto, Become
  <2>. HIDE DEF r
  <2>. QED BY <2>5, <2>7, <2>8, <2>9, <2>10, Moved
<1>2. CASE LogUse(p)
  <2>1. PICK i \in Held(p) : log' = [log EXCEPT ![i] = @ + 1]
    BY <1>2 DEF LogUse
  <2>2. call[p].step = "log" /\ UNCHANGED rows /\ call' = [call EXCEPT ![p] = None]
    BY <1>2 DEF LogUse, At, End, Become
  <2>3. i \in Ids /\ rows[i] # None /\ log[i] + 1 <= rows[i].uses
    BY <2>2 DEF Held, Honest, HeldCurrent
  <2>4. LogCovered'
    BY <2>1, <2>2, <2>3 DEF LogCovered
  <2>5. ReplacedSettled'
    BY <2>2 DEF ReplacedSettled
  <2>. QED BY <2>2, <2>4, <2>5, Gone
<1>. QED BY <1>1, <1>2

(* The steps of upsert().                                                  *)
LEMMA FindStep ==
  ASSUME TypeInv, NEW p \in Procs, Only(p), Consistent, Find(p)
  PROVE  Consistent'
<1>. /\ call[p] \in Calls /\ Honest(call[p]) /\ call[p] # None
     /\ call[p].step = "find" /\ rows \in Tables /\ Shaped(call[p])
     /\ UNCHANGED store
  BY DEF Find, At, TypeInv, TypeOK, Consistent, CallsShaped
<1>. DEFINE o == call[p].obs
<1>1. /\ call[p].held = Nothing /\ call[p].kind # "use" /\ o \in Observations
      /\ o.sup # None => o.sup \in Ids /\ rows[o.sup] # None
  BY DEF Honest, Placing, UseOfOne, Shaped, Observations
<1>2. ASSUME NEW i \in Old(o), NEW new \in FreeIds
      PROVE  LET c == [call[p] EXCEPT !.step = "old", !.id = new, !.held[i] = rows[i]]
             IN  HeldCurrent(c) /\ UseOfOne(c) /\ Placing(c)
  <2>. DEFINE c == [call[p] EXCEPT !.step = "old", !.id = new, !.held[i] = rows[i]]
  <2>1. /\ c.step = "old" /\ c.kind = call[p].kind /\ c.id = new /\ c.obs = o
        /\ c.held = [Nothing EXCEPT ![i] = rows[i]]
    BY <1>1 DEF Calls
  <2>2. /\ i \in Ids /\ i = o.sup /\ rows[i] # None /\ new \in Ids
        /\ rows[new] = None
    BY <1>2 DEF Old, FreeIds
  <2>. HIDE DEF c, o
  <2>3. HeldCurrent(c) /\ UseOfOne(c) /\ Placing(c)
    BY <1>1, <2>1, <2>2 DEF Nothing, HeldCurrent, UseOfOne, Placing
  <2>. QED BY <2>3 DEF c
<1>3. ASSUME NEW i \in Ids, rows[i] # None, o.sup = None
      PROVE  LET c == [call[p] EXCEPT !.step = "put", !.held[i] = rows[i]]
             IN  HeldCurrent(c) /\ UseOfOne(c) /\ Placing(c)
  <2>. DEFINE c == [call[p] EXCEPT !.step = "put", !.held[i] = rows[i]]
  <2>1. /\ c.step = "put" /\ c.kind = call[p].kind /\ c.id = call[p].id /\ c.obs = o
        /\ c.held = [Nothing EXCEPT ![i] = rows[i]]
    BY <1>1 DEF Calls
  <2>2. c.id # None => rows[c.id] = None
    BY <2>1 DEF Honest, Placing
  <2>. HIDE DEF c, o
  <2>3. HeldCurrent(c) /\ UseOfOne(c) /\ Placing(c)
    BY <1>1, <1>3, <2>1, <2>2 DEF Nothing, HeldCurrent, UseOfOne, Placing
  <2>. QED BY <2>3 DEF c
<1>4. ASSUME NEW new \in FreeIds, o.sup = None
      PROVE  LET c == [call[p] EXCEPT !.step = "put", !.id = new]
             IN  HeldCurrent(c) /\ UseOfOne(c) /\ Placing(c)
  <2>. DEFINE c == [call[p] EXCEPT !.step = "put", !.id = new]
  <2>1. /\ c.step = "put" /\ c.kind = call[p].kind /\ c.id = new /\ c.obs = o
        /\ c.held = Nothing
    BY <1>1 DEF Calls
  <2>2. new \in Ids /\ rows[new] = None
    BY <1>4 DEF FreeIds
  <2>. HIDE DEF c, o
  <2>3. HeldCurrent(c) /\ UseOfOne(c) /\ Placing(c)
    BY <1>1, <1>4, <2>1, <2>2 DEF Nothing, HeldCurrent, UseOfOne, Placing
  <2>. QED BY <2>3 DEF c
<1>5. ASSUME NEW c, Become(p, c), HeldCurrent(c), UseOfOne(c), Placing(c)
      PROVE  Consistent'
  BY <1>5, MovedOnly DEF Become
<1>6. CASE \E i \in Old(o), new \in FreeIds :
             Become(p, [call[p] EXCEPT !.step = "old", !.id = new, !.held[i] = rows[i]])
  BY <1>2, <1>5, <1>6
<1>7. CASE \E i \in (IF o.sup = None THEN Matches(rows, o) ELSE {}) :
             Become(p, [call[p] EXCEPT !.step = "put", !.held[i] = rows[i]])
  BY <1>3, <1>5, <1>7 DEF Matches
<1>8. CASE /\ Old(o) = {}
           /\ \E new \in FreeIds : Become(p, [call[p] EXCEPT !.step = "put", !.id = new])
  <2>1. o.sup = None
    BY <1>1, <1>8 DEF Old
  <2>. QED BY <1>4, <1>5, <1>8, <2>1
<1>. QED BY <1>6, <1>7, <1>8 DEF Find

LEMMA PutOldStep ==
  ASSUME TypeInv, NEW p \in Procs, Only(p), Consistent, PutOld(p)
  PROVE  Consistent'
<1>. /\ call[p] \in Calls /\ Honest(call[p]) /\ Shaped(call[p])
     /\ call[p] # None /\ call[p].step = "old"
     /\ rows \in Tables /\ log \in [Ids -> Nat]
     /\ LogCovered /\ ReplacedSettled /\ UNCHANGED log
  BY DEF PutOld, At, TypeInv, TypeOK, Consistent, CallsShaped
<1>1. PICK i \in Held(p) :
        rows' = [rows EXCEPT ![i] = [call[p].held[i] EXCEPT !.by = call[p].id]]
  BY DEF PutOld
<1>2. PICK c : c = [call[p] EXCEPT !.step = "put", !.held = Nothing]
  OBVIOUS
<1>3. /\ i \in Ids /\ rows[i] # None /\ call[p].held[i] = rows[i] /\ rows[i] \in Rows
      /\ i = call[p].obs.sup
  BY DEF Held, Honest, HeldCurrent, Placing, Tables
<1>4. /\ call[p].id \in Ids /\ rows[call[p].id] = None /\ call[p].id # i
      /\ call[p].id # None
  BY <1>3, NoneAssumption DEF Honest, Placing
<1>r. PICK r : r = [rows[i] EXCEPT !.by = call[p].id]
  OBVIOUS
<1>5. /\ r \in Rows
      /\ r.uses = rows[i].uses /\ r.sup = rows[i].sup /\ r.by = call[p].id
  BY <1>3, <1>4, <1>r DEF Rows
<1>6. rows' = [rows EXCEPT ![i] = r]
  BY <1>1, <1>3, <1>r
<1>7. LogCovered' /\ ReplacedSettled'
  <2>1. r.uses >= rows[i].uses
    BY <1>3, <1>5 DEF Rows
  <2>. QED BY <1>3, <1>4, <1>5, <1>6, <2>1, Rewrite
<1>8. /\ c.step = "put" /\ c.kind = call[p].kind /\ c.id = call[p].id
      /\ c.obs = call[p].obs /\ c.held = Nothing
  BY <1>2 DEF Calls
<1>9. rows'[i] = r /\ rows'[i] # None /\ rows'[c.id] = None
  BY <1>3, <1>4, <1>5, <1>6, <1>8, RowsAreRows DEF Tables
<1>10. HeldCurrent(c)' /\ UseOfOne(c) /\ Placing(c)'
  <2>1. HeldCurrent(c)'
    BY <1>8 DEF HeldCurrent, Nothing
  <2>2. UseOfOne(c)
    BY <1>8 DEF Honest, UseOfOne
  <2>3. Placing(c)'
    BY <1>3, <1>4, <1>5, <1>8, <1>9 DEF Placing
  <2>. QED BY <2>1, <2>2, <2>3
<1>11. call' = [call EXCEPT ![p] = c]
  BY <1>2 DEF PutOld, Become
<1>. QED BY <1>7, <1>10, <1>11, Moved

LEMMA PutObsStep ==
  ASSUME TypeInv, NEW p \in Procs, Only(p), Consistent, PutObs(p)
  PROVE  Consistent'
<1>. /\ call[p] \in Calls /\ Honest(call[p]) /\ call[p].obs \in Observations
     /\ call[p] # None /\ call[p].step = "put" /\ call[p].kind # "use"
     /\ rows \in Tables /\ log \in [Ids -> Nat] /\ now \in Nat
     /\ LogCovered /\ ReplacedSettled /\ UNCHANGED log
  BY DEF PutObs, At, TypeInv, TypeOK, Consistent, CallsShaped, Shaped
<1>. DEFINE o == call[p].obs
            id == call[p].id
<1>1. LogCovered' /\ ReplacedSettled'
  <2>1. ASSUME NEW i \in Held(p), rows' = [rows EXCEPT ![i] = Merge(call[p].held[i], o)]
        PROVE  LogCovered' /\ ReplacedSettled'
    <3>1. i \in Ids /\ rows[i] # None /\ call[p].held[i] = rows[i] /\ rows[i] \in Rows
      BY DEF Held, Honest, HeldCurrent, Tables
    <3>2. /\ Merge(rows[i], o) \in Rows /\ Merge(rows[i], o).uses >= rows[i].uses
          /\ Merge(rows[i], o).sup = rows[i].sup /\ Merge(rows[i], o).by = rows[i].by
      BY <3>1, MergeType, MergeKeeps DEF Rows
    <3>. QED BY <2>1, <3>1, <3>2, Rewrite
  <2>2. ASSUME rows' = [rows EXCEPT ![id] = Insert(o, now)]
        PROVE  LogCovered' /\ ReplacedSettled'
    <3>1. CASE id = None
      <4>1. rows' = rows
        BY <2>2, <3>1, NoneAssumption DEF Tables
      <4>. QED BY <4>1 DEF LogCovered, ReplacedSettled
    <3>2. CASE id # None
      <4>1. id \in Ids /\ rows[id] = None
        BY <3>2 DEF Honest, Placing, Calls
      <4>2. PICK r \in Rows : r = Insert(o, now) /\ r.sup = o.sup /\ r # None
        BY InsertType, RowsAreRows DEF Insert
      <4>3. rows'[id] = r /\ \A j \in Ids : j # id => rows'[j] = rows[j]
        BY <2>2, <4>1, <4>2 DEF Tables
      <4>4. LogCovered'
        BY <4>1, <4>3 DEF LogCovered
      <4>5. o.sup \in Ids => rows[o.sup] # None /\ rows[o.sup].by # None
        BY NoneAssumption DEF Honest, Placing
      <4>6. ReplacedSettled'
        BY <4>1, <4>2, <4>3, <4>5 DEF ReplacedSettled
      <4>. QED BY <4>4, <4>6
    <3>. QED BY <3>1, <3>2
  <2>. QED BY <2>1, <2>2 DEF PutObs
<1>2. PICK st \in {"draft", "item"} :
        Become(p, [call[p] EXCEPT !.step = st, !.held = Nothing, !.obs = None, !.id = None])
  BY DEF PutObs
<1>3. PICK c : c = [call[p] EXCEPT !.step = st, !.held = Nothing, !.obs = None, !.id = None]
  OBVIOUS
<1>4. c.step = st /\ c.kind = call[p].kind /\ c.held = Nothing /\ c.id = None
  BY <1>3 DEF Calls
<1>5. HeldCurrent(c)' /\ UseOfOne(c) /\ Placing(c)'
  BY <1>4 DEF HeldCurrent, UseOfOne, Placing, Nothing
<1>6. call' = [call EXCEPT ![p] = c]
  BY <1>2, <1>3 DEF Become
<1>. QED BY <1>1, <1>5, <1>6, Moved

(* The steps between two observations.                                     *)
LEMMA ListStep ==
  ASSUME TypeInv, NEW p \in Procs, Only(p), Consistent,
         NextItem(p) \/ LastItem(p) \/ Note(p) \/ Extract(p) \/ Draft(p)
  PROVE  Consistent'
<1>. /\ call[p] \in Calls /\ Honest(call[p]) /\ call[p] # None /\ UNCHANGED store
     /\ call[p].step \in {"item", "note", "extract", "draft"}
  BY DEF NextItem, LastItem, Note, Extract, Draft, At, TypeInv, TypeOK, Consistent, store
<1>k. /\ call[p].kind # "use"
      /\ call[p].step # "note" => call[p].held = Nothing
      /\ call[p].id # None => rows[call[p].id] = None
  BY DEF Honest, UseOfOne, Placing
<1>1. ASSUME NEW c, Become(p, c), c.kind = call[p].kind, c.held = Nothing,
             c.id = call[p].id,
             \/ c.step = "draft"
             \/ c.step = "find" /\ (c.obs.sup # None => rows[c.obs.sup] # None)
      PROVE  Consistent'
  <2>1. HeldCurrent(c) /\ UseOfOne(c) /\ Placing(c)
    BY <1>k, <1>1 DEF Nothing, HeldCurrent, UseOfOne, Placing
  <2>. QED BY <1>1, <2>1, MovedOnly DEF Become
<1>2. CASE NextItem(p)
  <2>1. PICK o \in Reports : Become(p, [call[p] EXCEPT !.step = "find", !.obs = o])
    BY <1>2 DEF NextItem
  <2>2. /\ o.sup # None => rows[o.sup] # None
        /\ call[p].held = Nothing
    BY <1>2, <1>k DEF Reports, NextItem, At
  <2>3. LET c == [call[p] EXCEPT !.step = "find", !.obs = o]
        IN  /\ c.kind = call[p].kind /\ c.held = call[p].held /\ c.id = call[p].id
            /\ c.step = "find" /\ c.obs = o
    BY DEF Calls
  <2>. QED BY <1>1, <2>1, <2>2, <2>3
<1>3. CASE LastItem(p)
  <2>1. CASE End(p)
    BY <2>1, GoneOnly DEF End, Become
  <2>2. CASE Goto(p, "note")
    BY <1>k, <2>2, GotoStep
  <2>. QED BY <1>3, <2>1, <2>2 DEF LastItem
<1>4. CASE Note(p)
  BY <1>4, <1>k, GotoStep DEF Note
<1>5. CASE Extract(p)
  <2>1. PICK D : Become(p, [call[p] EXCEPT !.step = "draft", !.drafts = D, !.left = D])
    BY <1>5 DEF Extract
  <2>2. call[p].held = Nothing
    BY <1>5, <1>k DEF Extract, At
  <2>3. LET c == [call[p] EXCEPT !.step = "draft", !.drafts = D, !.left = D]
        IN  /\ c.kind = call[p].kind /\ c.held = call[p].held /\ c.id = call[p].id
            /\ c.step = "draft"
    BY DEF Calls
  <2>. QED BY <1>1, <2>1, <2>2, <2>3
<1>6. CASE Draft(p)
  <2>1. call[p].held = Nothing
    BY <1>6, <1>k DEF Draft, At
  <2>2. ASSUME NEW t,
               Become(p, [call[p] EXCEPT
                 !.step = "find", !.left = @ \ {t},
                 !.obs = [topic |-> t, home |-> "project", proj |-> Own,
                          imp |-> "low", sup |-> None]])
        PROVE  Consistent'
    <3>. DEFINE o == [topic |-> t, home |-> "project", proj |-> Own, imp |-> "low",
                      sup |-> None]
    <3>1. o.sup = None
      OBVIOUS
    <3>. HIDE DEF o
    <3>2. LET c == [call[p] EXCEPT !.step = "find", !.left = @ \ {t}, !.obs = o]
          IN  /\ c.kind = call[p].kind /\ c.held = call[p].held /\ c.id = call[p].id
              /\ c.step = "find" /\ c.obs = o
      BY DEF Calls
    <3>3. Become(p, [call[p] EXCEPT !.step = "find", !.left = @ \ {t}, !.obs = o])
      BY <2>2 DEF o
    <3>. QED BY <1>1, <2>1, <3>1, <3>2, <3>3
  <2>3. ASSUME Goto(p, "mark") PROVE Consistent'
    BY <1>k, <2>3, GotoStep
  <2>. QED BY <1>6, <2>2, <2>3 DEF Draft
<1>. QED BY <1>2, <1>3, <1>4, <1>5, <1>6

------------------------------------------------------------------------------
LEMMA StoreStep == TypeInv /\ SerialInv /\ StoreInv /\ [Next]_vars => StoreInv'
<1>. SUFFICES ASSUME TypeInv, SerialInv, StoreInv, [Next]_vars, ~overlapped'
              PROVE  Consistent'
  BY DEF StoreInv
<1>1. ASSUME NEW p \in Procs, ProcStep(p) PROVE Consistent'
  <2>1. Only(p) /\ Consistent
    BY <1>1, OnlyMover DEF StoreInv
  <2>. QED BY <1>1, <2>1, BeginStep, EndStep, SweepStep, UseStep, FindStep, PutOldStep,
              PutObsStep, ListStep DEF ProcStep
<1>2. CASE Around
  <2>1. UNCHANGED <<rows, log, call, overlapped>>
    BY <1>2 DEF Around, RecordEvent, Tick, vars, store, world
  <2>2. Consistent
    BY <2>1 DEF StoreInv
  <2>. QED BY <2>1, <2>2 DEF Consistent, LogCovered, ReplacedSettled, Honest,
              HeldCurrent, UseOfOne, Placing
<1>. QED BY <1>1, <1>2, NextParts

LEMMA StoreInit == Init => StoreInv
BY DEF Init, StoreInv, Consistent, LogCovered, ReplacedSettled, Nothing

(* A stored row and the one it replaces are never both live: whichever     *)
(* databases they are in and wherever calls have died, as long as no two   *)
(* calls have overlapped.                                                  *)
THEOREM ReplacedCorrect == Spec => []ReplacedAreMarked
<1>1. StoreInv => ReplacedAreMarked
  BY DEF StoreInv, Consistent, ReplacedSettled, ReplacedAreMarked
<1>. QED BY TypeInit, TypeStep, GateInit, SerialStep, StoreInit, StoreStep, <1>1,
            PTL DEF Spec

(* The usage log is never ahead of the counts it could rebuild, under the  *)
(* same condition.                                                         *)
THEOREM ReplayCorrect == Spec => []ReplayNeverOvershoots
<1>1. StoreInv => ReplayNeverOvershoots
  BY DEF StoreInv, Consistent, LogCovered, ReplayNeverOvershoots
<1>. QED BY TypeInit, TypeStep, GateInit, SerialStep, StoreInit, StoreStep, <1>1,
            PTL DEF Spec

------------------------------------------------------------------------------
(* What upsert(), a session start and a Stop have settled by each of their *)
(* steps, as long as calls do not overlap.                                 *)

(* An observation on its way that is stored as new and replaces nothing:    *)
(* nothing live of its database and project is near to it.                 *)
Placed(c) ==
  c.kind # "use" /\ c.step = "put" /\ c.held = Nothing =>
    /\ c.id \in Ids
    /\ c.obs.sup = None => Matches(rows, c.obs) = {}

(* The rows of a database that had expired when the call began: all are    *)
(* archived, or what is not is still expired, or has been read by the pass *)
(* under way.                                                              *)
Settled(c, home) == \A i \in c.due : rows[i].home = home => rows[i].imp = "archive"

Pending(c, home) ==
  \A i \in c.due :
    rows[i].home = home => rows[i].imp = "archive" \/ Expired(rows[i], c.from)

Caught(c, home) ==
  c.step = "sweep" =>
    \A i \in c.due :
      rows[i].home = home => rows[i].imp = "archive" \/ c.held[i] # None

(* A session start ages one database, then the other, then learns.         *)
Starting(c) ==
  /\ c.step = "inject" => c.kind = "start"
  /\ c.kind = "start" =>
       /\ c.step \in {"load", "sweep", "inject"}
       /\ c.from <= now
       /\ \A i \in c.due : rows[i] # None
       /\ \/ /\ c.phases = <<"age_project", "age_global", "learn">>
             /\ c.step # "inject"
             /\ Pending(c, "project") /\ Caught(c, "project")
             /\ Pending(c, "global")
          \/ /\ c.phases = <<"age_global", "learn">>
             /\ c.step # "inject"
             /\ Settled(c, "project")
             /\ Pending(c, "global") /\ Caught(c, "global")
          \/ /\ c.phases = <<"learn">>
             /\ Settled(c, "project") /\ Settled(c, "global")

(* The drafts of a batch are those of the rules or of the worker.          *)
Drafted(c) == c.drafts = Floor[c.batch] \/ (Tier3 /\ c.drafts # {})

(* A Stop drafts from what it has read, stores one draft after the other,  *)
(* and forgets the events only when it has stored all or owes none.        *)
Stopping(c) ==
  c.kind = "stop" =>
    /\ c.s \in Sessions
    /\ c.step \in {"ask", "extract", "draft", "find", "put", "mark"}
    /\ c.step \in {"find", "put"} => c.obs.sup = None
    /\ c.step \in {"draft", "find", "put"} =>
         /\ Drafted(c)
         /\ \A x \in c.drafts \ c.left : Stored(x) \/ (c.step # "draft" /\ x = c.obs.topic)
    /\ c.step = "mark" =>
         \/ sess[c.s].distilled
         \/ ~(Cardinality(c.batch) >= MinEvents)
         \/ Drafted(c) /\ \A x \in c.drafts : Stored(x)

Tracked(c) == Placed(c) /\ Starting(c) /\ Stopping(c)

Tracking == \A p \in Procs : call[p] # None => Tracked(call[p])

TrackInv == overlapped \/ Tracking

------------------------------------------------------------------------------
(* What the operations do to what a row says.                              *)

(* In the same database, with no link lost.                                *)
Says(r, q) == r.home = q.home /\ q.links \subseteq r.links

(* Learning leaves archived rows archived.                                 *)
LEMMA LearnedSays ==
  ASSUME NEW r \in Rows
  PROVE  Says(Learned(r), r) /\ (r.imp = "archive" => Learned(r).imp = "archive")
<1>1. /\ Says(Promoted(r), r) /\ Promoted(r) \in Rows
      /\ r.imp = "archive" => Promoted(r).imp = "archive"
  BY DEF Promoted, Ladder, Says, Rows, Importances
<1>2. ASSUME NEW q \in Rows
      PROVE  Says(Refreshed(q), q) /\ Refreshed(q).imp = q.imp
  BY DEF Refreshed, Says, Rows
<1>. QED BY <1>1, <1>2 DEF Learned, Says

LEMMA ArchiveSays ==
  ASSUME NEW r \in Rows
  PROVE  Says(Archive(r), r) /\ Archive(r).imp = "archive"
BY DEF Archive, Says, Rows

LEMMA UsedSays ==
  ASSUME NEW r \in Rows, NEW n
  PROVE  Says(Used(r, n), r)
BY DEF Used, Says, Rows

LEMMA MergeSays ==
  ASSUME NEW r \in Rows, NEW o \in Observations
  PROVE  Says(Merge(r, o), r) /\ o.topic \in Merge(r, o).links
BY DEF Merge, Says, Rows

LEMMA MarkedSays ==
  ASSUME NEW r \in Rows, NEW i
  PROVE  Says([r EXCEPT !.by = i], r)
BY DEF Says, Rows

LEMMA InsertSays ==
  ASSUME NEW o \in Observations, NEW n \in Nat
  PROVE  /\ o.topic \in Insert(o, n).links
         /\ Subject(Insert(o, n)) = NewSubject(o)
         /\ Insert(o, n).home = o.home /\ Insert(o, n).proj = o.proj
         /\ Insert(o, n).sup = o.sup
BY DEF Insert, Subject, NewSubject

------------------------------------------------------------------------------
(* Rows only grow: a step rewrites one row with one that says as much, or  *)
(* stores one more.                                                        *)

Rewrites ==
  \E i \in Ids, r \in Rows :
    rows[i] # None /\ rows' = [rows EXCEPT ![i] = r] /\ Says(r, rows[i])

Inserts(p) ==
  /\ PutObs(p) /\ Held(p) = {} /\ call[p].obs \in Observations
  /\ rows' = [rows EXCEPT ![call[p].id] = Insert(call[p].obs, now)]

LEMMA RowChanges ==
  ASSUME TypeInv, NEW p \in Procs, Consistent, Tracking, ProcStep(p)
  PROVE  rows' = rows \/ Rewrites \/ Inserts(p)
<1>. rows \in Tables /\ now \in Nat
  BY DEF TypeInv, TypeOK
<1>0. ASSUME call[p] # None
      PROVE  /\ call[p] \in Calls /\ Honest(call[p]) /\ Tracked(call[p])
             /\ Shaped(call[p])
  BY <1>0 DEF TypeInv, TypeOK, CallsShaped, Consistent, Tracking
<1>h. ASSUME call[p] # None, call[p].step # "log", NEW i \in Held(p)
      PROVE  /\ i \in Ids /\ rows[i] # None /\ call[p].held[i] = rows[i]
             /\ rows[i] \in Rows
  BY <1>0, <1>h DEF Held, Honest, HeldCurrent, Tables
<1>1. CASE Sweep(p)
  <2>1. PICK i \in Held(p) :
          rows' = [rows EXCEPT ![i] = IF Head(call[p].phases) = "learn"
                                        THEN Learned(call[p].held[i])
                                        ELSE Archive(call[p].held[i])]
    BY <1>1 DEF Sweep
  <2>2. call[p] # None /\ call[p].step = "sweep"
    BY <1>1 DEF Sweep, At
  <2>3. /\ i \in Ids /\ rows[i] # None /\ call[p].held[i] = rows[i]
        /\ rows[i] \in Rows
    BY <1>h, <2>2
  <2>4. CASE Head(call[p].phases) = "learn"
    BY <2>1, <2>3, <2>4, LearnedType, LearnedSays DEF Rewrites
  <2>5. CASE Head(call[p].phases) # "learn"
    BY <2>1, <2>3, <2>5, ArchiveType, ArchiveSays DEF Rewrites
  <2>. QED BY <2>4, <2>5
<1>2. CASE PutUse(p)
  <2>1. PICK i \in Held(p) : rows' = [rows EXCEPT ![i] = Used(call[p].held[i], now)]
    BY <1>2 DEF PutUse
  <2>2. call[p] # None /\ call[p].step = "put"
    BY <1>2 DEF PutUse, At
  <2>. QED BY <1>h, <2>1, <2>2, UsedType, UsedSays DEF Rewrites
<1>3. CASE PutOld(p)
  <2>1. PICK i \in Held(p) :
          rows' = [rows EXCEPT ![i] = [call[p].held[i] EXCEPT !.by = call[p].id]]
    BY <1>3 DEF PutOld
  <2>2. call[p] # None /\ call[p].step = "old" /\ call[p].id \in Ids \cup {None}
    BY <1>0, <1>3 DEF PutOld, At, Calls
  <2>3. [rows[i] EXCEPT !.by = call[p].id] \in Rows
    BY <1>h, <2>1, <2>2 DEF Rows
  <2>. QED BY <1>h, <2>1, <2>2, <2>3, MarkedSays DEF Rewrites
<1>4. CASE PutObs(p)
  <2>1. /\ call[p] # None /\ call[p].step = "put" /\ call[p].kind # "use"
        /\ call[p].obs \in Observations
    BY <1>0, <1>4 DEF PutObs, At, Shaped
  <2>2. ASSUME NEW i \in Held(p),
               rows' = [rows EXCEPT ![i] = Merge(call[p].held[i], call[p].obs)]
        PROVE  Rewrites
    BY <1>h, <2>1, <2>2, MergeType, MergeSays DEF Rewrites
  <2>. QED BY <1>4, <2>1, <2>2 DEF PutObs, Inserts
<1>5. CASE ~(Sweep(p) \/ PutUse(p) \/ PutOld(p) \/ PutObs(p))
  <2>1. UNCHANGED store \/ UNCHANGED rows
    BY <1>5, Zenon DEF ProcStep, SessionStart, AgeCommand, LearnCommand, Load, Swept,
       Inject, Use, LogUse, Observe, Find, NextItem, BadItem, LastItem, Note,
       NothingMeaningful, Flag, Stop, Ask, Extract, WorkerRaises, Draft, Mark, Die
  <2>. QED BY <2>1 DEF store
<1>. QED BY <1>1, <1>2, <1>3, <1>4, <1>5

------------------------------------------------------------------------------
(* What every step of a process leaves as it is, or adds to.               *)
LEMMA StepKeeps ==
  ASSUME TypeInv, NEW p \in Procs, Consistent, Tracking, ProcStep(p)
  PROVE  /\ now' = now
         /\ \A x : Stored(x) => Stored(x)'
         /\ \A s \in Sessions : sess[s].distilled => sess'[s].distilled
<1>. /\ rows \in Tables /\ now \in Nat
     /\ sess \in [Sessions -> [open : BOOLEAN, distilled : BOOLEAN, blocked : BOOLEAN]]
  BY DEF TypeInv, TypeOK
<1>1. \A x : Stored(x) => Stored(x)'
  <2>1. CASE rows' = rows
    BY <2>1 DEF Stored
  <2>2. CASE Rewrites
    <3>1. PICK i \in Ids, r \in Rows :
            rows[i] # None /\ rows' = [rows EXCEPT ![i] = r] /\ Says(r, rows[i])
      BY <2>2 DEF Rewrites
    <3>2. rows'[i] = r /\ r # None /\ \A j \in Ids : j # i => rows'[j] = rows[j]
      BY <3>1, RowsAreRows DEF Tables
    <3>. QED BY <3>1, <3>2 DEF Stored, Says
  <2>3. CASE Inserts(p)
    <3>. DEFINE o == call[p].obs
    <3>1. /\ call[p] # None /\ call[p] \in Calls /\ call[p].step = "put"
          /\ call[p].kind # "use" /\ Honest(call[p]) /\ Tracked(call[p])
          /\ o \in Observations
      BY <2>3 DEF Inserts, PutObs, At, TypeInv, TypeOK, Consistent, Tracking
    <3>2. call[p].held = Nothing
      BY <2>3, <3>1 DEF Inserts, Held, Nothing, Calls, Tables
    <3>3. call[p].id \in Ids
      BY <3>1, <3>2 DEF Tracked, Placed
    <3>4. rows[call[p].id] = None
      BY <3>1, <3>3, NoneAssumption DEF Honest, Placing
    <3>5. PICK r \in Rows : r = Insert(o, now) /\ r # None
      BY <3>1, InsertType, RowsAreRows
    <3>6. /\ rows'[call[p].id] = r
          /\ \A j \in Ids : j # call[p].id => rows'[j] = rows[j]
      BY <2>3, <3>3, <3>5 DEF Inserts, Tables
    <3>. QED BY <3>4, <3>5, <3>6 DEF Stored
  <2>. QED BY <2>1, <2>2, <2>3, RowChanges
<1>2. now' = now
  <2>1. (\E c : Begin(p, c) \/ Become(p, c)) \/ Die(p)
    BY Zenon DEF ProcStep, SessionStart, AgeCommand, LearnCommand, Load, Sweep, Swept,
       Inject, Use, PutUse, LogUse, Observe, Find, PutOld, PutObs, NextItem, BadItem,
       LastItem, Note, NothingMeaningful, Flag, Stop, Ask, Extract, WorkerRaises, Draft,
       Mark, Goto, End
  <2>. QED BY <2>1 DEF Begin, Become, Die, world
<1>3. \A s \in Sessions : sess[s].distilled => sess'[s].distilled
  <2>1. CASE SessionStart(p)
    BY <2>1 DEF SessionStart, Opened
  <2>2. CASE Note(p)
    BY <2>2 DEF Note
  <2>3. CASE Flag(p)
    BY <2>3 DEF Flag
  <2>4. CASE Ask(p)
    BY <2>4 DEF Ask
  <2>5. CASE ~(SessionStart(p) \/ Note(p) \/ Flag(p) \/ Ask(p))
    <3>1. UNCHANGED capture \/ UNCHANGED sess
      BY <2>5 DEF ProcStep, AgeCommand, LearnCommand, Load, Sweep, Swept,
         Inject, Use, PutUse, LogUse, Observe, Find, PutOld, PutObs, NextItem, BadItem,
         LastItem, NothingMeaningful, Stop, Extract, WorkerRaises, Draft, Mark, Die
    <3>. QED BY <3>1 DEF capture
  <2>. QED BY <2>1, <2>2, <2>3, <2>4, <2>5
<1>. QED BY <1>1, <1>2, <1>3

LEMMA TrackMoved ==
  ASSUME TypeInv, NEW p \in Procs, NEW c, Only(p), Consistent, Tracking, ProcStep(p),
         call' = [call EXCEPT ![p] = c], Tracked(c)'
  PROVE  Tracking'
<1>1. ASSUME NEW q \in Procs, call'[q] # None PROVE Tracked(call[q])'
  <2>1. call'[q] = c
    BY <1>1 DEF Only, TypeInv, TypeOK
  <2>. QED BY <2>1 DEF Tracked, Placed, Starting, Settled, Pending, Caught, Stopping, Drafted
<1>. QED BY <1>1 DEF Tracking

(* Where no row changes, the call alone counts.                            *)
LEMMA TrackMovedOnly ==
  ASSUME TypeInv, NEW p \in Procs, NEW c, Only(p), Consistent, Tracking, ProcStep(p),
         call' = [call EXCEPT ![p] = c], UNCHANGED rows, Tracked(c)
  PROVE  Tracking'
<1>1. /\ now' = now
      /\ \A s \in Sessions : sess[s].distilled => sess'[s].distilled
  BY StepKeeps
<1>2. Placed(c)'
  BY DEF Tracked, Placed, Matches
<1>3. Starting(c)'
  BY <1>1 DEF Tracked, Starting, Settled, Pending, Caught
<1>4. Stopping(c)'
  BY <1>1 DEF Tracked, Stopping, Drafted, Stored
<1>. QED BY <1>2, <1>3, <1>4, TrackMoved DEF Tracked

LEMMA TrackGone ==
  ASSUME TypeInv, NEW p \in Procs, Only(p), Consistent, Tracking, ProcStep(p),
         call' = [call EXCEPT ![p] = None]
  PROVE  Tracking'
<1>1. \A q \in Procs : call'[q] = None
  BY DEF Only, TypeInv, TypeOK
<1>. QED BY <1>1 DEF Tracking

------------------------------------------------------------------------------
(* A call begins.                                                          *)
LEMMA TrackBegin ==
  ASSUME TypeInv, NEW p \in Procs, Only(p), Consistent, Tracking,
         \/ SessionStart(p) \/ AgeCommand(p) \/ LearnCommand(p) \/ Use(p)
         \/ Observe(p) \/ NothingMeaningful(p) \/ Stop(p)
  PROVE  Tracking'
<1>p. ProcStep(p)
  BY DEF ProcStep
<1>b. ASSUME NEW c, Begin(p, c), UNCHANGED rows, Tracked(c) PROVE Tracking'
  BY <1>b, <1>p, TrackMovedOnly DEF Begin
<1>r. UNCHANGED rows
  BY DEF SessionStart, AgeCommand, LearnCommand, Use, Observe, NothingMeaningful, Stop, store
<1>n. now \in Nat
  BY DEF TypeInv, TypeOK
<1>1. CASE SessionStart(p)
  <2>. DEFINE D == {i \in Ids : rows[i] # None /\ Expired(rows[i], now)}
  <2>1. PICK s \in Sessions :
          Begin(p, [Blank("start", "load", s) EXCEPT
                      !.phases = <<"age_project", "age_global", "learn">>, !.due = D])
    BY <1>1, StartBegins
  <2>2. PICK c : c = [Blank("start", "load", s) EXCEPT
                        !.phases = <<"age_project", "age_global", "learn">>, !.due = D]
    OBVIOUS
  <2>3. /\ c.kind = "start" /\ c.step = "load" /\ c.from = now /\ c.due = D
        /\ c.phases = <<"age_project", "age_global", "learn">>
    BY <2>2 DEF Blank
  <2>4. Tracked(c)
    BY <2>3, <1>n DEF Tracked, Placed, Starting, Pending, Caught, Stopping
  <2>. QED BY <1>b, <1>r, <2>1, <2>2, <2>4
<1>2. CASE AgeCommand(p)
  <2>1. PICK c : c = [Blank("age", "load", None) EXCEPT
                        !.phases = <<"age_project", "age_global">>]
    OBVIOUS
  <2>2. c.kind = "age" /\ c.step = "load"
    BY <2>1 DEF Blank
  <2>3. Tracked(c)
    BY <2>2 DEF Tracked, Placed, Starting, Stopping
  <2>. QED BY <1>2, <1>b, <1>r, <2>1, <2>3 DEF AgeCommand
<1>3. CASE LearnCommand(p)
  <2>1. PICK c : c = [Blank("learn", "load", None) EXCEPT !.phases = <<"learn">>]
    OBVIOUS
  <2>2. c.kind = "learn" /\ c.step = "load"
    BY <2>1 DEF Blank
  <2>3. Tracked(c)
    BY <2>2 DEF Tracked, Placed, Starting, Stopping
  <2>. QED BY <1>3, <1>b, <1>r, <2>1, <2>3 DEF LearnCommand
<1>4. CASE Use(p)
  <2>1. PICK i \in Ids : Begin(p, [Blank("use", "put", None) EXCEPT !.held[i] = rows[i]])
    BY <1>4 DEF Use
  <2>2. PICK c : c = [Blank("use", "put", None) EXCEPT !.held[i] = rows[i]]
    OBVIOUS
  <2>3. c.kind = "use" /\ c.step = "put"
    BY <2>2 DEF Blank
  <2>4. Tracked(c)
    BY <2>3 DEF Tracked, Placed, Starting, Stopping
  <2>. QED BY <1>b, <1>r, <2>1, <2>2, <2>4
<1>5. CASE Observe(p)
  <2>1. PICK s \in Sessions \cup {None}, o \in Reports :
          Begin(p, [Blank("observe", "find", s) EXCEPT !.obs = o])
    BY <1>5 DEF Observe
  <2>2. PICK c : c = [Blank("observe", "find", s) EXCEPT !.obs = o]
    OBVIOUS
  <2>3. c.kind = "observe" /\ c.step = "find" /\ c.obs = o
    BY <2>2 DEF Blank
  <2>4. Tracked(c)
    BY <2>3 DEF Tracked, Placed, Starting, Stopping
  <2>. QED BY <1>b, <1>r, <2>1, <2>2, <2>4
<1>6. CASE NothingMeaningful(p)
  <2>1. PICK s \in Sessions : Begin(p, Blank("nothing", "flag", s))
    BY <1>6 DEF NothingMeaningful
  <2>2. PICK c : c = Blank("nothing", "flag", s)
    OBVIOUS
  <2>3. c.kind = "nothing" /\ c.step = "flag"
    BY <2>2 DEF Blank
  <2>4. Tracked(c)
    BY <2>3 DEF Tracked, Placed, Starting, Stopping
  <2>. QED BY <1>b, <1>r, <2>1, <2>2, <2>4
<1>7. CASE Stop(p)
  <2>1. PICK s \in Sessions, st \in {"mark", "ask", "extract"} :
          \E B \in {{}, queue[s]} :
            /\ Begin(p, [Blank("stop", st, s) EXCEPT !.batch = B])
            /\ st = "mark" => B = {} \/ ~FloorDue(s)
    BY <1>7, StopBegins
  <2>2. PICK B \in {{}, queue[s]} :
          /\ Begin(p, [Blank("stop", st, s) EXCEPT !.batch = B])
          /\ st = "mark" => B = {} \/ ~FloorDue(s)
    BY <2>1
  <2>3. PICK c : c = [Blank("stop", st, s) EXCEPT !.batch = B]
    OBVIOUS
  <2>4. c.kind = "stop" /\ c.step = st /\ c.s = s /\ c.batch = B
    BY <2>3 DEF Blank
  <2>5. st = "mark" => sess[s].distilled \/ ~(Cardinality(B) >= MinEvents)
    <3>1. ~(Cardinality({}) >= MinEvents)
      BY MinEventsAssumption, FS_EmptySet
    <3>2. ~FloorDue(s) => sess[s].distilled \/ ~(Cardinality(queue[s]) >= MinEvents)
      BY Zenon DEF FloorDue
    <3>. QED BY <2>2, <3>1, <3>2, Zenon
  <2>6. Tracked(c)
    BY <2>4, <2>5 DEF Tracked, Placed, Starting, Stopping
  <2>. QED BY <1>b, <1>r, <2>2, <2>3, <2>6
<1>. QED BY <1>1, <1>2, <1>3, <1>4, <1>5, <1>6, <1>7

(* A call ends.                                                            *)
LEMMA TrackEnd ==
  ASSUME TypeInv, NEW p \in Procs, Only(p), Consistent, Tracking,
         \/ Inject(p) \/ BadItem(p) \/ Flag(p) \/ Ask(p) \/ WorkerRaises(p)
         \/ Mark(p) \/ Die(p) \/ LogUse(p)
  PROVE  Tracking'
<1>1. call' = [call EXCEPT ![p] = None]
  BY DEF Inject, BadItem, Flag, Ask, WorkerRaises, Mark, Die, LogUse, End, Become
<1>2. ProcStep(p)
  BY DEF ProcStep
<1>. QED BY <1>1, <1>2, TrackGone

------------------------------------------------------------------------------
(* A pass: what it reads is all that is due, and what it has dealt with is *)
(* no longer expired.                                                      *)
LEMMA TrackLoad ==
  ASSUME TypeInv, NEW p \in Procs, Only(p), Consistent, Tracking, Load(p)
  PROVE  Tracking'
<1>. /\ call[p] # None /\ call[p] \in Calls /\ call[p].step = "load"
     /\ Tracked(call[p]) /\ now \in Nat /\ ProcStep(p) /\ UNCHANGED rows
     /\ rows \in Tables
  BY DEF Load, At, TypeInv, TypeOK, Tracking, ProcStep, store
<1>. DEFINE ph == Head(call[p].phases)
            h == [i \in Ids |-> IF i \in Due(ph) THEN rows[i] ELSE None]
<1>1. PICK c : c = [call[p] EXCEPT !.step = "sweep", !.held = h]
  OBVIOUS
<1>2. call' = [call EXCEPT ![p] = c]
  BY <1>1 DEF Load, Become
<1>3. /\ c.step = "sweep" /\ c.kind = call[p].kind /\ c.phases = call[p].phases
      /\ c.from = call[p].from /\ c.held = h
  BY <1>1 DEF Calls
<1>4. /\ c.due = call[p].due /\ c.due \subseteq Ids /\ call[p].from \in Nat
  BY <1>1 DEF Calls
<1>5. ASSUME NEW home \in Homes, call[p].from <= now, Pending(c, home),
             \A i \in c.due : rows[i] # None,
             ph = (IF home = "project" THEN "age_project" ELSE "age_global")
      PROVE  Caught(c, home)
  <2>. SUFFICES ASSUME NEW i \in c.due, rows[i].home = home, rows[i].imp # "archive"
                PROVE  h[i] # None
    BY <1>3 DEF Caught
  <2>1. i \in Ids /\ rows[i] # None /\ rows[i] \in Rows
    BY <1>4, <1>5 DEF Tables
  <2>2. Expired(rows[i], call[p].from)
    BY <1>3, <1>5 DEF Pending
  <2>3. Expired(rows[i], now)
    BY <1>4, <1>5, <2>1, <2>2, NoneAssumption DEF Expired, Rows
  <2>4. i \in Due(ph)
    BY <1>5, <2>1, <2>3 DEF Due, Homes
  <2>. QED BY <2>1, <2>4
<1>6. Starting(c)
  <2>. HIDE DEF h
  <2>. SUFFICES ASSUME c.kind = "start" PROVE Starting(c)
    BY <1>3 DEF Starting
  <2>1. call[p].from <= now /\ \A i \in c.due : rows[i] # None
    BY <1>3, <1>4 DEF Tracked, Starting
  <2>2. /\ \A home : Pending(call[p], home) => Pending(c, home)
        /\ \A home : Settled(call[p], home) => Settled(c, home)
    BY <1>3, <1>4 DEF Pending, Settled
  <2>3. CASE /\ call[p].phases = <<"age_project", "age_global", "learn">>
             /\ Pending(call[p], "project") /\ Pending(call[p], "global")
    BY <1>3, <1>5, <2>1, <2>2, <2>3 DEF Starting, Homes
  <2>4. CASE /\ call[p].phases = <<"age_global", "learn">>
             /\ Settled(call[p], "project") /\ Pending(call[p], "global")
    BY <1>3, <1>5, <2>1, <2>2, <2>4 DEF Starting, Homes
  <2>5. CASE /\ call[p].phases = <<"learn">>
             /\ Settled(call[p], "project") /\ Settled(call[p], "global")
    BY <1>3, <2>1, <2>2, <2>5 DEF Starting
  <2>. QED BY <1>3, <2>3, <2>4, <2>5 DEF Tracked, Starting
<1>7. Tracked(c)
  <2>1. call[p].kind # "stop"
    BY DEF Tracked, Stopping
  <2>. QED BY <1>3, <1>6, <2>1 DEF Tracked, Placed, Stopping
<1>. QED BY <1>2, <1>7, TrackMovedOnly

LEMMA TrackSweep ==
  ASSUME TypeInv, NEW p \in Procs, Only(p), Consistent, Tracking, Sweep(p)
  PROVE  Tracking'
<1>. /\ call[p] # None /\ call[p] \in Calls /\ call[p].step = "sweep"
     /\ Tracked(call[p]) /\ Honest(call[p]) /\ now \in Nat /\ ProcStep(p)
     /\ rows \in Tables
  BY DEF Sweep, At, TypeInv, TypeOK, Tracking, Consistent, ProcStep
<1>1. PICK i \in Held(p) :
        /\ rows' = [rows EXCEPT ![i] = IF Head(call[p].phases) = "learn"
                                        THEN Learned(call[p].held[i])
                                        ELSE Archive(call[p].held[i])]
        /\ Become(p, [call[p] EXCEPT !.held[i] = None])
  BY DEF Sweep
<1>2. PICK c : c = [call[p] EXCEPT !.held[i] = None]
  OBVIOUS
<1>3. PICK r : r = IF Head(call[p].phases) = "learn"
                     THEN Learned(call[p].held[i]) ELSE Archive(call[p].held[i])
  OBVIOUS
<1>4. /\ i \in Ids /\ rows[i] # None /\ call[p].held[i] = rows[i]
      /\ rows[i] \in Rows /\ call[p].held \in Tables
      /\ call[p].from \in Nat /\ call[p].due \subseteq Ids
  BY DEF Held, Honest, HeldCurrent, Tables, Calls
<1>5. /\ r \in Rows /\ r # None /\ r.home = rows[i].home
      /\ rows[i].imp = "archive" => r.imp = "archive"
      /\ Head(call[p].phases) # "learn" => r.imp = "archive"
  BY <1>3, <1>4, LearnedType, LearnedSays, ArchiveType, ArchiveSays, RowsAreRows DEF Says
<1>6. rows'[i] = r /\ \A j \in Ids : j # i => rows'[j] = rows[j]
  BY <1>1, <1>3, <1>4 DEF Tables
<1>7. /\ c.step = "sweep" /\ c.kind = call[p].kind /\ c.phases = call[p].phases
      /\ c.from = call[p].from /\ c.due = call[p].due
      /\ c.held = [call[p].held EXCEPT ![i] = None]
  BY <1>2 DEF Calls
<1>8. ASSUME NEW home, Settled(call[p], home) PROVE Settled(c, home)'
  BY <1>4, <1>5, <1>6, <1>7, <1>8 DEF Settled
<1>9. ASSUME NEW home, Pending(call[p], home), Head(call[p].phases) # "learn"
      PROVE  Pending(c, home)'
  <2>. SUFFICES ASSUME NEW j \in c.due, rows'[j].home = home
                PROVE  rows'[j].imp = "archive" \/ Expired(rows[j], c.from)'
    BY DEF Pending
  <2>1. CASE j = i
    BY <1>5, <1>6, <1>9, <2>1
  <2>2. CASE j # i
    <3>1. rows'[j] = rows[j]
      BY <1>4, <1>6, <1>7, <2>2
    <3>. QED BY <1>7, <1>9, <3>1 DEF Pending, Expired
  <2>. QED BY <2>1, <2>2
<1>10. ASSUME NEW home, Caught(call[p], home), Head(call[p].phases) # "learn"
       PROVE  Caught(c, home)'
  <2>. SUFFICES ASSUME NEW j \in c.due, rows'[j].home = home, rows'[j].imp # "archive"
                PROVE  c.held[j] # None
    BY DEF Caught
  <2>1. j # i /\ j \in Ids
    BY <1>4, <1>5, <1>6, <1>7, <1>10
  <2>2. call[p].held[j] # None
    BY <1>6, <1>7, <1>10, <2>1 DEF Caught
  <2>. QED BY <1>4, <1>7, <2>1, <2>2 DEF Tables
<1>11. Starting(c)'
  <2>1. now' = now
    BY StepKeeps
  <2>. SUFFICES ASSUME c.kind = "start" PROVE Starting(c)'
    BY <1>7 DEF Starting
  <2>2. c.from <= now'
    BY <1>7, <2>1 DEF Tracked, Starting
  <2>3. \A j \in c.due : rows'[j] # None
    BY <1>4, <1>5, <1>6, <1>7 DEF Tracked, Starting
  <2>4. CASE /\ call[p].phases = <<"age_project", "age_global", "learn">>
             /\ Pending(call[p], "project") /\ Caught(call[p], "project")
             /\ Pending(call[p], "global")
    BY <1>7, <1>9, <1>10, <2>2, <2>3, <2>4 DEF Starting
  <2>5. CASE /\ call[p].phases = <<"age_global", "learn">>
             /\ Settled(call[p], "project")
             /\ Pending(call[p], "global") /\ Caught(call[p], "global")
    BY <1>7, <1>8, <1>9, <1>10, <2>2, <2>3, <2>5 DEF Starting
  <2>6. CASE /\ call[p].phases = <<"learn">>
             /\ Settled(call[p], "project") /\ Settled(call[p], "global")
    BY <1>7, <1>8, <2>2, <2>3, <2>6 DEF Starting
  <2>. QED BY <1>7, <2>4, <2>5, <2>6 DEF Tracked, Starting
<1>12. Tracked(c)'
  <2>1. call[p].kind # "stop"
    BY DEF Tracked, Stopping
  <2>. QED BY <1>7, <1>11, <2>1 DEF Tracked, Placed, Stopping
<1>. QED BY <1>1, <1>2, <1>12, TrackMoved DEF Become

LEMMA TrackSwept ==
  ASSUME TypeInv, NEW p \in Procs, Only(p), Consistent, Tracking, Swept(p)
  PROVE  Tracking'
<1>. /\ call[p] # None /\ call[p] \in Calls /\ call[p].step = "sweep"
     /\ Tracked(call[p]) /\ ProcStep(p) /\ UNCHANGED rows /\ Held(p) = {}
  BY DEF Swept, At, TypeInv, TypeOK, Tracking, ProcStep, store
<1>0. call[p].kind # "stop"
  BY DEF Tracked, Stopping
<1>c. ASSUME NEW home, Caught(call[p], home) PROVE Settled(call[p], home)
  BY <1>c DEF Caught, Settled, Held, Calls
<1>1. CASE /\ Len(call[p].phases) > 1
           /\ Become(p, [call[p] EXCEPT !.step = "load", !.phases = Tail(@)])
  <2>1. PICK c : c = [call[p] EXCEPT !.step = "load", !.phases = Tail(@)]
    OBVIOUS
  <2>2. /\ c.step = "load" /\ c.kind = call[p].kind /\ c.from = call[p].from
        /\ c.phases = Tail(call[p].phases) /\ c.due = call[p].due
    BY <2>1 DEF Calls
  <2>3. Starting(c)
    <3>. SUFFICES ASSUME c.kind = "start" PROVE Starting(c)
      BY <2>2 DEF Starting
    <3>1. call[p].from <= now /\ \A i \in c.due : rows[i] # None
      BY <2>2 DEF Tracked, Starting
    <3>2. /\ \A home : Pending(call[p], home) => Pending(c, home)
          /\ \A home : Settled(call[p], home) => Settled(c, home)
          /\ \A home : Caught(c, home)
      BY <2>2 DEF Pending, Settled, Caught
    <3>3. CASE /\ call[p].phases = <<"age_project", "age_global", "learn">>
               /\ Caught(call[p], "project") /\ Pending(call[p], "global")
      BY <1>c, <2>2, <3>1, <3>2, <3>3 DEF Starting
    <3>4. CASE /\ call[p].phases = <<"age_global", "learn">>
               /\ Settled(call[p], "project") /\ Caught(call[p], "global")
      BY <1>c, <2>2, <3>1, <3>2, <3>4 DEF Starting
    <3>5. CASE call[p].phases = <<"learn">>
      BY <1>1, <3>5
    <3>. QED BY <2>2, <3>3, <3>4, <3>5 DEF Tracked, Starting
  <2>4. Tracked(c)
    BY <1>0, <2>2, <2>3 DEF Tracked, Placed, Stopping
  <2>. QED BY <1>1, <2>1, <2>4, TrackMovedOnly DEF Become
<1>2. CASE End(p)
  BY <1>2, TrackGone DEF End, Become
<1>3. CASE Len(call[p].phases) = 1 /\ call[p].kind = "start" /\ Goto(p, "inject")
  <2>1. PICK c : c = [call[p] EXCEPT !.step = "inject"]
    OBVIOUS
  <2>2. /\ c.step = "inject" /\ c.kind = "start" /\ c.from = call[p].from
        /\ c.phases = call[p].phases /\ c.due = call[p].due
    BY <1>3, <2>1 DEF Calls
  <2>3. Starting(c)
    BY <1>3, <2>2 DEF Tracked, Starting, Settled
  <2>4. Tracked(c)
    BY <2>2, <2>3 DEF Tracked, Placed, Stopping
  <2>. QED BY <1>3, <2>1, <2>4, TrackMovedOnly DEF Goto, Become
<1>. QED BY <1>1, <1>2, <1>3 DEF Swept

LEMMA TrackUse ==
  ASSUME TypeInv, NEW p \in Procs, Only(p), Consistent, Tracking, PutUse(p)
  PROVE  Tracking'
<1>1. /\ call[p] # None /\ call[p] \in Calls /\ call[p].kind = "use" /\ ProcStep(p)
  BY DEF PutUse, At, TypeInv, TypeOK, ProcStep
<1>2. PICK c : c = [call[p] EXCEPT !.step = "log"]
  OBVIOUS
<1>3. c.kind = "use" /\ c.step = "log"
  BY <1>1, <1>2 DEF Calls
<1>4. Tracked(c)'
  BY <1>3 DEF Tracked, Placed, Starting, Stopping
<1>. QED BY <1>1, <1>2, <1>4, TrackMoved DEF PutUse, Goto, Become

------------------------------------------------------------------------------
(* An observation on its way.                                              *)
LEMMA TrackFind ==
  ASSUME TypeInv, NEW p \in Procs, Only(p), Consistent, Tracking, Find(p)
  PROVE  Tracking'
<1>. /\ call[p] # None /\ call[p] \in Calls /\ call[p].step = "find"
     /\ Tracked(call[p]) /\ Honest(call[p]) /\ ProcStep(p) /\ UNCHANGED rows
     /\ call[p].obs \in Observations /\ rows \in Tables
  BY DEF Find, At, TypeInv, TypeOK, CallsShaped, Shaped, Tracking, Consistent, ProcStep,
         store
<1>. DEFINE o == call[p].obs
<1>0. /\ call[p].kind \notin {"use", "start"} /\ call[p].held = Nothing
      /\ o.sup \in Ids \cup {None}
  BY DEF Honest, UseOfOne, Placing, Tracked, Placed, Starting, Observations
<1>s. ASSUME NEW c, c.kind = call[p].kind, c.s = call[p].s, c.drafts = call[p].drafts,
             c.batch = call[p].batch, c.left = call[p].left, c.obs = o, c.step = "put"
      PROVE  Stopping(c) /\ Starting(c)
  BY <1>0, <1>s DEF Tracked, Stopping, Drafted, Starting
<1>m. ASSUME NEW c, Become(p, c), Placed(c), Stopping(c), Starting(c)
      PROVE  Tracking'
  BY <1>m, TrackMovedOnly DEF Become, Tracked
<1>1. CASE \E i \in Old(o), new \in FreeIds :
             Become(p, [call[p] EXCEPT !.step = "old", !.id = new, !.held[i] = rows[i]])
  <2>1. PICK i \in Old(o), new \in FreeIds :
             Become(p, [call[p] EXCEPT !.step = "old", !.id = new, !.held[i] = rows[i]])
    BY <1>1
  <2>2. PICK c : c = [call[p] EXCEPT !.step = "old", !.id = new, !.held[i] = rows[i]]
    OBVIOUS
  <2>3. c.step = "old" /\ c.kind = call[p].kind /\ c.obs = o
    BY <2>2 DEF Calls
  <2>4. call[p].kind # "stop"
    BY NoneAssumption DEF Old, Tracked, Stopping
  <2>. QED BY <1>0, <1>m, <2>1, <2>2, <2>3, <2>4 DEF Placed, Stopping, Starting
<1>2. CASE \E i \in Matches(rows, o) :
             Become(p, [call[p] EXCEPT !.step = "put", !.held[i] = rows[i]])
  <2>1. PICK i \in Matches(rows, o) :
             Become(p, [call[p] EXCEPT !.step = "put", !.held[i] = rows[i]])
    BY <1>2
  <2>2. PICK c : c = [call[p] EXCEPT !.step = "put", !.held[i] = rows[i]]
    OBVIOUS
  <2>3. /\ c.step = "put" /\ c.kind = call[p].kind /\ c.obs = o /\ c.s = call[p].s
        /\ c.drafts = call[p].drafts /\ c.batch = call[p].batch
        /\ c.left = call[p].left /\ c.held = [call[p].held EXCEPT ![i] = rows[i]]
    BY <2>2 DEF Calls
  <2>4. c.held # Nothing
    <3>1. i \in Ids /\ rows[i] # None
      BY DEF Matches
    <3>2. c.held[i] # None
      BY <1>0, <2>3, <3>1 DEF Nothing
    <3>. QED BY <3>1, <3>2 DEF Nothing
  <2>5. Placed(c)
    BY <1>0, <2>3, <2>4 DEF Placed
  <2>. QED BY <1>m, <1>s, <2>1, <2>2, <2>3, <2>5
<1>3. CASE /\ o.sup = None => Matches(rows, o) = {}
           /\ \E new \in FreeIds :
                Become(p, [call[p] EXCEPT !.step = "put", !.id = new])
  <2>1. PICK new \in FreeIds : Become(p, [call[p] EXCEPT !.step = "put", !.id = new])
    BY <1>3
  <2>2. PICK c : c = [call[p] EXCEPT !.step = "put", !.id = new]
    OBVIOUS
  <2>3. /\ c.step = "put" /\ c.kind = call[p].kind /\ c.obs = o /\ c.s = call[p].s
        /\ c.drafts = call[p].drafts /\ c.batch = call[p].batch
        /\ c.left = call[p].left /\ c.id = new
    BY <2>2 DEF Calls
  <2>4. new \in Ids
    BY DEF FreeIds
  <2>5. Placed(c)
    BY <1>0, <1>3, <2>3, <2>4 DEF Placed
  <2>. QED BY <1>m, <1>s, <2>1, <2>2, <2>3, <2>5
<1>. QED BY <1>1, <1>2, <1>3 DEF Find

LEMMA TrackPutOld ==
  ASSUME TypeInv, NEW p \in Procs, Only(p), Consistent, Tracking, PutOld(p)
  PROVE  Tracking'
<1>. /\ call[p] # None /\ call[p] \in Calls /\ call[p].step = "old"
     /\ Tracked(call[p]) /\ Honest(call[p]) /\ ProcStep(p)
  BY DEF PutOld, At, TypeInv, TypeOK, Tracking, Consistent, ProcStep
<1>1. PICK c : c = [call[p] EXCEPT !.step = "put", !.held = Nothing]
  OBVIOUS
<1>2. /\ c.step = "put" /\ c.kind = call[p].kind /\ c.obs = call[p].obs
      /\ c.id = call[p].id
  BY <1>1 DEF Calls
<1>3. /\ call[p].kind \notin {"use", "start", "stop"}
      /\ call[p].id \in Ids
  BY DEF Honest, UseOfOne, Placing, Tracked, Placed, Starting, Stopping
<1>4. call[p].obs.sup # None
  <2>1. PICK i \in Held(p) : TRUE
    BY DEF PutOld
  <2>. QED BY <2>1, NoneAssumption DEF Held, Honest, Placing
<1>5. Tracked(c)'
  BY <1>2, <1>3, <1>4 DEF Tracked, Placed, Starting, Stopping
<1>6. call' = [call EXCEPT ![p] = c]
  BY <1>1 DEF PutOld, Become
<1>. QED BY <1>5, <1>6, TrackMoved

LEMMA TrackPutObs ==
  ASSUME TypeInv, NEW p \in Procs, Only(p), Consistent, Tracking, PutObs(p)
  PROVE  Tracking'
<1>. /\ call[p] # None /\ call[p] \in Calls /\ call[p].step = "put"
     /\ call[p].kind # "use" /\ now \in Nat
     /\ Tracked(call[p]) /\ Honest(call[p]) /\ ProcStep(p) /\ rows \in Tables
     /\ call[p].obs \in Observations
  BY DEF PutObs, At, TypeInv, TypeOK, Tracking, Consistent, ProcStep, CallsShaped, Shaped
<1>. DEFINE o == call[p].obs
<1>1. PICK st \in {"draft", "item"} :
        /\ st = IF call[p].kind = "stop" THEN "draft" ELSE "item"
        /\ Become(p, [call[p] EXCEPT !.step = st, !.held = Nothing, !.obs = None, !.id = None])
  BY DEF PutObs
<1>2. PICK c : c = [call[p] EXCEPT !.step = st, !.held = Nothing, !.obs = None, !.id = None]
  OBVIOUS
<1>3. /\ c.step = st /\ c.kind = call[p].kind /\ c.s = call[p].s
      /\ c.drafts = call[p].drafts /\ c.batch = call[p].batch /\ c.left = call[p].left
  BY <1>2 DEF Calls
<1>t. PICK t : t = o.topic
  OBVIOUS
<1>4. Stored(t)'
  <2>1. ASSUME NEW i \in Held(p), rows' = [rows EXCEPT ![i] = Merge(call[p].held[i], o)]
        PROVE  Stored(t)'
    <3>1. i \in Ids /\ call[p].held[i] \in Rows
      BY DEF Held, Tables, Calls
    <3>2. PICK r \in Rows : r = Merge(call[p].held[i], o) /\ r # None /\ o.topic \in r.links
      BY <3>1, MergeType, MergeSays, RowsAreRows
    <3>3. rows'[i] = r
      BY <2>1, <3>1, <3>2 DEF Tables
    <3>. QED BY <1>t, <3>1, <3>2, <3>3 DEF Stored
  <2>2. ASSUME Held(p) = {}, rows' = [rows EXCEPT ![call[p].id] = Insert(o, now)]
        PROVE  Stored(t)'
    <3>1. call[p].held = Nothing
      BY <2>2 DEF Held, Nothing, Calls, Tables
    <3>2. call[p].id \in Ids
      BY <3>1 DEF Tracked, Placed
    <3>3. PICK r \in Rows : r = Insert(o, now) /\ r # None /\ o.topic \in r.links
      BY InsertType, InsertSays, RowsAreRows
    <3>4. rows'[call[p].id] = r
      BY <2>2, <3>2, <3>3 DEF Tables
    <3>. QED BY <1>t, <3>2, <3>3, <3>4 DEF Stored
  <2>. QED BY <2>1, <2>2 DEF PutObs
<1>5. Stopping(c)'
  <2>. SUFFICES ASSUME c.kind = "stop" PROVE Stopping(c)'
    BY DEF Stopping
  <2>1. /\ c.s \in Sessions /\ Drafted(c)
        /\ \A x \in c.drafts \ c.left : Stored(x) \/ x = o.topic
    BY <1>3 DEF Tracked, Stopping, Drafted
  <2>2. \A x \in c.drafts \ c.left : Stored(x)'
    BY <1>4, <1>t, <2>1, StepKeeps
  <2>. QED BY <1>1, <1>3, <2>1, <2>2 DEF Stopping, Drafted
<1>6. call[p].kind # "start"
  BY DEF Tracked, Starting
<1>7. Tracked(c)'
  BY <1>3, <1>5, <1>6 DEF Tracked, Placed, Starting
<1>8. call' = [call EXCEPT ![p] = c]
  BY <1>1, <1>2 DEF Become
<1>. QED BY <1>7, <1>8, TrackMoved

(* The steps between two observations, and those of a Stop.                *)
LEMMA TrackList ==
  ASSUME TypeInv, NEW p \in Procs, Only(p), Consistent, Tracking,
         NextItem(p) \/ LastItem(p) \/ Note(p) \/ Extract(p) \/ Draft(p)
  PROVE  Tracking'
<1>. /\ call[p] # None /\ call[p] \in Calls /\ Tracked(call[p]) /\ ProcStep(p)
     /\ UNCHANGED rows
  BY DEF NextItem, LastItem, Note, Extract, Draft, At, TypeInv, TypeOK, Tracking,
         ProcStep, store
<1>m. ASSUME NEW c, Become(p, c), Tracked(c) PROVE Tracking'
  BY <1>m, TrackMovedOnly DEF Become
<1>g. ASSUME NEW st \in {"note", "mark"}, Goto(p, st), call[p].kind \notin {"start", "stop"}
      PROVE  Tracking'
  <2>1. PICK c : c = [call[p] EXCEPT !.step = st]
    OBVIOUS
  <2>2. c.step = st /\ c.kind = call[p].kind
    BY <2>1 DEF Calls
  <2>3. Tracked(c)
    BY <1>g, <2>2 DEF Tracked, Placed, Starting, Stopping
  <2>. QED BY <1>g, <1>m, <2>1, <2>3 DEF Goto
<1>1. CASE NextItem(p)
  <2>1. PICK o \in Reports : Become(p, [call[p] EXCEPT !.step = "find", !.obs = o])
    BY <1>1 DEF NextItem
  <2>2. PICK c : c = [call[p] EXCEPT !.step = "find", !.obs = o]
    OBVIOUS
  <2>3. c.step = "find" /\ c.kind = call[p].kind /\ c.obs = o
    BY <2>2 DEF Calls
  <2>4. call[p].kind \notin {"start", "stop"}
    BY <1>1 DEF NextItem, At, Tracked, Starting, Stopping
  <2>5. Tracked(c)
    BY <2>3, <2>4 DEF Tracked, Placed, Starting, Stopping
  <2>. QED BY <1>m, <2>1, <2>2, <2>5
<1>2. CASE LastItem(p)
  <2>1. CASE End(p)
    BY <2>1, TrackGone DEF End, Become
  <2>2. CASE Goto(p, "note")
    BY <1>2, <1>g, <2>2 DEF LastItem, At, Tracked, Starting, Stopping
  <2>. QED BY <1>2, <2>1, <2>2 DEF LastItem
<1>3. CASE Note(p)
  BY <1>3, <1>g DEF Note, At, Tracked, Starting, Stopping
<1>4. CASE Extract(p)
  <2>1. PICK D \in Drafts(call[p].batch) :
          Become(p, [call[p] EXCEPT !.step = "draft", !.drafts = D, !.left = D])
    BY <1>4 DEF Extract
  <2>2. PICK c : c = [call[p] EXCEPT !.step = "draft", !.drafts = D, !.left = D]
    OBVIOUS
  <2>3. /\ c.step = "draft" /\ c.kind = call[p].kind /\ c.s = call[p].s
        /\ c.drafts = D /\ c.left = D /\ c.batch = call[p].batch
    BY <2>2 DEF Calls
  <2>4. Drafted(c)
    <3>1. CASE Tier3
      <4>1. Drafts(call[p].batch) = {Floor[call[p].batch]} \cup ((SUBSET Topics) \ {{}})
        BY <3>1 DEF Drafts
      <4>2. D = Floor[call[p].batch] \/ D # {}
        BY <4>1
      <4>3. c.drafts = Floor[c.batch] \/ c.drafts # {}
        BY <2>3, <4>2
      <4>. QED BY <3>1, <4>3, Zenon DEF Drafted
    <3>2. CASE ~Tier3
      BY <2>3, <3>2 DEF Drafted, Drafts
    <3>. QED BY <3>1, <3>2
  <2>5. call[p].kind # "start"
    BY <1>4 DEF Extract, At, Tracked, Starting
  <2>6. Tracked(c)
    BY <2>3, <2>4, <2>5 DEF Tracked, Placed, Starting, Stopping
  <2>. QED BY <1>m, <2>1, <2>2, <2>6
<1>5. CASE Draft(p)
  <2>0. call[p].step = "draft" /\ call[p].kind # "start"
    BY <1>5 DEF Draft, At, Tracked, Starting
  <2>1. ASSUME NEW t \in call[p].left,
               Become(p, [call[p] EXCEPT
                 !.step = "find", !.left = @ \ {t},
                 !.obs = [topic |-> t, home |-> "project", proj |-> Own,
                          imp |-> "low", sup |-> None]])
        PROVE  Tracking'
    <3>1. PICK o : o = [topic |-> t, home |-> "project", proj |-> Own, imp |-> "low",
                        sup |-> None]
      OBVIOUS
    <3>2. PICK c : c = [call[p] EXCEPT !.step = "find", !.left = @ \ {t}, !.obs = o]
      OBVIOUS
    <3>3. /\ c.step = "find" /\ c.kind = call[p].kind /\ c.s = call[p].s
          /\ c.drafts = call[p].drafts /\ c.left = call[p].left \ {t}
          /\ c.batch = call[p].batch /\ c.obs = o
      BY <3>2 DEF Calls
    <3>4. o.sup = None /\ o.topic = t
      BY <3>1
    <3>5. Stopping(c)
      BY <2>0, <3>3, <3>4 DEF Tracked, Stopping, Drafted
    <3>6. Tracked(c)
      BY <2>0, <3>3, <3>4, <3>5 DEF Tracked, Placed, Starting
    <3>. QED BY <1>m, <2>1, <3>1, <3>2, <3>6
  <2>2. ASSUME call[p].left = {}, Goto(p, "mark") PROVE Tracking'
    <3>1. PICK c : c = [call[p] EXCEPT !.step = "mark"]
      OBVIOUS
    <3>2. /\ c.step = "mark" /\ c.kind = call[p].kind /\ c.s = call[p].s
          /\ c.drafts = call[p].drafts /\ c.batch = call[p].batch
      BY <3>1 DEF Calls
    <3>3. Stopping(c)
      BY <2>0, <2>2, <3>2 DEF Tracked, Stopping, Drafted
    <3>4. Tracked(c)
      BY <2>0, <3>2, <3>3 DEF Tracked, Placed, Starting
    <3>. QED BY <1>m, <2>2, <3>1, <3>4 DEF Goto
  <2>. QED BY <1>5, <2>1, <2>2 DEF Draft
<1>. QED BY <1>1, <1>2, <1>3, <1>4, <1>5

------------------------------------------------------------------------------
LEMMA TrackStep ==
  TypeInv /\ SerialInv /\ StoreInv /\ TrackInv /\ [Next]_vars => TrackInv'
<1>. SUFFICES ASSUME TypeInv, SerialInv, StoreInv, TrackInv, [Next]_vars, ~overlapped'
              PROVE  Tracking'
  BY DEF TrackInv
<1>1. ASSUME NEW p \in Procs, ProcStep(p) PROVE Tracking'
  <2>1. Only(p) /\ Consistent /\ Tracking
    BY <1>1, OnlyMover DEF StoreInv, TrackInv
  <2>. QED BY <1>1, <2>1, TrackBegin, TrackEnd, TrackLoad, TrackSweep, TrackSwept,
              TrackUse, TrackFind, TrackPutOld, TrackPutObs, TrackList DEF ProcStep
<1>2. CASE Around
  <2>1. UNCHANGED <<rows, call, overlapped>>
    BY <1>2 DEF Around, RecordEvent, Tick, vars, store, world
  <2>2. Tracking
    BY <2>1 DEF TrackInv
  <2>3. now \in Nat /\ sess \in [Sessions -> [open : BOOLEAN, distilled : BOOLEAN, blocked : BOOLEAN]]
    BY DEF TypeInv, TypeOK
  <2>4. now' \in Nat /\ now <= now'
    BY <1>2, <2>3 DEF Around, RecordEvent, Tick, vars, world
  <2>5. \A s \in Sessions : sess[s].distilled => sess'[s].distilled
    BY <1>2, <2>3 DEF Around, RecordEvent, Opened, Tick, vars, capture
  <2>6. ASSUME NEW p \in Procs, call'[p] # None PROVE Tracked(call[p])'
    <3>1. PICK c : c = call[p]
      OBVIOUS
    <3>2. Tracked(c) /\ call'[p] = c /\ c \in Calls
      BY <2>1, <2>2, <2>6, <3>1 DEF Tracking, TypeInv, TypeOK
    <3>3. Placed(c)'
      BY <2>1, <3>2 DEF Tracked, Placed, Matches
    <3>4. Starting(c)'
      <4>1. c.from \in Nat /\ (c.from <= now => c.from <= now')
        BY <2>3, <2>4, <3>2 DEF Calls
      <4>. QED BY <2>1, <3>2, <4>1 DEF Tracked, Starting, Settled, Pending, Caught
    <3>5. Stopping(c)'
      BY <2>1, <2>5, <3>2 DEF Tracked, Stopping, Drafted, Stored
    <3>6. Tracked(c)'
      BY <3>3, <3>4, <3>5 DEF Tracked
    <3>. QED BY <3>2, <3>6 DEF Tracked, Placed, Starting, Settled, Pending, Caught,
                              Stopping, Drafted
  <2>. QED BY <2>6 DEF Tracking
<1>. QED BY <1>1, <1>2, NextParts

LEMMA TrackInit == Init => TrackInv
BY DEF Init, TrackInv, Tracking

(* The context a session starts with holds no row that had expired when    *)
(* the session start began: both databases are aged before it is put       *)
(* together, and learning, which comes in between, brings nothing back.    *)
THEOREM ContextCorrect == Spec => []InjectsNothingExpired
<1>1. TypeInv /\ TrackInv => InjectsNothingExpired
  <2>. SUFFICES ASSUME TypeInv, Tracking, NEW p \in Procs, At(p, "inject"),
                       NEW i \in Context, i \in call[p].due
                PROVE  FALSE
    BY DEF TrackInv, InjectsNothingExpired
  <2>1. Settled(call[p], "project") /\ Settled(call[p], "global") /\ rows[i] # None
    BY DEF At, Tracking, Tracked, Starting
  <2>2. call[p] \in Calls
    BY DEF At, TypeInv, TypeOK
  <2>3. rows[i] \in Rows
    BY <2>1, <2>2 DEF TypeInv, TypeOK, Tables, Calls
  <2>4. rows[i].home \in {"project", "global"}
    BY <2>3 DEF Rows, Homes
  <2>. QED BY <2>1, <2>4 DEF Settled, Context
<1>. QED BY TypeInit, TypeStep, GateInit, SerialStep, StoreInit, StoreStep, TrackInit,
            TrackStep, <1>1, PTL DEF Spec

(* A Stop that forgets the events of a session that distilled nothing has  *)
(* stored what the floor rules or the worker made of those it has read,    *)
(* merged or new, wherever an earlier Stop died, whatever profile earlier  *)
(* hooks found, and though rows are used, archived and superseded          *)
(* meanwhile.                                                              *)
THEOREM FloorCorrect == Spec => FloorBeforeForget
<1>. DEFINE A == \A p \in Procs :
       /\ At(p, "mark") /\ call[p].kind = "stop" /\ deaths' = deaths
       /\ call'[p] = None
       /\ ~sess[call[p].s].distilled
       /\ Cardinality(call[p].batch) >= MinEvents
       => \/ overlapped
          \/ /\ \A t \in call[p].drafts : Stored(t)
             /\ \/ call[p].drafts = Floor[call[p].batch]
                \/ Tier3 /\ call[p].drafts # {}
<1>1. TrackInv => A
  <2>. SUFFICES ASSUME Tracking, NEW p \in Procs, At(p, "mark"), call[p].kind = "stop",
                       ~sess[call[p].s].distilled,
                       Cardinality(call[p].batch) >= MinEvents
                PROVE  /\ \A t \in call[p].drafts : Stored(t)
                       /\ Drafted(call[p])
    BY DEF TrackInv, Drafted
  <2>. QED BY DEF At, Tracking, Tracked, Stopping
<1>. QED BY TypeInit, TypeStep, GateInit, SerialStep, StoreInit, StoreStep, TrackInit,
            TrackStep, <1>1, PTL DEF Spec, FloorBeforeForget

(* upsert() stores nothing as new that is near to a live row of its        *)
(* database and project (any, for what names none), as that row is by then,*)
(* with every link it has collected.                                       *)
THEOREM TwinCorrect == Spec => InsertsNoTwin
<1>. DEFINE A == \A i, j \in Ids :
       /\ rows[i] = None /\ rows'[i] # None /\ rows'[i].sup = None
       /\ rows[j] # None /\ rows[j].by = None
       /\ rows[j].home = rows'[i].home
       /\ rows'[i].proj \in {"", rows[j].proj}
       => overlapped \/ <<Subject(rows[j]), Subject(rows'[i])>> \notin Near
<1>1. TypeInv /\ StoreInv /\ TrackInv /\ [Next]_vars => A
  <2>. SUFFICES ASSUME TypeInv, Consistent, Tracking, [Next]_vars, NEW i \in Ids, NEW j \in Ids,
                       rows[i] = None, rows'[i] # None, rows'[i].sup = None,
                       rows[j] # None, rows[j].by = None, rows[j].home = rows'[i].home,
                       rows'[i].proj \in {"", rows[j].proj}
                PROVE  <<Subject(rows[j]), Subject(rows'[i])>> \notin Near
    BY DEF StoreInv, TrackInv
  <2>. rows \in Tables /\ now \in Nat
    BY DEF TypeInv, TypeOK
  <2>1. ASSUME Around PROVE FALSE
    BY <2>1 DEF Around, RecordEvent, Tick, vars, store
  <2>2. PICK p \in Procs : ProcStep(p)
    BY <2>1, NextParts
  <2>3. Inserts(p)
    <3>1. ASSUME Rewrites PROVE FALSE
      BY <3>1 DEF Rewrites, Tables
    <3>. QED BY <2>2, <3>1, RowChanges
  <2>. DEFINE o == call[p].obs
  <2>4. /\ call[p] # None /\ call[p] \in Calls /\ call[p].step = "put"
        /\ call[p].kind # "use" /\ Tracked(call[p]) /\ o \in Observations
    BY <2>3 DEF Inserts, PutObs, At, TypeInv, TypeOK, Tracking
  <2>5. call[p].held = Nothing
    BY <2>3, <2>4 DEF Inserts, Held, Nothing, Calls, Tables
  <2>6. call[p].id \in Ids /\ (o.sup = None => Matches(rows, o) = {})
    BY <2>4, <2>5 DEF Tracked, Placed
  <2>7. i = call[p].id /\ rows'[i] = Insert(o, now)
    BY <2>3, <2>6 DEF Inserts, Tables
  <2>8. /\ Subject(rows'[i]) = NewSubject(o)
        /\ rows'[i].home = o.home /\ rows'[i].proj = o.proj /\ rows'[i].sup = o.sup
    BY <2>4, <2>7, InsertSays
  <2>. QED BY <2>6, <2>8 DEF Matches, Listed
<1>. QED BY TypeInit, TypeStep, GateInit, SerialStep, StoreInit, StoreStep, TrackInit,
            TrackStep, <1>1, PTL DEF Spec, InsertsNoTwin
===============================================================================
