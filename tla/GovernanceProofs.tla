-------------------------- MODULE GovernanceProofs --------------------------
(***************************************************************************)
(* Proofs about module Governance, for any registries, agents, tokens,     *)
(* events, configurations and number of calls.                             *)
(***************************************************************************)
EXTENDS Governance, TLAPS

Kinds == {"none", "mint_elevation", "allowed", "allowed_elevated", "denied"}

(* Only a minted or spent token is named in a line.                        *)
Lines ==
  {l \in [event : Kinds, agent : Agent \cup {Boss}, cap : Elevated \cup Plain \cup {"none"},
          token : Token \cup {NoToken}] :
     l.event \in {"mint_elevation", "allowed_elevated"} <=> l.token # NoToken}

Typed ==
  /\ minted \subseteq Token /\ known \subseteq minted
  /\ call \in [Registry -> [phase : {"none", "audit", "return"}, line : Lines, fine : BOOLEAN]]
  /\ audit \in Seq(Lines) /\ passed \in Seq(Lines)

Records == [cap : Elevated, agent : Agent, used : BOOLEAN]

(* A token is in the memory of the one registry that minted it.            *)
Memory ==
  /\ tokens \in [Registry -> UNION {[D -> Records] : D \in SUBSET Token}]
  /\ \A r \in Registry : DOMAIN tokens[r] \subseteq minted
  /\ \A r, s \in Registry : \A t \in DOMAIN tokens[r] \cap DOMAIN tokens[s] : r = s

MintLine(t, agent, cap) ==
  \E m \in DOMAIN audit : audit[m] = Line("mint_elevation", agent, cap, t)

(* A token that was handed out has its line.                               *)
KnownMinted ==
  \A r \in Registry : \A t \in DOMAIN tokens[r] :
    t \in known => MintLine(t, tokens[r][t].agent, tokens[r][t].cap)

Busy(r, kind) == call[r].phase # "none" /\ call[r].line.event = kind

MintUnderWay ==
  \A r \in Registry : Busy(r, "mint_elevation") =>
    LET l == call[r].line IN
      /\ l.token \in DOMAIN tokens[r] /\ l.token \notin known
      /\ tokens[r][l.token].agent = l.agent /\ tokens[r][l.token].cap = l.cap

(* A token being spent is marked, its line of birth is there, and nothing  *)
(* has passed with it.                                                     *)
SpendUnderWay ==
  \A r \in Registry : Busy(r, "allowed_elevated") =>
    LET l == call[r].line IN
      /\ l.token \in DOMAIN tokens[r] /\ tokens[r][l.token].used
      /\ MintLine(l.token, l.agent, l.cap)
      /\ \A j \in DOMAIN passed : passed[j].token # l.token

Written(l) ==
  \E n \in DOMAIN audit :
    /\ audit[n] = l
    /\ l.event = "allowed_elevated" =>
         \E m \in DOMAIN audit :
           m < n /\ audit[m] = Line("mint_elevation", l.agent, l.cap, l.token)

ReturnsWritten == \A r \in Registry : call[r].phase = "return" => Written(call[r].line)

(* What has passed is written, and its token is spent for good.            *)
PassedSpent ==
  \A j \in DOMAIN passed :
    /\ passed[j].event \in {"allowed", "allowed_elevated"} /\ Written(passed[j])
    /\ passed[j].token # NoToken =>
         /\ passed[j].token \in minted
         /\ \A r \in Registry :
              passed[j].token \in DOMAIN tokens[r] => tokens[r][passed[j].token].used

PassedOnce ==
  \A i, j \in DOMAIN passed :
    passed[i].token # NoToken /\ passed[i].token = passed[j].token => i = j

Trail ==
  /\ Typed /\ Memory /\ KnownMinted /\ MintUnderWay /\ SpendUnderWay
  /\ ReturnsWritten /\ PassedSpent /\ PassedOnce

------------------------------------------------------------------------------
LEMMA TrailAccounts == Trail => ChecksAccounted
<1>. SUFFICES ASSUME Trail, NEW i \in DOMAIN passed
     PROVE LET line == passed[i] IN
      /\ \E n \in DOMAIN audit : audit[n] = line
      /\ line.event = "allowed_elevated" =>
           /\ \A j \in DOMAIN passed : passed[j].token = line.token => j = i
           /\ \E m, n \in DOMAIN audit :
                /\ m < n /\ audit[n] = line
                /\ audit[m] = Line("mint_elevation", line.agent, line.cap, line.token)
  BY DEF ChecksAccounted
<1>1. passed[i] \in Lines /\ Written(passed[i])
  BY DEF Trail, Typed, PassedSpent
<1>. QED
  BY <1>1 DEF Trail, PassedOnce, Written, Lines

LEMMA TrailInit == Init => Trail
<1>. SUFFICES ASSUME Init PROVE Trail
  OBVIOUS
<1>. USE DEF Init
<1>1. NoCall \in [phase : {"none", "audit", "return"}, line : Lines, fine : BOOLEAN]
  BY DEF NoCall, Line, Lines, Kinds
<1>2. Typed
  BY <1>1 DEF Typed
<1>3. Memory
  BY DEF Memory
<1>. QED
  BY <1>2, <1>3 DEF Trail, KnownMinted, MintUnderWay, SpendUnderWay, ReturnsWritten, PassedSpent,
     PassedOnce, Busy, NoCall

LEMMA MemoryOf ==
  ASSUME Memory, NEW r \in Registry
  PROVE  tokens[r] \in [DOMAIN tokens[r] -> Records] /\ DOMAIN tokens[r] \subseteq Token
<1>1. tokens[r] \in UNION {[D -> Records] : D \in SUBSET Token}
  BY DEF Memory
<1>2. PICK D \in SUBSET Token : tokens[r] \in [D -> Records]
  BY <1>1
<1>. QED
  BY <1>2

(* A call that only adds a line without a token, as refusals do.           *)
LEMMA EnterPlain ==
  ASSUME Trail, NEW r \in Registry, NEW l \in Lines, NEW fine \in BOOLEAN,
         l.token = NoToken, Enter(r, l, fine), UNCHANGED memory
  PROVE  Trail'
<1>. USE GovernanceAssumption DEF Trail, Enter, memory
<1>1. Typed'
  BY DEF Typed
<1>2. Memory'
  BY DEF Memory
<1>3. ~Busy(r, "mint_elevation")' /\ ~Busy(r, "allowed_elevated")' /\ call'[r].phase # "return"
  BY DEF Typed, Busy, Lines
<1>4. \A s \in Registry : s # r => call'[s] = call[s]
  BY DEF Typed
<1>5. KnownMinted' /\ PassedSpent' /\ PassedOnce'
  BY DEF KnownMinted, MintLine, PassedSpent, PassedOnce, Written
<1>6. MintUnderWay' /\ SpendUnderWay'
  <2>1. MintUnderWay'
    BY <1>3, <1>4 DEF MintUnderWay, Busy
  <2>2. SpendUnderWay'
    BY <1>3, <1>4 DEF SpendUnderWay, Busy, MintLine
  <2>. QED BY <2>1, <2>2
<1>7. ReturnsWritten'
  BY <1>3, <1>4 DEF ReturnsWritten, Written
<1>. QED
  BY <1>1, <1>2, <1>5, <1>6, <1>7

LEMMA MintKeeps ==
  ASSUME Trail, NEW r \in Registry, NEW agent \in Agent, NEW cap \in Elevated, Mint(r, agent, cap)
  PROVE  Trail'
<1>. DEFINE l(t) == Line("mint_elevation", agent, cap, t)
<1>1. PICK t \in Token \ minted :
        /\ Enter(r, l(t), TRUE)
        /\ minted' = minted \cup {t}
        /\ tokens' = [tokens EXCEPT ![r] =
             [x \in DOMAIN @ \cup {t} |->
                IF x = t THEN [cap |-> cap, agent |-> agent, used |-> FALSE] ELSE @[x]]]
  BY DEF Mint, NewToken
<1>2. l(t) \in Lines /\ l(t).token = t /\ l(t).event = "mint_elevation"
        /\ l(t).agent = agent /\ l(t).cap = cap
  BY GovernanceAssumption DEF Lines, Line, Kinds
<1>. USE DEF Trail
<1>. HIDE DEF l
<1>3. Typed'
  BY <1>1, <1>2 DEF Typed, Enter
<1>4. /\ \A s \in Registry : s # r => tokens'[s] = tokens[s] /\ call'[s] = call[s]
      /\ DOMAIN tokens'[r] = DOMAIN tokens[r] \cup {t}
      /\ tokens'[r][t] = [cap |-> cap, agent |-> agent, used |-> FALSE]
      /\ \A x \in DOMAIN tokens[r] : x # t => tokens'[r][x] = tokens[r][x]
  BY <1>1 DEF Memory, Typed, Enter
<1>5. \A s \in Registry : t \notin DOMAIN tokens[s]
  BY <1>1 DEF Memory
<1>6. Memory'
  <2>1. tokens'[r] \in [DOMAIN tokens[r] \cup {t} -> Records]
    <3>1. tokens'[r] = [x \in DOMAIN tokens[r] \cup {t} |->
            IF x = t THEN [cap |-> cap, agent |-> agent, used |-> FALSE] ELSE tokens[r][x]]
      BY <1>1 DEF Memory
    <3>2. \A x \in DOMAIN tokens[r] : tokens[r][x] \in Records
      BY MemoryOf
    <3>3. [cap |-> cap, agent |-> agent, used |-> FALSE] \in Records
      BY DEF Records
    <3>. QED
      BY <3>1, <3>2, <3>3
  <2>2. tokens' \in [Registry -> UNION {[D -> Records] : D \in SUBSET Token}]
    <3>1. (DOMAIN tokens[r] \cup {t}) \in SUBSET Token
      BY <1>1 DEF Memory, Typed
    <3>2. \A s \in Registry : tokens'[s] \in UNION {[D -> Records] : D \in SUBSET Token}
      BY <1>4, <2>1, <3>1 DEF Memory
    <3>. QED
      BY <1>1, <3>2 DEF Memory
  <2>3. \A s \in Registry : DOMAIN tokens'[s] \subseteq minted'
    BY <1>1, <1>4 DEF Memory
  <2>. QED
    BY <2>2, <2>3, <1>4, <1>5 DEF Memory
<1>7. UNCHANGED <<known, audit, passed>>
  BY <1>1 DEF Enter
<1>8. KnownMinted'
  BY <1>1, <1>4, <1>7 DEF KnownMinted, MintLine, Typed
<1>9. call'[r].phase = "audit" /\ call'[r].line = l(t)
  BY <1>1 DEF Enter, Typed
<1>10. MintUnderWay'
  <2>. SUFFICES ASSUME NEW s \in Registry, Busy(s, "mint_elevation")'
       PROVE (LET k == call[s].line IN
                /\ k.token \in DOMAIN tokens[s] /\ k.token \notin known
                /\ tokens[s][k.token].agent = k.agent /\ tokens[s][k.token].cap = k.cap)'
    BY DEF MintUnderWay
  <2>1. CASE s = r
    BY <2>1, <1>1, <1>2, <1>4, <1>7, <1>9 DEF Typed
  <2>2. CASE s # r
    BY <2>2, <1>4, <1>7 DEF MintUnderWay, Busy
  <2>. QED
    BY <2>1, <2>2
<1>11. SpendUnderWay'
  <2>. SUFFICES ASSUME NEW s \in Registry, Busy(s, "allowed_elevated")'
       PROVE (LET k == call[s].line IN
                /\ k.token \in DOMAIN tokens[s] /\ tokens[s][k.token].used
                /\ MintLine(k.token, k.agent, k.cap)
                /\ \A j \in DOMAIN passed : passed[j].token # k.token)'
    BY DEF SpendUnderWay
  <2>1. s # r
    BY <1>2, <1>9 DEF Busy
  <2>. QED
    BY <2>1, <1>4, <1>7 DEF SpendUnderWay, Busy, MintLine
<1>12. ReturnsWritten'
  BY <1>4, <1>7, <1>9 DEF ReturnsWritten, Written
<1>13. PassedSpent' /\ PassedOnce'
  BY <1>1, <1>4, <1>7 DEF PassedSpent, PassedOnce, Written
<1>. QED
  BY <1>3, <1>6, <1>8, <1>10, <1>11, <1>12, <1>13

LEMMA SpendKeeps ==
  ASSUME Trail, NEW r \in Registry, NEW agent \in Agent, NEW cap \in Elevated,
         NEW t \in known \cup {NoToken, Unminted}, Spend(r, agent, cap, t)
  PROVE  Trail'
<1>. DEFINE l == Line("allowed_elevated", agent, cap, t)
<1>. USE DEF Trail
<1>1. /\ t \in DOMAIN tokens[r] /\ ~tokens[r][t].used
      /\ tokens[r][t].cap = cap /\ tokens[r][t].agent = agent
      /\ tokens' = [tokens EXCEPT ![r][t].used = TRUE] /\ UNCHANGED minted
      /\ Enter(r, l, TRUE)
  BY DEF Spend, Good
<1>2. t \in Token /\ t \in known /\ t # NoToken /\ tokens[r] \in [DOMAIN tokens[r] -> Records]
  BY <1>1, MemoryOf, GovernanceAssumption
<1>3. /\ l \in Lines /\ l.token = t /\ l.event = "allowed_elevated"
      /\ l.agent = agent /\ l.cap = cap
  BY <1>2, GovernanceAssumption DEF Lines, Line, Kinds
<1>. HIDE DEF l
<1>4. Typed'
  BY <1>1, <1>3 DEF Typed, Enter
<1>5. /\ \A s \in Registry : s # r => tokens'[s] = tokens[s] /\ call'[s] = call[s]
      /\ tokens'[r] = [tokens[r] EXCEPT ![t].used = TRUE]
      /\ call'[r].phase = "audit" /\ call'[r].line = l
      /\ UNCHANGED <<known, audit, passed>>
  BY <1>1 DEF Memory, Typed, Enter
<1>6. /\ tokens'[r] \in [DOMAIN tokens[r] -> Records]
      /\ DOMAIN tokens'[r] = DOMAIN tokens[r]
      /\ tokens'[r][t].used /\ tokens'[r][t].agent = agent /\ tokens'[r][t].cap = cap
      /\ \A x \in DOMAIN tokens[r] : x # t => tokens'[r][x] = tokens[r][x]
  <2>1. tokens'[r] = [x \in DOMAIN tokens[r] |->
                        IF x = t THEN [tokens[r][t] EXCEPT !.used = TRUE] ELSE tokens[r][x]]
    BY <1>1, <1>5
  <2>2. tokens[r][t] \in Records
    BY <1>1, <1>2
  <2>3. /\ [tokens[r][t] EXCEPT !.used = TRUE] \in Records
        /\ [tokens[r][t] EXCEPT !.used = TRUE].used
        /\ [tokens[r][t] EXCEPT !.used = TRUE].agent = agent
        /\ [tokens[r][t] EXCEPT !.used = TRUE].cap = cap
    BY <1>1, <2>2 DEF Records
  <2>. DEFINE spent == [tokens[r][t] EXCEPT !.used = TRUE]
  <2>4. /\ tokens'[r] = [x \in DOMAIN tokens[r] |-> IF x = t THEN spent ELSE tokens[r][x]]
        /\ spent \in Records /\ spent.used /\ spent.agent = agent /\ spent.cap = cap
    BY <2>1, <2>3
  <2>5. \A x \in DOMAIN tokens[r] : tokens[r][x] \in Records
    BY <1>2
  <2>. HIDE DEF spent
  <2>6. tokens'[r] \in [DOMAIN tokens[r] -> Records] /\ DOMAIN tokens'[r] = DOMAIN tokens[r]
    BY <2>4, <2>5
  <2>7. tokens'[r][t] = spent /\ \A x \in DOMAIN tokens[r] : x # t => tokens'[r][x] = tokens[r][x]
    BY <1>1, <2>4
  <2>. QED
    BY <2>4, <2>6, <2>7
<1>7. \A s \in Registry : s # r => t \notin DOMAIN tokens[s]
  BY <1>1 DEF Memory
<1>8. Memory'
  <2>1. \A s \in Registry : tokens'[s] \in UNION {[D -> Records] : D \in SUBSET Token}
    <3>1. \A s \in Registry : s # r => tokens'[s] \in UNION {[D -> Records] : D \in SUBSET Token}
      BY <1>5 DEF Memory
    <3>2. tokens'[r] \in UNION {[D -> Records] : D \in SUBSET Token}
      BY <1>6, MemoryOf
    <3>. QED BY <3>1, <3>2
  <2>2. \A s \in Registry : DOMAIN tokens'[s] = DOMAIN tokens[s]
    BY <1>5, <1>6
  <2>. QED
    BY <1>1, <2>1, <2>2 DEF Memory
<1>9. KnownMinted'
  BY <1>1, <1>5, <1>6 DEF KnownMinted, MintLine
<1>10. MintLine(t, agent, cap)
  BY <1>1, <1>2 DEF KnownMinted
<1>11. \A j \in DOMAIN passed : passed[j].token # t
  BY <1>1, <1>2 DEF PassedSpent
<1>12. MintUnderWay'
  <2>. SUFFICES ASSUME NEW s \in Registry, Busy(s, "mint_elevation")'
       PROVE (LET k == call[s].line IN
                /\ k.token \in DOMAIN tokens[s] /\ k.token \notin known
                /\ tokens[s][k.token].agent = k.agent /\ tokens[s][k.token].cap = k.cap)'
    BY DEF MintUnderWay
  <2>1. s # r
    BY <1>3, <1>5 DEF Busy
  <2>. QED
    BY <2>1, <1>5 DEF MintUnderWay, Busy
<1>13. SpendUnderWay'
  <2>. SUFFICES ASSUME NEW s \in Registry, Busy(s, "allowed_elevated")'
       PROVE (LET k == call[s].line IN
                /\ k.token \in DOMAIN tokens[s] /\ tokens[s][k.token].used
                /\ MintLine(k.token, k.agent, k.cap)
                /\ \A j \in DOMAIN passed : passed[j].token # k.token)'
    BY DEF SpendUnderWay
  <2>1. CASE s = r
    BY <2>1, <1>1, <1>3, <1>5, <1>6, <1>10, <1>11 DEF MintLine
  <2>2. CASE s # r
    BY <2>2, <1>5 DEF SpendUnderWay, Busy, MintLine
  <2>. QED
    BY <2>1, <2>2
<1>14. ReturnsWritten'
  BY <1>5 DEF ReturnsWritten, Written
<1>15. PassedSpent' /\ PassedOnce'
  BY <1>1, <1>5, <1>6 DEF PassedSpent, PassedOnce, Written
<1>. QED
  BY <1>4, <1>8, <1>9, <1>12, <1>13, <1>14, <1>15

LEMMA AppendKeeps ==
  ASSUME Trail, NEW r \in Registry, Append_(r)
  PROVE  Trail'
<1>. DEFINE l == call[r].line
<1>. USE DEF Trail
<1>1. /\ call[r].phase = "audit" /\ audit' = Append(audit, l)
      /\ call' = [call EXCEPT ![r].phase = "return"]
      /\ UNCHANGED <<memory, known, passed>>
  BY DEF Append_
<1>2. l \in Lines /\ audit \in Seq(Lines)
  BY DEF Typed
<1>3. /\ \A s \in Registry : s # r => call'[s] = call[s]
      /\ call'[r].line = l /\ call'[r].phase = "return"
      /\ \A s \in Registry : call'[s].line = call[s].line
      /\ \A s \in Registry : call'[s].phase # "none" <=> call[s].phase # "none"
  BY <1>1 DEF Typed
<1>4. Typed'
  BY <1>1, <1>2 DEF Typed, memory
<1>5. /\ \A n \in DOMAIN audit : n \in DOMAIN audit' /\ audit'[n] = audit[n] /\ n < Len(audit) + 1
      /\ Len(audit) + 1 \in DOMAIN audit' /\ audit'[Len(audit) + 1] = l
  BY <1>1, <1>2
<1>6. \A t, a, c : MintLine(t, a, c) => MintLine(t, a, c)'
  BY <1>5 DEF MintLine
<1>7. \A x : Written(x) => Written(x)'
  BY <1>5 DEF Written
<1>8. Memory'
  BY <1>1 DEF Memory, memory
<1>9. KnownMinted' /\ MintUnderWay' /\ SpendUnderWay'
  <2>1. KnownMinted'
    BY <1>1, <1>6 DEF KnownMinted, memory
  <2>2. MintUnderWay'
    BY <1>1, <1>3 DEF MintUnderWay, Busy, memory
  <2>3. SpendUnderWay'
    BY <1>1, <1>3, <1>6 DEF SpendUnderWay, Busy, memory
  <2>. QED BY <2>1, <2>2, <2>3
<1>10. Written(l)'
  <2>1. CASE l.event = "allowed_elevated"
    <3>1. MintLine(l.token, l.agent, l.cap)
      BY <2>1, <1>1 DEF SpendUnderWay, Busy
    <3>2. PICK m \in DOMAIN audit : audit[m] = Line("mint_elevation", l.agent, l.cap, l.token)
      BY <3>1 DEF MintLine
    <3>. QED
      BY <3>2, <1>3, <1>5 DEF Written
  <2>2. CASE l.event # "allowed_elevated"
    BY <2>2, <1>3, <1>5 DEF Written
  <2>. QED
    BY <2>1, <2>2
<1>11. ReturnsWritten'
  BY <1>3, <1>7, <1>10 DEF ReturnsWritten
<1>12. PassedSpent' /\ PassedOnce'
  BY <1>1, <1>7 DEF PassedSpent, PassedOnce, memory
<1>. QED
  BY <1>4, <1>8, <1>9, <1>11, <1>12

(* A call that ends without an answer.                                     *)
LEMMA AppendFailsKeeps ==
  ASSUME Trail, NEW r \in Registry, AppendFails(r)
  PROVE  Trail'
<1>. USE DEF Trail
<1>1. call' = [call EXCEPT ![r] = NoCall] /\ UNCHANGED <<memory, known, audit, passed>>
  BY DEF AppendFails
<1>2. NoCall \in [phase : {"none", "audit", "return"}, line : Lines, fine : BOOLEAN]
        /\ NoCall.phase = "none"
  BY DEF NoCall, Line, Lines, Kinds
<1>3. Typed' /\ Memory'
  BY <1>1, <1>2 DEF Typed, Memory, memory
<1>4. \A s \in Registry : call'[s].phase # "none" => call'[s] = call[s]
  BY <1>1, <1>2 DEF Typed
<1>5. KnownMinted' /\ PassedSpent' /\ PassedOnce'
  BY <1>1 DEF KnownMinted, PassedSpent, PassedOnce, Written, MintLine, memory
<1>6. MintUnderWay'
  BY <1>1, <1>4 DEF MintUnderWay, Busy, memory
<1>7. SpendUnderWay'
  BY <1>1, <1>4 DEF SpendUnderWay, Busy, MintLine, memory
<1>8. ReturnsWritten'
  BY <1>1, <1>4 DEF ReturnsWritten, Written, MintLine
<1>. QED
  BY <1>3, <1>5, <1>6, <1>7, <1>8

LEMMA RestartKeeps ==
  ASSUME Trail, NEW r \in Registry, Restart(r)
  PROVE  Trail'
<1>. USE DEF Trail
<1>1. /\ call' = [call EXCEPT ![r] = NoCall] /\ tokens' = [tokens EXCEPT ![r] = <<>>]
      /\ UNCHANGED <<minted, known, audit, passed>>
  BY DEF Restart
<1>2. NoCall \in [phase : {"none", "audit", "return"}, line : Lines, fine : BOOLEAN]
        /\ NoCall.phase = "none"
  BY DEF NoCall, Line, Lines, Kinds
<1>3. Typed'
  BY <1>1, <1>2 DEF Typed
<1>4. /\ \A s \in Registry : s # r => tokens'[s] = tokens[s] /\ call'[s] = call[s]
      /\ DOMAIN tokens'[r] = {} /\ call'[r].phase = "none"
  BY <1>1, <1>2 DEF Typed, Memory
<1>5. Memory'
  <2>1. << >> \in [{} -> Records]
    OBVIOUS
  <2>2. \A s \in Registry : tokens'[s] \in UNION {[D -> Records] : D \in SUBSET Token}
    BY <1>1, <2>1 DEF Memory
  <2>. QED
    BY <1>1, <1>4, <2>2 DEF Memory
<1>6. KnownMinted'
  BY <1>1, <1>4 DEF KnownMinted, MintLine
<1>7. MintUnderWay' /\ SpendUnderWay' /\ ReturnsWritten'
  <2>1. MintUnderWay'
    BY <1>4, <1>1 DEF MintUnderWay, Busy
  <2>2. SpendUnderWay'
    BY <1>4, <1>1 DEF SpendUnderWay, Busy, MintLine
  <2>3. ReturnsWritten'
    BY <1>4, <1>1 DEF ReturnsWritten, Written
  <2>. QED BY <2>1, <2>2, <2>3
<1>8. PassedSpent' /\ PassedOnce'
  <2>1. \A j \in DOMAIN passed : Written(passed[j])'
    BY <1>1 DEF PassedSpent, Written
  <2>2. PassedSpent'
    BY <1>1, <1>4, <2>1 DEF PassedSpent
  <2>3. PassedOnce'
    BY <1>1 DEF PassedOnce
  <2>. QED BY <2>2, <2>3
<1>. QED
  BY <1>3, <1>5, <1>6, <1>7, <1>8

LEMMA ReturnKeeps ==
  ASSUME Trail, NEW r \in Registry, Return(r)
  PROVE  Trail'
<1>. DEFINE l == call[r].line
<1>. DEFINE lets == l.event \in {"allowed", "allowed_elevated"} /\ call[r].fine
<1>. USE DEF Trail
<1>1. /\ call[r].phase = "return" /\ call' = [call EXCEPT ![r] = NoCall]
      /\ known' = IF l.event = "mint_elevation" THEN known \cup {l.token} ELSE known
      /\ passed' = IF lets THEN Append(passed, l) ELSE passed
      /\ UNCHANGED <<tokens, minted, audit>>
  BY DEF Return, memory
<1>2. NoCall \in [phase : {"none", "audit", "return"}, line : Lines, fine : BOOLEAN]
        /\ NoCall.phase = "none"
  BY DEF NoCall, Line, Lines, Kinds
<1>3. l \in Lines /\ passed \in Seq(Lines) /\ Written(l)
  BY <1>1 DEF Typed, ReturnsWritten
<1>4. /\ \A s \in Registry : s # r => call'[s] = call[s]
      /\ call'[r].phase = "none"
  BY <1>1, <1>2 DEF Typed
<1>5. l.event = "mint_elevation" =>
        /\ l.token \in DOMAIN tokens[r] /\ l.token \notin known
        /\ tokens[r][l.token].agent = l.agent /\ tokens[r][l.token].cap = l.cap
  BY <1>1 DEF MintUnderWay, Busy
<1>6. l.event = "allowed_elevated" =>
        /\ l.token \in DOMAIN tokens[r] /\ tokens[r][l.token].used
        /\ \A j \in DOMAIN passed : passed[j].token # l.token
  BY <1>1 DEF SpendUnderWay, Busy
<1>7. /\ \A s, t \in Registry : \A x \in DOMAIN tokens[s] \cap DOMAIN tokens[t] : s = t
      /\ \A s \in Registry : DOMAIN tokens[s] \subseteq minted
  BY DEF Memory
<1>8. /\ \A t, a, c : MintLine(t, a, c)' <=> MintLine(t, a, c)
      /\ \A x : Written(x)' <=> Written(x)
  BY <1>1 DEF MintLine, Written
<1>9. Typed'
  <2>1. known' \subseteq minted' /\ minted' \subseteq Token
    BY <1>1, <1>5, <1>7 DEF Typed
  <2>2. passed' \in Seq(Lines) /\ audit' \in Seq(Lines)
    BY <1>1, <1>3 DEF Typed
  <2>. QED
    BY <1>1, <1>2, <2>1, <2>2 DEF Typed
<1>10. Memory'
  BY <1>1 DEF Memory
<1>11. KnownMinted'
  <2>. SUFFICES ASSUME NEW s \in Registry, NEW t \in DOMAIN tokens[s], t \in known'
       PROVE MintLine(t, tokens[s][t].agent, tokens[s][t].cap)
    BY <1>1, <1>8 DEF KnownMinted
  <2>1. CASE t \in known
    BY <2>1 DEF KnownMinted
  <2>2. CASE t \notin known
    <3>1. l.event = "mint_elevation" /\ t = l.token
      BY <2>2, <1>1
    <3>2. s = r
      BY <3>1, <1>5, <1>7
    <3>3. l = Line("mint_elevation", l.agent, l.cap, l.token)
      BY <3>1, <1>3 DEF Lines, Line
    <3>. QED
      BY <3>1, <3>2, <3>3, <1>3, <1>5 DEF Written, MintLine
  <2>. QED
    BY <2>1, <2>2
<1>12. MintUnderWay'
  <2>. SUFFICES ASSUME NEW s \in Registry, Busy(s, "mint_elevation")'
       PROVE (LET k == call[s].line IN
                /\ k.token \in DOMAIN tokens[s] /\ k.token \notin known
                /\ tokens[s][k.token].agent = k.agent /\ tokens[s][k.token].cap = k.cap)'
    BY DEF MintUnderWay
  <2>1. s # r
    BY <1>4 DEF Busy
  <2>. QED
    BY <2>1, <1>1, <1>4, <1>5, <1>7 DEF MintUnderWay, Busy
<1>13. \A j \in DOMAIN passed' :
         \/ j \in DOMAIN passed /\ passed'[j] = passed[j]
         \/ lets /\ passed' = Append(passed, l) /\ j = Len(passed) + 1 /\ passed'[j] = l
  BY <1>1, <1>3
<1>14. lets => (l.token # NoToken <=> l.event = "allowed_elevated")
  BY <1>3 DEF Lines
<1>. HIDE DEF lets, l
<1>15. SpendUnderWay'
  <2>. SUFFICES ASSUME NEW s \in Registry, Busy(s, "allowed_elevated")'
       PROVE (LET k == call[s].line IN
                /\ k.token \in DOMAIN tokens[s] /\ tokens[s][k.token].used
                /\ MintLine(k.token, k.agent, k.cap)
                /\ \A j \in DOMAIN passed : passed[j].token # k.token)'
    BY DEF SpendUnderWay
  <2>1. s # r
    BY <1>4 DEF Busy
  <2>. DEFINE k == call[s].line
  <2>2. /\ call'[s].line = k /\ k.token \in DOMAIN tokens[s] /\ tokens[s][k.token].used
        /\ MintLine(k.token, k.agent, k.cap)
        /\ \A j \in DOMAIN passed : passed[j].token # k.token
    BY <2>1, <1>4 DEF SpendUnderWay, Busy
  <2>3. k.token # NoToken
    BY <2>1, <1>4 DEF Typed, Lines, Busy
  <2>. HIDE DEF k
  <2>4. lets => l.token # k.token
    BY <2>1, <2>2, <2>3, <1>6, <1>7, <1>14
  <2>5. \A j \in DOMAIN passed' : passed'[j].token # k.token
    BY <2>2, <2>4, <1>13
  <2>. QED
    BY <2>2, <2>5, <1>1, <1>8
<1>16. ReturnsWritten'
  BY <1>4, <1>8 DEF ReturnsWritten
<1>17. PassedSpent'
  <2>. SUFFICES ASSUME NEW j \in DOMAIN passed'
       PROVE (/\ passed[j].event \in {"allowed", "allowed_elevated"} /\ Written(passed[j])
              /\ passed[j].token # NoToken =>
                   /\ passed[j].token \in minted
                   /\ \A s \in Registry :
                        passed[j].token \in DOMAIN tokens[s] => tokens[s][passed[j].token].used)'
    BY DEF PassedSpent
  <2>1. CASE j \in DOMAIN passed /\ passed'[j] = passed[j]
    BY <2>1, <1>1, <1>8 DEF PassedSpent
  <2>2. CASE lets /\ passed'[j] = l
    <3>1. l.event \in {"allowed", "allowed_elevated"}
      BY <2>2 DEF lets
    <3>2. l.token # NoToken => l.token \in DOMAIN tokens[r] /\ tokens[r][l.token].used
      BY <2>2, <1>6, <1>14
    <3>3. l.token # NoToken => \A s \in Registry : l.token \in DOMAIN tokens[s] => s = r
      BY <3>2, <1>7
    <3>4. Written(passed[j])'
      BY <2>2, <1>3, <1>8
    <3>5. l.token # NoToken => l.token \in minted'
      BY <3>2, <1>1, <1>7
    <3>6. l.token # NoToken =>
            \A s \in Registry : l.token \in DOMAIN tokens'[s] => tokens'[s][l.token].used
      BY <3>2, <3>3, <1>1
    <3>. QED
      BY <2>2, <3>1, <3>4, <3>5, <3>6
  <2>. QED
    BY <2>1, <2>2, <1>13
<1>18. PassedOnce'
  <2>. SUFFICES ASSUME NEW i \in DOMAIN passed', NEW j \in DOMAIN passed',
                       passed'[i].token # NoToken, passed'[i].token = passed'[j].token
       PROVE i = j
    BY DEF PassedOnce
  <2>1. CASE i \in DOMAIN passed /\ passed'[i] = passed[i] /\ j \in DOMAIN passed /\ passed'[j] = passed[j]
    BY <2>1 DEF PassedOnce
  <2>2. lets /\ l.token # NoToken => \A n \in DOMAIN passed : passed[n].token # l.token
    BY <1>6, <1>14
  <2>. QED
    BY <2>1, <2>2, <1>13
<1>. QED
  BY <1>9, <1>10, <1>11, <1>12, <1>15, <1>16, <1>17, <1>18

------------------------------------------------------------------------------
LEMMA NextKeepsTrail == Trail /\ [Next]_vars => Trail'
<1>. SUFFICES ASSUME Trail, [Next]_vars PROVE Trail'
  OBVIOUS
<1>1. CASE Configure \/ UNCHANGED vars
  <2>1. UNCHANGED <<tokens, minted, known, call, audit, passed>>
    BY <1>1 DEF Configure, vars, memory
  <2>. QED
    BY <2>1 DEF Trail, Typed, Memory, KnownMinted, MintUnderWay, SpendUnderWay, ReturnsWritten,
       PassedSpent, PassedOnce, Busy, MintLine, Written
<1>2. ASSUME NEW r \in Registry, NEW agent \in Agent, NEW cap \in Elevated, NEW t \in known \cup {NoToken, Unminted},
             Refuse(r, agent, cap, t)
      PROVE  Trail'
  <2>1. Line("denied", agent, cap, NoToken) \in Lines
        /\ Line("denied", agent, cap, NoToken).token = NoToken
    BY DEF Lines, Line, Kinds
  <2>. QED
    BY <1>2, <2>1, EnterPlain DEF Refuse
<1>3. ASSUME NEW r \in Registry, NEW agent \in Agent, NEW cap \in Plain, NEW fine \in BOOLEAN,
             CheckPlain(r, agent, cap, fine)
      PROVE  Trail'
  <2>. DEFINE l == Line(IF cap \in Grants[agent] THEN "allowed" ELSE "denied", agent, cap, NoToken)
  <2>1. l \in Lines /\ l.token = NoToken
    BY DEF Lines, Line, Kinds
  <2>2. Enter(r, l, fine) /\ UNCHANGED memory
    BY <1>3 DEF CheckPlain
  <2>. HIDE DEF l
  <2>. QED
    BY <2>1, <2>2, EnterPlain
<1>4. ASSUME NEW r \in Registry, NEW ev \in Events, PreToolUse(r, ev)
      PROVE  Trail'
  <2>1. ev.actor \in Agent /\ CapabilityOf(ev.tool) \in Plain
    BY <1>4, GovernanceAssumption DEF PreToolUse, CapabilityOf
  <2>2. OthersAllow(ev) \in BOOLEAN
    BY DEF OthersAllow
  <2>. QED
    BY <1>3, <1>4, <2>1, <2>2 DEF PreToolUse
<1>. QED
  BY <1>1, <1>2, <1>3, <1>4, MintKeeps, SpendKeeps, AppendKeeps, AppendFailsKeeps, ReturnKeeps,
     RestartKeeps DEF Next

(* check() lets an elevated action through at most once per token, for the *)
(* agent and the capability it was minted for, and both lines are in the   *)
(* audit file in order: with any number of registries on one file, failing *)
(* appends and restarts, and any tokens shown to check or pre_tool_use.    *)
THEOREM ChecksAreAccounted == Spec => []ChecksAccounted
<1>. QED
  BY TrailInit, NextKeepsTrail, TrailAccounts, PTL DEF Spec
=============================================================================
