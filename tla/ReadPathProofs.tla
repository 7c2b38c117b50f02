--------------------------- MODULE ReadPathProofs ---------------------------
(***************************************************************************)
(* Theorems about CodeGraph and Retrieval, for every tree of files, every  *)
(* history, every set of observations and of index runs, every ladder of   *)
(* trimmed texts and every call.  IndexCorrect: an index that was built    *)
(* without overlap is the index of what its run saw.  ImpactCorrect: what  *)
(* the impact query lists is what the imports reach.  AccountsCorrect: a   *)
(* package keeps within its budget and loses no entry silently.            *)
(*                                                                         *)
(* The library defines its folds by a CHOOSE of a recursive function;      *)
(* Recursion, Folding and the lemmas after them show the functions that    *)
(* this model needs to exist, by induction over numbers.                   *)
(***************************************************************************)
EXTENDS Retrieval, FiniteSetTheorems, SequenceTheorems, TLAPS

(* Sequences, counting and folds.                                          *)

(* A set of naturals that is not empty has a least element.                *)
LEMMA Least ==
  ASSUME NEW T \in SUBSET Nat, T # {}
  PROVE  \E n \in T : \A m \in T : n <= m
<1>1. PICK x \in T : \A y \in T : ~(<<y, x>> \in OpToRel(<, Nat))
  BY NatLessThanWellFounded, WFMin
<1>2. \A y \in T : ~(y < x)
  BY <1>1 DEF OpToRel
<1> QED BY <1>2

(* What holds of 0 and passes from each number to the next holds up to n.  *)
LEMMA Counting ==
  ASSUME NEW n \in Nat, NEW A, 0 \in A,
         \A i \in 1 .. n : i - 1 \in A => i \in A
  PROVE  0 .. n \subseteq A
<1> SUFFICES ASSUME (0 .. n) \ A # {} PROVE FALSE
  OBVIOUS
<1>1. PICK i \in (0 .. n) \ A : \A j \in (0 .. n) \ A : i <= j
  <2> (0 .. n) \ A \in SUBSET Nat
    OBVIOUS
  <2> QED BY Least
<1>2. i \in 1 .. n /\ i - 1 \in 0 .. n /\ i - 1 < i
  BY <1>1
<1> QED BY <1>1, <1>2

(* g takes n steps from base, and its values stay in T.                    *)
Iterates(g, n, T, base, step) ==
  /\ g \in [0 .. n -> T]
  /\ g[0] = base
  /\ \A i \in 1 .. n : g[i] = step[<<g[i - 1], i>>]

(* There is a function that iterates step over 1 .. n.                     *)
LEMMA Recursion ==
  ASSUME NEW n \in Nat, NEW T, NEW base \in T, NEW step,
         \A a \in T, i \in 1 .. n : step[<<a, i>>] \in T
  PROVE  \E g : Iterates(g, n, T, base, step)
<1> DEFINE A == {k \in 0 .. n : \E g : Iterates(g, k, T, base, step)}
<1>1. 0 \in A
  <2> DEFINE g == [i \in 0 .. 0 |-> base]
  <2>1. g \in [0 .. 0 -> T] /\ g[0] = base
    OBVIOUS
  <2>2. 1 .. 0 = {}
    OBVIOUS
  <2> HIDE DEF g
  <2>3. Iterates(g, 0, T, base, step)
    BY <2>1, <2>2 DEF Iterates
  <2> QED BY <2>3
<1>2. ASSUME NEW k \in 1 .. n, k - 1 \in A PROVE k \in A
  <2>1. PICK g : Iterates(g, k - 1, T, base, step)
    BY <1>2
  <2>2. /\ g \in [0 .. (k - 1) -> T] /\ g[0] = base
        /\ \A i \in 1 .. (k - 1) : g[i] = step[<<g[i - 1], i>>]
    BY <2>1 DEF Iterates
  <2> DEFINE new == step[<<g[k - 1], k>>]
  <2> DEFINE h == [i \in 0 .. k |-> IF i = k THEN new ELSE g[i]]
  <2>3. new \in T
    BY <2>2
  <2> HIDE DEF new
  <2>4. h \in [0 .. k -> T] /\ h[0] = base /\ h[k] = new /\ \A i \in 0 .. (k - 1) : h[i] = g[i]
    BY <2>2, <2>3
  <2> HIDE DEF h
  <2>5. ASSUME NEW i \in 1 .. k PROVE h[i] = step[<<h[i - 1], i>>]
    <3>1. h[i - 1] = g[i - 1]
      BY <2>4
    <3>2. CASE i = k
      BY <3>1, <3>2, <2>4 DEF new
    <3>3. CASE i # k
      <4>1. h[i] = g[i] /\ g[i] = step[<<g[i - 1], i>>]
        BY <3>3, <2>2, <2>4
      <4> QED BY <3>1, <4>1
    <3> QED BY <3>2, <3>3
  <2>6. Iterates(h, k, T, base, step)
    BY <2>4, <2>5 DEF Iterates
  <2> QED BY <2>6
<1> HIDE DEF A
<1>3. 0 .. n \subseteq A
  BY <1>1, <1>2, Counting
<1> QED BY <1>3 DEF A

(* f is what FlattenSeq goes through: the first i sequences in a row.      *)
Flattens(f, ss, S) ==
  /\ f \in [0 .. Len(ss) -> Seq(S)]
  /\ f[0] = <<>>
  /\ \A i \in 1 .. Len(ss) : f[i] = f[i - 1] \o ss[i]
  /\ FlattenSeq(ss) = f[Len(ss)]

(* FlattenSeq joins its sequences one after the other.                     *)
LEMMA Flattening ==
  ASSUME NEW S, NEW ss \in Seq(Seq(S)), ss # <<>>
  PROVE  \E f : Flattens(f, ss, S)
<1> DEFINE n == Len(ss)
<1> DEFINE step == [p \in Seq(S) \X (1 .. n) |-> p[1] \o ss[p[2]]]
<1>1. n \in Nat /\ n > 0 /\ \A i \in 1 .. n : ss[i] \in Seq(S)
  OBVIOUS
<1>2. \A a \in Seq(S), i \in 1 .. n : step[<<a, i>>] \in Seq(S) /\ step[<<a, i>>] = a \o ss[i]
  <2> TAKE a \in Seq(S), i \in 1 .. n
  <2>1. <<a, i>> \in Seq(S) \X (1 .. n) /\ a \o ss[i] \in Seq(S)
    BY <1>1
  <2>2. step[<<a, i>>] = a \o ss[i]
    BY <2>1
  <2> QED BY <2>1, <2>2
<1>3. <<>> \in Seq(S) /\ <<>> \o ss[1] = ss[1]
  BY <1>1
<1>4. PICK g : Iterates(g, n, Seq(S), <<>>, step)
  <2> HIDE DEF step, n
  <2> QED BY <1>1, <1>2, <1>3, Recursion
<1> HIDE DEF n, step
<1>5. g \in [0 .. n -> Seq(S)] /\ g[0] = <<>>
  BY <1>4 DEF Iterates
<1>6. \A i \in 1 .. n : g[i] = g[i - 1] \o ss[i]
  <2> TAKE i \in 1 .. n
  <2>1. g[i - 1] \in Seq(S)
    BY <1>1, <1>5
  <2> QED BY <2>1, <1>2, <1>4 DEF Iterates
<1>7. g[1] = ss[1]
  <2>1. 1 \in 1 .. n /\ 1 - 1 = 0
    BY <1>1
  <2>2. g[1] = g[1 - 1] \o ss[1]
    BY <2>1, <1>6
  <2> QED BY <2>1, <2>2, <1>3, <1>5
<1> DEFINE Flat(f) == f = [i \in 1 .. n |-> IF i = 1 THEN ss[i] ELSE f[i - 1] \o ss[i]]
<1>8. \E h : Flat(h)
  <2> DEFINE h == [i \in 1 .. n |-> g[i]]
  <2>1. ASSUME NEW i \in 1 .. n PROVE h[i] = IF i = 1 THEN ss[i] ELSE h[i - 1] \o ss[i]
    <3>1. i # 1 => h[i - 1] = g[i - 1]
      BY <1>1
    <3> QED BY <3>1, <1>6, <1>7
  <2>2. Flat(h)
    BY <2>1
  <2> QED BY <2>2
<1> DEFINE f == CHOOSE f : Flat(f)
<1>9. Flat(f)
  <2> HIDE DEF Flat
  <2> QED BY <1>8
<1>10. FlattenSeq(ss) = f[n]
  BY <1>1 DEF FlattenSeq, n
<1> HIDE DEF f
<1>11. \A i \in 1 .. n : f[i] = g[i]
  <2> DEFINE A == {i \in 0 .. n : i = 0 \/ f[i] = g[i]}
  <2>1. ASSUME NEW i \in 1 .. n, i - 1 \in A PROVE f[i] = g[i]
    <3>1. f[i] = IF i = 1 THEN ss[i] ELSE f[i - 1] \o ss[i]
      BY <1>9
    <3>2. i # 1 => f[i - 1] = g[i - 1]
      BY <2>1
    <3> QED BY <3>1, <3>2, <1>6, <1>7
  <2>2. 0 \in A
    BY <1>1
  <2>3. \A i \in 1 .. n : i - 1 \in A => i \in A
    BY <2>1
  <2> HIDE DEF A
  <2>4. 0 .. n \subseteq A
    BY <1>1, <2>2, <2>3, Counting
  <2> TAKE i \in 1 .. n
  <2>5. i \in A /\ i # 0
    BY <2>4, <1>1
  <2> QED BY <2>5 DEF A
<1>12. FlattenSeq(ss) = g[n]
  BY <1>1, <1>10, <1>11
<1> QED BY <1>5, <1>6, <1>12 DEF n, Flattens

(* FlattenSeq keeps every element, and adds none.                          *)
LEMMA FlatRange ==
  ASSUME NEW S, NEW ss \in Seq(Seq(S))
  PROVE  /\ FlattenSeq(ss) \in Seq(S)
         /\ Range(FlattenSeq(ss)) = UNION {Range(ss[i]) : i \in 1 .. Len(ss)}
<1>1. CASE ss = <<>>
  <2>1. FlattenSeq(ss) = <<>>
    BY <1>1 DEF FlattenSeq
  <2>2. Range(<<>>) = {} /\ 1 .. Len(ss) = {}
    BY <1>1 DEF Range
  <2> QED BY <2>1, <2>2
<1>2. CASE ss # <<>>
  <2>1. PICK f : Flattens(f, ss, S)
    BY <1>2, Flattening
  <2> DEFINE n == Len(ss)
  <2> DEFINE A == {k \in 0 .. n : Range(f[k]) = UNION {Range(ss[i]) : i \in 1 .. k}}
  <2>2. n \in Nat /\ \A i \in 1 .. n : ss[i] \in Seq(S)
    OBVIOUS
  <2> HIDE DEF n
  <2>3. /\ f \in [0 .. n -> Seq(S)] /\ f[0] = <<>> /\ FlattenSeq(ss) = f[n]
        /\ \A i \in 1 .. n : f[i] = f[i - 1] \o ss[i]
    BY <2>1 DEF Flattens, n
  <2>4. 0 \in A
    <3>1. Range(<<>>) = {} /\ 1 .. 0 = {}
      BY DEF Range
    <3> QED BY <3>1, <2>2, <2>3
  <2>5. ASSUME NEW k \in 1 .. n, k - 1 \in A PROVE k \in A
    <3> k - 1 \in 0 .. n
      BY <2>2
    <3>1. f[k - 1] \in Seq(S) /\ ss[k] \in Seq(S) /\ f[k] = f[k - 1] \o ss[k]
      BY <2>2, <2>3
    <3>2. Range(f[k]) = Range(f[k - 1]) \cup Range(ss[k])
      BY <3>1, RangeConcatenation
    <3>3. Range(f[k - 1]) = UNION {Range(ss[i]) : i \in 1 .. (k - 1)}
      BY <2>5
    <3>4. 1 .. k = (1 .. (k - 1)) \cup {k}
      BY <2>2
    <3>5. Range(f[k]) = UNION {Range(ss[i]) : i \in 1 .. k}
      BY <3>2, <3>3, <3>4
    <3> QED BY <3>5
  <2> HIDE DEF A
  <2>6. n \in A
    <3>1. 0 .. n \subseteq A
      BY <2>2, <2>4, <2>5, Counting
    <3> QED BY <3>1, <2>2
  <2>7. Range(f[n]) = UNION {Range(ss[i]) : i \in 1 .. n}
    BY <2>6 DEF A
  <2>8. f[n] \in Seq(S)
    BY <2>2, <2>3
  <2> QED BY <2>3, <2>7, <2>8 DEF n
<1> QED BY <1>1, <1>2

(* SetToSeq lists a finite set, every element of it once.                  *)
LEMMA Listing ==
  ASSUME NEW S, IsFiniteSet(S)
  PROVE  /\ SetToSeq(S) \in Seq(S)
         /\ Len(SetToSeq(S)) = Cardinality(S)
         /\ Range(SetToSeq(S)) = S
<1> DEFINE n == Cardinality(S)
<1>1. n \in Nat /\ ExistsBijection(1 .. n, S)
  BY FS_CardinalityType
<1>2. \E f \in [1 .. n -> S] : IsInjective(f)
  BY <1>1 DEF ExistsBijection, Bijection, Injection
<1> DEFINE s == SetToSeq(S)
<1>3. s \in [1 .. n -> S] /\ IsInjective(s)
  BY <1>2 DEF SetToSeq
<1> HIDE DEF s
<1>4. s \in Seq(S) /\ Len(s) = n
  BY <1>1, <1>3
<1>5. s \in Surjection(1 .. n, S)
  <2>1. IsFiniteSet(1 .. n) /\ Cardinality(1 .. n) = n
    BY <1>1, FS_Interval
  <2>2. s \in Injection(1 .. n, S)
    BY <1>3 DEF Injection
  <2> QED BY <2>1, <2>2, FS_Injection
<1>6. Range(s) = S
  BY <1>3, <1>5 DEF Surjection, Range
<1> QED BY <1>4, <1>6 DEF s

------------------------------------------------------------------------------
Source(w) == IF w.op = "edge" THEN w.edge[1] ELSE w.from

(* An edge is written only after its source, or it was there before.       *)
Founded(w, ns) ==
  \A i \in 1 .. Len(w) :
    w[i].op # "node" =>
      \/ Source(w[i]) \in ns
      \/ \E j \in 1 .. Len(w) : j < i /\ w[j] = AddNode(Source(w[i]))

(* w is the writes of S, each edge after its source.                       *)
Yields(w, S, ns) == w \in Seq(S) /\ Range(w) = S /\ Founded(w, ns)

(* No write needs nothing and writes nothing.                              *)
LEMMA NothingYields == ASSUME NEW ns PROVE Yields(<<>>, {}, ns)
<1>1. <<>> \in Seq({}) /\ Range(<<>>) = {}
  BY DEF Range
<1> QED BY <1>1 DEF Yields, Founded

(* One write whose source is there.                                        *)
LEMMA OneYields ==
  ASSUME NEW x, NEW ns, x.op = "node" \/ Source(x) \in ns
  PROVE  Yields(<<x>>, {x}, ns)
<1>1. <<x>> \in Seq({x}) /\ Range(<<x>>) = {x}
  BY DEF Range
<1> QED BY <1>1 DEF Yields, Founded

(* Writes that follow each other find what the first ones add.             *)
LEMMA ConcatYields ==
  ASSUME NEW v, NEW w, NEW S, NEW T, NEW ns, NEW ms,
         Yields(v, S, ns), Yields(w, T, ms), \A m \in ms : m \in ns \/ AddNode(m) \in S
  PROVE  Yields(v \o w, S \cup T, ns)
<1> DEFINE u == v \o w
<1>1. v \in Seq(S \cup T) /\ w \in Seq(S \cup T) /\ Range(v) = S /\ Range(w) = T
  <2>1. v \in Seq(S) /\ w \in Seq(T)
    BY DEF Yields
  <2>2. v \in Seq(S \cup T)
    BY <2>1, SeqMonotonic
  <2>3. w \in Seq(S \cup T)
    BY <2>1, SeqMonotonic
  <2> QED BY <2>2, <2>3 DEF Yields
<1>2. u \in Seq(S \cup T) /\ Range(u) = S \cup T
  BY <1>1, ConcatProperties, RangeConcatenation
<1>3. /\ Len(v) \in Nat /\ Len(w) \in Nat /\ Len(u) = Len(v) + Len(w)
      /\ \A i \in 1 .. Len(v) : u[i] = v[i]
      /\ \A i \in 1 .. Len(w) : u[Len(v) + i] = w[i]
  <2> HIDE DEF Yields
  <2> QED BY <1>1
<1> HIDE DEF u
<1>4. ASSUME NEW i \in 1 .. Len(u), u[i].op # "node"
      PROVE  \/ Source(u[i]) \in ns
             \/ \E j \in 1 .. Len(u) : j < i /\ u[j] = AddNode(Source(u[i]))
  <2>1. CASE i <= Len(v)
    <3>1. i \in 1 .. Len(v) /\ u[i] = v[i]
      BY <1>3, <2>1
    <3>2. \/ Source(v[i]) \in ns
          \/ \E j \in 1 .. Len(v) : j < i /\ v[j] = AddNode(Source(v[i]))
      BY <3>1, <1>4 DEF Founded, Yields
    <3>3. \A j \in 1 .. Len(v) : j \in 1 .. Len(u) /\ u[j] = v[j]
      BY <1>3
    <3> QED BY <3>1, <3>2, <3>3
  <2>2. CASE i > Len(v)
    <3> DEFINE k == i - Len(v)
    <3>1. k \in 1 .. Len(w) /\ u[i] = w[k]
      <4>1. k \in 1 .. Len(w) /\ Len(v) + k = i
        BY <1>3, <2>2
      <4> QED BY <4>1, <1>3
    <3>2. \/ Source(w[k]) \in ms
          \/ \E j \in 1 .. Len(w) : j < k /\ w[j] = AddNode(Source(w[k]))
      BY <3>1, <1>4 DEF Founded, Yields
    <3>3. ASSUME NEW j \in 1 .. Len(w), j < k, w[j] = AddNode(Source(w[k]))
          PROVE  \E l \in 1 .. Len(u) : l < i /\ u[l] = AddNode(Source(u[i]))
      <4>1. Len(v) + j \in 1 .. Len(u) /\ Len(v) + j < i /\ u[Len(v) + j] = w[j]
        BY <1>3, <3>3
      <4> QED BY <4>1, <3>1, <3>3
    <3>4. CASE Source(w[k]) \in ms
      <4>1. CASE AddNode(Source(w[k])) \in S
        <5>1. PICK l \in 1 .. Len(v) : v[l] = AddNode(Source(w[k]))
          BY <1>1, <4>1, RangeEquality
        <5>2. l \in 1 .. Len(u) /\ l < i /\ u[l] = v[l]
          BY <1>3, <2>2
        <5> QED BY <5>1, <5>2, <3>1
      <4> QED BY <3>1, <3>4, <4>1
    <3> QED BY <3>2, <3>3, <3>4
  <2> QED BY <2>1, <2>2, <1>3
<1>5. Founded(u, ns)
  BY <1>4 DEF Founded
<1> QED BY <1>2, <1>5 DEF Yields, u

(* Sequences of writes whose sources are there, one after the other.       *)
LEMMA FlatFounded ==
  ASSUME NEW S, NEW ns, NEW ss \in Seq(Seq(S)), \A i \in 1 .. Len(ss) : Founded(ss[i], ns)
  PROVE  Founded(FlattenSeq(ss), ns)
<1>1. CASE ss = <<>>
  BY <1>1 DEF FlattenSeq, Founded
<1>2. CASE ss # <<>>
  <2>1. PICK f : Flattens(f, ss, S)
    BY <1>2, Flattening
  <2> DEFINE n == Len(ss)
  <2> DEFINE A == {k \in 0 .. n : Founded(f[k], ns)}
  <2>2. n \in Nat /\ \A i \in 1 .. n : ss[i] \in Seq(S)
    OBVIOUS
  <2> HIDE DEF n
  <2>3. /\ f \in [0 .. n -> Seq(S)] /\ f[0] = <<>> /\ FlattenSeq(ss) = f[n]
        /\ \A i \in 1 .. n : f[i] = f[i - 1] \o ss[i]
    BY <2>1 DEF Flattens, n
  <2>4. 0 \in A
    <3>1. Founded(<<>>, ns)
      BY DEF Founded
    <3> QED BY <3>1, <2>2, <2>3
  <2>5. ASSUME NEW k \in 1 .. n, k - 1 \in A PROVE k \in A
    <3> k - 1 \in 0 .. n
      BY <2>2
    <3>1. f[k - 1] \in Seq(S) /\ ss[k] \in Seq(S) /\ f[k] = f[k - 1] \o ss[k]
      BY <2>2, <2>3
    <3> DEFINE R == Range(f[k - 1])
    <3> DEFINE Q == Range(ss[k])
    <3>2. Yields(f[k - 1], R, ns)
      BY <3>1, <2>5, SeqOfRange DEF Yields
    <3>3. Yields(ss[k], Q, ns)
      BY <3>1, SeqOfRange DEF Yields, n
    <3> HIDE DEF R, Q
    <3>4. Yields(f[k - 1] \o ss[k], R \cup Q, ns)
      BY <3>2, <3>3, ConcatYields
    <3>5. Founded(f[k], ns)
      BY <3>1, <3>4 DEF Yields
    <3> QED BY <3>5
  <2> HIDE DEF A
  <2>6. 0 .. n \subseteq A
    BY <2>2, <2>4, <2>5, Counting
  <2>7. n \in A
    BY <2>6, <2>2
  <2> QED BY <2>3, <2>7 DEF A
<1> QED BY <1>1, <1>2

(* One part after another, for each element of a finite set.               *)
LEMMA PartsYield ==
  ASSUME NEW F, IsFiniteSet(F), NEW part, NEW ops, NEW ns,
         \A x \in F : Yields(part[x], ops[x], ns)
  PROVE  Yields(FlattenSeq([i \in 1 .. Cardinality(F) |-> part[SetToSeq(F)[i]]]),
                UNION {ops[x] : x \in F}, ns)
<1> DEFINE S == UNION {ops[x] : x \in F}
<1> DEFINE n == Cardinality(F)
<1> DEFINE l == SetToSeq(F)
<1> DEFINE ss == [i \in 1 .. n |-> part[l[i]]]
<1>1. n \in Nat /\ l \in Seq(F) /\ Len(l) = n /\ Range(l) = F
  BY Listing, FS_CardinalityType
<1>2. \A i \in 1 .. n : l[i] \in F
  BY <1>1
<1>3. F = {l[i] : i \in 1 .. n}
  BY <1>1, RangeEquality
<1> HIDE DEF n, l
<1>4. \A x \in F : part[x] \in Seq(S)
  <2> TAKE x \in F
  <2>1. part[x] \in Seq(ops[x]) /\ ops[x] \subseteq S
    BY DEF Yields
  <2> HIDE DEF S
  <2> QED BY <2>1, SeqMonotonic
<1> HIDE DEF S
<1>5. ss \in Seq(Seq(S)) /\ Len(ss) = n /\ \A i \in 1 .. n : ss[i] = part[l[i]]
  BY <1>1, <1>2, <1>4
<1> HIDE DEF ss
<1>6. FlattenSeq(ss) \in Seq(S) /\ Range(FlattenSeq(ss)) = UNION {Range(ss[i]) : i \in 1 .. n}
  BY <1>5, FlatRange
<1>7. UNION {Range(ss[i]) : i \in 1 .. n} = S
  <2>1. \A i \in 1 .. n : Range(ss[i]) = ops[l[i]]
    BY <1>2, <1>5 DEF Yields
  <2>2. UNION {Range(ss[i]) : i \in 1 .. n} = UNION {ops[l[i]] : i \in 1 .. n}
    BY <2>1
  <2> QED BY <2>2, <1>3 DEF S
<1>8. Founded(FlattenSeq(ss), ns)
  <2>1. \A i \in 1 .. Len(ss) : Founded(ss[i], ns)
    BY <1>2, <1>5 DEF Yields
  <2> QED BY <2>1, <1>5, FlatFounded
<1>9. Yields(FlattenSeq(ss), S, ns)
  BY <1>6, <1>7, <1>8 DEF Yields
<1> QED BY <1>9 DEF ss, n, l, S

(* The same when each part is a single write.                              *)
LEMMA ListYields ==
  ASSUME NEW F, IsFiniteSet(F), NEW one, NEW ns,
         \A x \in F : one[x].op = "node" \/ Source(one[x]) \in ns
  PROVE  Yields([i \in 1 .. Cardinality(F) |-> one[SetToSeq(F)[i]]], {one[x] : x \in F}, ns)
<1> DEFINE S == {one[x] : x \in F}
<1> DEFINE n == Cardinality(F)
<1> DEFINE l == SetToSeq(F)
<1> DEFINE s == [i \in 1 .. n |-> one[l[i]]]
<1>1. n \in Nat /\ l \in Seq(F) /\ Len(l) = n /\ Range(l) = F
  BY Listing, FS_CardinalityType
<1>2. \A i \in 1 .. n : l[i] \in F
  BY <1>1
<1>3. F = {l[i] : i \in 1 .. n}
  BY <1>1, RangeEquality
<1> HIDE DEF n, l
<1>4. \A i \in 1 .. n : one[l[i]] \in S
  BY <1>2
<1>5. s \in Seq(S) /\ Len(s) = n /\ \A i \in 1 .. n : s[i] = one[l[i]]
  <2> HIDE DEF S
  <2> QED BY <1>1, <1>4
<1> HIDE DEF s
<1>6. Range(s) = S
  <2>1. Range(s) = {s[i] : i \in 1 .. n}
    BY <1>5, RangeEquality
  <2> QED BY <2>1, <1>3, <1>5
<1>7. Founded(s, ns)
  BY <1>2, <1>5 DEF Founded
<1>8. Yields(s, S, ns)
  BY <1>5, <1>6, <1>7 DEF Yields
<1> QED BY <1>8 DEF s, n, l, S

(* h is the fold over the subsets of S that takes the element ch[s] first. *)
FoldsBy(h, S, T, base, ch, step) ==
  /\ h \in [SUBSET S -> T] /\ h[{}] = base
  /\ \A s \in SUBSET S : s # {} => h[s] = step[<<h[s \ {ch[s]}], ch[s]>>]

(* A fold over the subsets of a finite set exists (Folds!MapThenFoldSet).  *)
LEMMA Folding ==
  ASSUME NEW S, IsFiniteSet(S), NEW T, NEW base \in T, NEW ch, NEW step,
         \A s \in SUBSET S : s # {} => ch[s] \in s,
         \A a \in T, x \in S : step[<<a, x>>] \in T
  PROVE  \E h : FoldsBy(h, S, T, base, ch, step)
<1> DEFINE n == Cardinality(S)
<1> DEFINE Upto(h, k) ==
      /\ h \in [SUBSET S -> T] /\ h[{}] = base
      /\ \A s \in SUBSET S : s # {} /\ Cardinality(s) <= k => h[s] = step[<<h[s \ {ch[s]}], ch[s]>>]
<1> DEFINE A == {k \in 0 .. n : \E h : Upto(h, k)}
<1>1. n \in Nat
  BY FS_CardinalityType
<1>2. \A s \in SUBSET S : IsFiniteSet(s) /\ Cardinality(s) \in 0 .. n /\ (Cardinality(s) = 0 <=> s = {})
  <2> TAKE s \in SUBSET S
  <2>1. IsFiniteSet(s) /\ Cardinality(s) <= n
    BY FS_Subset
  <2>2. Cardinality(s) \in Nat
    BY <2>1, FS_CardinalityType
  <2>3. Cardinality(s) = 0 <=> s = {}
    BY <2>1, FS_EmptySet
  <2> QED BY <2>1, <2>2, <2>3, <1>1
<1> HIDE DEF n
<1>3. 0 \in A
  <2> DEFINE h == [s \in SUBSET S |-> base]
  <2>1. h \in [SUBSET S -> T] /\ h[{}] = base
    OBVIOUS
  <2> HIDE DEF h
  <2>2. Upto(h, 0)
    BY <1>2, <2>1
  <2> HIDE DEF Upto
  <2>3. \E f : Upto(f, 0)
    BY <2>2
  <2> QED BY <1>1, <2>3
<1>4. ASSUME NEW k \in 1 .. n, k - 1 \in A PROVE k \in A
  <2>1. PICK h : Upto(h, k - 1)
    BY <1>4
  <2> DEFINE new(s) == step[<<h[s \ {ch[s]}], ch[s]>>]
  <2> DEFINE g == [s \in SUBSET S |-> IF Cardinality(s) = k THEN new(s) ELSE h[s]]
  <2>2. ASSUME NEW s \in SUBSET S, s # {}
        PROVE  /\ s \ {ch[s]} \in SUBSET S /\ Cardinality(s \ {ch[s]}) = Cardinality(s) - 1
               /\ new(s) \in T
    <3>1. ch[s] \in s /\ s \ {ch[s]} \in SUBSET S
      BY <2>2
    <3>2. Cardinality(s \ {ch[s]}) = Cardinality(s) - 1
      BY <3>1, <1>2, FS_RemoveElement
    <3> QED BY <2>1, <3>1, <3>2
  <2>3. Cardinality({}) # k /\ {} \in SUBSET S
    BY <1>2
  <2>4. \A s \in SUBSET S : Cardinality(s) = k => s # {}
    BY <2>3
  <2>5. /\ g \in [SUBSET S -> T] /\ g[{}] = base
        /\ \A s \in SUBSET S : g[s] = IF Cardinality(s) = k THEN new(s) ELSE h[s]
    <3> HIDE DEF new
    <3> QED BY <2>1, <2>2, <2>3, <2>4
  <2> HIDE DEF g
  <2>6. ASSUME NEW s \in SUBSET S, s # {}, Cardinality(s) <= k
        PROVE  g[s] = step[<<g[s \ {ch[s]}], ch[s]>>]
    <3> DEFINE r == s \ {ch[s]}
    <3>1. r \in SUBSET S /\ Cardinality(r) = Cardinality(s) - 1 /\ Cardinality(s) \in Nat
      <4>1. Cardinality(s) \in Nat
        BY <1>1, <1>2
      <4> QED BY <4>1, <2>2, <2>6
    <3> HIDE DEF r
    <3>2. g[r] = h[r]
      <4>1. Cardinality(r) # k
        BY <2>6, <3>1
      <4> QED BY <2>5, <3>1, <4>1
    <3>3. g[s] = new(s)
      <4>1. CASE Cardinality(s) = k
        BY <2>5, <4>1
      <4>2. CASE Cardinality(s) # k
        <5>1. Cardinality(s) <= k - 1
          BY <2>6, <3>1, <4>2
        <5> QED BY <2>1, <2>5, <2>6, <4>2, <5>1
      <4> QED BY <4>1, <4>2
    <3> QED BY <3>2, <3>3 DEF r
  <2>7. Upto(g, k)
    BY <2>5, <2>6
  <2> HIDE DEF Upto
  <2> QED BY <2>7
<1> HIDE DEF A
<1>5. 0 .. n \subseteq A
  BY <1>1, <1>3, <1>4, Counting
<1>6. n \in A
  BY <1>1, <1>5
<1>7. PICK h : Upto(h, n)
  BY <1>6 DEF A
<1>8. FoldsBy(h, S, T, base, ch, step)
  BY <1>2, <1>7 DEF FoldsBy
<1> QED BY <1>8

(* A has the empty set, and a set if it has what is left without ch's      *)
(* choice from it.                                                         *)
GrowsBy(S, A, ch) ==
  /\ {} \in A
  /\ \A s \in SUBSET S : s # {} => ch[s] \in s
  /\ \A s \in SUBSET S : s # {} /\ s \ {ch[s]} \in A => s \in A

(* What holds of nothing and comes back with each element holds of all.    *)
LEMMA SubsetInduction ==
  ASSUME NEW S, IsFiniteSet(S), NEW A, NEW ch, GrowsBy(S, A, ch)
  PROVE  SUBSET S \subseteq A
<1>0. /\ {} \in A
      /\ \A s \in SUBSET S : s # {} => ch[s] \in s
      /\ \A s \in SUBSET S : s # {} /\ s \ {ch[s]} \in A => s \in A
  BY DEF GrowsBy
<1> DEFINE n == Cardinality(S)
<1> DEFINE B == {k \in 0 .. n : \A s \in SUBSET S : Cardinality(s) = k => s \in A}
<1>1. n \in Nat
  BY FS_CardinalityType
<1>2. \A s \in SUBSET S : IsFiniteSet(s) /\ Cardinality(s) \in 0 .. n /\ (Cardinality(s) = 0 <=> s = {})
  <2> TAKE s \in SUBSET S
  <2>1. IsFiniteSet(s) /\ Cardinality(s) <= n
    BY FS_Subset
  <2>2. Cardinality(s) \in Nat
    BY <2>1, FS_CardinalityType
  <2>3. Cardinality(s) = 0 <=> s = {}
    BY <2>1, FS_EmptySet
  <2> QED BY <2>1, <2>2, <2>3, <1>1
<1> HIDE DEF n
<1>3. 0 \in B
  BY <1>0, <1>1, <1>2
<1>4. ASSUME NEW k \in 1 .. n, k - 1 \in B PROVE k \in B
  <2> SUFFICES ASSUME NEW s \in SUBSET S, Cardinality(s) = k PROVE s \in A
    BY <1>1
  <2>1. s # {}
    BY <1>2
  <2>2. ch[s] \in s /\ s \ {ch[s]} \in SUBSET S
    BY <1>0, <2>1
  <2>3. Cardinality(s \ {ch[s]}) = k - 1
    BY <2>2, <1>2, FS_RemoveElement
  <2> QED BY <1>0, <1>4, <2>1, <2>2, <2>3
<1> HIDE DEF B
<1>5. 0 .. n \subseteq B
  BY <1>1, <1>3, <1>4, Counting
<1> QED BY <1>2, <1>5 DEF B

------------------------------------------------------------------------------
(* What the parts of an index run write.                                   *)

FileNodes(t) == {<<"file", f>> : f \in DOMAIN t}
Named(t) == UNION {t[f] : f \in DOMAIN t}
CodeNodes(t) ==
  FileNodes(t) \cup {<<"module", f>> : f \in DOMAIN t}
    \cup {<<"module", i>> : i \in Named(t) \ DOMAIN t}
CommitNodes == {<<"commit", c>> : c \in Commit}
ObsNodes(os) == {<<"observation", o>> : o \in os}

ImportRow(f, t) == {<< <<"file", f>>, Target(i, t), "imports" >> : i \in t[f]}
ModifyRow(c, t) == {<< <<"commit", c>>, <<"file", f>>, "modifies" >> : f \in Touches[c] \cap DOMAIN t}
CiteRow(o) == {<< <<"observation", o>>, <<"commit", c>>, "references" >> : c \in Cites[o]}
FilesOf(o, t) == UNION {FilesFor(p, t) : p \in About[o]}
AboutRow(o, t) == {<< <<"observation", o>>, <<"file", f>>, "about" >> : f \in FilesOf(o, t)}
ImportEdges(t) == UNION {ImportRow(f, t) : f \in DOMAIN t}
ModifyEdges(t) == UNION {ModifyRow(c, t) : c \in Commit}
ObsEdges(t, os) == (UNION {CiteRow(o) : o \in os}) \cup UNION {AboutRow(o, t) : o \in os}

AllTrees == UNION {[fs -> Imports] : fs \in SUBSET File}

ImportOps(i, f, t) ==
  (IF i \in DOMAIN t THEN {} ELSE {AddNode(<<"module", i>>)})
    \cup {AddEdge(<< <<"file", f>>, Target(i, t), "imports" >>)}
FileOps(f, t) ==
  {AddNode(<<"file", f>>), AddNode(<<"module", f>>)} \cup UNION {ImportOps(i, f, t) : i \in t[f]}
GitRow(c) ==
  {AddNode(<<"commit", c>>)} \cup {Link(<<"commit", c>>, <<"file", f>>, "modifies") : f \in Touches[c]}
LinkRow(o) ==
  {AddNode(<<"observation", o>>)}
    \cup {Link(<<"observation", o>>, p, "about") : p \in About[o]}
    \cup {Link(<<"observation", o>>, <<"commit", c>>, "references") : c \in Cites[o]}

ScanOps(t) == UNION {FileOps(f, t) : f \in DOMAIN t}
GitOps == UNION {GitRow(c) : c \in Commit}
LinkOps(os) == UNION {LinkRow(o) : o \in os}

(* A tree has finitely many files, each with finitely many imports.        *)
LEMMA TreeFinite ==
  ASSUME NEW t \in AllTrees
  PROVE  /\ DOMAIN t \subseteq File /\ IsFiniteSet(DOMAIN t)
         /\ \A f \in DOMAIN t : t[f] \subseteq File \cup Library /\ IsFiniteSet(t[f])
<1>1. PICK fs \in SUBSET File : t \in [fs -> Imports]
  BY DEF AllTrees
<1>2. DOMAIN t = fs /\ \A f \in fs : t[f] \in Imports
  BY <1>1
<1>3. IsFiniteSet(fs)
  BY FS_Subset, GraphAssumption
<1> QED BY <1>2, <1>3, GraphAssumption

(* scan_repo writes the rows of a file, each edge after its source.        *)
LEMMA FileYields ==
  ASSUME NEW t \in AllTrees, NEW f \in DOMAIN t
  PROVE  Yields(FileWrites(f, t), FileOps(f, t), {})
<1> DEFINE add(i) == IF i \in DOMAIN t THEN <<>> ELSE <<AddNode(<<"module", i>>)>>
<1> DEFINE addOps(i) == IF i \in DOMAIN t THEN {} ELSE {AddNode(<<"module", i>>)}
<1> DEFINE edge(i) == AddEdge(<< <<"file", f>>, Target(i, t), "imports" >>)
<1> DEFINE part == [i \in t[f] |-> add(i) \o <<edge(i)>>]
<1> DEFINE ops == [i \in t[f] |-> addOps(i) \cup {edge(i)}]
<1> DEFINE ns == {<<"file", f>>}
<1>1. IsFiniteSet(t[f])
  BY TreeFinite
<1>2. ASSUME NEW i \in t[f] PROVE Yields(part[i], ops[i], ns)
  <2>1. Yields(add(i), addOps(i), ns)
    <3>1. Yields(<<AddNode(<<"module", i>>)>>, {AddNode(<<"module", i>>)}, ns)
      BY OneYields DEF AddNode
    <3> QED BY <3>1, NothingYields
  <2>2. edge(i).op = "edge" /\ Source(edge(i)) \in ns
    BY DEF AddEdge, Source
  <2> HIDE DEF edge, add, addOps, ns
  <2>3. Yields(<<edge(i)>>, {edge(i)}, ns)
    BY <2>2, OneYields
  <2>4. Yields(add(i) \o <<edge(i)>>, addOps(i) \cup {edge(i)}, ns)
    BY <2>1, <2>3, ConcatYields
  <2> QED BY <2>4
<1> DEFINE body == FlattenSeq([i \in 1 .. Cardinality(t[f]) |-> part[SetToSeq(t[f])[i]]])
<1>3. Yields(body, UNION {ops[i] : i \in t[f]}, ns)
  <2> HIDE DEF part, ops, ns
  <2> QED BY <1>1, <1>2, PartsYield
<1> DEFINE head == <<AddNode(<<"file", f>>), AddNode(<<"module", f>>)>>
<1> DEFINE headOps == {AddNode(<<"file", f>>), AddNode(<<"module", f>>)}
<1>4. Yields(head, headOps, {})
  <2>1. head \in Seq(headOps) /\ Range(head) = headOps
    BY DEF Range
  <2>2. Founded(head, {})
    BY DEF Founded, AddNode
  <2> QED BY <2>1, <2>2 DEF Yields
<1>5. \A m \in ns : m \in {} \/ AddNode(m) \in headOps
  OBVIOUS
<1>6. FileWrites(f, t) = head \o body
  <2>1. \A i \in 1 .. Cardinality(t[f]) : SetToSeq(t[f])[i] \in t[f]
    <3>1. SetToSeq(t[f]) \in Seq(t[f]) /\ Len(SetToSeq(t[f])) = Cardinality(t[f])
      BY <1>1, Listing
    <3> QED BY <3>1
  <2>2. [i \in 1 .. Cardinality(t[f]) |-> part[SetToSeq(t[f])[i]]]
        = [i \in 1 .. Cardinality(t[f]) |-> add(SetToSeq(t[f])[i]) \o <<edge(SetToSeq(t[f])[i])>>]
    BY <2>1
  <2> HIDE DEF part
  <2> QED BY <2>2 DEF FileWrites
<1>7. FileOps(f, t) = headOps \cup UNION {ops[i] : i \in t[f]}
  BY DEF FileOps, ImportOps
<1> HIDE DEF body, headOps, head, ops, ns
<1>8. Yields(head \o body, headOps \cup UNION {ops[i] : i \in t[f]}, {})
  BY <1>3, <1>4, <1>5, ConcatYields
<1> QED BY <1>6, <1>7, <1>8

(* scan_repo writes the rows of every file of the tree.                    *)
LEMMA ScanYields ==
  ASSUME NEW t \in AllTrees
  PROVE  Yields(ScanWrites(t), ScanOps(t), {})
<1> DEFINE D == DOMAIN t
<1> DEFINE part == [f \in D |-> FileWrites(f, t)]
<1> DEFINE ops == [f \in D |-> FileOps(f, t)]
<1>1. IsFiniteSet(D)
  BY TreeFinite
<1>2. \A f \in D : Yields(part[f], ops[f], {})
  BY FileYields
<1>3. Yields(FlattenSeq([i \in 1 .. Cardinality(D) |-> part[SetToSeq(D)[i]]]),
             UNION {ops[f] : f \in D}, {})
  <2> HIDE DEF part, ops, D
  <2> QED BY <1>1, <1>2, PartsYield
<1>4. UNION {ops[f] : f \in D} = ScanOps(t)
  BY DEF ScanOps
<1>5. SetToSeq(D) \in Seq(D) /\ Len(SetToSeq(D)) = Cardinality(D)
  BY <1>1, Listing
<1>6. DOMAIN SetToSeq(D) = 1 .. Cardinality(D) /\ \A i \in 1 .. Cardinality(D) : SetToSeq(D)[i] \in D
  <2> HIDE DEF D
  <2> QED BY <1>5
<1>7. ScanWrites(t) = FlattenSeq([i \in 1 .. Cardinality(D) |-> part[SetToSeq(D)[i]]])
  <2>1. [i \in 1 .. Cardinality(D) |-> part[SetToSeq(D)[i]]]
        = [i \in DOMAIN SetToSeq(D) |-> FileWrites(SetToSeq(D)[i], t)]
    BY <1>6
  <2> QED BY <2>1 DEF ScanWrites
<1> QED BY <1>3, <1>4, <1>7

(* ingest_git writes the rows of every commit, and links from each.        *)
LEMMA GitYields == Yields(GitWrites, GitOps, {})
<1> DEFINE node(c) == <<"commit", c>>
<1> DEFINE one(c) == [f \in Touches[c] |-> Link(node(c), <<"file", f>>, "modifies")]
<1> DEFINE row(c) == [i \in 1 .. Cardinality(Touches[c]) |-> one(c)[SetToSeq(Touches[c])[i]]]
<1> DEFINE rowOps(c) == {Link(node(c), <<"file", f>>, "modifies") : f \in Touches[c]}
<1> DEFINE part == [c \in Commit |-> <<AddNode(node(c))>> \o row(c)]
<1> DEFINE ops == [c \in Commit |-> {AddNode(node(c))} \cup rowOps(c)]
<1>1. IsFiniteSet(Commit) /\ \A c \in Commit : IsFiniteSet(Touches[c])
  BY GraphAssumption, FS_Subset
<1>2. ASSUME NEW c \in Commit PROVE Yields(part[c], ops[c], {})
  <2>1. Yields(<<AddNode(node(c))>>, {AddNode(node(c))}, {})
    BY OneYields DEF AddNode
  <2>2. \A f \in Touches[c] : Source(one(c)[f]) \in {node(c)}
    BY DEF Link, Source
  <2>3. {one(c)[f] : f \in Touches[c]} = rowOps(c)
    OBVIOUS
  <2>4. Yields(row(c), rowOps(c), {node(c)})
    <3>1. Yields(row(c), {one(c)[f] : f \in Touches[c]}, {node(c)})
      <4> HIDE DEF one, node
      <4> QED BY <1>1, <2>2, ListYields
    <3> QED BY <3>1, <2>3
  <2> HIDE DEF row, rowOps, node
  <2>5. Yields(<<AddNode(node(c))>> \o row(c), {AddNode(node(c))} \cup rowOps(c), {})
    BY <2>1, <2>4, ConcatYields
  <2> QED BY <2>5
<1>3. Yields(FlattenSeq([i \in 1 .. Cardinality(Commit) |-> part[SetToSeq(Commit)[i]]]),
             UNION {ops[c] : c \in Commit}, {})
  <2> HIDE DEF part, ops
  <2> QED BY <1>1, <1>2, PartsYield
<1>4. UNION {ops[c] : c \in Commit} = GitOps
  BY DEF GitOps, GitRow
<1>5. /\ DOMAIN SetToSeq(Commit) = 1 .. Cardinality(Commit)
      /\ \A i \in 1 .. Cardinality(Commit) : SetToSeq(Commit)[i] \in Commit
  <2>1. SetToSeq(Commit) \in Seq(Commit) /\ Len(SetToSeq(Commit)) = Cardinality(Commit)
    BY <1>1, Listing
  <2> QED BY <2>1
<1>6. ASSUME NEW c \in Commit
      PROVE  part[c] = <<AddNode(<<"commit", c>>)>> \o
                [i \in 1 .. Cardinality(Touches[c]) |->
                   Link(<<"commit", c>>, <<"file", SetToSeq(Touches[c])[i]>>, "modifies")]
  <2>1. \A i \in 1 .. Cardinality(Touches[c]) : SetToSeq(Touches[c])[i] \in Touches[c]
    <3>1. SetToSeq(Touches[c]) \in Seq(Touches[c]) /\ Len(SetToSeq(Touches[c])) = Cardinality(Touches[c])
      BY <1>1, Listing
    <3> QED BY <3>1
  <2>2. row(c) = [i \in 1 .. Cardinality(Touches[c]) |->
                   Link(<<"commit", c>>, <<"file", SetToSeq(Touches[c])[i]>>, "modifies")]
    BY <2>1
  <2> HIDE DEF row
  <2> QED BY <2>2
<1>7. GitWrites = FlattenSeq([i \in 1 .. Cardinality(Commit) |-> part[SetToSeq(Commit)[i]]])
  <2>1. [i \in 1 .. Cardinality(Commit) |-> part[SetToSeq(Commit)[i]]]
        = [i \in DOMAIN SetToSeq(Commit) |-> <<AddNode(<<"commit", SetToSeq(Commit)[i]>>)>> \o
                [j \in 1 .. Cardinality(Touches[SetToSeq(Commit)[i]]) |->
                   Link(<<"commit", SetToSeq(Commit)[i]>>,
                        <<"file", SetToSeq(Touches[SetToSeq(Commit)[i]])[j]>>, "modifies")]]
    <3> HIDE DEF part
    <3> QED BY <1>5, <1>6
  <2> HIDE DEF part
  <2> QED BY <2>1 DEF GitWrites
<1> QED BY <1>3, <1>4, <1>7

(* link_observations writes the rows of every observation it saw.          *)
LEMMA LinkYields ==
  ASSUME NEW os \in SUBSET Obs
  PROVE  Yields(LinkWrites(os), LinkOps(os), {})
<1> DEFINE node(o) == <<"observation", o>>
<1> DEFINE about(o) == [p \in About[o] |-> Link(node(o), p, "about")]
<1> DEFINE cites(o) == [c \in Cites[o] |-> Link(node(o), <<"commit", c>>, "references")]
<1> DEFINE row1(o) == [i \in 1 .. Cardinality(About[o]) |-> about(o)[SetToSeq(About[o])[i]]]
<1> DEFINE row2(o) == [i \in 1 .. Cardinality(Cites[o]) |-> cites(o)[SetToSeq(Cites[o])[i]]]
<1> DEFINE ops1(o) == {Link(node(o), p, "about") : p \in About[o]}
<1> DEFINE ops2(o) == {Link(node(o), <<"commit", c>>, "references") : c \in Cites[o]}
<1> DEFINE part == [o \in os |-> <<AddNode(node(o))>> \o row1(o) \o row2(o)]
<1> DEFINE ops == [o \in os |-> {AddNode(node(o))} \cup ops1(o) \cup ops2(o)]
<1>1. IsFiniteSet(os) /\ \A o \in os : IsFiniteSet(About[o]) /\ IsFiniteSet(Cites[o])
  BY GraphAssumption, FS_Subset
<1>2. ASSUME NEW o \in os PROVE Yields(part[o], ops[o], {})
  <2>1. Yields(<<AddNode(node(o))>>, {AddNode(node(o))}, {})
    BY OneYields DEF AddNode
  <2>2. /\ \A p \in About[o] : Source(about(o)[p]) \in {node(o)}
        /\ \A c \in Cites[o] : Source(cites(o)[c]) \in {node(o)}
    BY DEF Link, Source
  <2>3. {about(o)[p] : p \in About[o]} = ops1(o) /\ {cites(o)[c] : c \in Cites[o]} = ops2(o)
    OBVIOUS
  <2>4. Yields(row1(o), ops1(o), {node(o)})
    <3>1. Yields(row1(o), {about(o)[p] : p \in About[o]}, {node(o)})
      <4> HIDE DEF about, node
      <4> QED BY <1>1, <2>2, ListYields
    <3> QED BY <3>1, <2>3
  <2>5. Yields(row2(o), ops2(o), {node(o)})
    <3>1. Yields(row2(o), {cites(o)[c] : c \in Cites[o]}, {node(o)})
      <4> HIDE DEF cites, node
      <4> QED BY <1>1, <2>2, ListYields
    <3> QED BY <3>1, <2>3
  <2> HIDE DEF row1, row2, ops1, ops2, node
  <2>6. Yields(<<AddNode(node(o))>> \o row1(o), {AddNode(node(o))} \cup ops1(o), {})
    BY <2>1, <2>4, ConcatYields
  <2> DEFINE v == <<AddNode(node(o))>> \o row1(o)
  <2> DEFINE V == {AddNode(node(o))} \cup ops1(o)
  <2>7. AddNode(node(o)) \in V
    OBVIOUS
  <2>8. Yields(v \o row2(o), V \cup ops2(o), {})
    <3> HIDE DEF v, V
    <3> QED BY <2>5, <2>6, <2>7, ConcatYields DEF v, V
  <2> QED BY <2>8
<1>3. Yields(FlattenSeq([i \in 1 .. Cardinality(os) |-> part[SetToSeq(os)[i]]]),
             UNION {ops[o] : o \in os}, {})
  <2> HIDE DEF part, ops
  <2> QED BY <1>1, <1>2, PartsYield
<1>4. UNION {ops[o] : o \in os} = LinkOps(os)
  BY DEF LinkOps, LinkRow
<1> DEFINE said(o) ==
      <<AddNode(<<"observation", o>>)>> \o
        [i \in DOMAIN SetToSeq(About[o]) |-> Link(<<"observation", o>>, SetToSeq(About[o])[i], "about")] \o
        [i \in DOMAIN SetToSeq(Cites[o]) |->
           Link(<<"observation", o>>, <<"commit", SetToSeq(Cites[o])[i]>>, "references")]
<1>5. ASSUME NEW o \in os PROVE part[o] = said(o)
  <2>1. /\ DOMAIN SetToSeq(About[o]) = 1 .. Cardinality(About[o])
        /\ \A i \in 1 .. Cardinality(About[o]) : SetToSeq(About[o])[i] \in About[o]
    <3>1. SetToSeq(About[o]) \in Seq(About[o]) /\ Len(SetToSeq(About[o])) = Cardinality(About[o])
      BY <1>1, Listing
    <3> QED BY <3>1
  <2>2. /\ DOMAIN SetToSeq(Cites[o]) = 1 .. Cardinality(Cites[o])
        /\ \A i \in 1 .. Cardinality(Cites[o]) : SetToSeq(Cites[o])[i] \in Cites[o]
    <3>1. SetToSeq(Cites[o]) \in Seq(Cites[o]) /\ Len(SetToSeq(Cites[o])) = Cardinality(Cites[o])
      BY <1>1, Listing
    <3> QED BY <3>1
  <2>3. row1(o) = [i \in DOMAIN SetToSeq(About[o]) |->
                     Link(<<"observation", o>>, SetToSeq(About[o])[i], "about")]
    BY <2>1
  <2>4. row2(o) = [i \in DOMAIN SetToSeq(Cites[o]) |->
                     Link(<<"observation", o>>, <<"commit", SetToSeq(Cites[o])[i]>>, "references")]
    BY <2>2
  <2> HIDE DEF row1, row2
  <2> QED BY <2>3, <2>4
<1>6. \A i \in 1 .. Cardinality(os) : SetToSeq(os)[i] \in os
  <2>1. SetToSeq(os) \in Seq(os) /\ Len(SetToSeq(os)) = Cardinality(os)
    BY <1>1, Listing
  <2> QED BY <2>1
<1>7. [i \in 1 .. Cardinality(os) |-> part[SetToSeq(os)[i]]]
      = [i \in 1 .. Cardinality(os) |-> said(SetToSeq(os)[i])]
  <2> HIDE DEF part, said
  <2> QED BY <1>5, <1>6
<1>8. LinkWrites(os) = FlattenSeq([i \in 1 .. Cardinality(os) |-> part[SetToSeq(os)[i]]])
  <2> HIDE DEF part
  <2> QED BY <1>7 DEF LinkWrites
<1> QED BY <1>3, <1>4, <1>8

Added(ws) == {w.node : w \in {x \in ws : x.op = "node"}}

Meant(w, t) ==
  IF w.rel = "about" THEN {<<"file", f>> : f \in FilesFor(w.to, t)}
  ELSE {w.to} \cap (FileNodes(t) \cup CommitNodes)

Strokes(w, t) == {<<w.from, n, w.rel>> : n \in Meant(w, t)}
Drawn(ws, t) ==
  {w.edge : w \in {x \in ws : x.op = "edge"}}
    \cup UNION {Strokes(w, t) : w \in {x \in ws : x.op = "link"}}

(* What is among the writes of a scan, ...                                 *)
LEMMA InScanOps ==
  ASSUME NEW t, NEW w
  PROVE  w \in ScanOps(t) <=>
           \E f \in DOMAIN t :
             \/ w = AddNode(<<"file", f>>)
             \/ w = AddNode(<<"module", f>>)
             \/ \E i \in t[f] : \/ i \notin DOMAIN t /\ w = AddNode(<<"module", i>>)
                                \/ w = AddEdge(<< <<"file", f>>, Target(i, t), "imports" >>)
<1>1. \A i, f : w \in ImportOps(i, f, t) <=>
                  \/ i \notin DOMAIN t /\ w = AddNode(<<"module", i>>)
                  \/ w = AddEdge(<< <<"file", f>>, Target(i, t), "imports" >>)
  BY DEF ImportOps
<1>2. \A f : w \in FileOps(f, t) <=>
               \/ w = AddNode(<<"file", f>>) \/ w = AddNode(<<"module", f>>)
               \/ \E i \in t[f] : w \in ImportOps(i, f, t)
  <2> TAKE f
  <2>1. w \in UNION {ImportOps(i, f, t) : i \in t[f]} <=> \E i \in t[f] : w \in ImportOps(i, f, t)
    OBVIOUS
  <2> QED BY <2>1 DEF FileOps
<1>3. w \in ScanOps(t) <=> \E f \in DOMAIN t : w \in FileOps(f, t)
  BY DEF ScanOps
<1> QED BY <1>1, <1>2, <1>3

(* ... among those of the history, ...                                     *)
LEMMA InGitOps ==
  ASSUME NEW w
  PROVE  w \in GitOps <=>
           \E c \in Commit : \/ w = AddNode(<<"commit", c>>)
                             \/ \E f \in Touches[c] : w = Link(<<"commit", c>>, <<"file", f>>, "modifies")
<1>1. \A c : w \in GitRow(c) <=>
              \/ w = AddNode(<<"commit", c>>)
              \/ \E f \in Touches[c] : w = Link(<<"commit", c>>, <<"file", f>>, "modifies")
  BY DEF GitRow
<1>2. w \in GitOps <=> \E c \in Commit : w \in GitRow(c)
  BY DEF GitOps
<1> QED BY <1>1, <1>2

(* ... and among those of the observations.                                *)
LEMMA InLinkOps ==
  ASSUME NEW w, NEW os
  PROVE  w \in LinkOps(os) <=>
           \E o \in os :
             \/ w = AddNode(<<"observation", o>>)
             \/ \E p \in About[o] : w = Link(<<"observation", o>>, p, "about")
             \/ \E c \in Cites[o] : w = Link(<<"observation", o>>, <<"commit", c>>, "references")
<1>1. \A o : w \in LinkRow(o) <=>
              \/ w = AddNode(<<"observation", o>>)
              \/ \E p \in About[o] : w = Link(<<"observation", o>>, p, "about")
              \/ \E c \in Cites[o] : w = Link(<<"observation", o>>, <<"commit", c>>, "references")
  BY DEF LinkRow
<1>2. w \in LinkOps(os) <=> \E o \in os : w \in LinkRow(o)
  BY DEF LinkOps
<1> QED BY <1>1, <1>2

(* What the code's nodes are, ...                                          *)
LEMMA InCodeNodes ==
  ASSUME NEW n, NEW t
  PROVE  n \in CodeNodes(t) <=>
           \E f \in DOMAIN t : \/ n = <<"file", f>> \/ n = <<"module", f>>
                              \/ \E i \in t[f] : i \notin DOMAIN t /\ n = <<"module", i>>
<1>1. \A i : i \in Named(t) <=> \E f \in DOMAIN t : i \in t[f]
  BY DEF Named
<1>2. n \in CodeNodes(t) <=> \/ \E f \in DOMAIN t : n = <<"file", f>> \/ n = <<"module", f>>
                            \/ \E i \in Named(t) : i \notin DOMAIN t /\ n = <<"module", i>>
  BY DEF CodeNodes, FileNodes
<1> QED BY <1>1, <1>2

(* ... what its imports are, ...                                           *)
LEMMA InImportEdges ==
  ASSUME NEW e, NEW t
  PROVE  e \in ImportEdges(t) <=>
           \E f \in DOMAIN t : \E i \in t[f] : e = << <<"file", f>>, Target(i, t), "imports" >>
<1>1. \A f : e \in ImportRow(f, t) <=> \E i \in t[f] : e = << <<"file", f>>, Target(i, t), "imports" >>
  BY DEF ImportRow
<1>2. e \in ImportEdges(t) <=> \E f \in DOMAIN t : e \in ImportRow(f, t)
  BY DEF ImportEdges
<1> QED BY <1>1, <1>2

(* ... what the commits modify, ...                                        *)
LEMMA InModifyEdges ==
  ASSUME NEW e, NEW t
  PROVE  e \in ModifyEdges(t) <=>
           \E c \in Commit : \E f \in Touches[c] \cap DOMAIN t :
             e = << <<"commit", c>>, <<"file", f>>, "modifies" >>
<1>1. \A c : e \in ModifyRow(c, t) <=>
              \E f \in Touches[c] \cap DOMAIN t : e = << <<"commit", c>>, <<"file", f>>, "modifies" >>
  BY DEF ModifyRow
<1>2. e \in ModifyEdges(t) <=> \E c \in Commit : e \in ModifyRow(c, t)
  BY DEF ModifyEdges
<1> QED BY <1>1, <1>2

(* ... and what the observations refer to.                                 *)
LEMMA InObsEdges ==
  ASSUME NEW e, NEW t, NEW os
  PROVE  e \in ObsEdges(t, os) <=>
           \E o \in os :
             \/ \E c \in Cites[o] : e = << <<"observation", o>>, <<"commit", c>>, "references" >>
             \/ \E p \in About[o] : \E f \in FilesFor(p, t) :
                  e = << <<"observation", o>>, <<"file", f>>, "about" >>
<1>1. \A o : e \in CiteRow(o) <=>
              \E c \in Cites[o] : e = << <<"observation", o>>, <<"commit", c>>, "references" >>
  BY DEF CiteRow
<1>2. \A o, f : f \in FilesOf(o, t) <=> \E p \in About[o] : f \in FilesFor(p, t)
  BY DEF FilesOf
<1>3. \A o : e \in AboutRow(o, t) <=>
              \E f \in FilesOf(o, t) : e = << <<"observation", o>>, <<"file", f>>, "about" >>
  BY DEF AboutRow
<1>4. e \in ObsEdges(t, os) <=> \E o \in os : e \in CiteRow(o) \/ e \in AboutRow(o, t)
  BY DEF ObsEdges
<1> QED BY <1>1, <1>2, <1>3, <1>4

(* The fields of the three kinds of writes.                                *)
LEMMA OpFields ==
  /\ \A n : AddNode(n).op = "node" /\ AddNode(n).node = n
  /\ \A e : AddEdge(e).op = "edge" /\ AddEdge(e).edge = e
  /\ \A a, b, rel : /\ Link(a, b, rel).op = "link" /\ Link(a, b, rel).from = a
                    /\ Link(a, b, rel).to = b /\ Link(a, b, rel).rel = rel
BY DEF AddNode, AddEdge, Link

(* A node is added by a write of it.                                       *)
LEMMA InAdded ==
  ASSUME NEW ws, NEW n
  PROVE  n \in Added(ws) <=> \E w \in ws : w.op = "node" /\ w.node = n
BY DEF Added

(* An edge is drawn by a write of it, or by a link that means it.          *)
LEMMA InDrawn ==
  ASSUME NEW ws, NEW t, NEW e
  PROVE  e \in Drawn(ws, t) <=>
           \E w \in ws : \/ w.op = "edge" /\ w.edge = e
                         \/ w.op = "link" /\ \E n \in Meant(w, t) : e = <<w.from, n, w.rel>>
<1>1. \A w : e \in Strokes(w, t) <=> \E n \in Meant(w, t) : e = <<w.from, n, w.rel>>
  BY DEF Strokes
<1>2. e \in Drawn(ws, t) <=> \E w \in ws : \/ w.op = "edge" /\ w.edge = e
                                           \/ w.op = "link" /\ e \in Strokes(w, t)
  BY DEF Drawn
<1> QED BY <1>1, <1>2

(* The writes of a scan come to the nodes and imports of its tree, ...     *)
LEMMA ScanAdds ==
  ASSUME NEW t, NEW u
  PROVE  Added(ScanOps(t)) = CodeNodes(t) /\ Drawn(ScanOps(t), u) = ImportEdges(t)
<1>2. ASSUME NEW n \in Added(ScanOps(t)) PROVE n \in CodeNodes(t)
  <2>1. PICK w \in ScanOps(t) : w.op = "node" /\ w.node = n
    BY <1>2, InAdded
  <2>2. PICK f \in DOMAIN t :
          \/ w = AddNode(<<"file", f>>)
          \/ w = AddNode(<<"module", f>>)
          \/ \E i \in t[f] : \/ i \notin DOMAIN t /\ w = AddNode(<<"module", i>>)
                             \/ w = AddEdge(<< <<"file", f>>, Target(i, t), "imports" >>)
    BY <2>1, InScanOps
  <2>3. \/ n = <<"file", f>> \/ n = <<"module", f>>
        \/ \E i \in t[f] : i \notin DOMAIN t /\ n = <<"module", i>>
    BY <2>1, <2>2 DEF AddNode, AddEdge
  <2> QED BY <2>3, InCodeNodes
<1>3. ASSUME NEW n \in CodeNodes(t) PROVE n \in Added(ScanOps(t))
  <2>1. PICK f \in DOMAIN t :
          \/ n = <<"file", f>> \/ n = <<"module", f>>
          \/ \E i \in t[f] : i \notin DOMAIN t /\ n = <<"module", i>>
    BY <1>3, InCodeNodes
  <2>2. AddNode(n) \in ScanOps(t)
    BY <2>1, InScanOps
  <2> QED BY <2>2, OpFields, InAdded
<1>4. ASSUME NEW e \in Drawn(ScanOps(t), u) PROVE e \in ImportEdges(t)
  <2>1. PICK w \in ScanOps(t) : w.op # "node" /\ (w.op = "edge" => w.edge = e)
    BY <1>4, InDrawn
  <2>2. PICK f \in DOMAIN t :
          \/ w = AddNode(<<"file", f>>)
          \/ w = AddNode(<<"module", f>>)
          \/ \E i \in t[f] : \/ i \notin DOMAIN t /\ w = AddNode(<<"module", i>>)
                             \/ w = AddEdge(<< <<"file", f>>, Target(i, t), "imports" >>)
    BY <2>1, InScanOps
  <2>3. \E i \in t[f] : e = << <<"file", f>>, Target(i, t), "imports" >>
    BY <2>1, <2>2 DEF AddNode, AddEdge
  <2> QED BY <2>3, InImportEdges
<1>5. ASSUME NEW e \in ImportEdges(t) PROVE e \in Drawn(ScanOps(t), u)
  <2>1. PICK f \in DOMAIN t : \E i \in t[f] : e = << <<"file", f>>, Target(i, t), "imports" >>
    BY <1>5, InImportEdges
  <2>2. AddEdge(e) \in ScanOps(t)
    BY <2>1, InScanOps
  <2> QED BY <2>2, OpFields, InDrawn
<1> QED BY <1>2, <1>3, <1>4, <1>5

(* ... those of the history to the commits and what they modify, ...       *)
LEMMA GitAdds ==
  ASSUME NEW t \in AllTrees
  PROVE  Added(GitOps) = CommitNodes /\ Drawn(GitOps, t) = ModifyEdges(t)
<1>1. Added(GitOps) = CommitNodes
  <2>1. ASSUME NEW n \in Added(GitOps) PROVE n \in CommitNodes
    <3>1. PICK w \in GitOps : w.op = "node" /\ w.node = n
      BY <2>1, InAdded
    <3>2. PICK c \in Commit : \/ w = AddNode(<<"commit", c>>)
                             \/ \E f \in Touches[c] : w = Link(<<"commit", c>>, <<"file", f>>, "modifies")
      BY <3>1, InGitOps
    <3>3. n = <<"commit", c>>
      BY <3>1, <3>2 DEF AddNode, Link
    <3> QED BY <3>3 DEF CommitNodes
  <2>2. ASSUME NEW n \in CommitNodes PROVE n \in Added(GitOps)
    <3>1. AddNode(n) \in GitOps
      BY <2>2, InGitOps DEF CommitNodes
    <3> QED BY <3>1, OpFields, InAdded
  <2> QED BY <2>1, <2>2
<1>2. ASSUME NEW c \in Commit, NEW f \in Touches[c]
      PROVE  Meant(Link(<<"commit", c>>, <<"file", f>>, "modifies"), t)
             = IF f \in DOMAIN t THEN {<<"file", f>>} ELSE {}
  BY DEF Meant, Link, FileNodes, CommitNodes
<1>3. Drawn(GitOps, t) = ModifyEdges(t)
  <2>1. ASSUME NEW e \in Drawn(GitOps, t) PROVE e \in ModifyEdges(t)
    <3>1. PICK w \in GitOps :
            \/ w.op = "edge" /\ w.edge = e
            \/ w.op = "link" /\ \E n \in Meant(w, t) : e = <<w.from, n, w.rel>>
      BY <2>1, InDrawn
    <3>2. PICK c \in Commit : \/ w = AddNode(<<"commit", c>>)
                             \/ \E f \in Touches[c] : w = Link(<<"commit", c>>, <<"file", f>>, "modifies")
      BY <3>1, InGitOps
    <3>3. PICK f \in Touches[c] : w = Link(<<"commit", c>>, <<"file", f>>, "modifies")
      BY <3>1, <3>2 DEF AddNode
    <3>4. f \in DOMAIN t /\ e = << <<"commit", c>>, <<"file", f>>, "modifies" >>
      BY <3>1, <3>3, <1>2 DEF Link
    <3> QED BY <3>3, <3>4, InModifyEdges
  <2>2. ASSUME NEW e \in ModifyEdges(t) PROVE e \in Drawn(GitOps, t)
    <3>1. PICK c \in Commit : \E f \in Touches[c] \cap DOMAIN t :
            e = << <<"commit", c>>, <<"file", f>>, "modifies" >>
      BY <2>2, InModifyEdges
    <3>2. PICK f \in Touches[c] \cap DOMAIN t : e = << <<"commit", c>>, <<"file", f>>, "modifies" >>
      BY <3>1
    <3> DEFINE w == Link(<<"commit", c>>, <<"file", f>>, "modifies")
    <3>3. w \in GitOps
      BY <3>2, InGitOps
    <3>4. w.op = "link" /\ w.from = <<"commit", c>> /\ w.rel = "modifies"
      BY DEF Link
    <3>5. <<"file", f>> \in Meant(w, t)
      BY <1>2
    <3> HIDE DEF w
    <3> QED BY <3>2, <3>3, <3>4, <3>5, InDrawn
  <2> QED BY <2>1, <2>2
<1> QED BY <1>1, <1>3

(* ... those of the observations to these and what they refer to.          *)
LEMMA LinkAdds ==
  ASSUME NEW t \in AllTrees, NEW os \in SUBSET Obs
  PROVE  Added(LinkOps(os)) = ObsNodes(os) /\ Drawn(LinkOps(os), t) = ObsEdges(t, os)
<1>1. Added(LinkOps(os)) = ObsNodes(os)
  <2>1. ASSUME NEW n \in Added(LinkOps(os)) PROVE n \in ObsNodes(os)
    <3>1. PICK w \in LinkOps(os) : w.op = "node" /\ w.node = n
      BY <2>1, InAdded
    <3>2. PICK o \in os :
            \/ w = AddNode(<<"observation", o>>)
            \/ \E p \in About[o] : w = Link(<<"observation", o>>, p, "about")
            \/ \E c \in Cites[o] : w = Link(<<"observation", o>>, <<"commit", c>>, "references")
      BY <3>1, InLinkOps
    <3>3. n = <<"observation", o>>
      BY <3>1, <3>2 DEF AddNode, Link
    <3> QED BY <3>3 DEF ObsNodes
  <2>2. ASSUME NEW n \in ObsNodes(os) PROVE n \in Added(LinkOps(os))
    <3>1. AddNode(n) \in LinkOps(os)
      BY <2>2, InLinkOps DEF ObsNodes
    <3> QED BY <3>1, OpFields, InAdded
  <2> QED BY <2>1, <2>2
<1>2. ASSUME NEW o \in os, NEW c \in Cites[o]
      PROVE  Meant(Link(<<"observation", o>>, <<"commit", c>>, "references"), t) = {<<"commit", c>>}
  BY GraphAssumption DEF Meant, Link, FileNodes, CommitNodes
<1>3. ASSUME NEW o \in os, NEW p \in About[o]
      PROVE  Meant(Link(<<"observation", o>>, p, "about"), t) = {<<"file", f>> : f \in FilesFor(p, t)}
  BY DEF Meant, Link
<1>4. ASSUME NEW e \in Drawn(LinkOps(os), t) PROVE e \in ObsEdges(t, os)
  <2>1. PICK w \in LinkOps(os) : \/ w.op = "edge" /\ w.edge = e
                                 \/ w.op = "link" /\ \E n \in Meant(w, t) : e = <<w.from, n, w.rel>>
    BY <1>4, InDrawn
  <2>2. PICK o \in os : \/ w = AddNode(<<"observation", o>>)
                        \/ \E p \in About[o] : w = Link(<<"observation", o>>, p, "about")
                        \/ \E c \in Cites[o] : w = Link(<<"observation", o>>, <<"commit", c>>, "references")
    BY <2>1, InLinkOps
  <2>3. CASE \E p \in About[o] : w = Link(<<"observation", o>>, p, "about")
    <3>1. PICK p \in About[o] : w = Link(<<"observation", o>>, p, "about")
      BY <2>3
    <3>2. w.from = <<"observation", o>> /\ w.rel = "about"
      BY <3>1 DEF Link
    <3>4. PICK n \in Meant(w, t) : e = <<w.from, n, w.rel>>
      BY <2>1, <3>1 DEF Link
    <3>3. PICK f \in FilesFor(p, t) : e = << <<"observation", o>>, <<"file", f>>, "about" >>
      BY <3>4, <3>1, <3>2, <1>3
    <3> QED BY <3>1, <3>3, InObsEdges
  <2>4. CASE \E c \in Cites[o] : w = Link(<<"observation", o>>, <<"commit", c>>, "references")
    <3>1. PICK c \in Cites[o] : w = Link(<<"observation", o>>, <<"commit", c>>, "references")
      BY <2>4
    <3>2. w.from = <<"observation", o>> /\ w.rel = "references"
      BY <3>1 DEF Link
    <3>4. PICK n \in Meant(w, t) : e = <<w.from, n, w.rel>>
      BY <2>1, <3>1 DEF Link
    <3>3. e = << <<"observation", o>>, <<"commit", c>>, "references" >>
      BY <3>4, <3>1, <3>2, <1>2
    <3> QED BY <3>1, <3>3, InObsEdges
  <2> QED BY <2>1, <2>2, <2>3, <2>4 DEF AddNode
<1>5. ASSUME NEW e \in ObsEdges(t, os) PROVE e \in Drawn(LinkOps(os), t)
  <2>1. PICK o \in os :
          \/ \E c \in Cites[o] : e = << <<"observation", o>>, <<"commit", c>>, "references" >>
          \/ \E p \in About[o] : \E f \in FilesFor(p, t) :
               e = << <<"observation", o>>, <<"file", f>>, "about" >>
    BY <1>5, InObsEdges
  <2>2. CASE \E c \in Cites[o] : e = << <<"observation", o>>, <<"commit", c>>, "references" >>
    <3>1. PICK c \in Cites[o] : e = << <<"observation", o>>, <<"commit", c>>, "references" >>
      BY <2>2
    <3> DEFINE w == Link(<<"observation", o>>, <<"commit", c>>, "references")
    <3>2. w \in LinkOps(os)
      BY InLinkOps
    <3>3. w.op = "link" /\ w.from = <<"observation", o>> /\ w.rel = "references"
      BY DEF Link
    <3>4. <<"commit", c>> \in Meant(w, t)
      BY <1>2
    <3> HIDE DEF w
    <3> QED BY <3>1, <3>2, <3>3, <3>4, InDrawn
  <2>3. CASE \E p \in About[o] : \E f \in FilesFor(p, t) :
               e = << <<"observation", o>>, <<"file", f>>, "about" >>
    <3>1. PICK p \in About[o] : \E f \in FilesFor(p, t) :
               e = << <<"observation", o>>, <<"file", f>>, "about" >>
      BY <2>3
    <3>2. PICK f \in FilesFor(p, t) : e = << <<"observation", o>>, <<"file", f>>, "about" >>
      BY <3>1
    <3> DEFINE w == Link(<<"observation", o>>, p, "about")
    <3>3. w \in LinkOps(os)
      BY InLinkOps
    <3>4. w.op = "link" /\ w.from = <<"observation", o>> /\ w.rel = "about"
      BY DEF Link
    <3>5. <<"file", f>> \in Meant(w, t)
      BY <1>3
    <3> HIDE DEF w
    <3> QED BY <3>2, <3>3, <3>4, <3>5, InDrawn
  <2> QED BY <2>1, <2>2, <2>3
<1> QED BY <1>1, <1>4, <1>5

(* Once the tree's files are in the graph, and no other, resolve_file finds*)
(* those that a path stands for.                                           *)
LEMMA Resolving ==
  ASSUME NEW t \in AllTrees, NEW p \in Path,
         \A n \in nodes : n[1] = "file" => n \in FileNodes(t), FileNodes(t) \subseteq nodes
  PROVE  Resolve(p) = {<<"file", f>> : f \in FilesFor(p, t)}
<1>1. IsNode(<<"file", p>>) <=> p \in DOMAIN t
  BY DEF IsNode, FileNodes
<1>2. CASE p \in DOMAIN t
  BY <1>1, <1>2 DEF Resolve, FilesFor
<1>3. CASE p \notin DOMAIN t
  <2> DEFINE T == Tails[p] \cap DOMAIN t
  <2> DEFINE M == {n \in nodes : n[1] = "file" /\ n[2] \in Tails[p]}
  <2>1. M = {<<"file", f>> : f \in T}
    BY DEF FileNodes
  <2>2. IsFiniteSet(M)
    <3>1. DOMAIN t \subseteq File
      BY TreeFinite
    <3>2. IsFiniteSet({"file"} \X File)
      BY GraphAssumption, FS_Singleton, FS_Product
    <3>3. M \in SUBSET ({"file"} \X File)
      BY <2>1, <3>1
    <3> HIDE DEF M
    <3> QED BY <3>2, <3>3, FS_Subset
  <2>3. Cardinality(M) = 1 <=> \E f : T = {f}
    <3>1. Cardinality(M) = 1 <=> \E x : M = {x}
      <4> HIDE DEF M
      <4> QED BY <2>2, FS_Singleton
    <3>2. ASSUME NEW x, M = {x} PROVE \E f : T = {f}
      <4>1. PICK f \in T : x = <<"file", f>>
        BY <2>1, <3>2
      <4>2. \A g \in T : g = f
        <5> TAKE g \in T
        <5>1. <<"file", g>> \in M
          BY <2>1
        <5>2. <<"file", g>> = <<"file", f>>
          BY <5>1, <3>2, <4>1
        <5> QED BY <5>2
      <4>3. T = {f}
        BY <4>1, <4>2
      <4> QED BY <4>3
    <3>3. ASSUME NEW f, T = {f} PROVE M = {<<"file", f>>}
      BY <2>1, <3>3
    <3> QED BY <3>1, <3>2, <3>3
  <2>4. Resolve(p) = IF Cardinality(M) = 1 THEN M ELSE {}
    BY <1>1, <1>3 DEF Resolve
  <2>5. FilesFor(p, t) = {f \in T : T = {f}}
    BY <1>3 DEF FilesFor
  <2>6. CASE \E f : T = {f}
    <3>1. PICK f : T = {f}
      BY <2>6
    <3>2. {g \in T : T = {g}} = {f}
      BY <3>1
    <3> HIDE DEF M, T
    <3> QED BY <2>1, <2>3, <2>4, <2>5, <3>1, <3>2
  <2>7. CASE ~\E f : T = {f}
    BY <2>3, <2>4, <2>5, <2>7
  <2> QED BY <2>6, <2>7
<1> QED BY <1>2, <1>3

------------------------------------------------------------------------------
(* The invariant of the index.                                             *)

Kinds == {"file", "module", "commit", "observation"}
NodeSet == Kinds \X (File \cup Library \cup Commit \cup Obs)
EdgeSet == (Files \X NodeSet \X {"imports"})
             \cup (NodeSet \X NodeSet \X {"modifies", "about", "references"})
AllOps == (UNION {ScanOps(t) : t \in AllTrees}) \cup GitOps \cup LinkOps(Obs)

GraphTypeOK ==
  /\ tree \in AllTrees
  /\ store \in [Obs -> {"absent", "live", "archived", "superseded"}]
  /\ nodes \subseteq NodeSet /\ edges \subseteq EdgeSet
  /\ run \in [Run -> [phase : Phases, todo : Seq(AllOps)]]
  /\ \A r \in Run : run[r].phase \in {"idle", "walk"} => run[r].todo = <<>>
  /\ seen \in [Run -> [tree : AllTrees, obs : SUBSET Obs]]
  /\ overlap \in BOOLEAN

(* What a part of the index writes, and what the parts before it wrote.    *)
PartOps(p, t, os) == CASE p = "scan" -> ScanOps(t) [] p = "git" -> GitOps [] OTHER -> LinkOps(os)
NodesBefore(p, t) ==
  CASE p = "scan" -> {} [] p = "git" -> CodeNodes(t) [] OTHER -> CodeNodes(t) \cup CommitNodes
EdgesBefore(p, t) ==
  CASE p = "scan" -> {} [] p = "git" -> ImportEdges(t) [] OTHER -> ImportEdges(t) \cup ModifyEdges(t)

(* What is written so far, and still to be written, is all of the part ... *)
Ahead(p, t, os, ws, ns, es) ==
  /\ ws \subseteq PartOps(p, t, os)
  /\ NodesBefore(p, t) \subseteq ns /\ EdgesBefore(p, t) \subseteq es
  /\ Added(PartOps(p, t, os)) \subseteq ns \cup Added(ws)
  /\ p # "link" => Drawn(PartOps(p, t, os), t) \subseteq es \cup Drawn(ws, t)

(* ... and, in a run that was never overlapped, nothing else is there.     *)
Exact(p, t, os, ws, ns, es) ==
  /\ ns \subseteq NodesBefore(p, t) \cup Added(PartOps(p, t, os))
  /\ es \subseteq EdgesBefore(p, t) \cup Drawn(PartOps(p, t, os), t)
  /\ Drawn(PartOps(p, t, os), t) \subseteq es \cup Drawn(ws, t)

Writing == {"scan", "git", "link"}

Progress ==
  \A r \in Run : cleared = r /\ run[r].phase \in Writing =>
    LET p == run[r].phase
        t == seen[r].tree
        os == seen[r].obs
        ws == Range(run[r].todo)
    IN Ahead(p, t, os, ws, nodes, edges) /\ (~overlap => Exact(p, t, os, ws, nodes, edges))

(* Until two runs overlap there is one at most, and no edge without source.*)
Alone ==
  ~overlap =>
    /\ \A r \in Run : r # cleared => run[r].phase = "idle"
    /\ \A e \in edges : e[1] \in nodes
    /\ \A r \in Run : Founded(run[r].todo, nodes)
    /\ \A r \in Run : run[r].phase = "walk" => nodes = {} /\ edges = {}

IndexInv == GraphTypeOK /\ Progress /\ Alone

Typed(w) ==
  \/ w.op = "node" /\ w.node \in NodeSet
  \/ w.op = "edge" /\ w.edge \in EdgeSet
  \/ w.op = "link" /\ w.from \in NodeSet /\ w.rel \in {"modifies", "about", "references"}

(* Every write is a record of one of the three kinds, over proper nodes.   *)
LEMMA OpTyped == ASSUME NEW w \in AllOps PROVE Typed(w)
<1>1. CASE \E t \in AllTrees : w \in ScanOps(t)
  <2>1. PICK t \in AllTrees : w \in ScanOps(t)
    BY <1>1
  <2>2. DOMAIN t \subseteq File /\ \A f \in DOMAIN t : t[f] \subseteq File \cup Library
    BY TreeFinite
  <2>3. PICK f \in DOMAIN t :
          \/ w = AddNode(<<"file", f>>)
          \/ w = AddNode(<<"module", f>>)
          \/ \E i \in t[f] : \/ i \notin DOMAIN t /\ w = AddNode(<<"module", i>>)
                             \/ w = AddEdge(<< <<"file", f>>, Target(i, t), "imports" >>)
    BY <2>1, InScanOps
  <2>4. <<"file", f>> \in NodeSet /\ <<"module", f>> \in NodeSet /\ <<"file", f>> \in Files
    BY <2>2 DEF NodeSet, Kinds, Files
  <2>5. \A i \in t[f] : <<"module", i>> \in NodeSet /\ Target(i, t) \in NodeSet
    BY <2>2 DEF NodeSet, Kinds, Target
  <2>6. \A i \in t[f] : << <<"file", f>>, Target(i, t), "imports" >> \in EdgeSet
    BY <2>4, <2>5 DEF EdgeSet
  <2> QED BY <2>3, <2>4, <2>5, <2>6 DEF AddNode, AddEdge, Typed
<1>2. CASE w \in GitOps
  <2>1. PICK c \in Commit : \/ w = AddNode(<<"commit", c>>)
                            \/ \E f \in Touches[c] : w = Link(<<"commit", c>>, <<"file", f>>, "modifies")
    BY <1>2, InGitOps
  <2>2. <<"commit", c>> \in NodeSet
    BY DEF NodeSet, Kinds
  <2> QED BY <2>1, <2>2 DEF AddNode, Link, Typed
<1>3. CASE w \in LinkOps(Obs)
  <2>1. PICK o \in Obs :
             \/ w = AddNode(<<"observation", o>>)
             \/ \E p \in About[o] : w = Link(<<"observation", o>>, p, "about")
             \/ \E c \in Cites[o] : w = Link(<<"observation", o>>, <<"commit", c>>, "references")
    BY <1>3, InLinkOps
  <2>2. <<"observation", o>> \in NodeSet
    BY DEF NodeSet, Kinds
  <2> QED BY <2>1, <2>2 DEF AddNode, Link, Typed
<1> QED BY <1>1, <1>2, <1>3 DEF AllOps

(* The writes of each part are among the writes there are.                 *)
LEMMA PartsTyped ==
  /\ \A t \in AllTrees : ScanOps(t) \subseteq AllOps /\ ScanWrites(t) \in Seq(AllOps)
  /\ GitOps \subseteq AllOps /\ GitWrites \in Seq(AllOps)
  /\ \A os \in SUBSET Obs : LinkOps(os) \subseteq AllOps /\ LinkWrites(os) \in Seq(AllOps)
<1>1. ASSUME NEW t \in AllTrees PROVE ScanOps(t) \subseteq AllOps /\ ScanWrites(t) \in Seq(AllOps)
  <2>1. ScanOps(t) \subseteq AllOps
    BY DEF AllOps
  <2>2. ScanWrites(t) \in Seq(ScanOps(t))
    BY ScanYields DEF Yields
  <2> QED BY <2>1, <2>2, SeqMonotonic
<1>2. GitOps \subseteq AllOps /\ GitWrites \in Seq(AllOps)
  <2>1. GitOps \subseteq AllOps
    BY DEF AllOps
  <2>2. GitWrites \in Seq(GitOps)
    BY GitYields DEF Yields
  <2> QED BY <2>1, <2>2, SeqMonotonic
<1>3. ASSUME NEW os \in SUBSET Obs PROVE LinkOps(os) \subseteq AllOps /\ LinkWrites(os) \in Seq(AllOps)
  <2>1. LinkOps(os) \subseteq AllOps
    <3> SUFFICES ASSUME NEW w \in LinkOps(os) PROVE w \in LinkOps(Obs)
      BY DEF AllOps
    <3>1. w \in UNION {LinkRow(o) : o \in os}
      BY DEF LinkOps
    <3> QED BY <3>1 DEF LinkOps
  <2>2. LinkWrites(os) \in Seq(LinkOps(os))
    BY LinkYields DEF Yields
  <2> QED BY <2>1, <2>2, SeqMonotonic
<1> QED BY <1>1, <1>2, <1>3

(* No tree at all is a tree: what a run has seen before its first walk.    *)
LEMMA EmptyTree == <<>> \in AllTrees
<1>1. <<>> \in [{} -> Imports]
  OBVIOUS
<1> QED BY <1>1 DEF AllTrees

(* A link ends at nodes that are there.                                    *)
LEMMA FoundTyped ==
  ASSUME NEW w, nodes \subseteq NodeSet, NEW n \in Found(w)
  PROVE  n \in nodes
<1>1. \A p : Resolve(p) \subseteq nodes
  BY DEF Resolve, IsNode
<1> QED BY <1>1 DEF Found

(* Writes come to proper nodes and edges.                                  *)
LEMMA WritesTyped ==
  ASSUME NEW t \in AllTrees, NEW ws \in SUBSET AllOps
  PROVE  Added(ws) \subseteq NodeSet /\ Drawn(ws, t) \subseteq EdgeSet
<1>1. ASSUME NEW n \in Added(ws) PROVE n \in NodeSet
  <2>1. PICK w \in ws : w.op = "node" /\ w.node = n
    BY <1>1, InAdded
  <2> QED BY <2>1, OpTyped DEF Typed
<1>2. ASSUME NEW w, NEW n \in Meant(w, t) PROVE n \in NodeSet
  <2>1. DOMAIN t \subseteq File /\ FilesFor(w.to, t) \subseteq DOMAIN t
    BY TreeFinite DEF FilesFor
  <2> QED BY <2>1 DEF Meant, FileNodes, CommitNodes, NodeSet, Kinds
<1>3. ASSUME NEW e \in Drawn(ws, t) PROVE e \in EdgeSet
  <2>1. PICK w \in ws : \/ w.op = "edge" /\ w.edge = e
                        \/ w.op = "link" /\ \E n \in Meant(w, t) : e = <<w.from, n, w.rel>>
    BY <1>3, InDrawn
  <2> QED BY <2>1, <1>2, OpTyped DEF Typed, EdgeSet
<1> QED BY <1>1, <1>3

(* A rebuilt index is what its three parts come to.                        *)
LEMMA Whole ==
  ASSUME NEW t, NEW os
  PROVE  /\ NodesOf(t, os) = CodeNodes(t) \cup CommitNodes \cup ObsNodes(os)
         /\ CodeEdgesOf(t) = ImportEdges(t) \cup ModifyEdges(t)
         /\ ObsEdgesOf(t, os) = ObsEdges(t, os)
<1>1. NodesOf(t, os) = CodeNodes(t) \cup CommitNodes \cup ObsNodes(os)
  BY DEF NodesOf, CodeNodes, FileNodes, Named, CommitNodes, ObsNodes
<1>2. CodeEdgesOf(t) = ImportEdges(t) \cup ModifyEdges(t)
  BY DEF CodeEdgesOf, ImportEdges, ModifyEdges, ImportRow, ModifyRow
<1>3. ObsEdgesOf(t, os) = ObsEdges(t, os)
  BY DEF ObsEdgesOf, ObsEdges, CiteRow, AboutRow, FilesOf
<1> QED BY <1>1, <1>2, <1>3

(* The index starts well-formed.                                           *)
LEMMA TypeInit == ASSUME RetrievalInit \/ FilledInit PROVE GraphTypeOK
<1>1. /\ run = [r \in Run |-> [phase |-> "idle", todo |-> <<>>]]
      /\ seen = [r \in Run |-> [tree |-> <<>>, obs |-> {}]] /\ overlap = FALSE
  BY DEF RetrievalInit, FilledInit, CodeGraphInit
<1>2. run \in [Run -> [phase : Phases, todo : Seq(AllOps)]]
  BY <1>1 DEF Phases
<1>3. seen \in [Run -> [tree : AllTrees, obs : SUBSET Obs]]
  BY <1>1, EmptyTree
<1>4. \A r \in Run : run[r].phase \in {"idle", "walk"} => run[r].todo = <<>>
  BY <1>1
<1>5. CASE RetrievalInit
  <2>1. tree \in Trees /\ store \in Stores /\ nodes = {} /\ edges = {}
    BY <1>5 DEF RetrievalInit, CodeGraphInit
  <2>2. tree \in AllTrees /\ store \in [Obs -> {"absent", "live", "archived", "superseded"}]
    BY <2>1, GraphAssumption DEF AllTrees
  <2> QED BY <2>1, <2>2, <1>1, <1>2, <1>3, <1>4 DEF GraphTypeOK
<1>6. CASE FilledInit
  <2>1. tree \in AllTrees
    BY <1>6 DEF FilledInit, AllTrees
  <2>2. store \in [Obs -> {"absent", "live", "archived", "superseded"}]
    BY <1>6 DEF FilledInit
  <2>3. nodes \subseteq NodeSet /\ edges \subseteq EdgeSet
    <3>1. /\ nodes \subseteq NodesOf(tree, Obs)
          /\ edges \subseteq CodeEdgesOf(tree) \cup ObsEdgesOf(tree, Obs)
      BY <1>6 DEF FilledInit
    <3>2. nodes \subseteq Added(ScanOps(tree)) \cup Added(GitOps) \cup Added(LinkOps(Obs))
      BY <3>1, <2>1, Whole, ScanAdds, GitAdds, LinkAdds
    <3>3. edges \subseteq Drawn(ScanOps(tree), tree) \cup Drawn(GitOps, tree) \cup Drawn(LinkOps(Obs), tree)
      BY <3>1, <2>1, Whole, ScanAdds, GitAdds, LinkAdds
    <3>4. ScanOps(tree) \subseteq AllOps /\ GitOps \subseteq AllOps /\ LinkOps(Obs) \subseteq AllOps
      BY <2>1 DEF AllOps
    <3>5. \A ws \in SUBSET AllOps : Added(ws) \subseteq NodeSet /\ Drawn(ws, tree) \subseteq EdgeSet
      BY <2>1, WritesTyped
    <3> QED BY <3>2, <3>3, <3>4, <3>5
  <2> QED BY <2>1, <2>2, <2>3, <1>1, <1>2, <1>3, <1>4 DEF GraphTypeOK
<1> QED BY <1>5, <1>6

(* A step changes one run.                                                 *)
LEMMA OneRun ==
  ASSUME GraphTypeOK, NEW r \in Run, NEW x \in [phase : Phases, todo : Seq(AllOps)],
         x.phase \in {"idle", "walk"} => x.todo = <<>>, run' = [run EXCEPT ![r] = x]
  PROVE  /\ run' \in [Run -> [phase : Phases, todo : Seq(AllOps)]]
         /\ \A y \in Run : run'[y].phase \in {"idle", "walk"} => run'[y].todo = <<>>
         /\ run'[r] = x /\ \A y \in Run : y # r => run'[y] = run[y]
<1>1. run \in [Run -> [phase : Phases, todo : Seq(AllOps)]]
  BY DEF GraphTypeOK
<1>2. run'[r] = x /\ \A y \in Run : y # r => run'[y] = run[y]
  BY <1>1
<1> QED BY <1>1, <1>2 DEF GraphTypeOK

Rest(r) == [phase |-> run[r].phase, todo |-> Tail(run[r].todo)]

(* A write takes the first of what is left to write.                       *)
LEMMA WriteRun ==
  ASSUME GraphTypeOK, NEW r \in Run, Write(r)
  PROVE  /\ run' = [run EXCEPT ![r] = Rest(r)]
         /\ Rest(r) \in [phase : Phases, todo : Seq(AllOps)]
         /\ run[r].phase \notin {"idle", "walk"}
         /\ run[r].todo \in Seq(AllOps) /\ run[r].todo # <<>>
         /\ Head(run[r].todo) \in AllOps
<1>1. run \in [Run -> [phase : Phases, todo : Seq(AllOps)]]
  BY DEF GraphTypeOK
<1>2. run[r] \in [phase : Phases, todo : Seq(AllOps)]
  BY <1>1
<1>3. run[r].todo \in Seq(AllOps) /\ run[r].todo # <<>> /\ run[r].phase \in Phases
  BY <1>2 DEF Write
<1>4. Tail(run[r].todo) \in Seq(AllOps) /\ Head(run[r].todo) \in AllOps
  BY <1>3
<1>5. run' = [run EXCEPT ![r] = Rest(r)]
  <2>1. [run[r] EXCEPT !.todo = Tail(run[r].todo)] = Rest(r)
    <3> DEFINE rest == Tail(run[r].todo)
    <3>1. [run[r] EXCEPT !.todo = rest] = [phase |-> run[r].phase, todo |-> rest]
      <4> HIDE DEF rest
      <4> QED BY <1>2
    <3> QED BY <3>1 DEF Rest
  <2>2. run' = [run EXCEPT ![r] = [run[r] EXCEPT !.todo = Tail(run[r].todo)]]
    BY DEF Write
  <2> QED BY <2>1, <2>2
<1> QED BY <1>3, <1>4, <1>5 DEF GraphTypeOK, Rest

(* Every step of the index keeps it well-formed.                           *)
LEMMA TypeStep ==
  ASSUME GraphTypeOK, CodeGraphNext
  PROVE  GraphTypeOK'
<1> USE DEF GraphTypeOK
<1> DEFINE R == [phase : Phases, todo : Seq(AllOps)]
<1>0. run \in [Run -> R]
  OBVIOUS
<1>1. ASSUME NEW r \in Run, Clear(r) PROVE GraphTypeOK'
  <2>1. run' = [run EXCEPT ![r] = [phase |-> "walk", todo |-> <<>>]]
    <3>1. run[r] \in R /\ run[r].todo = <<>>
      BY <1>1 DEF Clear
    <3>2. [run[r] EXCEPT !.phase = "walk"] = [phase |-> "walk", todo |-> <<>>]
      BY <3>1
    <3>3. run' = [run EXCEPT ![r] = [run[r] EXCEPT !.phase = "walk"]]
      BY <1>1 DEF Clear
    <3> QED BY <3>2, <3>3
  <2>2. [phase |-> "walk", todo |-> <<>>] \in R
    BY DEF Phases
  <2>3. nodes' = {} /\ edges' \subseteq edges /\ overlap' \in BOOLEAN
    BY <1>1 DEF Clear, ClearEdges
  <2> QED BY <1>1, <2>1, <2>2, <2>3, OneRun DEF Clear
<1>2. ASSUME NEW r \in Run, Walk(r) PROVE GraphTypeOK'
  <2>1. [phase |-> "scan", todo |-> ScanWrites(tree)] \in R
    BY PartsTyped DEF Phases
  <2>2. seen' \in [Run -> [tree : AllTrees, obs : SUBSET Obs]]
    BY <1>2 DEF Walk
  <2> QED BY <1>2, <2>1, <2>2, OneRun DEF Walk, tables
<1>3. ASSUME NEW r \in Run, Write(r) PROVE GraphTypeOK'
  <2> DEFINE w == Head(run[r].todo)
  <2>1. w \in AllOps
    BY <1>3, WriteRun
  <2>2. Typed(w)
    BY <2>1, OpTyped
  <2>3. \A n \in Found(w) : n \in NodeSet
    BY FoundTyped
  <2>4. /\ nodes' = IF w.op = "node" THEN nodes \cup {w.node} ELSE nodes
        /\ edges' = CASE w.op = "node" -> edges
                      [] w.op = "edge" -> edges \cup {w.edge}
                      [] w.op = "link" -> edges \cup {<<w.from, n, w.rel>> : n \in Found(w)}
    BY <1>3 DEF Write
  <2> HIDE DEF w
  <2>5. nodes' \subseteq NodeSet
    BY <2>2, <2>4 DEF Typed
  <2>6. edges' \subseteq EdgeSet
    BY <2>2, <2>3, <2>4 DEF Typed, EdgeSet
  <2>7. Rest(r).phase \notin {"idle", "walk"}
    BY <1>3, WriteRun DEF Rest
  <2> QED BY <1>3, <2>5, <2>6, <2>7, WriteRun, OneRun DEF Write, aux
<1>4. ASSUME NEW r \in Run, Advance(r) PROVE GraphTypeOK'
  <2> DEFINE x == CASE run[r].phase = "scan" -> [phase |-> "git", todo |-> GitWrites]
                    [] run[r].phase = "git" -> [phase |-> "link", todo |-> LinkWrites(Linked(store))]
                    [] OTHER -> [phase |-> "idle", todo |-> <<>>]
  <2>1. x \in R /\ (x.phase \in {"idle", "walk"} => x.todo = <<>>)
    <3>1. Linked(store) \in SUBSET Obs
      BY DEF Linked
    <3>2. GitWrites \in Seq(AllOps) /\ LinkWrites(Linked(store)) \in Seq(AllOps)
      BY <3>1, PartsTyped
    <3> QED BY <3>2 DEF Phases
  <2>2. seen' \in [Run -> [tree : AllTrees, obs : SUBSET Obs]]
    BY <1>4 DEF Advance
  <2>3. run' = [run EXCEPT ![r] = x] /\ UNCHANGED <<tree, store, nodes, edges, overlap>>
    BY <1>4 DEF Advance, tables
  <2> HIDE DEF x
  <2> QED BY <2>1, <2>2, <2>3, OneRun
<1>5. ASSUME NEW r \in Run, Die(r) PROVE GraphTypeOK'
  <2>1. [phase |-> "idle", todo |-> <<>>] \in R
    BY DEF Phases
  <2> QED BY <1>5, <2>1, OneRun DEF Die, tables, aux
<1>6. CASE EditTree
  <2>1. PICK fs \in SUBSET File : tree \in [fs -> Imports]
    BY DEF AllTrees
  <2>2. PICK f \in File :
       \/ \E is \in Imports : tree' = [g \in DOMAIN tree \cup {f} |-> IF g = f THEN is ELSE tree[g]]
       \/ tree' = [g \in DOMAIN tree \ {f} |-> tree[g]]
    BY <1>6 DEF EditTree
  <2>3. tree' \in [fs \cup {f} -> Imports] \/ tree' \in [fs \ {f} -> Imports]
    BY <2>1, <2>2
  <2>4. tree' \in AllTrees
    BY <2>3 DEF AllTrees
  <2> QED BY <1>6, <2>4 DEF EditTree, tables, aux
<1>7. CASE EditStore
  <2>1. store' \in [Obs -> {"absent", "live", "archived", "superseded"}]
    BY <1>7 DEF EditStore
  <2> QED BY <1>7, <2>1 DEF EditStore, tables, aux
<1> QED BY <1>1, <1>2, <1>3, <1>4, <1>5, <1>6, <1>7 DEF CodeGraphNext

(* A sequence is its head and its tail.                                    *)
LEMMA HeadTail ==
  ASSUME NEW S, NEW w \in Seq(S), w # <<>>
  PROVE  /\ Tail(w) \in Seq(S) /\ Head(w) = w[1] /\ Head(w) \in S
         /\ Len(Tail(w)) = Len(w) - 1 /\ \A i \in 1 .. Len(w) - 1 : Tail(w)[i] = w[i + 1]
         /\ Range(w) = {Head(w)} \cup Range(Tail(w))
<1>1. Tail(w) \in Seq(S) /\ Head(w) = w[1] /\ Head(w) \in S /\ Len(w) \in Nat \ {0}
      /\ Len(Tail(w)) = Len(w) - 1 /\ \A i \in 1 .. Len(w) - 1 : Tail(w)[i] = w[i + 1]
  OBVIOUS
<1> DEFINE v == Tail(w)
<1> DEFINE h == Head(w)
<1>2. v \in Seq(S) /\ Len(v) = Len(w) - 1 /\ h = w[1] /\ \A i \in 1 .. Len(v) : v[i] = w[i + 1]
  BY <1>1
<1> HIDE DEF v, h
<1>3. Range(w) = {w[i] : i \in 1 .. Len(w)} /\ Range(v) = {v[i] : i \in 1 .. Len(v)}
  BY <1>2, RangeEquality
<1>4. ASSUME NEW i \in 1 .. Len(w) PROVE w[i] = h \/ \E j \in 1 .. Len(v) : v[j] = w[i]
  <2>1. CASE i = 1
    BY <2>1, <1>2
  <2>2. CASE i # 1
    <3>1. i - 1 \in 1 .. Len(v) /\ (i - 1) + 1 = i
      BY <1>1, <1>2, <2>2
    <3>2. v[i - 1] = w[(i - 1) + 1]
      BY <3>1, <1>2
    <3> QED BY <3>1, <3>2
  <2> QED BY <2>1, <2>2
<1>5. ASSUME NEW i \in 1 .. Len(v) PROVE \E j \in 1 .. Len(w) : w[j] = v[i]
  <2>1. i + 1 \in 1 .. Len(w) /\ v[i] = w[i + 1]
    BY <1>1, <1>2
  <2> QED BY <2>1
<1>6. 1 \in 1 .. Len(w)
  BY <1>1
<1>7. Range(w) = {h} \cup Range(v)
  <2>1. ASSUME NEW x \in Range(w) PROVE x \in {h} \cup Range(v)
    BY <1>3, <1>4
  <2>2. ASSUME NEW x \in Range(v) PROVE x \in Range(w)
    BY <1>3, <1>5
  <2>3. h \in Range(w)
    BY <1>2, <1>3, <1>6
  <2> QED BY <2>1, <2>2, <2>3
<1> QED BY <1>1, <1>7 DEF v, h

(* The first write finds its source, ...                                   *)
LEMMA FoundedHead ==
  ASSUME NEW S, NEW w \in Seq(S), w # <<>>, NEW ns, Founded(w, ns)
  PROVE  Head(w).op # "node" => Source(Head(w)) \in ns
<1>1. 1 \in 1 .. Len(w) /\ Head(w) = w[1]
  OBVIOUS
<1> QED BY <1>1 DEF Founded

(* ... the others still do once it is made, ...                            *)
LEMMA FoundedTail ==
  ASSUME NEW S, NEW w \in Seq(S), w # <<>>, NEW ns, NEW ms, Founded(w, ns),
         ns \subseteq ms, \A n : Head(w) = AddNode(n) => n \in ms
  PROVE  Founded(Tail(w), ms)
<1> DEFINE v == Tail(w)
<1>1. /\ Len(w) \in Nat \ {0} /\ Len(v) = Len(w) - 1 /\ Head(w) = w[1]
      /\ \A i \in 1 .. Len(w) - 1 : v[i] = w[i + 1]
  BY HeadTail
<1> HIDE DEF v
<1>2. ASSUME NEW i \in 1 .. Len(v), v[i].op # "node"
      PROVE  Source(v[i]) \in ms \/ \E j \in 1 .. Len(v) : j < i /\ v[j] = AddNode(Source(v[i]))
  <2>1. i + 1 \in 1 .. Len(w) /\ v[i] = w[i + 1]
    BY <1>1
  <2>2. CASE Source(w[i + 1]) \in ns
    BY <2>1, <2>2
  <2>3. ASSUME NEW j \in 1 .. Len(w), j < i + 1, w[j] = AddNode(Source(w[i + 1]))
        PROVE  Source(v[i]) \in ms \/ \E k \in 1 .. Len(v) : k < i /\ v[k] = AddNode(Source(v[i]))
    <3>1. CASE j = 1
      BY <1>1, <2>1, <2>3, <3>1
    <3>2. CASE j # 1
      <4>1. j - 1 \in 1 .. Len(w) - 1 /\ j - 1 \in 1 .. Len(v) /\ j - 1 < i /\ (j - 1) + 1 = j
        BY <1>1, <2>1, <2>3, <3>2
      <4>2. v[j - 1] = w[(j - 1) + 1]
        BY <1>1, <4>1
      <4>3. v[j - 1] = AddNode(Source(v[i]))
        BY <4>1, <4>2, <2>1, <2>3
      <4> QED BY <4>1, <4>3
    <3> QED BY <3>1, <3>2
  <2> QED BY <1>2, <2>1, <2>2, <2>3 DEF Founded
<1>3. Founded(v, ms)
  BY <1>2 DEF Founded
<1> QED BY <1>3 DEF v

(* ... more nodes do not matter, ...                                       *)
LEMMA FoundedMore ==
  ASSUME NEW w, NEW ns, NEW ms, ns \subseteq ms, Founded(w, ns)
  PROVE  Founded(w, ms)
BY DEF Founded

(* ... and nothing to write needs nothing.                                 *)
LEMMA FoundedNothing == ASSUME NEW ns PROVE Founded(<<>>, ns)
BY DEF Founded

(* Every step keeps runs that never overlapped apart.                      *)
LEMMA AloneStep ==
  ASSUME IndexInv, CodeGraphNext
  PROVE  Alone'
<1>0. GraphTypeOK /\ Alone
  BY DEF IndexInv
<1> SUFFICES ASSUME ~overlap'
             PROVE  /\ \A r \in Run : r # cleared' => run'[r].phase = "idle"
                    /\ \A e \in edges' : e[1] \in nodes'
                    /\ \A r \in Run : Founded(run'[r].todo, nodes')
                    /\ \A r \in Run : run'[r].phase = "walk" => nodes' = {} /\ edges' = {}
  BY DEF Alone
<1> DEFINE Goal ==
       /\ \A r \in Run : r # cleared' => run'[r].phase = "idle"
       /\ \A e \in edges' : e[1] \in nodes'
       /\ \A r \in Run : Founded(run'[r].todo, nodes')
       /\ \A r \in Run : run'[r].phase = "walk" => nodes' = {} /\ edges' = {}
<1>1. ~overlap
  BY DEF CodeGraphNext, Clear, Walk, Write, Advance, Die, EditTree, EditStore, aux
<1>2. /\ \A r \in Run : r # cleared => run[r].phase = "idle"
      /\ \A e \in edges : e[1] \in nodes
      /\ \A r \in Run : Founded(run[r].todo, nodes)
      /\ \A r \in Run : run[r].phase = "walk" => nodes = {} /\ edges = {}
  BY <1>0, <1>1 DEF Alone
<1>3. \A r \in Run : run[r].phase \in {"idle", "walk"} => run[r].todo = <<>>
  BY <1>0 DEF GraphTypeOK
<1>4. run \in [Run -> [phase : Phases, todo : Seq(AllOps)]]
  BY <1>0 DEF GraphTypeOK
<1>5. ASSUME NEW r \in Run, Clear(r) PROVE Goal
  <2>1. \A x \in Run : run[x].phase = "idle"
    BY <1>5 DEF Clear
  <2>2. edges' = {} /\ nodes' = {} /\ cleared' = r
    BY <1>2, <1>5 DEF Clear, ClearEdges, IsNode
  <2>3. \A x \in Run : run'[x].todo = <<>> /\ (x # r => run'[x].phase = "idle")
    <3>1. \A x \in Run : run[x].todo = <<>>
      BY <2>1, <1>3
    <3> QED BY <1>4, <1>5, <2>1, <3>1 DEF Clear
  <2> QED BY <2>2, <2>3, FoundedNothing
<1>6. ASSUME NEW r \in Run, Walk(r) PROVE Goal
  <2>1. r = cleared /\ nodes = {} /\ edges = {} /\ UNCHANGED <<nodes, edges, cleared>>
    BY <1>2, <1>6 DEF Walk, tables
  <2>2. run'[r].phase = "scan" /\ run'[r].todo = ScanWrites(tree) /\ \A x \in Run : x # r => run'[x] = run[x]
    BY <1>4, <1>6 DEF Walk
  <2>3. Founded(ScanWrites(tree), nodes')
    <3>1. Founded(ScanWrites(tree), {})
      BY <1>0, ScanYields DEF Yields, GraphTypeOK
    <3> QED BY <2>1, <3>1
  <2>4. \A x \in Run : Founded(run'[x].todo, nodes')
    BY <1>2, <2>1, <2>2, <2>3
  <2> QED BY <1>2, <2>1, <2>2, <2>4
<1>7. ASSUME NEW r \in Run, Write(r) PROVE Goal
  <2> DEFINE w == Head(run[r].todo)
  <2>1. /\ run' = [run EXCEPT ![r] = Rest(r)] /\ run[r].phase \notin {"idle", "walk"}
        /\ run[r].todo \in Seq(AllOps) /\ run[r].todo # <<>> /\ w \in AllOps
    BY <1>0, <1>7, WriteRun
  <2>2. /\ run'[r].phase = run[r].phase /\ run'[r].todo = Tail(run[r].todo)
        /\ \A x \in Run : x # r => run'[x] = run[x]
    BY <1>4, <2>1 DEF Rest
  <2>3. r = cleared /\ cleared' = cleared /\ \A x \in Run : x # r => run[x].phase = "idle" /\ run[x].todo = <<>>
    BY <1>2, <1>3, <1>7, <2>1 DEF Write, aux
  <2>4. /\ nodes' = IF w.op = "node" THEN nodes \cup {w.node} ELSE nodes
        /\ edges' = CASE w.op = "node" -> edges
                      [] w.op = "edge" -> edges \cup {w.edge}
                      [] w.op = "link" -> edges \cup {<<w.from, n, w.rel>> : n \in Found(w)}
    BY <1>7 DEF Write
  <2>5. w.op # "node" => Source(w) \in nodes
    BY <1>2, <2>1, FoundedHead
  <2>6. Founded(Tail(run[r].todo), nodes')
    <3>1. \A n : w = AddNode(n) => n \in nodes'
      BY <2>4 DEF AddNode
    <3>2. nodes \subseteq nodes'
      BY <2>4
    <3> QED BY <1>2, <2>1, <3>1, <3>2, FoundedTail
  <2>7. Typed(w)
    BY <2>1, OpTyped
  <2> HIDE DEF w
  <2>8. \A e \in edges' : e[1] \in nodes'
    BY <1>2, <2>4, <2>5, <2>7 DEF Typed, Source
  <2>9. \A x \in Run : Founded(run'[x].todo, nodes')
    BY <2>2, <2>3, <2>6, FoundedNothing
  <2> QED BY <2>1, <2>2, <2>3, <2>8, <2>9
<1>8. ASSUME NEW r \in Run, Advance(r) PROVE Goal
  <2>1. r = cleared /\ UNCHANGED <<nodes, edges, cleared>>
    BY <1>2, <1>8 DEF Advance, tables
  <2>2. Linked(store) \in SUBSET Obs
    BY DEF Linked
  <2>3. Founded(GitWrites, nodes) /\ Founded(LinkWrites(Linked(store)), nodes) /\ Founded(<<>>, nodes)
    <3>1. Founded(GitWrites, {}) /\ Founded(LinkWrites(Linked(store)), {})
      BY <2>2, GitYields, LinkYields DEF Yields
    <3> QED BY <3>1, FoundedMore, FoundedNothing
  <2>4. Founded(run'[r].todo, nodes) /\ run'[r].phase # "walk" /\ \A x \in Run : x # r => run'[x] = run[x]
    BY <1>4, <1>8, <2>3 DEF Advance
  <2> QED BY <1>2, <2>1, <2>4
<1>9. ASSUME NEW r \in Run, Die(r) PROVE Goal
  <2>1. run'[r].phase = "idle" /\ run'[r].todo = <<>> /\ \A x \in Run : x # r => run'[x] = run[x]
    BY <1>4, <1>9 DEF Die
  <2>2. UNCHANGED <<nodes, edges, cleared>>
    BY <1>9 DEF Die, tables, aux
  <2> QED BY <1>2, <2>1, <2>2, FoundedNothing
<1>10. CASE EditTree \/ EditStore
  <2>1. UNCHANGED <<nodes, edges, cleared, run>>
    BY <1>10 DEF EditTree, EditStore, tables, aux
  <2> QED BY <1>2, <2>1
<1> QED BY <1>5, <1>6, <1>7, <1>8, <1>9, <1>10 DEF CodeGraphNext

(* What one write adds to the tables.                                      *)
NewNodes(w) == IF w.op = "node" THEN {w.node} ELSE {}
NewEdges(w) == CASE w.op = "node" -> {} [] w.op = "edge" -> {w.edge}
                 [] OTHER -> {<<w.from, n, w.rel>> : n \in Found(w)}

(* A write takes from what is ahead what it adds to the tables, ...        *)
LEMMA AheadStep ==
  ASSUME NEW p, NEW t, NEW os, NEW w, NEW v, NEW ns, NEW es, NEW ms, NEW fs,
         Ahead(p, t, os, {w} \cup v, ns, es), ns \subseteq ms, es \subseteq fs,
         w.op = "node" => w.node \in ms, w.op = "edge" => w.edge \in fs,
         p # "link" /\ w.op = "link" => \A n \in Meant(w, t) : <<w.from, n, w.rel>> \in fs
  PROVE  Ahead(p, t, os, v, ms, fs)
<1> DEFINE P == PartOps(p, t, os)
<1>1. /\ {w} \cup v \subseteq P
      /\ NodesBefore(p, t) \subseteq ns /\ EdgesBefore(p, t) \subseteq es
      /\ Added(P) \subseteq ns \cup Added({w} \cup v)
      /\ p # "link" => Drawn(P, t) \subseteq es \cup Drawn({w} \cup v, t)
  BY DEF Ahead
<1> HIDE DEF P
<1>2. ASSUME NEW n \in Added(P) PROVE n \in ms \cup Added(v)
  <2>1. CASE n \in Added({w} \cup v)
    <3>1. PICK x \in {w} \cup v : x.op = "node" /\ x.node = n
      BY <2>1, InAdded
    <3>2. CASE x \in v
      BY <3>1, <3>2, InAdded
    <3>3. CASE x = w
      BY <3>1, <3>3
    <3> QED BY <3>1, <3>2, <3>3
  <2> QED BY <1>1, <2>1
<1>3. ASSUME p # "link", NEW e \in Drawn(P, t) PROVE e \in fs \cup Drawn(v, t)
  <2>1. CASE e \in Drawn({w} \cup v, t)
    <3>1. PICK x \in {w} \cup v :
            \/ x.op = "edge" /\ x.edge = e
            \/ x.op = "link" /\ \E n \in Meant(x, t) : e = <<x.from, n, x.rel>>
      BY <2>1, InDrawn
    <3>2. CASE x \in v
      BY <3>1, <3>2, InDrawn
    <3>3. CASE x = w
      BY <1>3, <3>1, <3>3
    <3> QED BY <3>1, <3>2, <3>3
  <2> QED BY <1>1, <1>3, <2>1
<1> QED BY <1>1, <1>2, <1>3 DEF Ahead, P

(* ... and adds nothing but what its part comes to.                        *)
LEMMA ExactStep ==
  ASSUME NEW p, NEW t, NEW os, NEW w, NEW v, NEW ns, NEW es,
         Exact(p, t, os, {w} \cup v, ns, es), w \in PartOps(p, t, os),
         w.op \in {"node", "edge", "link"},
         w.op = "link" => Found(w) = Meant(w, t)
  PROVE  Exact(p, t, os, v, ns \cup NewNodes(w), es \cup NewEdges(w))
<1> DEFINE P == PartOps(p, t, os)
<1>1. /\ ns \subseteq NodesBefore(p, t) \cup Added(P)
      /\ es \subseteq EdgesBefore(p, t) \cup Drawn(P, t)
      /\ Drawn(P, t) \subseteq es \cup Drawn({w} \cup v, t)
  BY DEF Exact
<1>2. w \in P
  OBVIOUS
<1> HIDE DEF P
<1>3. NewNodes(w) \subseteq Added(P)
  BY <1>2, InAdded DEF NewNodes
<1>4. ASSUME NEW e
      PROVE  e \in NewEdges(w) <=> \/ w.op = "edge" /\ w.edge = e
                                   \/ w.op = "link" /\ \E n \in Meant(w, t) : e = <<w.from, n, w.rel>>
  BY DEF NewEdges
<1>5. NewEdges(w) \subseteq Drawn(P, t)
  BY <1>2, <1>4, InDrawn
<1>6. ASSUME NEW e \in Drawn(P, t) PROVE e \in es \cup NewEdges(w) \cup Drawn(v, t)
  <2>1. CASE e \in Drawn({w} \cup v, t)
    <3>1. PICK x \in {w} \cup v :
            \/ x.op = "edge" /\ x.edge = e
            \/ x.op = "link" /\ \E n \in Meant(x, t) : e = <<x.from, n, x.rel>>
      BY <2>1, InDrawn
    <3>2. CASE x \in v
      BY <3>1, <3>2, InDrawn
    <3>3. CASE x = w
      BY <1>4, <3>1, <3>3
    <3> QED BY <3>1, <3>2, <3>3
  <2> QED BY <1>1, <2>1
<1> QED BY <1>1, <1>3, <1>5, <1>6 DEF Exact, P

(* The tables after a write.                                               *)
LEMMA WriteTables ==
  ASSUME NEW r \in Run, Write(r), Head(run[r].todo).op \in {"node", "edge", "link"}
  PROVE  /\ nodes' = nodes \cup NewNodes(Head(run[r].todo))
         /\ edges' = edges \cup NewEdges(Head(run[r].todo))
BY DEF Write, NewNodes, NewEdges

(* The only file nodes of a rebuilt index are the tree's files.            *)
LEMMA CodeKinds ==
  ASSUME NEW t, NEW n, n[1] = "file", n \in CodeNodes(t) \cup CommitNodes \cup ObsNodes(Obs)
  PROVE  n \in FileNodes(t)
<1>1. n \notin CommitNodes \cup ObsNodes(Obs)
  BY DEF CommitNodes, ObsNodes
<1>2. n \in CodeNodes(t)
  BY <1>1
<1>3. PICK f \in DOMAIN t : \/ n = <<"file", f>> \/ n = <<"module", f>>
                            \/ \E i \in t[f] : i \notin DOMAIN t /\ n = <<"module", i>>
  BY <1>2, InCodeNodes
<1>4. n = <<"file", f>>
  BY <1>3
<1> QED BY <1>4 DEF FileNodes

(* A link of the history finds what the tree meant, at least ...           *)
LEMMA GitMeant ==
  ASSUME NEW t \in AllTrees, NEW w \in GitOps, w.op = "link", CodeNodes(t) \subseteq nodes
  PROVE  /\ Meant(w, t) \subseteq Found(w)
         /\ nodes \subseteq CodeNodes(t) \cup CommitNodes => Found(w) = Meant(w, t)
<1>1. PICK c \in Commit : \/ w = AddNode(<<"commit", c>>)
                          \/ \E f \in Touches[c] : w = Link(<<"commit", c>>, <<"file", f>>, "modifies")
  BY InGitOps
<1>2. PICK f \in Touches[c] : w = Link(<<"commit", c>>, <<"file", f>>, "modifies")
  BY <1>1 DEF AddNode
<1>3. Found(w) = {<<"file", f>>} \cap nodes
  BY <1>2 DEF Found, Link
<1>4. Meant(w, t) = {<<"file", f>>} \cap (FileNodes(t) \cup CommitNodes)
  BY <1>2 DEF Meant, Link
<1>5. FileNodes(t) \subseteq nodes /\ <<"file", f>> \notin CommitNodes
  BY DEF CodeNodes, CommitNodes
<1>6. nodes \subseteq CodeNodes(t) \cup CommitNodes => (<<"file", f>> \in nodes => <<"file", f>> \in FileNodes(t))
  BY CodeKinds
<1> QED BY <1>3, <1>4, <1>5, <1>6

(* ... and a link of an observation finds it when nothing else is there.   *)
LEMMA LinkMeant ==
  ASSUME NEW t \in AllTrees, NEW os \in SUBSET Obs, NEW w \in LinkOps(os), w.op = "link",
         CodeNodes(t) \cup CommitNodes \subseteq nodes,
         nodes \subseteq CodeNodes(t) \cup CommitNodes \cup ObsNodes(os)
  PROVE  Found(w) = Meant(w, t)
<1>1. PICK o \in os :
         \/ w = AddNode(<<"observation", o>>)
         \/ \E p \in About[o] : w = Link(<<"observation", o>>, p, "about")
         \/ \E c \in Cites[o] : w = Link(<<"observation", o>>, <<"commit", c>>, "references")
  BY InLinkOps
<1>2. CASE \E p \in About[o] : w = Link(<<"observation", o>>, p, "about")
  <2>1. PICK p \in About[o] : w = Link(<<"observation", o>>, p, "about")
    BY <1>2
  <2>2. p \in Path
    BY GraphAssumption
  <2>3. \A n \in nodes : n[1] = "file" => n \in FileNodes(t)
    BY CodeKinds DEF ObsNodes
  <2>4. FileNodes(t) \subseteq nodes
    BY DEF CodeNodes
  <2>5. Resolve(p) = {<<"file", f>> : f \in FilesFor(p, t)}
    BY <2>2, <2>3, <2>4, Resolving
  <2> QED BY <2>1, <2>5 DEF Found, Meant, Link
<1>3. CASE \E c \in Cites[o] : w = Link(<<"observation", o>>, <<"commit", c>>, "references")
  <2>1. PICK c \in Cites[o] : w = Link(<<"observation", o>>, <<"commit", c>>, "references")
    BY <1>3
  <2>2. c \in Commit
    BY GraphAssumption
  <2>3. <<"commit", c>> \in CommitNodes
    BY <2>2 DEF CommitNodes
  <2> QED BY <2>1, <2>3 DEF Found, Meant, Link
<1> QED BY <1>1, <1>2, <1>3 DEF AddNode

(* Every step keeps what is written and what is ahead the whole of the     *)
(* part.                                                                   *)
LEMMA ProgressStep ==
  ASSUME IndexInv, CodeGraphNext
  PROVE  Progress'
<1>0. GraphTypeOK /\ Progress /\ Alone
  BY DEF IndexInv
<1>1. /\ tree \in AllTrees /\ store \in [Obs -> {"absent", "live", "archived", "superseded"}]
      /\ run \in [Run -> [phase : Phases, todo : Seq(AllOps)]]
      /\ seen \in [Run -> [tree : AllTrees, obs : SUBSET Obs]]
  BY <1>0 DEF GraphTypeOK
<1> DEFINE Holds(y) ==
      LET p == run'[y].phase
          t == seen'[y].tree
          os == seen'[y].obs
          ws == Range(run'[y].todo)
      IN Ahead(p, t, os, ws, nodes', edges') /\ (~overlap' => Exact(p, t, os, ws, nodes', edges'))
<1> SUFFICES ASSUME NEW y \in Run, cleared' = y, run'[y].phase \in Writing
             PROVE  Holds(y)
  BY DEF Progress
<1> DEFINE p == run[y].phase
<1> DEFINE t == seen[y].tree
<1> DEFINE os == seen[y].obs
<1> DEFINE ws == Range(run[y].todo)
<1> DEFINE P == PartOps(p, t, os)
<1>2. t \in AllTrees /\ os \in SUBSET Obs
  BY <1>1
<1>3. ASSUME cleared = y, p \in Writing
      PROVE  Ahead(p, t, os, ws, nodes, edges) /\ (~overlap => Exact(p, t, os, ws, nodes, edges))
  BY <1>0, <1>3 DEF Progress
<1>4. ASSUME NEW r \in Run, Clear(r) PROVE Holds(y)
  <2>1. y = r /\ run'[r].phase = "walk"
    BY <1>1, <1>4 DEF Clear
  <2> QED BY <2>1 DEF Writing
<1>5. ASSUME NEW r \in Run, Walk(r) PROVE Holds(y)
  <2>1. UNCHANGED <<nodes, edges, cleared, overlap>>
    BY <1>5 DEF Walk, tables
  <2>2. CASE y = r
    <3>1. run'[y].phase = "scan" /\ run'[y].todo = ScanWrites(tree) /\ seen'[y].tree = tree
      BY <1>1, <1>5, <2>2 DEF Walk
    <3>2. Range(run'[y].todo) = ScanOps(tree)
      BY <1>1, <3>1, ScanYields DEF Yields
    <3>3. ~overlap => nodes = {} /\ edges = {}
      BY <1>0, <1>5 DEF Alone, Walk
    <3>4. \A o : PartOps("scan", tree, o) = ScanOps(tree)
      BY DEF PartOps
    <3>5. NodesBefore("scan", tree) = {} /\ EdgesBefore("scan", tree) = {}
      BY DEF NodesBefore, EdgesBefore
    <3>6. \A o : Ahead("scan", tree, o, ScanOps(tree), nodes, edges)
      BY <3>4, <3>5 DEF Ahead
    <3>7. \A o : ~overlap => Exact("scan", tree, o, ScanOps(tree), nodes, edges)
      BY <3>3, <3>4, <3>5 DEF Exact
    <3> QED BY <2>1, <3>1, <3>2, <3>6, <3>7
  <2>3. CASE y # r
    <3>1. run'[y] = run[y] /\ seen'[y] = seen[y] /\ cleared = y
      BY <1>1, <1>5, <2>1, <2>3 DEF Walk
    <3> QED BY <1>3, <2>1, <3>1
  <2> QED BY <2>2, <2>3
<1>6. ASSUME NEW r \in Run, Write(r) PROVE Holds(y)
  <2> DEFINE w == Head(run[r].todo)
  <2> DEFINE v == Range(Tail(run[r].todo))
  <2>1. /\ run' = [run EXCEPT ![r] = Rest(r)] /\ run[r].phase \notin {"idle", "walk"}
        /\ run[r].todo \in Seq(AllOps) /\ run[r].todo # <<>> /\ w \in AllOps
    BY <1>0, <1>6, WriteRun
  <2>2. /\ run'[r].phase = run[r].phase /\ run'[r].todo = Tail(run[r].todo)
        /\ \A x \in Run : x # r => run'[x] = run[x]
    BY <1>1, <2>1 DEF Rest
  <2>3. cleared = y /\ UNCHANGED <<cleared, overlap, seen>> /\ p \in Writing
    BY <1>6, <2>2 DEF Write, aux
  <2>4. Typed(w)
    BY <2>1, OpTyped
  <2>5. w.op \in {"node", "edge", "link"}
    BY <2>4 DEF Typed
  <2>6. nodes' = nodes \cup NewNodes(w) /\ edges' = edges \cup NewEdges(w)
    BY <1>6, <2>5, WriteTables
  <2>7. Range(run[r].todo) = {w} \cup v
    BY <2>1, HeadTail
  <2> HIDE DEF w, v
  <2>8. CASE y # r
    <3>1. run'[y] = run[y] /\ seen'[y] = seen[y]
      BY <2>2, <2>3, <2>8
    <3>2. ~(~overlap')
      BY <1>0, <2>1, <2>3, <2>8 DEF Alone
    <3>3. Ahead(p, t, os, ws, nodes, edges)
      BY <1>3, <2>3
    <3>4. Ahead(p, t, os, ws, nodes', edges')
      BY <2>6, <3>3 DEF Ahead
    <3> QED BY <3>1, <3>2, <3>4
  <2>9. CASE y = r
    <3>1. ws = {w} \cup v
      BY <2>7, <2>9
    <3>2. Ahead(p, t, os, {w} \cup v, nodes, edges)
      BY <1>3, <2>3, <3>1
    <3>3. ~overlap => Exact(p, t, os, {w} \cup v, nodes, edges)
      BY <1>3, <2>3, <3>1
    <3> HIDE DEF p, t, os, ws
    <3>4. w \in PartOps(p, t, os)
      BY <3>2 DEF Ahead
    <3>5. p # "link" /\ w.op = "link" => \A n \in Meant(w, t) : <<w.from, n, w.rel>> \in edges'
      <4> SUFFICES ASSUME p # "link", w.op = "link"
                   PROVE  \A n \in Meant(w, t) : <<w.from, n, w.rel>> \in edges'
        OBVIOUS
      <4>1. CASE p = "scan"
        <5>1. w \in ScanOps(t)
          BY <3>4, <4>1 DEF PartOps
        <5>2. w.op # "link"
          BY <5>1, InScanOps DEF AddNode, AddEdge
        <5> QED BY <5>2
      <4>2. CASE p = "git"
        <5>1. w \in GitOps /\ CodeNodes(t) \subseteq nodes
          BY <3>2, <3>4, <4>2 DEF PartOps, Ahead, NodesBefore
        <5>2. Meant(w, t) \subseteq Found(w)
          BY <1>2, <5>1, GitMeant
        <5> QED BY <2>6, <5>2 DEF NewEdges
      <4> QED BY <2>3, <4>1, <4>2 DEF Writing
    <3>6. Ahead(p, t, os, v, nodes', edges')
      <4>1. /\ nodes \subseteq nodes' /\ edges \subseteq edges'
            /\ w.op = "node" => w.node \in nodes'
            /\ w.op = "edge" => w.edge \in edges'
        BY <2>6 DEF NewNodes, NewEdges
      <4> QED BY <3>2, <3>5, <4>1, AheadStep
    <3>7. ASSUME ~overlap PROVE Exact(p, t, os, v, nodes', edges')
      <4>1. w.op = "link" => Found(w) = Meant(w, t)
        <5> SUFFICES ASSUME w.op = "link" PROVE Found(w) = Meant(w, t)
          OBVIOUS
        <5>0. Exact(p, t, os, {w} \cup v, nodes, edges)
          BY <3>3, <3>7
        <5>1. CASE p = "scan"
          <6>1. w \in ScanOps(t)
            BY <3>4, <5>1 DEF PartOps
          <6>2. w.op # "link"
            BY <6>1, InScanOps DEF AddNode, AddEdge
          <6> QED BY <6>2
        <5>2. CASE p = "git"
          <6>1. /\ w \in GitOps /\ CodeNodes(t) \subseteq nodes
                /\ nodes \subseteq CodeNodes(t) \cup Added(GitOps)
            BY <3>2, <3>4, <5>0, <5>2 DEF PartOps, Ahead, Exact, NodesBefore
          <6> QED BY <1>2, <6>1, GitAdds, GitMeant
        <5>3. CASE p = "link"
          <6>1. /\ w \in LinkOps(os) /\ CodeNodes(t) \cup CommitNodes \subseteq nodes
                /\ nodes \subseteq CodeNodes(t) \cup CommitNodes \cup Added(LinkOps(os))
            BY <3>2, <3>4, <5>0, <5>3 DEF PartOps, Ahead, Exact, NodesBefore
          <6> QED BY <1>2, <6>1, LinkAdds, LinkMeant DEF t, os
        <5> QED BY <2>3, <5>1, <5>2, <5>3 DEF Writing, p
      <4> QED BY <2>5, <2>6, <3>3, <3>4, <3>7, <4>1, ExactStep
    <3> QED BY <2>2, <2>3, <2>9, <3>6, <3>7 DEF p, t, os, v
  <2> QED BY <2>8, <2>9
<1>7. ASSUME NEW r \in Run, Advance(r) PROVE Holds(y)
  <2>1. UNCHANGED <<nodes, edges, cleared, overlap>> /\ cleared = y
    BY <1>7 DEF Advance, tables
  <2>2. CASE y # r
    <3>1. run'[y] = run[y] /\ seen'[y] = seen[y]
      BY <1>1, <1>7, <2>2 DEF Advance
    <3> QED BY <1>3, <2>1, <3>1
  <2>3. CASE y = r
    <3>0. Range(<<>>) = {}
      BY DEF Range
    <3>1. p \in Writing /\ ws = {}
      BY <1>7, <2>3, <3>0 DEF Advance, Writing
    <3>2. Ahead(p, t, os, {}, nodes, edges) /\ (~overlap => Exact(p, t, os, {}, nodes, edges))
      BY <1>3, <2>1, <3>1
    <3>3. Added({}) = {} /\ Drawn({}, t) = {}
      BY InAdded, InDrawn
    <3>4. /\ NodesBefore(p, t) \subseteq nodes /\ EdgesBefore(p, t) \subseteq edges
          /\ Added(PartOps(p, t, os)) \subseteq nodes
          /\ p # "link" => Drawn(PartOps(p, t, os), t) \subseteq edges
          /\ ~overlap => /\ nodes \subseteq NodesBefore(p, t) \cup Added(PartOps(p, t, os))
                         /\ edges \subseteq EdgesBefore(p, t) \cup Drawn(PartOps(p, t, os), t)
      BY <3>2, <3>3 DEF Ahead, Exact
    <3>5. CASE p = "scan"
      <4>1. /\ CodeNodes(t) \subseteq nodes /\ ImportEdges(t) \subseteq edges
            /\ ~overlap => nodes \subseteq CodeNodes(t) /\ edges \subseteq ImportEdges(t)
        BY <3>4, <3>5, ScanAdds DEF PartOps, NodesBefore, EdgesBefore
      <4>2. run'[y].phase = "git" /\ run'[y].todo = GitWrites /\ seen'[y] = seen[y]
        BY <1>1, <1>7, <2>3, <3>5 DEF Advance
      <4>3. Range(GitWrites) = GitOps
        BY GitYields DEF Yields
      <4>4. Ahead("git", t, os, GitOps, nodes, edges)
        BY <4>1 DEF Ahead, PartOps, NodesBefore, EdgesBefore
      <4>5. ~overlap => Exact("git", t, os, GitOps, nodes, edges)
        BY <4>1 DEF Exact, PartOps, NodesBefore, EdgesBefore
      <4> QED BY <2>1, <4>2, <4>3, <4>4, <4>5
    <3>6. CASE p = "git"
      <4> DEFINE ls == Linked(store)
      <4>1. /\ CodeNodes(t) \cup CommitNodes \subseteq nodes
            /\ ImportEdges(t) \cup ModifyEdges(t) \subseteq edges
            /\ ~overlap => /\ nodes \subseteq CodeNodes(t) \cup CommitNodes
                           /\ edges \subseteq ImportEdges(t) \cup ModifyEdges(t)
        BY <1>2, <3>4, <3>6, GitAdds DEF PartOps, NodesBefore, EdgesBefore
      <4>2. ls \in SUBSET Obs /\ ls = {o \in Obs : store[o] \in {"live", "archived"}}
        BY <1>1 DEF Linked
      <4>3. run'[y].phase = "link" /\ run'[y].todo = LinkWrites(ls)
        BY <1>1, <1>7, <2>3, <3>6 DEF Advance
      <4>4. seen'[y].tree = t /\ seen'[y].obs = ls
        BY <1>1, <1>7, <2>3, <3>6, <4>2 DEF Advance
      <4>5. Range(LinkWrites(ls)) = LinkOps(ls)
        BY <4>2, LinkYields DEF Yields
      <4> HIDE DEF ls
      <4>6. Ahead("link", t, ls, LinkOps(ls), nodes, edges)
        BY <4>1 DEF Ahead, PartOps, NodesBefore, EdgesBefore
      <4>7. ~overlap => Exact("link", t, ls, LinkOps(ls), nodes, edges)
        BY <4>1 DEF Exact, PartOps, NodesBefore, EdgesBefore
      <4> QED BY <2>1, <4>3, <4>4, <4>5, <4>6, <4>7
    <3>7. CASE p = "link"
      <4>1. run'[y].phase = "idle"
        BY <1>1, <1>7, <2>3, <3>7 DEF Advance
      <4> QED BY <4>1 DEF Writing
    <3> QED BY <3>1, <3>5, <3>6, <3>7 DEF Writing
  <2> QED BY <2>2, <2>3
<1>8. ASSUME NEW r \in Run, Die(r) PROVE Holds(y)
  <2>1. UNCHANGED <<nodes, edges, cleared, overlap, seen>> /\ cleared = y
    BY <1>8 DEF Die, tables, aux
  <2>2. y # r
    BY <1>1, <1>8 DEF Die, Writing
  <2>3. run'[y] = run[y]
    BY <1>1, <1>8, <2>2 DEF Die
  <2> QED BY <1>3, <2>1, <2>3
<1>9. CASE EditTree \/ EditStore
  <2>1. UNCHANGED <<nodes, edges, cleared, overlap, seen, run>>
    BY <1>9 DEF EditTree, EditStore, tables, aux
  <2> QED BY <1>3, <2>1
<1> QED BY <1>4, <1>5, <1>6, <1>7, <1>8, <1>9 DEF CodeGraphNext

(* The invariant of the index holds at the start, ...                      *)
LEMMA RebuildInit == ASSUME RetrievalInit \/ FilledInit PROVE IndexInv
<1>1. GraphTypeOK
  BY TypeInit
<1>2. \A r \in Run : run[r].phase = "idle" /\ run[r].todo = <<>>
  BY DEF RetrievalInit, FilledInit, CodeGraphInit
<1>3. Progress
  BY <1>2 DEF Progress, Writing
<1>4. \A e \in edges : e[1] \in nodes
  <2>1. CASE RetrievalInit
    BY <2>1 DEF RetrievalInit, CodeGraphInit
  <2>2. CASE FilledInit
    <3>1. CASE nodes = {} /\ edges = {}
      BY <3>1
    <3>2. CASE /\ nodes = NodesOf(tree, Obs)
               /\ edges = CodeEdgesOf(tree) \cup ObsEdgesOf(tree, Obs)
      <4>1. /\ nodes = CodeNodes(tree) \cup CommitNodes \cup ObsNodes(Obs)
            /\ edges = ImportEdges(tree) \cup ModifyEdges(tree) \cup ObsEdges(tree, Obs)
        BY <3>2, Whole
      <4>2. ASSUME NEW e \in ImportEdges(tree) PROVE e[1] \in CodeNodes(tree)
        <5>1. PICK f \in DOMAIN tree : \E i \in tree[f] : e = << <<"file", f>>, Target(i, tree), "imports" >>
          BY <4>2, InImportEdges
        <5> QED BY <5>1, InCodeNodes
      <4>3. ASSUME NEW e \in ModifyEdges(tree) PROVE e[1] \in CommitNodes
        <5>1. PICK c \in Commit : \E f \in Touches[c] \cap DOMAIN tree :
                e = << <<"commit", c>>, <<"file", f>>, "modifies" >>
          BY <4>3, InModifyEdges
        <5> QED BY <5>1 DEF CommitNodes
      <4>4. ASSUME NEW e \in ObsEdges(tree, Obs) PROVE e[1] \in ObsNodes(Obs)
        <5>1. PICK o \in Obs :
             \/ \E c \in Cites[o] : e = << <<"observation", o>>, <<"commit", c>>, "references" >>
             \/ \E p \in About[o] : \E f \in FilesFor(p, tree) :
                  e = << <<"observation", o>>, <<"file", f>>, "about" >>
          BY <4>4, InObsEdges
        <5> QED BY <5>1 DEF ObsNodes
      <4> QED BY <4>1, <4>2, <4>3, <4>4
    <3> QED BY <2>2, <3>1, <3>2 DEF FilledInit
  <2> QED BY <2>1, <2>2
<1>5. Alone
  BY <1>2, <1>4, FoundedNothing DEF Alone
<1> QED BY <1>1, <1>3, <1>5 DEF IndexInv

(* ... every step of the read path keeps it, ...                           *)
LEMMA RebuildStep ==
  ASSUME IndexInv, [RetrievalNext]_readVars
  PROVE  IndexInv'
<1>1. CASE CodeGraphNext
  <2>1. GraphTypeOK'
    BY <1>1, TypeStep DEF IndexInv
  <2>2. Progress' /\ Alone'
    BY <1>1, ProgressStep, AloneStep
  <2> QED BY <2>1, <2>2 DEF IndexInv
<1>2. CASE UNCHANGED graphVars
  <2>1. /\ UNCHANGED <<tree, store, nodes, edges, run>> /\ UNCHANGED <<seen, cleared, overlap>>
    BY <1>2 DEF graphVars, tables, aux
  <2>2. GraphTypeOK'
    BY <2>1 DEF GraphTypeOK, IndexInv
  <2>3. Progress'
    BY <2>1 DEF Progress, IndexInv
  <2>4. Alone'
    BY <2>1 DEF Alone, IndexInv
  <2> QED BY <2>2, <2>3, <2>4 DEF IndexInv
<1>3. CodeGraphNext \/ UNCHANGED graphVars
  BY DEF RetrievalNext, readVars, Ask, First, Replan, RecordUse, Answer, CodeGraphNext
<1> QED BY <1>1, <1>2, <1>3

(* ... and it gives what an index that was never overlapped holds.         *)
LEMMA RebuildImplied == ASSUME IndexInv PROVE IndexRebuilds
<1> SUFFICES ASSUME NEW r \in Run, run[r] = [phase |-> "link", todo |-> <<>>], cleared = r
             PROVE  LET t == seen[r].tree
                        os == seen[r].obs
                    IN /\ NodesOf(t, os) \subseteq nodes /\ CodeEdgesOf(t) \subseteq edges
                       /\ ~overlap => /\ nodes = NodesOf(t, os)
                                      /\ edges = CodeEdgesOf(t) \cup ObsEdgesOf(t, os)
  BY DEF IndexRebuilds
<1> DEFINE t == seen[r].tree
<1> DEFINE os == seen[r].obs
<1>1. t \in AllTrees /\ os \in SUBSET Obs
  BY DEF IndexInv, GraphTypeOK
<1>2. run[r].phase = "link" /\ run[r].todo = <<>> /\ Range(<<>>) = {}
  BY DEF Range
<1>3. /\ Ahead("link", t, os, {}, nodes, edges)
      /\ ~overlap => Exact("link", t, os, {}, nodes, edges)
  BY <1>2 DEF IndexInv, Progress, Writing
<1>4. Added({}) = {} /\ Drawn({}, t) = {}
  BY InAdded, InDrawn
<1> HIDE DEF t, os
<1>5. Added(LinkOps(os)) = ObsNodes(os) /\ Drawn(LinkOps(os), t) = ObsEdges(t, os)
  BY <1>1, LinkAdds
<1>6. /\ CodeNodes(t) \cup CommitNodes \cup ObsNodes(os) \subseteq nodes
      /\ ImportEdges(t) \cup ModifyEdges(t) \subseteq edges
  BY <1>3, <1>4, <1>5 DEF Ahead, PartOps, NodesBefore, EdgesBefore
<1>7. ASSUME ~overlap
      PROVE  /\ nodes \subseteq CodeNodes(t) \cup CommitNodes \cup ObsNodes(os)
             /\ edges \subseteq ImportEdges(t) \cup ModifyEdges(t) \cup ObsEdges(t, os)
             /\ ObsEdges(t, os) \subseteq edges
  BY <1>3, <1>4, <1>5, <1>7 DEF Exact, PartOps, NodesBefore, EdgesBefore
<1>8. /\ NodesOf(t, os) = CodeNodes(t) \cup CommitNodes \cup ObsNodes(os)
      /\ CodeEdgesOf(t) = ImportEdges(t) \cup ModifyEdges(t)
      /\ ObsEdgesOf(t, os) = ObsEdges(t, os)
  BY Whole
<1>9. /\ NodesOf(t, os) \subseteq nodes /\ CodeEdgesOf(t) \subseteq edges
      /\ ~overlap => /\ nodes = NodesOf(t, os)
                     /\ edges = CodeEdgesOf(t) \cup ObsEdgesOf(t, os)
  BY <1>6, <1>7, <1>8
<1> QED BY <1>9 DEF t, os

(* The invariant of the index, whatever runs, edits and calls do.          *)
LEMMA IndexInvariant == RetrievalSpec => []IndexInv
<1>1. RetrievalInit \/ FilledInit => IndexInv
  BY RebuildInit
<1>2. IndexInv /\ [RetrievalNext]_readVars => IndexInv'
  BY RebuildStep
<1> QED BY <1>1, <1>2, PTL DEF RetrievalSpec

(* The tables hold proper nodes and edges, and runs proper writes.          *)
THEOREM GraphTypeCorrect == RetrievalSpec => []GraphTypeOK
<1>1. IndexInv => GraphTypeOK
  BY DEF IndexInv
<1> QED BY <1>1, IndexInvariant, PTL

(* An index run that cleared last leaves, at its end, at least the nodes   *)
(* and the code's edges that the tree, the history and the observations it *)
(* saw call for, and exactly those and the observations' edges if no two   *)
(* runs ever overlapped, whatever died or was edited before.               *)
THEOREM IndexCorrect == RetrievalSpec => []IndexRebuilds
<1>1. IndexInv => IndexRebuilds
  BY RebuildImplied
<1> QED BY <1>1, IndexInvariant, PTL

------------------------------------------------------------------------------
(* What impact() and dependencies() reach.                                 *)

Imported(x, y) == <<x, y, "imports">> \in edges

(* What a chain says, its two ends apart.                                  *)
Chained(p, x, y, d) ==
  \A i \in 1 .. d : Imported(IF i = 1 THEN x ELSE p[i - 1], IF i = d THEN y ELSE p[i])

(* Chain names its path by a function.                                     *)
LEMMA ChainIs ==
  ASSUME NEW x, NEW y, NEW d \in Nat
  PROVE  Chain(x, y, d) <=> \E p \in [1 .. d - 1 -> Files] : Chained(p, x, y, d)
BY DEF Chain, Chained, Imported

(* A chain of one step is an import.                                       *)
LEMMA ChainOne == ASSUME NEW x, NEW y PROVE Chain(x, y, 1) <=> Imported(x, y)
<1>1. ASSUME NEW p PROVE Chained(p, x, y, 1) <=> Imported(x, y)
  <2>1. 1 .. 1 = {1}
    OBVIOUS
  <2> QED BY <2>1 DEF Chained
<1>2. \E p : p \in [1 .. 1 - 1 -> Files]
  <2>1. [i \in 1 .. 1 - 1 |-> i] \in [1 .. 1 - 1 -> Files]
    OBVIOUS
  <2> QED BY <2>1
<1> QED BY <1>1, <1>2, ChainIs

(* A longer chain is an import and a chain, ...                            *)
LEMMA ChainFront ==
  ASSUME edges \subseteq EdgeSet, NEW x, NEW y, NEW d \in Nat \ {0}
  PROVE  Chain(x, y, d + 1) <=> \E z : Imported(x, z) /\ Chain(z, y, d)
<1>1. ASSUME Chain(x, y, d + 1) PROVE \E z : Imported(x, z) /\ Chain(z, y, d)
  <2>1. PICK p \in [1 .. d -> Files] : Chained(p, x, y, d + 1)
    <3>1. (d + 1) - 1 = d /\ d + 1 \in Nat
      OBVIOUS
    <3> QED BY <1>1, <3>1, ChainIs
  <2> DEFINE q == [i \in 1 .. d - 1 |-> p[i + 1]]
  <2>2. q \in [1 .. d - 1 -> Files] /\ \A i \in 1 .. d - 1 : q[i] = p[i + 1]
    BY <2>1
  <2>3. Imported(x, p[1])
    <3>1. 1 \in 1 .. d + 1 /\ 1 # d + 1
      OBVIOUS
    <3> QED BY <2>1, <3>1 DEF Chained
  <2> HIDE DEF q
  <2>4. ASSUME NEW i \in 1 .. d
        PROVE  Imported(IF i = 1 THEN p[1] ELSE q[i - 1], IF i = d THEN y ELSE q[i])
    <3>1. i + 1 \in 1 .. d + 1 /\ i + 1 # 1 /\ (i + 1 = d + 1 <=> i = d) /\ (i + 1) - 1 = i
      OBVIOUS
    <3>2. Imported(p[i], IF i = d THEN y ELSE p[i + 1])
      BY <2>1, <3>1 DEF Chained
    <3>3. (IF i = 1 THEN p[1] ELSE q[i - 1]) = p[i]
      <4>1. CASE i = 1
        BY <4>1
      <4>2. CASE i # 1
        <5>1. i - 1 \in 1 .. d - 1 /\ (i - 1) + 1 = i
          BY <4>2
        <5>2. q[i - 1] = p[(i - 1) + 1]
          BY <2>2, <5>1
        <5> QED BY <4>2, <5>1, <5>2
      <4> QED BY <4>1, <4>2
    <3>4. i # d => q[i] = p[i + 1]
      BY <2>2
    <3> QED BY <3>2, <3>3, <3>4
  <2>5. Chained(q, p[1], y, d)
    BY <2>4 DEF Chained
  <2>6. Chain(p[1], y, d)
    BY <2>2, <2>5, ChainIs
  <2> QED BY <2>3, <2>6
<1>2. ASSUME NEW z, Imported(x, z), Chain(z, y, d) PROVE Chain(x, y, d + 1)
  <2>1. PICK q \in [1 .. d - 1 -> Files] : Chained(q, z, y, d)
    BY <1>2, ChainIs
  <2>2. z \in Files
    <3>1. 1 \in 1 .. d
      OBVIOUS
    <3>2. Imported(z, IF 1 = d THEN y ELSE q[1])
      BY <2>1, <3>1 DEF Chained
    <3> QED BY <3>2 DEF Imported, EdgeSet
  <2> DEFINE p == [i \in 1 .. d |-> IF i = 1 THEN z ELSE q[i - 1]]
  <2>3. p \in [1 .. d -> Files] /\ \A i \in 1 .. d : p[i] = IF i = 1 THEN z ELSE q[i - 1]
    <3>1. \A i \in 1 .. d : i # 1 => i - 1 \in 1 .. d - 1
      OBVIOUS
    <3> QED BY <2>1, <2>2, <3>1
  <2> HIDE DEF p
  <2>4. ASSUME NEW i \in 1 .. d + 1
        PROVE  Imported(IF i = 1 THEN x ELSE p[i - 1], IF i = d + 1 THEN y ELSE p[i])
    <3>1. CASE i = 1
      <4>1. 1 \in 1 .. d /\ 1 # d + 1
        OBVIOUS
      <4>2. p[1] = z
        BY <2>3, <4>1
      <4> QED BY <1>2, <3>1, <4>1, <4>2
    <3>2. CASE i # 1
      <4> DEFINE j == i - 1
      <4>1. j \in 1 .. d /\ (j = d <=> i = d + 1) /\ i = j + 1 /\ (j # d => i \in 1 .. d)
        BY <3>2
      <4> HIDE DEF j
      <4>2. Imported(IF j = 1 THEN z ELSE q[j - 1], IF j = d THEN y ELSE q[j])
        BY <2>1, <4>1 DEF Chained
      <4>3. p[j] = IF j = 1 THEN z ELSE q[j - 1]
        BY <2>3, <4>1
      <4>4. j # d => p[i] = q[j]
        BY <2>3, <3>2, <4>1 DEF j
      <4> QED BY <3>2, <4>1, <4>2, <4>3, <4>4 DEF j
    <3> QED BY <3>1, <3>2
  <2>5. Chained(p, x, y, d + 1)
    BY <2>4 DEF Chained
  <2>6. (d + 1) - 1 = d /\ d + 1 \in Nat
    OBVIOUS
  <2> QED BY <2>3, <2>5, <2>6, ChainIs
<1> QED BY <1>1, <1>2

(* ... and a chain and an import.                                          *)
LEMMA ChainBack ==
  ASSUME edges \subseteq EdgeSet, NEW x, NEW y, NEW d \in Nat \ {0}
  PROVE  Chain(x, y, d + 1) <=> \E z : Chain(x, z, d) /\ Imported(z, y)
<1>1. ASSUME Chain(x, y, d + 1) PROVE \E z : Chain(x, z, d) /\ Imported(z, y)
  <2>1. PICK p \in [1 .. d -> Files] : Chained(p, x, y, d + 1)
    <3>1. (d + 1) - 1 = d /\ d + 1 \in Nat
      OBVIOUS
    <3> QED BY <1>1, <3>1, ChainIs
  <2> DEFINE q == [i \in 1 .. d - 1 |-> p[i]]
  <2>2. q \in [1 .. d - 1 -> Files] /\ \A i \in 1 .. d - 1 : q[i] = p[i]
    BY <2>1
  <2>3. Imported(p[d], y)
    <3>1. d + 1 \in 1 .. d + 1 /\ d + 1 # 1 /\ (d + 1) - 1 = d
      OBVIOUS
    <3> QED BY <2>1, <3>1 DEF Chained
  <2> HIDE DEF q
  <2>4. ASSUME NEW i \in 1 .. d
        PROVE  Imported(IF i = 1 THEN x ELSE q[i - 1], IF i = d THEN p[d] ELSE q[i])
    <3>1. i \in 1 .. d + 1 /\ i # d + 1 /\ (i # 1 => i - 1 \in 1 .. d - 1) /\ (i # d => i \in 1 .. d - 1)
      OBVIOUS
    <3>2. Imported(IF i = 1 THEN x ELSE p[i - 1], p[i])
      BY <2>1, <3>1 DEF Chained
    <3> QED BY <2>2, <3>1, <3>2
  <2>5. Chained(q, x, p[d], d)
    BY <2>4 DEF Chained
  <2>6. Chain(x, p[d], d)
    BY <2>2, <2>5, ChainIs
  <2> QED BY <2>3, <2>6
<1>2. ASSUME NEW z, Imported(z, y), Chain(x, z, d) PROVE Chain(x, y, d + 1)
  <2>1. PICK q \in [1 .. d - 1 -> Files] : Chained(q, x, z, d)
    BY <1>2, ChainIs
  <2>2. z \in Files
    BY <1>2 DEF Imported, EdgeSet
  <2> DEFINE p == [i \in 1 .. d |-> IF i = d THEN z ELSE q[i]]
  <2>3. p \in [1 .. d -> Files] /\ \A i \in 1 .. d : p[i] = IF i = d THEN z ELSE q[i]
    <3>1. \A i \in 1 .. d : i # d => i \in 1 .. d - 1
      OBVIOUS
    <3> QED BY <2>1, <2>2, <3>1
  <2> HIDE DEF p
  <2>4. ASSUME NEW i \in 1 .. d + 1
        PROVE  Imported(IF i = 1 THEN x ELSE p[i - 1], IF i = d + 1 THEN y ELSE p[i])
    <3>1. CASE i = d + 1
      <4>1. i # 1 /\ i - 1 = d /\ d \in 1 .. d
        BY <3>1
      <4>2. p[d] = z
        BY <2>3, <4>1
      <4> QED BY <1>2, <3>1, <4>1, <4>2
    <3>2. CASE i # d + 1
      <4>1. i \in 1 .. d /\ (i # 1 => i - 1 \in 1 .. d /\ i - 1 # d)
        BY <3>2
      <4>2. Imported(IF i = 1 THEN x ELSE q[i - 1], IF i = d THEN z ELSE q[i])
        BY <2>1, <4>1 DEF Chained
      <4>3. i # 1 => p[i - 1] = q[i - 1]
        BY <2>3, <4>1
      <4>4. p[i] = IF i = d THEN z ELSE q[i]
        BY <2>3, <4>1
      <4> QED BY <3>2, <4>2, <4>3, <4>4
    <3> QED BY <3>1, <3>2
  <2>5. Chained(p, x, y, d + 1)
    BY <2>4 DEF Chained
  <2>6. (d + 1) - 1 = d /\ d + 1 \in Nat
    OBVIOUS
  <2> QED BY <2>3, <2>5, <2>6, ChainIs
<1> QED BY <1>1, <1>2

Spread(row, reverse) == {<<m, row[2] + 1>> : m \in Adjacent(row[1], reverse)}

(* W holds <<m, d>> when there is a walk of d steps from n to m.           *)
Walks(W, n, reverse) ==
  /\ \A w \in W : w = <<w[1], w[2]>> /\ w[2] \in Nat \ {0}
  /\ \A m : <<m, 1>> \in W <=> m \in Adjacent(n, reverse)
  /\ \A d \in Nat \ {0} : \A m :
       <<m, d + 1>> \in W <=> \E z : <<z, d>> \in W /\ m \in Adjacent(z, reverse)

Nearest(W, n, depth) ==
  {w \in W : w[2] <= depth /\ w[1] # n /\ \A x \in W : x[1] = w[1] => w[2] <= x[2]}

(* What Closure collects is the nearest of the walks, whatever the depth.  *)
LEMMA Walking ==
  ASSUME NEW n, NEW depth \in Nat \ {0}, NEW reverse, NEW W, Walks(W, n, reverse)
  PROVE  Closure(n, depth, reverse) = Nearest(W, n, depth)
<1>1. /\ \A w \in W : w = <<w[1], w[2]>> /\ w[2] \in Nat \ {0}
      /\ \A m : <<m, 1>> \in W <=> m \in Adjacent(n, reverse)
      /\ \A d \in Nat \ {0} : \A m :
           <<m, d + 1>> \in W <=> \E z : <<z, d>> \in W /\ m \in Adjacent(z, reverse)
  BY DEF Walks
<1> DEFINE upto(k) == {w \in W : w[2] <= k}
<1> DEFINE base == {<<m, 1>> : m \in Adjacent(n, reverse)}
<1> DEFINE more(S) == S \cup UNION {{<<m, row[2] + 1>> : m \in Adjacent(row[1], reverse)} :
                                       row \in {x \in S : x[2] < depth}}
<1>2. base = upto(1)
  <2>1. ASSUME NEW w \in base PROVE w \in upto(1)
    BY <1>1
  <2>2. ASSUME NEW w \in upto(1) PROVE w \in base
    <3>1. w[2] = 1 /\ w = <<w[1], 1>>
      BY <1>1
    <3> QED BY <1>1, <3>1
  <2> QED BY <2>1, <2>2
<1>3. ASSUME NEW S PROVE more(S) = S \cup UNION {Spread(row, reverse) : row \in {x \in S : x[2] < depth}}
  BY DEF Spread
<1>4. ASSUME NEW k \in 2 .. depth PROVE more(upto(k - 1)) = upto(k)
  <2> DEFINE U == upto(k - 1)
  <2> DEFINE V == UNION {Spread(row, reverse) : row \in {x \in U : x[2] < depth}}
  <2>0. U \subseteq W /\ \A x \in W : x \in U <=> x[2] <= k - 1
    OBVIOUS
  <2>1. ASSUME NEW e \in V PROVE e \in upto(k)
    <3>1. PICK row \in U : e \in Spread(row, reverse)
      OBVIOUS
    <3>2. PICK m \in Adjacent(row[1], reverse) : e = <<m, row[2] + 1>>
      BY <3>1 DEF Spread
    <3>3. row = <<row[1], row[2]>> /\ row[2] \in Nat \ {0} /\ row[2] <= k - 1 /\ row \in W
      BY <1>1, <2>0
    <3>4. e \in W /\ row[2] + 1 <= k
      BY <1>1, <3>2, <3>3
    <3> QED BY <3>2, <3>4
  <2>2. ASSUME NEW w \in upto(k), w \notin U PROVE w \in V
    <3>1. w \in W /\ w[2] = k /\ w = <<w[1], (k - 1) + 1>> /\ k - 1 \in Nat \ {0}
      BY <1>1, <2>2
    <3>2. PICK z : <<z, k - 1>> \in W /\ w[1] \in Adjacent(z, reverse)
      BY <1>1, <3>1
    <3> DEFINE row == <<z, k - 1>>
    <3>3. row[1] = z /\ row[2] = k - 1 /\ row \in W
      BY <3>2
    <3> HIDE DEF row
    <3>4. row \in {x \in U : x[2] < depth}
      BY <2>0, <3>1, <3>3
    <3>5. w \in Spread(row, reverse)
      BY <3>1, <3>2, <3>3 DEF Spread
    <3> HIDE DEF U
    <3> QED BY <3>4, <3>5
  <2>3. U \subseteq upto(k)
    BY <1>1, <2>0
  <2>4. more(U) = U \cup V
    BY <1>3
  <2> HIDE DEF V, more
  <2>5. more(U) = upto(k)
    <3> HIDE DEF upto, U
    <3>1. \A w \in upto(k) : w \in U \cup V
      BY <2>2
    <3> QED BY <2>1, <2>3, <2>4, <3>1
  <2> QED BY <2>5
<1> HIDE DEF more, base, upto
<1> DEFINE Rows(g) == g = [k \in 1 .. depth |-> IF k = 1 THEN base ELSE more(g[k - 1])]
<1>5. \E g : Rows(g)
  <2> DEFINE g == [k \in 1 .. depth |-> upto(k)]
  <2>1. ASSUME NEW k \in 1 .. depth PROVE g[k] = IF k = 1 THEN base ELSE more(g[k - 1])
    <3>1. CASE k = 1
      BY <1>2, <3>1
    <3>2. CASE k # 1
      <4>1. k \in 2 .. depth /\ k - 1 \in 1 .. depth
        BY <3>2
      <4>2. g[k] = upto(k) /\ g[k - 1] = upto(k - 1)
        BY <4>1
      <4> QED BY <1>4, <3>2, <4>1, <4>2
    <3> QED BY <3>1, <3>2
  <2>2. Rows(g)
    BY <2>1
  <2> QED BY <2>2
<1> DEFINE rows == CHOOSE g : Rows(g)
<1>6. Rows(rows)
  <2> HIDE DEF Rows
  <2> QED BY <1>5
<1>7. Closure(n, depth, reverse)
      = {row \in rows[depth] : row[1] # n /\ \A x \in rows[depth] : x[1] = row[1] => row[2] <= x[2]}
  BY DEF Closure, more, base
<1> HIDE DEF rows
<1>8. rows[depth] = upto(depth)
  <2> DEFINE A == {k \in 0 .. depth : k = 0 \/ rows[k] = upto(k)}
  <2>1. 0 \in A
    OBVIOUS
  <2>2. ASSUME NEW k \in 1 .. depth, k - 1 \in A PROVE k \in A
    <3>1. rows[k] = IF k = 1 THEN base ELSE more(rows[k - 1])
      BY <1>6
    <3>2. CASE k = 1
      BY <1>2, <3>1, <3>2
    <3>3. CASE k # 1
      <4>1. k \in 2 .. depth /\ rows[k - 1] = upto(k - 1)
        BY <2>2, <3>3
      <4>2. rows[k] = upto(k)
        BY <1>4, <3>1, <3>3, <4>1
      <4> QED BY <4>2
    <3> QED BY <3>2, <3>3
  <2> HIDE DEF A
  <2>3. 0 .. depth \subseteq A
    BY <2>1, <2>2, Counting
  <2>4. depth \in A
    BY <2>3
  <2> QED BY <2>4 DEF A
<1>9. \A w \in W : w \in upto(depth) <=> w[2] <= depth
  BY DEF upto
<1>10. upto(depth) \subseteq W
  BY DEF upto
<1>11. ASSUME NEW w \in W, w[2] <= depth
       PROVE  (\A x \in upto(depth) : x[1] = w[1] => w[2] <= x[2])
              <=> (\A x \in W : x[1] = w[1] => w[2] <= x[2])
  BY <1>1, <1>9, <1>10, <1>11
<1>12. Closure(n, depth, reverse)
       = {row \in upto(depth) : row[1] # n /\ \A x \in upto(depth) : x[1] = row[1] => row[2] <= x[2]}
  BY <1>7, <1>8
<1> DEFINE R == {w \in W : w[2] <= depth /\ w[1] # n /\ \A x \in W : x[1] = w[1] => w[2] <= x[2]}
<1>13. \A w : w \in Closure(n, depth, reverse) <=> w \in R
  BY <1>9, <1>10, <1>11, <1>12
<1> HIDE DEF R
<1>14. Closure(n, depth, reverse) = R
  <2> DEFINE C == Closure(n, depth, reverse)
  <2>1. C = {row \in upto(depth) : row[1] # n /\ \A x \in upto(depth) : x[1] = row[1] => row[2] <= x[2]}
    BY <1>12
  <2> QED BY <1>13
<1> QED BY <1>14 DEF R, Nearest

Sources(f) == {w \in NodeSet \X (Nat \ {0}) : Chain(w[1], f, w[2])}
Targets(f) == {w \in NodeSet \X (Nat \ {0}) : Chain(f, w[1], w[2])}

(* What is next to a node along imports, either way.                       *)
LEMMA AdjacentIs ==
  ASSUME edges \subseteq EdgeSet, NEW m, NEW n
  PROVE  /\ m \in Adjacent(n, TRUE) <=> Imported(m, n)
         /\ m \in Adjacent(n, FALSE) <=> Imported(n, m)
         /\ Imported(m, n) => m \in Files /\ m \in NodeSet /\ n \in NodeSet
<1>1. \A e \in edges : e = <<e[1], e[2], e[3]>>
  BY DEF EdgeSet
<1>2. m \in Adjacent(n, TRUE) <=> \E e \in edges : e[2] = n /\ e[3] = "imports" /\ m = e[1]
  BY DEF Adjacent
<1>3. m \in Adjacent(n, FALSE) <=> \E e \in edges : e[1] = n /\ e[3] = "imports" /\ m = e[2]
  BY DEF Adjacent
<1>4. Imported(m, n) => m \in Files /\ n \in NodeSet
  BY DEF Imported, EdgeSet
<1>5. Files \subseteq NodeSet
  BY DEF Files, NodeSet, Kinds
<1> QED BY <1>1, <1>2, <1>3, <1>4, <1>5 DEF Imported

(* The chains that end at f are walks against the imports, ...             *)
LEMMA SourcesWalk ==
  ASSUME edges \subseteq EdgeSet, NEW f
  PROVE  Walks(Sources(f), f, TRUE) /\ \A w \in Sources(f) : w[1] \in Files
<1>1. \A w \in Sources(f) : w = <<w[1], w[2]>> /\ w[2] \in Nat \ {0}
  BY DEF Sources
<1>2. \A m : \A d \in Nat \ {0} : <<m, d>> \in Sources(f) <=> m \in NodeSet /\ Chain(m, f, d)
  BY DEF Sources
<1>3. ASSUME NEW m PROVE <<m, 1>> \in Sources(f) <=> m \in Adjacent(f, TRUE)
  <2>1. 1 \in Nat \ {0}
    OBVIOUS
  <2>2. <<m, 1>> \in Sources(f) <=> m \in NodeSet /\ Imported(m, f)
    BY <1>2, <2>1, ChainOne
  <2> QED BY <2>2, AdjacentIs
<1>4. ASSUME NEW d \in Nat \ {0}, NEW m
      PROVE  <<m, d + 1>> \in Sources(f) <=> \E z : <<z, d>> \in Sources(f) /\ m \in Adjacent(z, TRUE)
  <2>1. Chain(m, f, d + 1) <=> \E z : Imported(m, z) /\ Chain(z, f, d)
    BY ChainFront
  <2>2. <<m, d + 1>> \in Sources(f) <=> m \in NodeSet /\ Chain(m, f, d + 1)
    BY <1>2
  <2>3. \A z : <<z, d>> \in Sources(f) <=> z \in NodeSet /\ Chain(z, f, d)
    BY <1>2
  <2>4. \A z : Imported(m, z) => m \in NodeSet /\ z \in NodeSet
    BY AdjacentIs
  <2>5. \A z : m \in Adjacent(z, TRUE) <=> Imported(m, z)
    BY AdjacentIs
  <2> QED BY <2>1, <2>2, <2>3, <2>4, <2>5
<1>5. ASSUME NEW w \in Sources(f) PROVE w[1] \in Files
  <2>1. w[2] \in Nat \ {0} /\ Chain(w[1], f, w[2])
    BY DEF Sources
  <2>2. CASE w[2] = 1
    BY <2>1, <2>2, ChainOne, AdjacentIs
  <2>3. CASE w[2] # 1
    <3>1. w[2] - 1 \in Nat \ {0} /\ (w[2] - 1) + 1 = w[2]
      BY <2>1, <2>3
    <3>2. \E z : Imported(w[1], z)
      BY <2>1, <3>1, ChainFront
    <3> QED BY <3>2, AdjacentIs
  <2> QED BY <2>2, <2>3
<1> QED BY <1>1, <1>3, <1>4, <1>5 DEF Walks

(* ... and those that start at f walks along them.                         *)
LEMMA TargetsWalk ==
  ASSUME edges \subseteq EdgeSet, NEW f
  PROVE  Walks(Targets(f), f, FALSE)
<1>1. \A w \in Targets(f) : w = <<w[1], w[2]>> /\ w[2] \in Nat \ {0}
  BY DEF Targets
<1>2. \A m : \A d \in Nat \ {0} : <<m, d>> \in Targets(f) <=> m \in NodeSet /\ Chain(f, m, d)
  BY DEF Targets
<1>3. ASSUME NEW m PROVE <<m, 1>> \in Targets(f) <=> m \in Adjacent(f, FALSE)
  <2>1. 1 \in Nat \ {0}
    OBVIOUS
  <2>2. <<m, 1>> \in Targets(f) <=> m \in NodeSet /\ Imported(f, m)
    BY <1>2, <2>1, ChainOne
  <2> QED BY <2>2, AdjacentIs
<1>4. ASSUME NEW d \in Nat \ {0}, NEW m
      PROVE  <<m, d + 1>> \in Targets(f) <=> \E z : <<z, d>> \in Targets(f) /\ m \in Adjacent(z, FALSE)
  <2>1. Chain(f, m, d + 1) <=> \E z : Chain(f, z, d) /\ Imported(z, m)
    BY ChainBack
  <2>2. <<m, d + 1>> \in Targets(f) <=> m \in NodeSet /\ Chain(f, m, d + 1)
    BY <1>2
  <2>3. \A z : <<z, d>> \in Targets(f) <=> z \in NodeSet /\ Chain(f, z, d)
    BY <1>2
  <2>4. \A z : Imported(z, m) => m \in NodeSet /\ z \in NodeSet
    BY AdjacentIs
  <2>5. \A z : m \in Adjacent(z, FALSE) <=> Imported(z, m)
    BY AdjacentIs
  <2> QED BY <2>1, <2>2, <2>3, <2>4, <2>5
<1> QED BY <1>1, <1>3, <1>4 DEF Walks

(* Least among the walks of W that end at the same node.                   *)
LEMMA ReachAll ==
  ASSUME edges \subseteq EdgeSet, NEW cap \in Nat \ {0}
  PROVE  ReachesTo(cap)
<1> SUFFICES ASSUME NEW f \in Files
             PROVE  /\ Impact(f, cap) = {row \in Files \X (1 .. cap) : Shortest(row[1], f, row[2])}
                    /\ {row \in Dependencies(f, cap) : row[1] \in Files}
                         = {row \in Files \X (1 .. cap) : Shortest(f, row[1], row[2])}
  BY DEF ReachesTo
<1>0. Files \subseteq NodeSet
  BY DEF Files, NodeSet, Kinds
<1>1. Impact(f, cap) = {row \in Files \X (1 .. cap) : Shortest(row[1], f, row[2])}
  <2> DEFINE W == Sources(f)
  <2>1. Impact(f, cap)
        = {w \in W : w[2] <= cap /\ w[1] # f /\ \A x \in W : x[1] = w[1] => w[2] <= x[2]}
    <3>1. Walks(W, f, TRUE)
      BY SourcesWalk
    <3> HIDE DEF W
    <3>2. Closure(f, cap, TRUE) = Nearest(W, f, cap)
      BY <3>1, Walking
    <3> QED BY <3>2 DEF Impact, Nearest
  <2>2. /\ \A w \in W : w = <<w[1], w[2]>> /\ w[1] \in Files /\ w[2] \in Nat \ {0} /\ Chain(w[1], f, w[2])
        /\ \A m \in Files, d \in Nat \ {0} : Chain(m, f, d) => <<m, d>> \in W
    <3>1. \A w \in W : w[1] \in Files
      BY SourcesWalk
    <3> QED BY <1>0, <3>1 DEF Sources
  <2> HIDE DEF W
  <2>3. ASSUME NEW w \in W, w[2] <= cap, w[1] # f, \A x \in W : x[1] = w[1] => w[2] <= x[2]
        PROVE  w \in Files \X (1 .. cap) /\ Shortest(w[1], f, w[2])
    <3>1. w \in Files \X (1 .. cap)
      BY <2>2, <2>3
    <3>2. ASSUME NEW k \in 1 .. w[2] - 1, Chain(w[1], f, k) PROVE FALSE
      <4> DEFINE x == <<w[1], k>>
      <4>1. x \in W /\ x[1] = w[1] /\ x[2] = k
        BY <2>2, <3>2
      <4>2. w[2] <= k /\ w[2] \in Nat
        BY <2>2, <2>3, <4>1
      <4> QED BY <4>2
    <3> QED BY <2>2, <2>3, <3>1, <3>2 DEF Shortest
  <2>4. ASSUME NEW w \in Files \X (1 .. cap), Shortest(w[1], f, w[2])
        PROVE  w \in W /\ w[2] <= cap /\ w[1] # f /\ \A x \in W : x[1] = w[1] => w[2] <= x[2]
    <3>1. w = <<w[1], w[2]>> /\ w[1] \in Files /\ w[2] \in 1 .. cap
      OBVIOUS
    <3>2. w \in W /\ w[1] # f
      BY <2>2, <2>4, <3>1 DEF Shortest
    <3>3. ASSUME NEW x \in W, x[1] = w[1], ~(w[2] <= x[2]) PROVE FALSE
      <4>1. x[2] \in 1 .. w[2] - 1 /\ Chain(w[1], f, x[2])
        BY <2>2, <3>1, <3>3
      <4> QED BY <2>4, <4>1 DEF Shortest
    <3> QED BY <3>1, <3>2, <3>3
  <2> QED BY <2>1, <2>3, <2>4
<1>2. {row \in Dependencies(f, cap) : row[1] \in Files}
      = {row \in Files \X (1 .. cap) : Shortest(f, row[1], row[2])}
  <2> DEFINE W == Targets(f)
  <2>1. Dependencies(f, cap)
        = {w \in W : w[2] <= cap /\ w[1] # f /\ \A x \in W : x[1] = w[1] => w[2] <= x[2]}
    <3>1. Walks(W, f, FALSE)
      BY TargetsWalk
    <3> HIDE DEF W
    <3>2. Closure(f, cap, FALSE) = Nearest(W, f, cap)
      BY <3>1, Walking
    <3> QED BY <3>2 DEF Dependencies, Nearest
  <2>2. /\ \A w \in W : w = <<w[1], w[2]>> /\ w[2] \in Nat \ {0} /\ Chain(f, w[1], w[2])
        /\ \A m \in Files, d \in Nat \ {0} : Chain(f, m, d) => <<m, d>> \in W
    BY <1>0 DEF Targets
  <2> HIDE DEF W
  <2>3. ASSUME NEW w \in W, w[1] \in Files, w[2] <= cap, w[1] # f, \A x \in W : x[1] = w[1] => w[2] <= x[2]
        PROVE  w \in Files \X (1 .. cap) /\ Shortest(f, w[1], w[2])
    <3>1. w \in Files \X (1 .. cap)
      BY <2>2, <2>3
    <3>2. ASSUME NEW k \in 1 .. w[2] - 1, Chain(f, w[1], k) PROVE FALSE
      <4> DEFINE x == <<w[1], k>>
      <4>1. x \in W /\ x[1] = w[1] /\ x[2] = k
        BY <2>2, <2>3, <3>2
      <4>2. w[2] <= k /\ w[2] \in Nat
        BY <2>2, <2>3, <4>1
      <4> QED BY <4>2
    <3> QED BY <2>2, <2>3, <3>1, <3>2 DEF Shortest
  <2>4. ASSUME NEW w \in Files \X (1 .. cap), Shortest(f, w[1], w[2])
        PROVE  /\ w \in W /\ w[1] \in Files /\ w[2] <= cap /\ w[1] # f
               /\ \A x \in W : x[1] = w[1] => w[2] <= x[2]
    <3>1. w = <<w[1], w[2]>> /\ w[1] \in Files /\ w[2] \in 1 .. cap
      OBVIOUS
    <3>2. w \in W /\ w[1] # f
      BY <2>2, <2>4, <3>1 DEF Shortest
    <3>3. ASSUME NEW x \in W, x[1] = w[1], ~(w[2] <= x[2]) PROVE FALSE
      <4>1. x[2] \in 1 .. w[2] - 1 /\ Chain(f, w[1], x[2])
        BY <2>2, <3>1, <3>3
      <4> QED BY <2>4, <4>1 DEF Shortest
    <3> QED BY <3>1, <3>2, <3>3
  <2> QED BY <2>1, <2>3, <2>4
<1> QED BY <1>1, <1>2

(* Between index runs, impact() and dependencies() list exactly what the   *)
(* import chains reach, each at the length of its shortest, up to any      *)
(* depth.                                                                  *)
THEOREM ImpactCorrect == RetrievalSpec => [](ImpactIsReach /\ \A cap \in Nat \ {0} : ReachesTo(cap))
<1>1. IndexInv => \A cap \in Nat \ {0} : ReachesTo(cap)
  BY ReachAll DEF IndexInv, GraphTypeOK
<1>2. (\A cap \in Nat \ {0} : ReachesTo(cap)) => ImpactIsReach
  BY DEF ImpactIsReach
<1> QED BY <1>1, <1>2, IndexInvariant, PTL

------------------------------------------------------------------------------
(* Sums of costs and of quotas.                                            *)

Items == [obs : Obs, cost : Nat]
Costs(out) == FoldLeft(LAMBDA n, e : n + e.cost, 0, out)

(* A set of positions that is not empty has its largest among it.          *)
LEMMA Largest ==
  ASSUME NEW n \in Nat
  PROVE  /\ \A s \in SUBSET (1 .. n) : s # {} => Max(s) \in s
         /\ \A k \in 1 .. n : /\ 1 .. k \in SUBSET (1 .. n) /\ 1 .. k # {}
                              /\ Max(1 .. k) = k /\ (1 .. k) \ {k} = 1 .. k - 1
<1>1. ASSUME NEW s \in SUBSET (1 .. n), s # {} PROVE Max(s) \in s
  <2> DEFINE U == {n - x : x \in s}
  <2>1. U \in SUBSET Nat /\ U # {}
    <3>1. PICK x \in s : TRUE
      BY <1>1
    <3>2. n - x \in U
      OBVIOUS
    <3>3. \A y \in s : n - y \in Nat
      OBVIOUS
    <3> QED BY <3>2, <3>3
  <2>2. PICK u \in U : \A v \in U : u <= v
    BY <2>1, Least
  <2>3. PICK x \in s : u = n - x
    OBVIOUS
  <2>4. \A y \in s : x >= y
    <3> TAKE y \in s
    <3>1. n - x <= n - y
      BY <2>2, <2>3
    <3> QED BY <3>1
  <2>5. Max(s) = CHOOSE z \in s : \A y \in s : z >= y
    BY DEF Max
  <2> QED BY <2>4, <2>5
<1>2. ASSUME NEW k \in 1 .. n
      PROVE  /\ 1 .. k \in SUBSET (1 .. n) /\ 1 .. k # {}
             /\ Max(1 .. k) = k /\ (1 .. k) \ {k} = 1 .. k - 1
  <2>1. 1 .. k \in SUBSET (1 .. n) /\ k \in 1 .. k /\ \A y \in 1 .. k : k >= y
    OBVIOUS
  <2>2. \A x \in 1 .. k : (\A y \in 1 .. k : x >= y) => x = k
    BY <2>1
  <2>3. Max(1 .. k) = k
    <3>1. Max(1 .. k) = CHOOSE z \in 1 .. k : \A y \in 1 .. k : z >= y
      BY DEF Max
    <3> QED BY <2>1, <2>2, <3>1
  <2> QED BY <2>1, <2>3
<1> QED BY <1>1, <1>2

(* f is the sum of the first i costs.                                      *)
Tallies(f, out) ==
  /\ f \in [0 .. Len(out) -> Nat] /\ f[0] = 0
  /\ \A i \in 1 .. Len(out) : f[i] = f[i - 1] + out[i].cost
  /\ Costs(out) = f[Len(out)]

(* Costs adds up the costs from the left.                                  *)
LEMMA Tallying == ASSUME NEW out \in Seq(Items) PROVE \E f : Tallies(f, out)
<1> DEFINE n == Len(out)
<1> DEFINE ch == [s \in SUBSET (1 .. n) |-> Max(s)]
<1> DEFINE step == [p \in Nat \X (1 .. n) |-> p[1] + out[p[2]].cost]
<1> DEFINE Eq(g) == g = [s \in SUBSET DOMAIN out |->
                           IF s = {} THEN 0 ELSE g[s \ {Max(s)}] + out[Max(s)].cost]
<1>1. n \in Nat /\ DOMAIN out = 1 .. n /\ \A i \in 1 .. n : out[i] \in Items /\ out[i].cost \in Nat
  <2>1. \A i \in 1 .. n : out[i] \in Items
    OBVIOUS
  <2> QED BY <2>1 DEF Items
<1>2. Costs(out) = (CHOOSE g : Eq(g))[DOMAIN out]
  BY DEF Costs, FoldLeft, MapThenFoldSet
<1> HIDE DEF n
<1>3. \E g : Eq(g)
  <2>1. \A s \in SUBSET (1 .. n) : s # {} => ch[s] = Max(s) /\ ch[s] \in s
    BY <1>1, Largest
  <2>2. \A a \in Nat, x \in 1 .. n : step[<<a, x>>] = a + out[x].cost /\ step[<<a, x>>] \in Nat
    <3> TAKE a \in Nat, x \in 1 .. n
    <3>1. <<a, x>> \in Nat \X (1 .. n)
      OBVIOUS
    <3>2. step[<<a, x>>] = a + out[x].cost
      BY <3>1
    <3> QED BY <1>1, <3>2
  <2>3. IsFiniteSet(1 .. n) /\ 0 \in Nat
    BY <1>1, FS_Interval
  <2>4. PICK h : FoldsBy(h, 1 .. n, Nat, 0, ch, step)
    <3> HIDE DEF ch, step
    <3> QED BY <2>1, <2>2, <2>3, Folding
  <2> HIDE DEF ch, step
  <2>5. h \in [SUBSET (1 .. n) -> Nat] /\ h[{}] = 0
    BY <2>4 DEF FoldsBy
  <2>6. ASSUME NEW s \in SUBSET (1 .. n)
        PROVE  h[s] = IF s = {} THEN 0 ELSE h[s \ {Max(s)}] + out[Max(s)].cost
    <3>1. CASE s # {}
      <4>1. h[s] = step[<<h[s \ {ch[s]}], ch[s]>>]
        BY <2>4, <3>1 DEF FoldsBy
      <4>2. ch[s] = Max(s) /\ ch[s] \in 1 .. n /\ h[s \ {ch[s]}] \in Nat
        BY <2>1, <2>5, <3>1
      <4> QED BY <2>2, <3>1, <4>1, <4>2
    <3> QED BY <2>5, <3>1
  <2>7. Eq(h)
    BY <1>1, <2>5, <2>6
  <2> QED BY <2>7
<1> DEFINE g == CHOOSE g : Eq(g)
<1>4. Eq(g)
  <2> HIDE DEF Eq
  <2> QED BY <1>3
<1> HIDE DEF g
<1> DEFINE f == [k \in 0 .. n |-> g[1 .. k]]
<1>5. f[0] = 0 /\ \A k \in 1 .. n : f[k] = f[k - 1] + out[k].cost
  <2>1. 1 .. 0 = {} /\ {} \in SUBSET (1 .. n) /\ 0 \in 0 .. n
    BY <1>1
  <2>2. f[0] = 0
    BY <1>1, <1>4, <2>1
  <2>3. ASSUME NEW k \in 1 .. n PROVE f[k] = f[k - 1] + out[k].cost
    <3>1. /\ 1 .. k \in SUBSET (1 .. n) /\ 1 .. k # {}
          /\ Max(1 .. k) = k /\ (1 .. k) \ {k} = 1 .. k - 1
      BY <1>1, Largest
    <3>2. g[1 .. k] = g[(1 .. k) \ {Max(1 .. k)}] + out[Max(1 .. k)].cost
      BY <1>1, <1>4, <3>1
    <3>3. k \in 0 .. n /\ k - 1 \in 0 .. n
      BY <1>1
    <3> QED BY <3>1, <3>2, <3>3
  <2> QED BY <2>2, <2>3
<1>6. f[n] = g[1 .. n] /\ f \in [0 .. n -> {f[k] : k \in 0 .. n}]
  BY <1>1
<1> HIDE DEF f
<1>7. \A k \in 0 .. n : f[k] \in Nat
  <2> DEFINE A == {k \in 0 .. n : f[k] \in Nat}
  <2>1. 0 \in A
    BY <1>1, <1>5
  <2>2. \A k \in 1 .. n : k - 1 \in A => k \in A
    BY <1>1, <1>5
  <2> HIDE DEF A
  <2>3. 0 .. n \subseteq A
    BY <1>1, <2>1, <2>2, Counting
  <2> QED BY <2>3 DEF A
<1>8. f \in [0 .. n -> Nat]
  BY <1>6, <1>7
<1>9. Costs(out) = f[n]
  BY <1>1, <1>2, <1>6 DEF g
<1>10. Tallies(f, out)
  BY <1>5, <1>8, <1>9 DEF Tallies, n
<1> QED BY <1>10

(* Nothing costs nothing, and an entry adds its cost.                      *)
LEMMA CostsAppend ==
  /\ Costs(<<>>) = 0
  /\ \A out \in Seq(Items), e \in Items :
       Costs(out) \in Nat /\ Costs(Append(out, e)) = Costs(out) + e.cost
<1>1. Costs(<<>>) = 0
  <2>1. <<>> \in Seq(Items) /\ Len(<<>>) = 0
    OBVIOUS
  <2>2. PICK f : Tallies(f, <<>>)
    BY <2>1, Tallying
  <2> QED BY <2>1, <2>2 DEF Tallies
<1>2. ASSUME NEW out \in Seq(Items), NEW e \in Items
      PROVE  Costs(out) \in Nat /\ Costs(Append(out, e)) = Costs(out) + e.cost
  <2> DEFINE n == Len(out)
  <2> DEFINE long == Append(out, e)
  <2>1. /\ n \in Nat /\ long \in Seq(Items) /\ Len(long) = n + 1
        /\ long[n + 1] = e /\ \A i \in 1 .. n : long[i] = out[i]
    OBVIOUS
  <2>2. PICK f : Tallies(f, out)
    BY Tallying
  <2>3. PICK g : Tallies(g, long)
    BY <2>1, Tallying
  <2>a. f \in [0 .. n -> Nat] /\ f[0] = 0 /\ \A i \in 1 .. n : f[i] = f[i - 1] + out[i].cost
    BY <2>2 DEF Tallies
  <2>b. g[0] = 0 /\ (\A i \in 1 .. n + 1 : g[i] = g[i - 1] + long[i].cost) /\ Costs(long) = g[n + 1]
    BY <2>1, <2>3 DEF Tallies
  <2>c. Costs(out) = f[n]
    BY <2>2 DEF Tallies
  <2> HIDE DEF long, n
  <2> DEFINE A == {k \in 0 .. n : f[k] = g[k]}
  <2>4. 0 \in A
    BY <2>1, <2>a, <2>b
  <2>5. ASSUME NEW k \in 1 .. n, k - 1 \in A PROVE k \in A
    <3>1. k \in 1 .. n + 1 /\ k \in 0 .. n
      BY <2>1
    <3>2. f[k] = f[k - 1] + out[k].cost /\ g[k] = g[k - 1] + long[k].cost /\ long[k] = out[k]
      BY <2>1, <2>a, <2>b, <3>1
    <3>3. f[k - 1] = g[k - 1]
      BY <2>5
    <3> QED BY <3>1, <3>2, <3>3
  <2> HIDE DEF A
  <2>6. 0 .. n \subseteq A
    BY <2>1, <2>4, <2>5, Counting
  <2>7. f[n] = g[n] /\ f[n] \in Nat
    BY <2>1, <2>6, <2>a DEF A
  <2>8. g[n + 1] = g[n] + e.cost
    <3>1. n + 1 \in 1 .. n + 1 /\ n + 1 - 1 = n
      BY <2>1
    <3> QED BY <2>1, <2>b, <3>1
  <2> QED BY <2>b, <2>c, <2>7, <2>8 DEF long
<1> QED BY <1>1, <1>2

(* What the read path's parameters are.                                    *)
LEMMA Parameters ==
  /\ Cat \in [Obs -> Category] /\ Fractions \in [Category -> 0 .. 100] /\ IsFiniteSet(Category)
  /\ MinEntry \in Nat \ {0} /\ Ladder \in [Obs -> Seq(Nat)] /\ \A o \in Obs : Ladder[o] # <<>>
  /\ Queries \subseteq [budget : Nat, limit : Nat, types : SUBSET Category, kills : SUBSET Obs,
                        changed : SUBSET Path]
<1>1. Cat \in [Obs -> Category] /\ Fractions \in [Category -> 0 .. 100] /\ IsFiniteSet(Category)
  BY Zenon, RetrievalAssumption
<1>2. MinEntry \in Nat \ {0} /\ Ladder \in [Obs -> Seq(Nat)] /\ \A o \in Obs : Ladder[o] # <<>>
  BY Zenon, RetrievalAssumption
<1>3. Queries \subseteq [budget : Nat, limit : Nat, types : SUBSET Category, kills : SUBSET Obs,
                         changed : SUBSET Path]
  BY Zenon, RetrievalAssumption
<1> QED BY <1>1, <1>2, <1>3

(* The rung an entry is cut to is one of its ladder.                       *)
LEMMA FitRung ==
  ASSUME NEW o \in Obs, NEW room \in Int
  PROVE  Fit(o, room) \in Range(Ladder[o]) /\ Fit(o, room) \in Nat
<1> DEFINE lad == Ladder[o]
<1> DEFINE rungs == {i \in DOMAIN lad : lad[i] <= room}
<1>1. lad \in Seq(Nat) /\ lad # <<>>
  BY Parameters
<1> DEFINE pick == IF rungs = {} THEN Len(lad) ELSE CHOOSE i \in rungs : \A j \in rungs : i <= j
<1>2. Fit(o, room) = lad[pick]
  BY DEF Fit
<1> HIDE DEF lad
<1>3. pick \in DOMAIN lad
  <2>1. CASE rungs = {}
    BY <1>1, <2>1
  <2>2. CASE rungs # {}
    <3>1. rungs \in SUBSET Nat
      BY <1>1
    <3>2. PICK k \in rungs : \A j \in rungs : k <= j
      BY <2>2, <3>1, Least
    <3>3. (CHOOSE i \in rungs : \A j \in rungs : i <= j) \in rungs
      BY <3>2
    <3> HIDE DEF rungs
    <3>4. pick = CHOOSE i \in rungs : \A j \in rungs : i <= j
      BY <2>2
    <3>5. pick \in rungs
      BY <3>3, <3>4
    <3> QED BY <3>5 DEF rungs
  <2> QED BY <2>1, <2>2
<1> HIDE DEF pick
<1>4. lad[pick] \in Nat
  BY <1>1, <1>3
<1>5. lad[pick] \in Range(lad)
  BY <1>3 DEF Range
<1> QED BY <1>2, <1>4, <1>5 DEF lad

Some(s) == CHOOSE x \in s : TRUE

Total(f, S) == FoldFunctionOnSet(+, 0, f, S)

(* h sums f over each subset of S, taking the element Some(s) first.       *)
Sums(h, f, S) ==
  /\ h \in [SUBSET S -> Nat] /\ h[{}] = 0
  /\ \A s \in SUBSET S : s # {} => h[s] = f[Some(s)] + h[s \ {Some(s)}]
  /\ Total(f, S) = h[S]

(* Total adds up f over a finite set, ...                                  *)
LEMMA Summing ==
  ASSUME NEW S, IsFiniteSet(S), NEW f, \A x \in S : f[x] \in Nat
  PROVE  \E h : Sums(h, f, S)
<1> DEFINE ch == [s \in SUBSET S |-> Some(s)]
<1> DEFINE step == [p \in Nat \X S |-> f[p[2]] + p[1]]
<1> DEFINE Eq(g) == g = [s \in SUBSET S |-> IF s = {} THEN 0 ELSE f[Some(s)] + g[s \ {Some(s)}]]
<1>1. Total(f, S) = (CHOOSE g : Eq(g))[S]
  BY Zenon DEF Total, FoldFunctionOnSet, MapThenFoldSet, Some
<1>2. \A s \in SUBSET S : s # {} => ch[s] = Some(s) /\ ch[s] \in s
  BY DEF Some
<1>3. \A a \in Nat, x \in S : step[<<a, x>>] = f[x] + a /\ step[<<a, x>>] \in Nat
  <2> TAKE a \in Nat, x \in S
  <2>1. <<a, x>> \in Nat \X S
    OBVIOUS
  <2>2. step[<<a, x>>] = f[x] + a
    BY <2>1
  <2> QED BY <2>2
<1>4. PICK h : FoldsBy(h, S, Nat, 0, ch, step)
  <2> HIDE DEF ch, step
  <2> QED BY <1>2, <1>3, Folding
<1> HIDE DEF ch, step
<1>5. h \in [SUBSET S -> Nat] /\ h[{}] = 0
  BY <1>4 DEF FoldsBy
<1>6. ASSUME NEW s \in SUBSET S, s # {} PROVE h[s] = f[Some(s)] + h[s \ {Some(s)}]
  <2>1. h[s] = step[<<h[s \ {ch[s]}], ch[s]>>]
    BY <1>4, <1>6 DEF FoldsBy
  <2>2. ch[s] = Some(s) /\ ch[s] \in S /\ h[s \ {ch[s]}] \in Nat
    BY <1>2, <1>5, <1>6
  <2> QED BY <1>3, <2>1, <2>2
<1>7. Eq(h)
  BY <1>5, <1>6
<1> DEFINE g == CHOOSE g : Eq(g)
<1>8. Eq(g)
  <2> HIDE DEF Eq
  <2> QED BY <1>7
<1> HIDE DEF g
<1>9. g[{}] = 0 /\ \A s \in SUBSET S : s # {} => g[s] = f[Some(s)] + g[s \ {Some(s)}]
  BY <1>8
<1> DEFINE A == {s \in SUBSET S : g[s] \in Nat}
<1>10. SUBSET S \subseteq A
  <2>1. {} \in A
    BY <1>9
  <2>2. ASSUME NEW s \in SUBSET S, s # {}, s \ {ch[s]} \in A PROVE s \in A
    <3>1. ch[s] = Some(s) /\ ch[s] \in S
      BY <1>2, <2>2
    <3>2. g[s] = f[Some(s)] + g[s \ {Some(s)}]
      BY <1>9, <2>2
    <3> QED BY <2>2, <3>1, <3>2
  <2> HIDE DEF A
  <2>3. GrowsBy(S, A, ch)
    BY <1>2, <2>1, <2>2 DEF GrowsBy
  <2> QED BY Zenon, <2>3, SubsetInduction
<1>11. DOMAIN g = SUBSET S /\ g = [s \in SUBSET S |-> g[s]]
  BY <1>8
<1>12. g \in [SUBSET S -> Nat]
  BY <1>10, <1>11
<1>13. Total(f, S) = g[S]
  BY <1>1 DEF g
<1>14. Sums(g, f, S)
  BY <1>9, <1>12, <1>13 DEF Sums
<1> QED BY <1>14

(* ... to a natural number, ...                                            *)
LEMMA TotalNat ==
  ASSUME NEW S, IsFiniteSet(S), NEW f, \A x \in S : f[x] \in Nat
  PROVE  Total(f, S) \in Nat
<1>1. PICK h : Sums(h, f, S)
  BY Summing
<1> QED BY <1>1 DEF Sums

(* ... to nothing when there is nothing.                                   *)
LEMMA TotalZero ==
  ASSUME NEW S, IsFiniteSet(S), NEW f, \A x \in S : f[x] = 0
  PROVE  Total(f, S) = 0
<1>1. PICK h : Sums(h, f, S)
  BY Summing
<1>h. h[{}] = 0 /\ (\A s \in SUBSET S : s # {} => h[s] = f[Some(s)] + h[s \ {Some(s)}]) /\ Total(f, S) = h[S]
  BY <1>1 DEF Sums
<1> DEFINE ch == [s \in SUBSET S |-> Some(s)]
<1> DEFINE A == {s \in SUBSET S : h[s] = 0}
<1>2. \A s \in SUBSET S : s # {} => ch[s] \in s /\ ch[s] = Some(s)
  BY DEF Some
<1> HIDE DEF ch
<1>3. {} \in A
  BY <1>h
<1>4. ASSUME NEW s \in SUBSET S, s # {}, s \ {ch[s]} \in A PROVE s \in A
  <2>1. ch[s] \in S /\ h[s] = f[ch[s]] + h[s \ {ch[s]}]
    BY <1>h, <1>2, <1>4
  <2> QED BY <1>4, <2>1
<1> HIDE DEF A
<1>5. SUBSET S \subseteq A
  <2>1. GrowsBy(S, A, ch)
    BY <1>2, <1>3, <1>4 DEF GrowsBy
  <2> QED BY Zenon, <2>1, SubsetInduction
<1> QED BY <1>h, <1>5 DEF A

(* A value that grows by d makes the total grow by d.                      *)
LEMMA TotalGrows ==
  ASSUME NEW S, IsFiniteSet(S), NEW f \in [S -> Nat], NEW c \in S, NEW d \in Nat
  PROVE  Total([f EXCEPT ![c] = @ + d], S) = Total(f, S) + d
<1> DEFINE g == [f EXCEPT ![c] = @ + d]
<1>0. g \in [S -> Nat] /\ g[c] = f[c] + d /\ \A x \in S \ {c} : g[x] = f[x]
  OBVIOUS
<1> HIDE DEF g
<1>1. PICK h : Sums(h, f, S)
  BY Summing
<1>2. PICK k : Sums(k, g, S)
  BY <1>0, Summing
<1>3. /\ h \in [SUBSET S -> Nat] /\ h[{}] = 0 /\ Total(f, S) = h[S]
      /\ \A s \in SUBSET S : s # {} => h[s] = f[Some(s)] + h[s \ {Some(s)}]
  BY <1>1 DEF Sums
<1>4. /\ k \in [SUBSET S -> Nat] /\ k[{}] = 0 /\ Total(g, S) = k[S]
      /\ \A s \in SUBSET S : s # {} => k[s] = g[Some(s)] + k[s \ {Some(s)}]
  BY <1>2 DEF Sums
<1> DEFINE ch == [s \in SUBSET S |-> Some(s)]
<1> DEFINE A == {s \in SUBSET S : k[s] = h[s] + IF c \in s THEN d ELSE 0}
<1>5. \A s \in SUBSET S : s # {} => ch[s] \in s /\ ch[s] = Some(s)
  BY DEF Some
<1> HIDE DEF ch
<1>6. {} \in A
  BY <1>3, <1>4
<1>7. ASSUME NEW s \in SUBSET S, s # {}, s \ {ch[s]} \in A PROVE s \in A
  <2> DEFINE x == ch[s]
  <2> DEFINE r == s \ {x}
  <2>1. /\ x \in s /\ x \in S /\ r \in SUBSET S /\ h[s] = f[x] + h[r] /\ k[s] = g[x] + k[r]
        /\ f[x] \in Nat /\ h[r] \in Nat
    BY <1>3, <1>4, <1>5, <1>7
  <2>2. k[r] = h[r] + IF c \in r THEN d ELSE 0
    BY <1>7
  <2>3. c \in r <=> c \in s /\ c # x
    OBVIOUS
  <2> HIDE DEF r, x
  <2>4. CASE c = x
    BY <1>0, <2>1, <2>2, <2>3, <2>4
  <2>5. CASE c # x
    <3>1. g[x] = f[x]
      BY <1>0, <2>1, <2>5
    <3> QED BY <2>1, <2>2, <2>3, <2>5, <3>1
  <2> QED BY <2>4, <2>5
<1>8. SUBSET S \subseteq A
  <2> HIDE DEF A
  <2>1. GrowsBy(S, A, ch)
    BY <1>5, <1>6, <1>7 DEF GrowsBy
  <2> QED BY Zenon, <2>1, SubsetInduction
<1>9. k[S] = h[S] + d
  BY <1>8
<1> QED BY <1>3, <1>4, <1>9 DEF g

(* What is larger everywhere has the larger total.                         *)
LEMMA TotalBounds ==
  ASSUME NEW S, IsFiniteSet(S), NEW f \in [S -> Nat], NEW g \in [S -> Nat],
         \A x \in S : f[x] <= g[x]
  PROVE  Total(f, S) <= Total(g, S)
<1>1. PICK h : Sums(h, f, S)
  BY Summing
<1>2. PICK k : Sums(k, g, S)
  BY Summing
<1>3. /\ h \in [SUBSET S -> Nat] /\ h[{}] = 0 /\ Total(f, S) = h[S]
      /\ \A s \in SUBSET S : s # {} => h[s] = f[Some(s)] + h[s \ {Some(s)}]
  BY <1>1 DEF Sums
<1>4. /\ k \in [SUBSET S -> Nat] /\ k[{}] = 0 /\ Total(g, S) = k[S]
      /\ \A s \in SUBSET S : s # {} => k[s] = g[Some(s)] + k[s \ {Some(s)}]
  BY <1>2 DEF Sums
<1> DEFINE ch == [s \in SUBSET S |-> Some(s)]
<1> DEFINE A == {s \in SUBSET S : h[s] <= k[s]}
<1>5. \A s \in SUBSET S : s # {} => ch[s] \in s /\ ch[s] = Some(s)
  BY DEF Some
<1> HIDE DEF ch
<1>6. {} \in A
  BY <1>3, <1>4
<1>7. ASSUME NEW s \in SUBSET S, s # {}, s \ {ch[s]} \in A PROVE s \in A
  <2> DEFINE x == ch[s]
  <2> DEFINE r == s \ {x}
  <2>1. /\ x \in S /\ r \in SUBSET S /\ h[s] = f[x] + h[r] /\ k[s] = g[x] + k[r]
        /\ f[x] \in Nat /\ g[x] \in Nat /\ h[r] \in Nat /\ k[r] \in Nat
    BY <1>3, <1>4, <1>5, <1>7
  <2>2. h[r] <= k[r] /\ f[x] <= g[x]
    BY <1>7, <2>1
  <2> HIDE DEF r, x
  <2>3. h[s] <= k[s]
    BY <2>1, <2>2
  <2> QED BY <2>3
<1>8. SUBSET S \subseteq A
  <2> HIDE DEF A
  <2>1. GrowsBy(S, A, ch)
    BY <1>5, <1>6, <1>7 DEF GrowsBy
  <2> QED BY Zenon, <2>1, SubsetInduction
<1> QED BY <1>3, <1>4, <1>8

(* a out of n is at most b out of m.                                       *)
Within(n, a, m, b) == n * a <= m * b

(* Bounded shares add up to a bounded share.                               *)
LEMMA SharesAdd ==
  ASSUME NEW a \in Nat, NEW b \in Nat, NEW p \in Nat, NEW q \in Nat, NEW m \in Nat, NEW n \in Nat,
         Within(n, a, m, b), Within(n, p, m, q)
  PROVE  Within(n, a + p, m, b + q)
<1>1. n * (a + p) = n * a + n * p
  OBVIOUS
<1>2. m * (b + q) = m * b + m * q
  OBVIOUS
<1>3. n * a \in Nat /\ n * p \in Nat /\ m * b \in Nat /\ m * q \in Nat
  OBVIOUS
<1>4. n * a <= m * b /\ n * p <= m * q
  BY DEF Within
<1>5. n * (a + p) <= m * (b + q)
  BY <1>1, <1>2, <1>3, <1>4
<1> QED BY <1>5 DEF Within

(* A whole share, rounded down.                                            *)
LEMMA Share ==
  ASSUME NEW m \in Nat, NEW n \in Nat \ {0}
  PROVE  m \div n \in Nat /\ n * (m \div n) <= m
OBVIOUS

(* Shares of m in proportion to the weights g of their sum or more.        *)
LEMMA TotalShares ==
  ASSUME NEW S, IsFiniteSet(S), NEW f \in [S -> Nat], NEW g \in [S -> Nat],
         NEW m \in Nat, NEW n \in Nat, \A x \in S : Within(n, f[x], m, g[x])
  PROVE  Within(n, Total(f, S), m, Total(g, S))
<1>1. PICK h : Sums(h, f, S)
  BY Summing
<1>2. PICK k : Sums(k, g, S)
  BY Summing
<1>3. /\ h \in [SUBSET S -> Nat] /\ h[{}] = 0 /\ Total(f, S) = h[S]
      /\ \A s \in SUBSET S : s # {} => h[s] = f[Some(s)] + h[s \ {Some(s)}]
  BY <1>1 DEF Sums
<1>4. /\ k \in [SUBSET S -> Nat] /\ k[{}] = 0 /\ Total(g, S) = k[S]
      /\ \A s \in SUBSET S : s # {} => k[s] = g[Some(s)] + k[s \ {Some(s)}]
  BY <1>2 DEF Sums
<1> DEFINE ch == [s \in SUBSET S |-> Some(s)]
<1> DEFINE A == {s \in SUBSET S : Within(n, h[s], m, k[s])}
<1>5. \A s \in SUBSET S : s # {} => ch[s] \in s /\ ch[s] = Some(s)
  BY DEF Some
<1> HIDE DEF ch
<1>6. {} \in A
  BY <1>3, <1>4 DEF Within
<1>7. ASSUME NEW s \in SUBSET S, s # {}, s \ {ch[s]} \in A PROVE s \in A
  <2> DEFINE x == ch[s]
  <2> DEFINE r == s \ {x}
  <2>1. /\ x \in S /\ r \in SUBSET S /\ h[s] = f[x] + h[r] /\ k[s] = g[x] + k[r]
        /\ f[x] \in Nat /\ g[x] \in Nat /\ h[r] \in Nat /\ k[r] \in Nat
    BY <1>3, <1>4, <1>5, <1>7
  <2>2. Within(n, h[r], m, k[r])
    BY <1>7
  <2>a. Within(n, f[x], m, g[x])
    BY <2>1
  <2> HIDE DEF r, x
  <2>3. Within(n, f[x] + h[r], m, g[x] + k[r])
    BY <2>1, <2>2, <2>a, SharesAdd
  <2>4. Within(n, h[s], m, k[s])
    BY <2>1, <2>3
  <2> QED BY <2>4
<1>8. SUBSET S \subseteq A
  <2>1. \A s \in SUBSET S : s # {} => ch[s] \in s
    BY <1>5
  <2> HIDE DEF A
  <2>2. \A s \in SUBSET S : s # {} /\ s \ {ch[s]} \in A => s \in A
    BY <1>7
  <2>3. {} \in A
    BY <1>6
  <2>4. GrowsBy(S, A, ch)
    BY <2>1, <2>2, <2>3 DEF GrowsBy
  <2> QED BY Zenon, <2>4, SubsetInduction
<1> QED BY <1>3, <1>4, <1>8

(* The quotas of a budget add up to no more than the budget.               *)
LEMMA AllocationFits ==
  ASSUME NEW budget \in Nat, NEW drops
  PROVE  /\ Allocation(budget, drops) \in [Category \ drops -> Nat]
         /\ Total(Allocation(budget, drops), Category \ drops) <= budget
<1> DEFINE kept == Category \ drops
<1> DEFINE total == Total(Fractions, kept)
<1> DEFINE n == IF total = 0 THEN 1 ELSE total
<1> DEFINE alloc == [c \in kept |-> (budget * Fractions[c]) \div n]
<1> DEFINE weights == [c \in kept |-> Fractions[c]]
<1>1. IsFiniteSet(kept) /\ \A c \in kept : Fractions[c] \in Nat
  <2>1. IsFiniteSet(kept)
    BY Parameters, FS_Subset
  <2>2. Fractions \in [Category -> 0 .. 100]
    BY Zenon, Parameters
  <2>3. \A c \in kept : Fractions[c] \in 0 .. 100
    BY <2>2
  <2> QED BY <2>1, <2>3
<1>2. Allocation(budget, drops) = alloc
  BY Zenon DEF Allocation, Total
<1> HIDE DEF kept
<1>3. total \in Nat
  BY <1>1, TotalNat
<1>4. n \in Nat \ {0}
  BY <1>3
<1>5. weights \in [kept -> Nat] /\ \A c \in kept : weights[c] = Fractions[c]
  BY <1>1
<1>6. Total(weights, kept) = total
  <2>1. PICK h : Sums(h, Fractions, kept)
    BY <1>1, Summing
  <2>2. PICK k : Sums(k, weights, kept)
    BY <1>1, <1>5, Summing
  <2>3. /\ h[{}] = 0 /\ total = h[kept]
        /\ \A s \in SUBSET kept : s # {} => h[s] = Fractions[Some(s)] + h[s \ {Some(s)}]
    BY <2>1 DEF Sums
  <2>4. /\ k[{}] = 0 /\ Total(weights, kept) = k[kept]
        /\ \A s \in SUBSET kept : s # {} => k[s] = weights[Some(s)] + k[s \ {Some(s)}]
    BY <2>2 DEF Sums
  <2> HIDE DEF total, weights
  <2> DEFINE ch == [s \in SUBSET kept |-> Some(s)]
  <2> DEFINE A == {s \in SUBSET kept : h[s] = k[s]}
  <2>5. \A s \in SUBSET kept : s # {} => ch[s] \in s /\ ch[s] = Some(s)
    BY DEF Some
  <2> HIDE DEF ch
  <2>6. {} \in A
    BY <2>3, <2>4
  <2>7. ASSUME NEW s \in SUBSET kept, s # {}, s \ {ch[s]} \in A PROVE s \in A
    <3>1. ch[s] \in kept /\ h[s] = Fractions[ch[s]] + h[s \ {ch[s]}] /\ k[s] = weights[ch[s]] + k[s \ {ch[s]}]
      BY <2>3, <2>4, <2>5, <2>7
    <3> QED BY <1>5, <2>7, <3>1
  <2> HIDE DEF A
  <2>8. SUBSET kept \subseteq A
    <3>1. GrowsBy(kept, A, ch)
      BY <2>5, <2>6, <2>7 DEF GrowsBy
    <3>2. IsFiniteSet(kept)
      BY <1>1
    <3> QED BY Zenon, <3>1, <3>2, SubsetInduction
  <2> QED BY <2>3, <2>4, <2>8 DEF A
<1> HIDE DEF total, weights
<1>7. \A c \in kept : /\ budget * Fractions[c] \in Nat
                      /\ (budget * Fractions[c]) \div n \in Nat
                      /\ n * ((budget * Fractions[c]) \div n) <= budget * Fractions[c]
  <2> TAKE c \in kept
  <2>1. budget * Fractions[c] \in Nat
    <3>1. Fractions[c] \in Nat
      BY <1>1
    <3> QED BY <3>1
  <2> DEFINE m == budget * Fractions[c]
  <2>2. m \in Nat
    BY <2>1
  <2> HIDE DEF m, n
  <2>3. m \div n \in Nat /\ n * (m \div n) <= m
    BY <1>4, <2>2, Share
  <2> QED BY <2>2, <2>3 DEF m
<1> HIDE DEF n
<1>8. alloc \in [kept -> Nat]
  BY <1>7
<1>9. \A c \in kept : Within(n, alloc[c], budget, weights[c])
  <2> TAKE c \in kept
  <2>1. alloc[c] = (budget * Fractions[c]) \div n /\ weights[c] = Fractions[c]
    BY <1>5
  <2>2. n * ((budget * Fractions[c]) \div n) <= budget * Fractions[c]
    BY <1>7
  <2> QED BY Zenon, <2>1, <2>2 DEF Within
<1> HIDE DEF alloc
<1>10. Within(n, Total(alloc, kept), budget, total)
  <2>1. Within(n, Total(alloc, kept), budget, Total(weights, kept))
    BY <1>1, <1>4, <1>5, <1>8, <1>9, TotalShares
  <2> QED BY <1>6, <2>1
<1>11. Total(alloc, kept) \in Nat
  BY <1>1, <1>8, TotalNat
<1>12. Total(alloc, kept) <= budget
  <2>1. n * Total(alloc, kept) <= budget * total
    BY <1>10 DEF Within
  <2>2. CASE total = 0
    <3>1. n = 1
      BY <2>2 DEF n
    <3> QED BY <1>11, <2>1, <2>2, <3>1
  <2>3. CASE total # 0
    <3>1. n = total
      BY <2>3 DEF n
    <3>2. ASSUME NEW x \in Nat, NEW y \in Nat, NEW t \in Nat \ {0}, t * x <= y * t PROVE x <= y
      BY <3>2
    <3> QED BY <1>3, <1>11, <2>1, <2>3, <3>1, <3>2
  <2> QED BY <2>2, <2>3
<1> QED BY <1>2, <1>8, <1>12 DEF kept

------------------------------------------------------------------------------
(* The books of a package, through the two passes of assemble.             *)

Outs(out) == {out[i].obs : i \in DOMAIN out}
Settled(out, dropped) == Outs(out) \cup dropped

(* The books of a package under way.                                       *)
Booked(out, used, dropped) ==
  /\ out \in Seq(Items) /\ used = Costs(out) /\ used \in Nat
  /\ \A i \in DOMAIN out : out[i].cost \in Range(Ladder[out[i].obs])
  /\ \A i, j \in DOMAIN out : out[i].obs = out[j].obs => i = j
  /\ Outs(out) \cap dropped = {}

(* The books of an empty package.                                          *)
LEMMA BookedNothing == Booked(<<>>, 0, {}) /\ Settled(<<>>, {}) = {}
<1>1. <<>> \in Seq(Items) /\ DOMAIN <<>> = {}
  OBVIOUS
<1>2. Costs(<<>>) = 0
  BY CostsAppend
<1>3. Outs(<<>>) = {}
  BY <1>1 DEF Outs
<1> QED BY <1>1, <1>2, <1>3 DEF Booked, Settled

(* A new entry, at the cost of one of its rungs, keeps the books.          *)
LEMMA Buying ==
  ASSUME NEW out, NEW used, NEW dropped, Booked(out, used, dropped),
         NEW o \in Obs, o \notin Settled(out, dropped),
         NEW cost \in Nat, cost \in Range(Ladder[o])
  PROVE  /\ Booked(Append(out, Entry(o, cost)), used + cost, dropped)
         /\ Settled(Append(out, Entry(o, cost)), dropped) = Settled(out, dropped) \cup {o}
<1> DEFINE e == Entry(o, cost)
<1> DEFINE long == Append(out, e)
<1> DEFINE n == Len(out)
<1>1. e \in Items /\ e.obs = o /\ e.cost = cost
  BY DEF Entry, Items
<1>2. /\ out \in Seq(Items) /\ used = Costs(out) /\ used \in Nat
      /\ \A i \in DOMAIN out : out[i].cost \in Range(Ladder[out[i].obs])
      /\ \A i, j \in DOMAIN out : out[i].obs = out[j].obs => i = j
      /\ Outs(out) \cap dropped = {}
  BY DEF Booked
<1> HIDE DEF e
<1>3. /\ n \in Nat /\ long \in Seq(Items) /\ DOMAIN out = 1 .. n /\ DOMAIN long = 1 .. (n + 1)
      /\ long[n + 1] = e /\ \A i \in 1 .. n : long[i] = out[i]
  BY <1>1, <1>2
<1>4. Costs(long) = used + cost
  BY <1>1, <1>2, CostsAppend
<1> HIDE DEF long, n
<1>5. \A i \in DOMAIN long : i \in 1 .. n \/ i = n + 1
  BY <1>3
<1>6. Outs(long) = Outs(out) \cup {o}
  <2>1. ASSUME NEW x \in Outs(long) PROVE x \in Outs(out) \cup {o}
    <3>1. PICK i \in DOMAIN long : x = long[i].obs
      BY <2>1 DEF Outs
    <3>2. CASE i \in 1 .. n
      BY <1>3, <3>1, <3>2 DEF Outs
    <3>3. CASE i = n + 1
      BY <1>1, <1>3, <3>1, <3>3
    <3> QED BY <1>5, <3>2, <3>3
  <2>2. ASSUME NEW x \in Outs(out) PROVE x \in Outs(long)
    <3>1. PICK i \in DOMAIN out : x = out[i].obs
      BY <2>2 DEF Outs
    <3>2. i \in DOMAIN long /\ long[i] = out[i]
      BY <1>3
    <3> QED BY <3>1, <3>2 DEF Outs
  <2>3. o \in Outs(long)
    <3>1. n + 1 \in DOMAIN long /\ long[n + 1].obs = o
      BY <1>1, <1>3
    <3> QED BY <3>1 DEF Outs
  <2> QED BY <2>1, <2>2, <2>3
<1>7. o \notin Outs(out) /\ o \notin dropped
  BY DEF Settled
<1>8. \A i \in DOMAIN long : long[i].cost \in Range(Ladder[long[i].obs])
  <2> TAKE i \in DOMAIN long
  <2>1. CASE i \in 1 .. n
    BY <1>2, <1>3, <2>1
  <2>2. CASE i = n + 1
    BY <1>1, <1>3, <2>2
  <2> QED BY <1>5, <2>1, <2>2
<1>9. \A i, j \in DOMAIN long : long[i].obs = long[j].obs => i = j
  <2>1. \A i \in 1 .. n : long[i].obs # o
    BY <1>3, <1>7 DEF Outs
  <2>2. long[n + 1].obs = o
    BY <1>1, <1>3
  <2>3. \A i, j \in 1 .. n : long[i].obs = long[j].obs => i = j
    BY <1>2, <1>3
  <2> QED BY <1>5, <2>1, <2>2, <2>3
<1>10. used + cost \in Nat
  BY <1>2
<1>11. Booked(long, used + cost, dropped)
  BY <1>2, <1>3, <1>4, <1>6, <1>7, <1>8, <1>9, <1>10 DEF Booked
<1>12. Settled(long, dropped) = Settled(out, dropped) \cup {o}
  BY <1>6 DEF Settled
<1> QED BY <1>11, <1>12 DEF long, e

(* What is dropped by name keeps the books.                                *)
LEMMA Dropping ==
  ASSUME NEW out, NEW used, NEW dropped, Booked(out, used, dropped),
         NEW o \in Obs, o \notin Settled(out, dropped)
  PROVE  /\ Booked(out, used, dropped \cup {o})
         /\ Settled(out, dropped \cup {o}) = Settled(out, dropped) \cup {o}
<1>1. o \notin Outs(out)
  BY DEF Settled
<1>2. Outs(out) \cap (dropped \cup {o}) = {}
  BY <1>1 DEF Booked
<1>3. Booked(out, used, dropped \cup {o})
  BY <1>2 DEF Booked
<1> QED BY <1>3 DEF Settled

(* g over the first k of n elements is the k-th state of a fold from left. *)
Climbs(g, n, T, base, step) ==
  /\ g[1 .. 0] = base
  /\ \A k \in 0 .. n : g[1 .. k] \in T
  /\ \A k \in 1 .. n : g[1 .. k] = step[<<g[1 .. (k - 1)], k>>]

(* A fold that takes the largest position first goes through its prefixes. *)
LEMMA Climbing ==
  ASSUME NEW n \in Nat, NEW T, NEW base \in T, NEW step, NEW g,
         \A a \in T, k \in 1 .. n : step[<<a, k>>] \in T,
         g[{}] = base,
         \A s \in SUBSET (1 .. n) :
           s # {} /\ g[s \ {Max(s)}] \in T => g[s] = step[<<g[s \ {Max(s)}], Max(s)>>]
  PROVE  Climbs(g, n, T, base, step)
<1>1. 1 .. 0 = {}
  OBVIOUS
<1> DEFINE A == {k \in 0 .. n : g[1 .. k] \in T}
<1>2. 0 \in A
  BY <1>1
<1>3. ASSUME NEW k \in 1 .. n, g[1 .. (k - 1)] \in T
      PROVE  g[1 .. k] = step[<<g[1 .. (k - 1)], k>>] /\ g[1 .. k] \in T
  <2>1. /\ 1 .. k \in SUBSET (1 .. n) /\ 1 .. k # {}
        /\ Max(1 .. k) = k /\ (1 .. k) \ {k} = 1 .. k - 1
    BY Largest
  <2>2. g[1 .. k] = step[<<g[(1 .. k) \ {Max(1 .. k)}], Max(1 .. k)>>]
    BY <1>3, <2>1
  <2> QED BY <1>3, <2>1, <2>2
<1>4. ASSUME NEW k \in 1 .. n, k - 1 \in A PROVE k \in A
  <2>1. g[1 .. (k - 1)] \in T /\ k \in 0 .. n
    BY <1>4
  <2>2. g[1 .. k] \in T
    BY <1>3, <2>1
  <2> QED BY <2>1, <2>2
<1> HIDE DEF A
<1>5. 0 .. n \subseteq A
  BY <1>2, <1>4, Counting
<1>6. \A k \in 0 .. n : g[1 .. k] \in T
  BY <1>5 DEF A
<1>7. \A k \in 1 .. n : k - 1 \in 0 .. n
  OBVIOUS
<1>8. \A k \in 1 .. n : g[1 .. k] = step[<<g[1 .. (k - 1)], k>>]
  BY <1>3, <1>6, <1>7
<1> QED BY <1>1, <1>6, <1>8 DEF Climbs

Once(s) == \A i, j \in DOMAIN s : s[i] = s[j] => i = j

(* A new element at the end of a sequence without repetitions.             *)
LEMMA RangeAppend ==
  ASSUME NEW s \in Seq(Obs), NEW o \in Obs, o \notin Range(s), Once(s)
  PROVE  Append(s, o) \in Seq(Obs) /\ Range(Append(s, o)) = Range(s) \cup {o} /\ Once(Append(s, o))
<1> DEFINE n == Len(s)
<1> DEFINE long == Append(s, o)
<1>1. /\ n \in Nat /\ long \in Seq(Obs) /\ DOMAIN s = 1 .. n /\ DOMAIN long = 1 .. (n + 1)
      /\ long[n + 1] = o /\ \A i \in 1 .. n : long[i] = s[i]
  OBVIOUS
<1> HIDE DEF n, long
<1>2. \A i \in DOMAIN long : i \in 1 .. n \/ i = n + 1
  BY <1>1
<1>3. Range(long) = Range(s) \cup {o}
  <2>1. ASSUME NEW x \in Range(long) PROVE x \in Range(s) \cup {o}
    <3>1. PICK i \in DOMAIN long : x = long[i]
      BY <2>1 DEF Range
    <3>2. CASE i \in 1 .. n
      BY <1>1, <3>1, <3>2 DEF Range
    <3> QED BY <1>1, <1>2, <3>1, <3>2
  <2>2. ASSUME NEW x \in Range(s) PROVE x \in Range(long)
    <3>1. PICK i \in DOMAIN s : x = s[i]
      BY <2>2 DEF Range
    <3>2. i \in DOMAIN long /\ long[i] = x
      BY <1>1, <3>1
    <3> QED BY <3>2 DEF Range
  <2>3. o \in Range(long)
    <3>1. n + 1 \in DOMAIN long
      BY <1>1
    <3> QED BY <1>1, <3>1 DEF Range
  <2> QED BY <2>1, <2>2, <2>3
<1>4. Once(long)
  <2>1. \A i \in 1 .. n : long[i] # o
    BY <1>1 DEF Range
  <2>2. \A i, j \in 1 .. n : long[i] = long[j] => i = j
    BY <1>1 DEF Once
  <2>3. \A i, j \in DOMAIN long : long[i] = long[j] => i = j
    BY <1>1, <1>2, <2>1, <2>2
  <2> QED BY <2>3 DEF Once
<1> QED BY <1>1, <1>3, <1>4 DEF long

QuotaState(kept) ==
  [spent : [kept -> Nat], used : Nat, out : Seq(Items), dropped : SUBSET Obs, deferred : Seq(Obs)]

(* One entry through pass 1: dropped with its category, deferred, or paid. *)
QuotaMove(acc, o, alloc, kept, next) ==
  /\ next \in QuotaState(kept)
  /\ \/ /\ next.spent = acc.spent /\ next.used = acc.used /\ next.out = acc.out
        /\ next.dropped = acc.dropped \cup {o} /\ next.deferred = acc.deferred
     \/ /\ next.spent = acc.spent /\ next.used = acc.used /\ next.out = acc.out
        /\ next.dropped = acc.dropped /\ next.deferred = Append(acc.deferred, o)
     \/ \E cost \in Nat :
          /\ Cat[o] \in kept /\ cost \in Range(Ladder[o])
          /\ acc.spent[Cat[o]] + cost <= alloc[Cat[o]]
          /\ next.spent = [acc.spent EXCEPT ![Cat[o]] = @ + cost]
          /\ next.used = acc.used + cost /\ next.out = Append(acc.out, Entry(o, cost))
          /\ next.dropped = acc.dropped /\ next.deferred = acc.deferred

(* Pass 1 treats every entry in one of these three ways.                   *)
LEMMA QuotaMoves ==
  ASSUME NEW kept \in SUBSET Category, NEW alloc \in [kept -> Nat],
         NEW acc \in QuotaState(kept), NEW o \in Obs
  PROVE  QuotaMove(acc, o, alloc, kept, QuotaStep(acc, o, alloc))
<1> DEFINE room == alloc[Cat[o]] - acc.spent[Cat[o]]
<1> DEFINE cost == Fit(o, room)
<1> DEFINE next == QuotaStep(acc, o, alloc)
<1>1. DOMAIN alloc = kept
  OBVIOUS
<1>2. /\ acc.spent \in [kept -> Nat] /\ acc.used \in Nat /\ acc.out \in Seq(Items)
      /\ acc.dropped \in SUBSET Obs /\ acc.deferred \in Seq(Obs)
      /\ acc = [spent |-> acc.spent, used |-> acc.used, out |-> acc.out, dropped |-> acc.dropped,
                deferred |-> acc.deferred]
  BY DEF QuotaState
<1>3. CASE Cat[o] \notin kept
  <2>1. next = [acc EXCEPT !.dropped = @ \cup {o}]
    BY <1>1, <1>3 DEF QuotaStep
  <2>2. next = [spent |-> acc.spent, used |-> acc.used, out |-> acc.out,
                dropped |-> acc.dropped \cup {o}, deferred |-> acc.deferred]
    BY <1>2, <2>1
  <2> HIDE DEF next
  <2>3. next \in QuotaState(kept)
    BY <1>2, <2>2 DEF QuotaState
  <2>4. QuotaMove(acc, o, alloc, kept, next)
    BY <2>2, <2>3 DEF QuotaMove
  <2> QED BY <2>4 DEF next
<1>4. CASE Cat[o] \in kept /\ (room < MinEntry \/ cost > room)
  <2>1. next = [acc EXCEPT !.deferred = Append(@, o)]
    BY <1>1, <1>4 DEF QuotaStep
  <2>2. next = [spent |-> acc.spent, used |-> acc.used, out |-> acc.out,
                dropped |-> acc.dropped, deferred |-> Append(acc.deferred, o)]
    BY <1>2, <2>1
  <2> HIDE DEF next
  <2>3. Append(acc.deferred, o) \in Seq(Obs)
    BY <1>2
  <2>4. next \in QuotaState(kept)
    BY <1>2, <2>2, <2>3 DEF QuotaState
  <2>5. QuotaMove(acc, o, alloc, kept, next)
    BY <2>2, <2>4 DEF QuotaMove
  <2> QED BY <2>5 DEF next
<1>5. CASE Cat[o] \in kept /\ ~(room < MinEntry \/ cost > room)
  <2> DEFINE spent == [acc.spent EXCEPT ![Cat[o]] = @ + cost]
  <2>1. next = [acc EXCEPT !.spent[Cat[o]] = @ + cost, !.used = @ + cost,
                           !.out = Append(@, Entry(o, cost))]
    BY <1>1, <1>5 DEF QuotaStep
  <2>2. room \in Int
    BY <1>2, <1>5
  <2>3. cost \in Nat /\ cost \in Range(Ladder[o])
    BY <2>2, FitRung
  <2>4. acc.spent[Cat[o]] + cost <= alloc[Cat[o]]
    <3>1. cost <= room /\ alloc[Cat[o]] \in Nat /\ acc.spent[Cat[o]] \in Nat
      BY <1>2, <1>5, <2>2, <2>3
    <3> QED BY <2>3, <3>1
  <2> HIDE DEF cost, room
  <2>5. spent \in [kept -> Nat]
    BY <1>2, <1>5, <2>3
  <2>6. next = [spent |-> spent, used |-> acc.used + cost, out |-> Append(acc.out, Entry(o, cost)),
                dropped |-> acc.dropped, deferred |-> acc.deferred]
    BY <1>2, <2>1
  <2> HIDE DEF next
  <2>7. Append(acc.out, Entry(o, cost)) \in Seq(Items) /\ acc.used + cost \in Nat
    <3>1. Entry(o, cost) \in Items
      BY <2>3 DEF Entry, Items
    <3> QED BY <1>2, <2>3, <3>1
  <2> HIDE DEF spent
  <2>8. next \in QuotaState(kept)
    BY <1>2, <2>5, <2>6, <2>7 DEF QuotaState
  <2>9. /\ next.spent = spent /\ next.used = acc.used + cost
        /\ next.out = Append(acc.out, Entry(o, cost))
        /\ next.dropped = acc.dropped /\ next.deferred = acc.deferred
    BY <2>6
  <2>10. next.spent = [acc.spent EXCEPT ![Cat[o]] = @ + cost]
    BY <2>9 DEF spent
  <2>11. QuotaMove(acc, o, alloc, kept, next)
    BY <1>5, <2>3, <2>4, <2>8, <2>9, <2>10 DEF QuotaMove
  <2> QED BY <2>11 DEF next
<1> QED BY <1>3, <1>4, <1>5

(* What pass 1 has done with the entries of done.                          *)
QuotaOK(acc, done, alloc, kept) ==
  /\ acc \in QuotaState(kept)
  /\ \A c \in kept : acc.spent[c] <= alloc[c]
  /\ acc.used = Total(acc.spent, kept)
  /\ Booked(acc.out, acc.used, acc.dropped)
  /\ Once(acc.deferred)
  /\ Settled(acc.out, acc.dropped) \cap Range(acc.deferred) = {}
  /\ Settled(acc.out, acc.dropped) \cup Range(acc.deferred) = done

(* Each of them keeps what pass 1 has done in order.                       *)
LEMMA QuotaKeeps ==
  ASSUME NEW kept \in SUBSET Category, NEW alloc \in [kept -> Nat], NEW acc, NEW done,
         QuotaOK(acc, done, alloc, kept), NEW o \in Obs, o \notin done,
         NEW next, QuotaMove(acc, o, alloc, kept, next)
  PROVE  QuotaOK(next, done \cup {o}, alloc, kept)
<1>1. /\ acc.spent \in [kept -> Nat] /\ acc.used \in Nat /\ acc.out \in Seq(Items)
      /\ acc.dropped \in SUBSET Obs /\ acc.deferred \in Seq(Obs)
  BY DEF QuotaOK, QuotaState
<1>2. /\ \A c \in kept : acc.spent[c] <= alloc[c]
      /\ acc.used = Total(acc.spent, kept) /\ Booked(acc.out, acc.used, acc.dropped)
      /\ Once(acc.deferred)
  BY DEF QuotaOK
<1>3. /\ Settled(acc.out, acc.dropped) \cap Range(acc.deferred) = {}
      /\ Settled(acc.out, acc.dropped) \cup Range(acc.deferred) = done
  BY DEF QuotaOK
<1>4. o \notin Settled(acc.out, acc.dropped) /\ o \notin Range(acc.deferred)
  BY <1>3
<1>5. next \in QuotaState(kept)
  BY DEF QuotaMove
<1>6. CASE /\ next.spent = acc.spent /\ next.used = acc.used /\ next.out = acc.out
           /\ next.dropped = acc.dropped \cup {o} /\ next.deferred = acc.deferred
  <2>1. /\ Booked(acc.out, acc.used, acc.dropped \cup {o})
        /\ Settled(acc.out, acc.dropped \cup {o}) = Settled(acc.out, acc.dropped) \cup {o}
    BY <1>2, <1>4, Dropping
  <2>2. /\ Booked(next.out, next.used, next.dropped)
        /\ Settled(next.out, next.dropped) = Settled(acc.out, acc.dropped) \cup {o}
    BY <1>6, <2>1
  <2>3. /\ Settled(next.out, next.dropped) \cap Range(next.deferred) = {}
        /\ Settled(next.out, next.dropped) \cup Range(next.deferred) = done \cup {o}
    BY <1>3, <1>4, <1>6, <2>2
  <2> QED BY <1>2, <1>5, <1>6, <2>2, <2>3 DEF QuotaOK
<1>7. CASE /\ next.spent = acc.spent /\ next.used = acc.used /\ next.out = acc.out
           /\ next.dropped = acc.dropped /\ next.deferred = Append(acc.deferred, o)
  <2>1. Range(next.deferred) = Range(acc.deferred) \cup {o} /\ Once(next.deferred)
    BY <1>1, <1>2, <1>4, <1>7, RangeAppend
  <2>2. /\ Booked(next.out, next.used, next.dropped)
        /\ Settled(next.out, next.dropped) = Settled(acc.out, acc.dropped)
    BY <1>2, <1>7
  <2>3. /\ Settled(next.out, next.dropped) \cap Range(next.deferred) = {}
        /\ Settled(next.out, next.dropped) \cup Range(next.deferred) = done \cup {o}
    BY <1>3, <1>4, <2>1, <2>2
  <2> QED BY <1>2, <1>5, <1>7, <2>1, <2>2, <2>3 DEF QuotaOK
<1>8. ASSUME NEW cost \in Nat,
             Cat[o] \in kept, cost \in Range(Ladder[o]),
             acc.spent[Cat[o]] + cost <= alloc[Cat[o]],
             next.spent = [acc.spent EXCEPT ![Cat[o]] = @ + cost],
             next.used = acc.used + cost, next.out = Append(acc.out, Entry(o, cost)),
             next.dropped = acc.dropped, next.deferred = acc.deferred
      PROVE  QuotaOK(next, done \cup {o}, alloc, kept)
  <2>1. /\ Booked(next.out, next.used, next.dropped)
        /\ Settled(next.out, next.dropped) = Settled(acc.out, acc.dropped) \cup {o}
    BY <1>2, <1>4, <1>8, Buying
  <2>2. IsFiniteSet(kept)
    BY Parameters, FS_Subset
  <2>3. next.used = Total(next.spent, kept)
    BY <1>1, <1>2, <1>8, <2>2, TotalGrows
  <2>4. \A c \in kept : next.spent[c] <= alloc[c]
    BY <1>1, <1>2, <1>8
  <2>5. /\ Settled(next.out, next.dropped) \cap Range(next.deferred) = {}
        /\ Settled(next.out, next.dropped) \cup Range(next.deferred) = done \cup {o}
    BY <1>3, <1>4, <1>8, <2>1
  <2>6. Once(next.deferred)
    BY <1>2, <1>8
  <2> QED BY <1>5, <2>1, <2>3, <2>4, <2>5, <2>6 DEF QuotaOK
<1> QED BY <1>6, <1>7, <1>8 DEF QuotaMove

QuotaBase(alloc) ==
  [spent |-> [c \in DOMAIN alloc |-> 0], used |-> 0, out |-> <<>>, dropped |-> {}, deferred |-> <<>>]

(* What pass 1 leaves behind: every entry settled or deferred, within quota.*)
LEMMA QuotaEnds ==
  ASSUME NEW kept \in SUBSET Category, NEW alloc \in [kept -> Nat],
         NEW items \in Seq(Obs), Once(items)
  PROVE  QuotaOK(Quota(items, alloc), Range(items), alloc, kept)
<1> DEFINE n == Len(items)
<1> DEFINE T == QuotaState(kept)
<1> DEFINE base == QuotaBase(alloc)
<1> DEFINE ch == [s \in SUBSET (1 .. n) |-> Max(s)]
<1> DEFINE step == [p \in T \X (1 .. n) |-> QuotaStep(p[1], items[p[2]], alloc)]
<1> DEFINE Eq(g) == g = [s \in SUBSET DOMAIN items |->
                           IF s = {} THEN base
                           ELSE QuotaStep(g[s \ {Max(s)}], items[Max(s)], alloc)]
<1>1. n \in Nat /\ DOMAIN items = 1 .. n /\ \A i \in 1 .. n : items[i] \in Obs
  OBVIOUS
<1>2. Quota(items, alloc) = (CHOOSE g : Eq(g))[DOMAIN items]
  BY DEF Quota, FoldLeft, MapThenFoldSet, QuotaBase
<1> HIDE DEF n
<1>3. IsFiniteSet(kept)
  BY Parameters, FS_Subset
<1>4. QuotaOK(base, {}, alloc, kept)
  <2> DEFINE zero == [c \in kept |-> 0]
  <2>1. base = [spent |-> zero, used |-> 0, out |-> <<>>, dropped |-> {}, deferred |-> <<>>]
    BY DEF QuotaBase
  <2>2. zero \in [kept -> Nat] /\ (\A c \in kept : zero[c] = 0) /\ \A c \in kept : alloc[c] \in Nat
    OBVIOUS
  <2> HIDE DEF zero
  <2>3. Total(zero, kept) = 0
    BY <1>3, <2>2, TotalZero
  <2>4. <<>> \in Seq(Items) /\ <<>> \in Seq(Obs) /\ {} \in SUBSET Obs /\ 0 \in Nat
    OBVIOUS
  <2>5. base \in T
    BY <2>1, <2>2, <2>4 DEF QuotaState
  <2>6. Once(<<>>) /\ Range(<<>>) = {}
    BY DEF Once, Range
  <2>7. /\ base.spent = zero /\ base.used = 0 /\ base.out = <<>> /\ base.dropped = {}
        /\ base.deferred = <<>>
    BY <2>1
  <2> HIDE DEF base, T
  <2>8. \A c \in kept : base.spent[c] <= alloc[c]
    BY <2>2, <2>7
  <2>9. Booked(base.out, base.used, base.dropped) /\ Settled(base.out, base.dropped) = {}
    BY <2>7, BookedNothing
  <2> QED BY <2>3, <2>5, <2>6, <2>7, <2>8, <2>9 DEF QuotaOK, T
<1>5. base \in T
  BY <1>4 DEF QuotaOK
<1> HIDE DEF base
<1>6. \A a \in T, k \in 1 .. n :
        /\ step[<<a, k>>] = QuotaStep(a, items[k], alloc) /\ step[<<a, k>>] \in T
        /\ QuotaMove(a, items[k], alloc, kept, step[<<a, k>>])
  <2> TAKE a \in T, k \in 1 .. n
  <2>1. <<a, k>> \in T \X (1 .. n)
    OBVIOUS
  <2>2. step[<<a, k>>] = QuotaStep(a, items[k], alloc)
    BY <2>1
  <2>3. QuotaMove(a, items[k], alloc, kept, QuotaStep(a, items[k], alloc))
    BY <1>1, QuotaMoves
  <2>4. QuotaStep(a, items[k], alloc) \in T
    BY <2>3 DEF QuotaMove
  <2> HIDE DEF step
  <2> QED BY <2>2, <2>3, <2>4
<1> HIDE DEF step
<1>7. \A s \in SUBSET (1 .. n) : s # {} => ch[s] = Max(s) /\ ch[s] \in s
  BY <1>1, Largest
<1> HIDE DEF ch, T
<1>8. \E g : Eq(g)
  <2>1. IsFiniteSet(1 .. n)
    BY <1>1, FS_Interval
  <2>2. PICK h : FoldsBy(h, 1 .. n, T, base, ch, step)
    BY <1>5, <1>6, <1>7, <2>1, Folding
  <2>3. h \in [SUBSET (1 .. n) -> T] /\ h[{}] = base
    BY <2>2 DEF FoldsBy
  <2>4. ASSUME NEW s \in SUBSET (1 .. n), s # {}
        PROVE  h[s] = QuotaStep(h[s \ {Max(s)}], items[Max(s)], alloc)
    <3>1. h[s] = step[<<h[s \ {ch[s]}], ch[s]>>]
      BY <2>2, <2>4 DEF FoldsBy
    <3>2. ch[s] = Max(s) /\ ch[s] \in 1 .. n /\ h[s \ {ch[s]}] \in T
      BY <1>7, <2>3, <2>4
    <3> QED BY <1>6, <3>1, <3>2
  <2>5. h = [s \in SUBSET (1 .. n) |->
               IF s = {} THEN base ELSE QuotaStep(h[s \ {Max(s)}], items[Max(s)], alloc)]
    BY <2>3, <2>4
  <2>6. Eq(h)
    BY <1>1, <2>5
  <2> QED BY <2>6
<1> DEFINE g == CHOOSE g : Eq(g)
<1>9. Eq(g)
  <2> HIDE DEF Eq
  <2> QED BY <1>8
<1> HIDE DEF g
<1>10. g[{}] = base
  BY <1>1, <1>9
<1>11. \A s \in SUBSET (1 .. n) :
         s # {} /\ g[s \ {Max(s)}] \in T => g[s] = step[<<g[s \ {Max(s)}], Max(s)>>]
  <2> SUFFICES ASSUME NEW s \in SUBSET (1 .. n), s # {}, g[s \ {Max(s)}] \in T
               PROVE  g[s] = step[<<g[s \ {Max(s)}], Max(s)>>]
    OBVIOUS
  <2>1. g[s] = QuotaStep(g[s \ {Max(s)}], items[Max(s)], alloc)
    BY <1>1, <1>9
  <2>2. Max(s) \in 1 .. n
    BY <1>7
  <2> QED BY <1>6, <2>1, <2>2
<1> HIDE DEF Eq
<1>12. Climbs(g, n, T, base, step)
  BY <1>1, <1>5, <1>6, <1>10, <1>11, Climbing
<1> DEFINE Past(k) == {items[i] : i \in 1 .. k}
<1> DEFINE A == {k \in 0 .. n : QuotaOK(g[1 .. k], Past(k), alloc, kept)}
<1>13. 0 \in A
  <2>1. Past(0) = {} /\ g[1 .. 0] = base
    BY <1>12 DEF Climbs
  <2> HIDE DEF Past
  <2>2. QuotaOK(g[1 .. 0], Past(0), alloc, kept)
    BY Zenon, <1>4, <2>1
  <2>3. 0 \in 0 .. n
    BY <1>1
  <2> QED BY Zenon, <2>2, <2>3
<1>14. ASSUME NEW k \in 1 .. n, k - 1 \in A PROVE k \in A
  <2>1. /\ g[1 .. k] = step[<<g[1 .. (k - 1)], k>>] /\ g[1 .. (k - 1)] \in T
    <3>1. k - 1 \in 0 .. n
      BY <1>1
    <3> QED BY <1>12, <3>1 DEF Climbs
  <2>2. Past(k) = Past(k - 1) \cup {items[k]} /\ items[k] \notin Past(k - 1)
    <3>1. 1 .. k = (1 .. (k - 1)) \cup {k}
      OBVIOUS
    <3>2. \A i \in 1 .. (k - 1) : items[i] # items[k]
      <4> TAKE i \in 1 .. (k - 1)
      <4>1. i \in DOMAIN items /\ k \in DOMAIN items /\ i # k
        BY <1>1
      <4> QED BY <4>1 DEF Once
    <3> QED BY <3>1, <3>2
  <2>3. QuotaOK(g[1 .. (k - 1)], Past(k - 1), alloc, kept)
    BY <1>14
  <2> HIDE DEF Past
  <2>4. QuotaMove(g[1 .. (k - 1)], items[k], alloc, kept, g[1 .. k])
    BY <1>6, <2>1
  <2>5. QuotaOK(g[1 .. k], Past(k - 1) \cup {items[k]}, alloc, kept)
    BY <1>1, <2>2, <2>3, <2>4, QuotaKeeps
  <2>6. k \in 0 .. n
    BY <1>1
  <2> QED BY <2>2, <2>5, <2>6
<1> HIDE DEF A
<1>15. 0 .. n \subseteq A
  BY <1>1, <1>13, <1>14, Counting
<1>16. QuotaOK(g[1 .. n], Past(n), alloc, kept)
  <2>1. n \in A
    BY <1>1, <1>15
  <2> QED BY <2>1 DEF A
<1>17. Past(n) = Range(items)
  BY <1>1 DEF Range
<1> HIDE DEF Past
<1> QED BY <1>1, <1>2, <1>16, <1>17 DEF g

(* One deferred entry through pass 2: dropped by name, or paid.            *)
LeftoverMove(acc, o, budget, kept, next) ==
  /\ next \in QuotaState(kept)
  /\ \/ next.used = acc.used /\ next.out = acc.out /\ next.dropped = acc.dropped \cup {o}
     \/ \E cost \in Nat :
          /\ cost \in Range(Ladder[o]) /\ acc.used + cost <= budget
          /\ next.used = acc.used + cost /\ next.out = Append(acc.out, Entry(o, cost))
          /\ next.dropped = acc.dropped

(* Pass 2 treats every deferred entry in one of these two ways.            *)
LEMMA LeftoverMoves ==
  ASSUME NEW kept \in SUBSET Category, NEW budget \in Nat,
         NEW acc \in QuotaState(kept), NEW o \in Obs
  PROVE  LeftoverMove(acc, o, budget, kept, LeftoverStep(acc, o, budget))
<1> DEFINE room == budget - acc.used
<1> DEFINE cost == Fit(o, room)
<1> DEFINE next == LeftoverStep(acc, o, budget)
<1>1. /\ acc.spent \in [kept -> Nat] /\ acc.used \in Nat /\ acc.out \in Seq(Items)
      /\ acc.dropped \in SUBSET Obs /\ acc.deferred \in Seq(Obs)
      /\ acc = [spent |-> acc.spent, used |-> acc.used, out |-> acc.out, dropped |-> acc.dropped,
                deferred |-> acc.deferred]
  BY DEF QuotaState
<1>2. CASE room < MinEntry \/ cost > room
  <2>1. next = [acc EXCEPT !.dropped = @ \cup {o}]
    BY <1>2 DEF LeftoverStep
  <2>2. next = [spent |-> acc.spent, used |-> acc.used, out |-> acc.out,
                dropped |-> acc.dropped \cup {o}, deferred |-> acc.deferred]
    BY <1>1, <2>1
  <2> HIDE DEF next
  <2>3. next \in QuotaState(kept)
    BY <1>1, <2>2 DEF QuotaState
  <2>4. LeftoverMove(acc, o, budget, kept, next)
    BY <2>2, <2>3 DEF LeftoverMove
  <2> QED BY <2>4 DEF next
<1>3. CASE ~(room < MinEntry \/ cost > room)
  <2>1. next = [acc EXCEPT !.used = @ + cost, !.out = Append(@, Entry(o, cost))]
    BY <1>3 DEF LeftoverStep
  <2>2. room \in Int
    BY <1>1
  <2>3. cost \in Nat /\ cost \in Range(Ladder[o])
    BY <2>2, FitRung
  <2>4. acc.used + cost <= budget
    <3>1. cost <= room
      BY <1>3, <2>2, <2>3
    <3> QED BY <1>1, <2>3, <3>1
  <2> HIDE DEF cost, room
  <2>5. next = [spent |-> acc.spent, used |-> acc.used + cost,
                out |-> Append(acc.out, Entry(o, cost)),
                dropped |-> acc.dropped, deferred |-> acc.deferred]
    BY <1>1, <2>1
  <2> HIDE DEF next
  <2>6. Append(acc.out, Entry(o, cost)) \in Seq(Items) /\ acc.used + cost \in Nat
    <3>1. Entry(o, cost) \in Items
      BY <2>3 DEF Entry, Items
    <3> QED BY <1>1, <2>3, <3>1
  <2>7. next \in QuotaState(kept)
    BY <1>1, <2>5, <2>6 DEF QuotaState
  <2>8. /\ next.used = acc.used + cost /\ next.out = Append(acc.out, Entry(o, cost))
        /\ next.dropped = acc.dropped
    BY <2>5
  <2>9. LeftoverMove(acc, o, budget, kept, next)
    BY <2>3, <2>4, <2>7, <2>8 DEF LeftoverMove
  <2> QED BY <2>9 DEF next
<1> QED BY <1>2, <1>3

(* What pass 2 has settled.                                                *)
LeftoverOK(acc, done, budget, kept) ==
  /\ acc \in QuotaState(kept) /\ acc.used <= budget
  /\ Booked(acc.out, acc.used, acc.dropped)
  /\ Settled(acc.out, acc.dropped) = done

(* Each of them keeps what pass 2 has settled in order.                    *)
LEMMA LeftoverKeeps ==
  ASSUME NEW kept \in SUBSET Category, NEW budget \in Nat, NEW acc, NEW done,
         LeftoverOK(acc, done, budget, kept), NEW o \in Obs, o \notin done,
         NEW next, LeftoverMove(acc, o, budget, kept, next)
  PROVE  LeftoverOK(next, done \cup {o}, budget, kept)
<1>1. /\ acc.used <= budget /\ Booked(acc.out, acc.used, acc.dropped)
      /\ Settled(acc.out, acc.dropped) = done
  BY DEF LeftoverOK
<1>2. next \in QuotaState(kept)
  BY DEF LeftoverMove
<1>3. CASE next.used = acc.used /\ next.out = acc.out /\ next.dropped = acc.dropped \cup {o}
  <2>1. /\ Booked(acc.out, acc.used, acc.dropped \cup {o})
        /\ Settled(acc.out, acc.dropped \cup {o}) = Settled(acc.out, acc.dropped) \cup {o}
    BY <1>1, Dropping
  <2> QED BY <1>1, <1>2, <1>3, <2>1 DEF LeftoverOK
<1>4. ASSUME NEW cost \in Nat, cost \in Range(Ladder[o]), acc.used + cost <= budget,
             next.used = acc.used + cost, next.out = Append(acc.out, Entry(o, cost)),
             next.dropped = acc.dropped
      PROVE  LeftoverOK(next, done \cup {o}, budget, kept)
  <2>1. /\ Booked(next.out, next.used, next.dropped)
        /\ Settled(next.out, next.dropped) = Settled(acc.out, acc.dropped) \cup {o}
    BY <1>1, <1>4, Buying
  <2> QED BY <1>1, <1>2, <1>4, <2>1 DEF LeftoverOK
<1> QED BY <1>3, <1>4 DEF LeftoverMove

(* What pass 2 leaves behind: every deferred entry settled as well.        *)
LEMMA LeftoverEnds ==
  ASSUME NEW kept \in SUBSET Category, NEW budget \in Nat, NEW start, NEW done,
         LeftoverOK(start, done, budget, kept),
         Once(start.deferred), done \cap Range(start.deferred) = {}
  PROVE  LeftoverOK(Leftover(start, budget), done \cup Range(start.deferred), budget, kept)
<1> DEFINE items == start.deferred
<1> DEFINE n == Len(items)
<1> DEFINE T == QuotaState(kept)
<1> DEFINE ch == [s \in SUBSET (1 .. n) |-> Max(s)]
<1> DEFINE step == [p \in T \X (1 .. n) |-> LeftoverStep(p[1], items[p[2]], budget)]
<1> DEFINE Eq(g) == g = [s \in SUBSET DOMAIN items |->
                           IF s = {} THEN start
                           ELSE LeftoverStep(g[s \ {Max(s)}], items[Max(s)], budget)]
<1>1. n \in Nat /\ DOMAIN items = 1 .. n /\ \A i \in 1 .. n : items[i] \in Obs
  <2>1. items \in Seq(Obs)
    BY DEF LeftoverOK, QuotaState
  <2> QED BY <2>1
<1>2. Leftover(start, budget) = (CHOOSE g : Eq(g))[DOMAIN items]
  BY DEF Leftover, FoldLeft, MapThenFoldSet
<1>3. Once(items) /\ done \cap Range(items) = {}
  OBVIOUS
<1> HIDE DEF n, items
<1>5. start \in T
  BY DEF LeftoverOK
<1>6. \A a \in T, k \in 1 .. n :
        /\ step[<<a, k>>] = LeftoverStep(a, items[k], budget) /\ step[<<a, k>>] \in T
        /\ LeftoverMove(a, items[k], budget, kept, step[<<a, k>>])
  <2> TAKE a \in T, k \in 1 .. n
  <2>1. <<a, k>> \in T \X (1 .. n)
    OBVIOUS
  <2>2. step[<<a, k>>] = LeftoverStep(a, items[k], budget)
    BY <2>1
  <2>3. LeftoverMove(a, items[k], budget, kept, LeftoverStep(a, items[k], budget))
    BY <1>1, LeftoverMoves
  <2>4. LeftoverStep(a, items[k], budget) \in T
    BY <2>3 DEF LeftoverMove
  <2> HIDE DEF step
  <2> QED BY <2>2, <2>3, <2>4
<1> HIDE DEF step
<1>7. \A s \in SUBSET (1 .. n) : s # {} => ch[s] = Max(s) /\ ch[s] \in s
  BY <1>1, Largest
<1> HIDE DEF ch, T
<1>8. \E g : Eq(g)
  <2>1. IsFiniteSet(1 .. n)
    BY <1>1, FS_Interval
  <2>2. PICK h : FoldsBy(h, 1 .. n, T, start, ch, step)
    BY <1>5, <1>6, <1>7, <2>1, Folding
  <2>3. h \in [SUBSET (1 .. n) -> T] /\ h[{}] = start
    BY <2>2 DEF FoldsBy
  <2>4. ASSUME NEW s \in SUBSET (1 .. n), s # {}
        PROVE  h[s] = LeftoverStep(h[s \ {Max(s)}], items[Max(s)], budget)
    <3>1. h[s] = step[<<h[s \ {ch[s]}], ch[s]>>]
      BY <2>2, <2>4 DEF FoldsBy
    <3>2. ch[s] = Max(s) /\ ch[s] \in 1 .. n /\ h[s \ {ch[s]}] \in T
      BY <1>7, <2>3, <2>4
    <3> QED BY <1>6, <3>1, <3>2
  <2>5. h = [s \in SUBSET (1 .. n) |->
               IF s = {} THEN start ELSE LeftoverStep(h[s \ {Max(s)}], items[Max(s)], budget)]
    BY <2>3, <2>4
  <2>6. Eq(h)
    BY <1>1, <2>5
  <2> QED BY <2>6
<1> DEFINE g == CHOOSE g : Eq(g)
<1>9. Eq(g)
  <2> HIDE DEF Eq
  <2> QED BY <1>8
<1> HIDE DEF g
<1>10. g[{}] = start
  BY <1>1, <1>9
<1>11. \A s \in SUBSET (1 .. n) :
         s # {} /\ g[s \ {Max(s)}] \in T => g[s] = step[<<g[s \ {Max(s)}], Max(s)>>]
  <2> SUFFICES ASSUME NEW s \in SUBSET (1 .. n), s # {}, g[s \ {Max(s)}] \in T
               PROVE  g[s] = step[<<g[s \ {Max(s)}], Max(s)>>]
    OBVIOUS
  <2>1. g[s] = LeftoverStep(g[s \ {Max(s)}], items[Max(s)], budget)
    BY <1>1, <1>9
  <2>2. Max(s) \in 1 .. n
    BY <1>7
  <2> QED BY <1>6, <2>1, <2>2
<1> HIDE DEF Eq
<1>12. Climbs(g, n, T, start, step)
  BY <1>1, <1>5, <1>6, <1>10, <1>11, Climbing
<1> DEFINE Past(k) == done \cup {items[i] : i \in 1 .. k}
<1> DEFINE A == {k \in 0 .. n : LeftoverOK(g[1 .. k], Past(k), budget, kept)}
<1>13. 0 \in A
  <2>1. Past(0) = done /\ g[1 .. 0] = start
    BY <1>12 DEF Climbs
  <2> HIDE DEF Past
  <2>2. LeftoverOK(g[1 .. 0], Past(0), budget, kept)
    BY Zenon, <2>1
  <2>3. 0 \in 0 .. n
    BY <1>1
  <2> QED BY Zenon, <2>2, <2>3
<1>14. ASSUME NEW k \in 1 .. n, k - 1 \in A PROVE k \in A
  <2>1. /\ g[1 .. k] = step[<<g[1 .. (k - 1)], k>>] /\ g[1 .. (k - 1)] \in T
    <3>1. k - 1 \in 0 .. n
      BY <1>1
    <3> QED BY <1>12, <3>1 DEF Climbs
  <2>2. Past(k) = Past(k - 1) \cup {items[k]} /\ items[k] \notin Past(k - 1)
    <3>1. 1 .. k = (1 .. (k - 1)) \cup {k}
      OBVIOUS
    <3>2. \A i \in 1 .. (k - 1) : items[i] # items[k]
      <4> TAKE i \in 1 .. (k - 1)
      <4>1. i \in DOMAIN items /\ k \in DOMAIN items /\ i # k
        BY <1>1
      <4> QED BY <1>3, <4>1 DEF Once
    <3>3. items[k] \notin done
      <4>1. items[k] \in Range(items)
        BY <1>1 DEF Range
      <4> QED BY <1>3, <4>1
    <3> QED BY <3>1, <3>2, <3>3
  <2>3. LeftoverOK(g[1 .. (k - 1)], Past(k - 1), budget, kept)
    BY <1>14
  <2> HIDE DEF Past
  <2>4. LeftoverMove(g[1 .. (k - 1)], items[k], budget, kept, g[1 .. k])
    BY <1>6, <2>1
  <2>5. LeftoverOK(g[1 .. k], Past(k - 1) \cup {items[k]}, budget, kept)
    BY <1>1, <2>2, <2>3, <2>4, LeftoverKeeps
  <2>6. k \in 0 .. n
    BY <1>1
  <2> QED BY <2>2, <2>5, <2>6
<1> HIDE DEF A
<1>15. 0 .. n \subseteq A
  BY <1>1, <1>13, <1>14, Counting
<1>16. LeftoverOK(g[1 .. n], Past(n), budget, kept)
  <2>1. n \in A
    BY <1>1, <1>15
  <2> QED BY <2>1 DEF A
<1>17. Past(n) = done \cup Range(items)
  BY <1>1 DEF Range
<1> HIDE DEF Past
<1> QED BY <1>1, <1>2, <1>16, <1>17 DEF g, items

------------------------------------------------------------------------------
(* What is shipped.                                                        *)

(* Every package that assemble makes has its accounts in order.            *)
LEMMA AssembleAccounts ==
  ASSUME NEW items \in Seq(Obs), Once(items), NEW budget \in Nat, NEW drops
  PROVE  Accounts(Assemble(items, budget, drops), budget)
<1> DEFINE kept == Category \ drops
<1> DEFINE alloc == Allocation(budget, drops)
<1> DEFINE start == Quota(items, alloc)
<1> DEFINE a == Leftover(start, budget)
<1> DEFINE p == Assemble(items, budget, drops)
<1>1. alloc \in [kept -> Nat] /\ Total(alloc, kept) <= budget
  BY AllocationFits
<1>2. p = [items |-> items, out |-> a.out, dropped |-> a.dropped, used |-> a.used, mark |-> 0]
  BY Zenon DEF Assemble
<1> HIDE DEF alloc
<1>3. QuotaOK(start, Range(items), alloc, kept)
  BY <1>1, QuotaEnds
<1> HIDE DEF start
<1>4. /\ start \in QuotaState(kept) /\ start.spent \in [kept -> Nat]
      /\ \A c \in kept : start.spent[c] <= alloc[c]
      /\ start.used = Total(start.spent, kept)
      /\ Booked(start.out, start.used, start.dropped)
      /\ Once(start.deferred)
      /\ Settled(start.out, start.dropped) \cap Range(start.deferred) = {}
      /\ Settled(start.out, start.dropped) \cup Range(start.deferred) = Range(items)
  BY <1>3 DEF QuotaOK, QuotaState
<1>5. IsFiniteSet(kept)
  BY Parameters, FS_Subset
<1>6. start.used <= budget
  <2>1. Total(start.spent, kept) <= Total(alloc, kept)
    BY <1>1, <1>4, <1>5, TotalBounds
  <2>2. Total(start.spent, kept) \in Nat /\ Total(alloc, kept) \in Nat
    BY <1>1, <1>4, <1>5, TotalNat
  <2> QED BY <1>1, <1>4, <2>1, <2>2
<1> DEFINE done == Settled(start.out, start.dropped)
<1>7. LeftoverOK(start, done, budget, kept)
  BY <1>4, <1>6 DEF LeftoverOK
<1>8. done \cap Range(start.deferred) = {} /\ done \cup Range(start.deferred) = Range(items)
  BY <1>4
<1> HIDE DEF done
<1>9. LeftoverOK(a, Range(items), budget, kept)
  <2>1. LeftoverOK(a, done \cup Range(start.deferred), budget, kept)
    BY <1>4, <1>7, <1>8, LeftoverEnds
  <2> QED BY <1>8, <2>1
<1> HIDE DEF a
<1>10. /\ a.used <= budget /\ Booked(a.out, a.used, a.dropped)
       /\ Settled(a.out, a.dropped) = Range(items)
  BY <1>9 DEF LeftoverOK
<1> HIDE DEF p
<1>11. p.items = items /\ p.out = a.out /\ p.dropped = a.dropped /\ p.used = a.used
  BY <1>2
<1>12. p.used = FoldLeft(LAMBDA n, e : n + e.cost, 0, p.out)
  <2>1. p.used = Costs(p.out)
    BY <1>10, <1>11 DEF Booked
  <2> QED BY Zenon, <2>1 DEF Costs
<1>13. \A i \in DOMAIN p.out : p.out[i].cost \in Range(Ladder[p.out[i].obs])
  BY <1>10, <1>11 DEF Booked
<1>14. ASSUME NEW o \in Range(p.items)
       PROVE  Cardinality({i \in DOMAIN p.out : p.out[i].obs = o}) = IF o \in p.dropped THEN 0 ELSE 1
  <2> DEFINE at == {i \in DOMAIN p.out : p.out[i].obs = o}
  <2>1. /\ o \in Outs(p.out) \cup p.dropped /\ Outs(p.out) \cap p.dropped = {}
        /\ \A i, j \in DOMAIN p.out : p.out[i].obs = p.out[j].obs => i = j
    BY <1>10, <1>11 DEF Booked, Settled
  <2>2. CASE o \in p.dropped
    <3>1. at = {}
      BY <2>1, <2>2 DEF Outs
    <3> QED BY <2>2, <3>1, FS_EmptySet
  <2>3. CASE o \notin p.dropped
    <3>1. PICK i \in DOMAIN p.out : p.out[i].obs = o
      BY <2>1, <2>3 DEF Outs
    <3>2. at = {i}
      BY <2>1, <3>1
    <3> QED BY <2>3, <3>2, FS_Singleton
  <2> QED BY <2>2, <2>3
<1>15. Accounts(p, budget)
  BY Zenon, <1>10, <1>11, <1>12, <1>13, <1>14 DEF Accounts
<1> QED BY <1>15 DEF p

(* The results of a call list no observation twice.                        *)
LEMMA RankedOnce ==
  ASSUME NEW q, NEW limit \in Nat, NEW items \in Ranked(q, limit)
  PROVE  items \in Seq(Obs) /\ Once(items)
<1>1. PICK s \in Listed(q) :
        /\ items \in [1 .. Min({limit, Cardinality(s \ q.kills)}) -> s \ q.kills]
        /\ IsInjective(items)
  BY DEF Ranked
<1> DEFINE n == Min({limit, Cardinality(s \ q.kills)})
<1>2. s \ q.kills \in SUBSET Obs
  BY DEF Listed, Candidates
<1>3. Cardinality(s \ q.kills) \in Nat
  <2>1. IsFiniteSet(Obs)
    BY Zenon, GraphAssumption
  <2> QED BY <1>2, <2>1, FS_Subset, FS_CardinalityType
<1>4. n \in Nat
  <2> DEFINE m == Cardinality(s \ q.kills)
  <2> HIDE DEF m
  <2>1. Min({limit, m}) = CHOOSE x \in {limit, m} : \A y \in {limit, m} : x <= y
    BY DEF Min
  <2>2. \E x \in {limit, m} : \A y \in {limit, m} : x <= y
    BY <1>3 DEF m
  <2>3. Min({limit, m}) \in {limit, m}
    BY <2>1, <2>2
  <2> QED BY <1>3, <2>3 DEF m
<1> HIDE DEF n
<1>5. items \in [1 .. n -> Obs]
  BY <1>1, <1>2 DEF n
<1>6. Once(items)
  BY <1>1 DEF IsInjective, Once
<1> QED BY <1>4, <1>5, <1>6

(* A mark changes nothing of the accounts.                                 *)
LEMMA ScoredAccounts ==
  ASSUME NEW items \in Seq(Obs), Once(items), NEW budget \in Nat, NEW drops,
         NEW p \in Scored(Assemble(items, budget, drops))
  PROVE  Accounts(p, budget)
<1> DEFINE a == Assemble(items, budget, drops)
<1>1. Accounts(a, budget)
  BY AssembleAccounts
<1>2. PICK m : p = [a EXCEPT !.mark = m]
  BY DEF Scored
<1>3. a = [items |-> a.items, out |-> a.out, dropped |-> a.dropped, used |-> a.used, mark |-> a.mark]
  BY DEF Assemble
<1> HIDE DEF a
<1>4. p.items = a.items /\ p.out = a.out /\ p.dropped = a.dropped /\ p.used = a.used
  BY <1>2, <1>3
<1> DEFINE
  Held(out, its, drp) ==
    \A o \in Range(its) : Cardinality({i \in DOMAIN out : out[i].obs = o}) = IF o \in drp THEN 0 ELSE 1
  Paid(out) == \A i \in DOMAIN out : out[i].cost \in Range(Ladder[out[i].obs])
  Sum(out) == FoldLeft(LAMBDA n, e : n + e.cost, 0, out)
<1>5. Held(a.out, a.items, a.dropped) /\ Paid(a.out) /\ a.used = Sum(a.out) /\ a.used <= budget
  BY Zenon, <1>1 DEF Accounts
<1> HIDE DEF Held, Paid, Sum
<1>6. Held(p.out, p.items, p.dropped) /\ Paid(p.out) /\ p.used = Sum(p.out) /\ p.used <= budget
  BY <1>4, <1>5
<1> QED BY Zenon, <1>6 DEF Accounts, Held, Paid, Sum

(* A call under way is one of the calls, and the package it has made has   *)
(* its accounts in order from the moment it is made.                       *)
CallInv ==
  /\ stage \in {"asked", "failed"} => query \in Queries
  /\ stage \in {"failed", "using"} => Accounts(bundle, query.budget)

(* No call is under way at the start, ...                                  *)
LEMMA CallInit == RetrievalInit \/ FilledInit => CallInv
BY DEF RetrievalInit, FilledInit, CallInv

(* ... and no step of a call, or of the store meanwhile, upsets its        *)
(* accounts.                                                               *)
LEMMA CallStep == CallInv /\ [RetrievalNext]_readVars => CallInv'
<1> SUFFICES ASSUME CallInv, [RetrievalNext]_readVars PROVE CallInv'
  OBVIOUS
<1>1. ASSUME UNCHANGED callVars PROVE CallInv'
  BY <1>1, Zenon DEF CallInv, callVars
<1>2. CASE Ask
  BY <1>2 DEF Ask, CallInv
<1>3. CASE First
  <2>1. stage = "asked" /\ query' = query /\ query \in Queries
    BY <1>3 DEF First, CallInv
  <2>2. PICK items \in Ranked(query, query.limit) :
          \E p \in Scored(Assemble(items, query.budget, {})) :
            IF p.mark >= Passing THEN Ship(p)
            ELSE bundle' = p /\ stage' = "failed" /\ UNCHANGED using
    BY <1>3, Zenon DEF First
  <2>3. PICK p \in Scored(Assemble(items, query.budget, {})) :
            IF p.mark >= Passing THEN Ship(p)
            ELSE bundle' = p /\ stage' = "failed" /\ UNCHANGED using
    BY <2>2, Zenon
  <2>4. query.limit \in Nat /\ query.budget \in Nat
    BY <2>1, Parameters
  <2>5. Accounts(p, query.budget)
    BY <2>2, <2>3, <2>4, RankedOnce, ScoredAccounts
  <2>6. bundle' = p /\ stage' \in {"using", "failed"}
    BY <2>3 DEF Ship
  <2>7. Accounts(bundle', query'.budget)
    BY Zenon, <2>1, <2>5, <2>6
  <2>8. Accounts(bundle, query.budget)'
    BY Zenon, <2>7
  <2>9. (query \in Queries)'
    BY <2>1
  <2> QED BY <2>8, <2>9 DEF CallInv
<1>4. CASE Replan
  <2>1. stage = "failed" /\ query' = query /\ query \in Queries /\ Accounts(bundle, query.budget)
    BY <1>4 DEF Replan, CallInv
  <2>2. PICK items \in Ranked(query, 2 * query.limit), drop \in Weakest(bundle) :
          \E p \in Scored(Assemble(items, query.budget, {drop})) :
            Ship(IF p.mark > bundle.mark THEN p ELSE bundle)
    BY <1>4, Zenon DEF Replan
  <2>3. PICK p \in Scored(Assemble(items, query.budget, {drop})) :
          Ship(IF p.mark > bundle.mark THEN p ELSE bundle)
    BY <2>2, Zenon
  <2>4. 2 * query.limit \in Nat /\ query.budget \in Nat
    <3>1. query.limit \in Nat /\ query.budget \in Nat
      BY <2>1, Parameters
    <3> QED BY <3>1
  <2>5. Accounts(p, query.budget)
    BY <2>2, <2>3, <2>4, RankedOnce, ScoredAccounts
  <2>6. bundle' \in {p, bundle} /\ stage' = "using"
    BY <2>3 DEF Ship
  <2>7. Accounts(bundle', query'.budget)
    <3>1. bundle' = p \/ bundle' = bundle
      BY <2>6
    <3> QED BY Zenon, <2>1, <2>5, <3>1
  <2>8. Accounts(bundle, query.budget)'
    BY Zenon, <2>7
  <2> QED BY <2>6, <2>8 DEF CallInv
<1>5. CASE RecordUse
  <2>1. stage' = stage /\ query' = query /\ bundle' = bundle
    BY <1>5 DEF RecordUse
  <2> QED BY Zenon, <2>1 DEF CallInv
<1>6. CASE Answer
  BY <1>6 DEF Answer, CallInv
<1>7. CASE UNCHANGED readVars
  BY <1>1, <1>7 DEF readVars
<1> QED BY <1>1, <1>2, <1>3, <1>4, <1>5, <1>6, <1>7 DEF RetrievalNext

(* Whatever is shipped keeps within its budget, and holds every retrieved  *)
(* entry once, at the cost of a whole rung, or names it as dropped.        *)
THEOREM AccountsCorrect == RetrievalSpec => []PackageAccounts
<1>1. CallInv => PackageAccounts
  BY DEF CallInv, PackageAccounts
<1> QED BY CallInit, CallStep, <1>1, PTL DEF RetrievalSpec
==============================================================================
