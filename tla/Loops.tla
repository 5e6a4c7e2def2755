-------------------------------- MODULE Loops --------------------------------
(***************************************************************************)
(* Loops written as functions: one that uses something up computes a       *)
(* value, and what each of its turns keeps holds where it ends. The walk   *)
(* over a document and the deletion of a row are such loops.               *)
(***************************************************************************)
EXTENDS Integers, SequencesExt, FiniteSetTheorems, SequenceTheorems, TLAPS

(* Loops. A loop goes on from each of its states W to next[w] until one is *)
(* in E, and returns its value; mu is what each turn uses up.              *)
Loop(g, W, E, value, next) == g = [w \in W |-> IF w \in E THEN value[w] ELSE g[next[w]]]

WindsDown(W, E, next, mu) ==
    /\ \A w \in W : mu[w] \in Nat
    /\ \A w \in W \ E : next[w] \in W /\ mu[next[w]] < mu[w]

Upto(W, mu, n) == {w \in W : mu[w] <= n}

LEMMA SmallestNumber ==
    ASSUME NEW B \in SUBSET Nat, B # {}
    PROVE  \E n \in B : \A k \in B : ~ (k < n)
<1>1. PICK n \in B : \A k \in B : ~ (<<k, n>> \in OpToRel(<, Nat))
  BY NatLessThanWellFounded, WFMin, Zenon
<1>2. \A k \in B : ~ (k < n)
  BY <1>1 DEF OpToRel
<1> QED BY <1>2

LEMMA LoopUnfolds ==
    ASSUME NEW g, NEW W, NEW E, NEW value, NEW next, Loop(g, W, E, value, next), NEW w \in W
    PROVE  g[w] = IF w \in E THEN value[w] ELSE g[next[w]]
BY DEF Loop

\* A loop that uses something up computes something: first for states that have no more
\* than n left, then for all.
LEMMA LoopUpto ==
    ASSUME NEW W, NEW E, NEW value, NEW next, NEW mu, WindsDown(W, E, next, mu), NEW n \in Nat
    PROVE  \E g : Loop(g, Upto(W, mu, n), E, value, next)
<1> DEFINE Bad == {k \in Nat : ~ \E g : Loop(g, Upto(W, mu, k), E, value, next)}
<1>1. Bad = {}
  <2> SUFFICES ASSUME Bad # {} PROVE FALSE
    OBVIOUS
  <2>1. PICK k \in Bad : \A l \in Bad : ~ (l < k)
    <3>1. Bad \in SUBSET Nat
      OBVIOUS
    <3> HIDE DEF Bad
    <3> QED BY <3>1, SmallestNumber
  <2>2. k \in Nat /\ ~ \E g : Loop(g, Upto(W, mu, k), E, value, next)
    OBVIOUS
  <2>3. CASE k = 0
    <3> DEFINE g == [w \in Upto(W, mu, 0) |-> value[w]]
    <3>1. \A w \in Upto(W, mu, 0) : w \in E
      BY DEF WindsDown, Upto
    <3>2. Loop(g, Upto(W, mu, 0), E, value, next)
      BY <3>1 DEF Loop
    <3> QED BY <2>2, <2>3, <3>2
  <2>4. CASE k > 0
    <3>1. k - 1 \in Nat /\ k - 1 < k
      BY <2>2, <2>4
    <3>2. PICK g : Loop(g, Upto(W, mu, k - 1), E, value, next)
      BY <2>1, <3>1
    <3> DEFINE h == [w \in Upto(W, mu, k) |-> IF w \in E THEN value[w] ELSE g[next[w]]]
    <3>3. \A w \in Upto(W, mu, k) \ E : next[w] \in Upto(W, mu, k - 1)
      BY <2>2 DEF WindsDown, Upto
    <3>4. \A w \in Upto(W, mu, k - 1) : w \in Upto(W, mu, k)
      BY <2>2 DEF WindsDown, Upto
    <3>5. \A w \in Upto(W, mu, k - 1) : g[w] = IF w \in E THEN value[w] ELSE g[next[w]]
      BY <3>2, LoopUnfolds
    <3>6. \A w \in Upto(W, mu, k - 1) : h[w] = g[w]
      BY <3>4, <3>5
    <3>7. \A w \in Upto(W, mu, k) : h[w] = IF w \in E THEN value[w] ELSE h[next[w]]
      BY <3>3, <3>6
    <3>8. h = [w \in Upto(W, mu, k) |-> h[w]]
      OBVIOUS
    <3> HIDE DEF h
    <3>9. Loop(h, Upto(W, mu, k), E, value, next)
      BY <3>7, <3>8 DEF Loop
    <3> QED BY <2>2, <3>9
  <2> QED BY <2>2, <2>3, <2>4
<1> QED BY <1>1

LEMMA LoopComputes ==
    ASSUME NEW W, NEW E, NEW value, NEW next, NEW mu, WindsDown(W, E, next, mu)
    PROVE  \E g : Loop(g, W, E, value, next)
<1> DEFINE Sol(k) == CHOOSE g : Loop(g, Upto(W, mu, k), E, value, next)
           h      == [w \in W |-> Sol(mu[w])[w]]
<1>1. \A k \in Nat : Loop(Sol(k), Upto(W, mu, k), E, value, next)
  <2> TAKE k \in Nat
  <2>1. \E g : Loop(g, Upto(W, mu, k), E, value, next)
    BY LoopUpto
  <2> QED BY <2>1
<1>2. \A k \in Nat : \A w \in Upto(W, mu, k) : Sol(k)[w] = IF w \in E THEN value[w] ELSE Sol(k)[next[w]]
  <2> HIDE DEF Sol
  <2> QED BY <1>1, LoopUnfolds
<1> HIDE DEF Sol
<1>3. \A k, l \in Nat, w \in W : mu[w] <= k /\ mu[w] <= l => Sol(k)[w] = Sol(l)[w]
  <2> DEFINE Differ(w, k, l) == mu[w] <= k /\ mu[w] <= l /\ Sol(k)[w] # Sol(l)[w]
             Bad == {n \in Nat : \E w \in W, k, l \in Nat : mu[w] = n /\ Differ(w, k, l)}
  <2>1. Bad = {}
    <3> SUFFICES ASSUME Bad # {} PROVE FALSE
      OBVIOUS
    <3>1. PICK n \in Bad : \A m \in Bad : ~ (m < n)
      <4>1. Bad \in SUBSET Nat
        OBVIOUS
      <4> HIDE DEF Bad
      <4> QED BY <4>1, SmallestNumber
    <3>2. PICK w \in W, k \in Nat, l \in Nat : mu[w] = n /\ Differ(w, k, l)
      OBVIOUS
    <3>3. w \in Upto(W, mu, k) /\ w \in Upto(W, mu, l)
      BY <3>2 DEF Upto
    <3>4. w \notin E
      BY <1>2, <3>2, <3>3
    <3>5. next[w] \in W /\ mu[next[w]] \in Nat /\ mu[next[w]] < n /\ mu[w] \in Nat
      BY <3>2, <3>4 DEF WindsDown
    <3>6. Sol(k)[next[w]] # Sol(l)[next[w]]
      BY <1>2, <3>2, <3>3, <3>4
    <3>7. Differ(next[w], k, l)
      BY <3>2, <3>5, <3>6
    <3>8. mu[next[w]] \in Bad
      BY <3>5, <3>7
    <3> QED BY <3>1, <3>5, <3>8
  <2>2. \A w \in W : mu[w] \in Nat
    BY DEF WindsDown, Upto
  <2> QED BY <2>1, <2>2
<1>4. \A w \in W : h[w] = IF w \in E THEN value[w] ELSE h[next[w]]
  <2> TAKE w \in W
  <2>1. mu[w] \in Nat /\ w \in Upto(W, mu, mu[w])
    BY DEF WindsDown, Upto
  <2>2. CASE w \in E
    BY <1>2, <2>1, <2>2
  <2>3. CASE w \notin E
    <3>1. next[w] \in W /\ mu[next[w]] \in Nat /\ mu[next[w]] < mu[w]
      BY <2>3 DEF WindsDown
    <3>2. Sol(mu[w])[next[w]] = Sol(mu[next[w]])[next[w]]
      BY <1>3, <2>1, <3>1
    <3> QED BY <1>2, <2>1, <2>3, <3>1, <3>2
  <2> QED BY <2>2, <2>3
<1>5. h = [w \in W |-> h[w]]
  OBVIOUS
<1> HIDE DEF h
<1>6. Loop(h, W, E, value, next)
  BY <1>4, <1>5 DEF Loop
<1> QED BY <1>6

\* What every turn keeps holds where the loop ends, and there its value is taken.
LEMMA LoopKeeps ==
    ASSUME NEW W, NEW E, NEW value, NEW next, NEW mu, WindsDown(W, E, next, mu),
           NEW g, Loop(g, W, E, value, next),
           NEW I \in SUBSET W, \A w \in I \ E : next[w] \in I, NEW w \in I
    PROVE  \E v \in I \cap E : g[w] = value[v]
<1> DEFINE Fails(u) == ~ \E v \in I \cap E : g[u] = value[v]
           Bad == {n \in Nat : \E u \in I : mu[u] = n /\ Fails(u)}
<1>1. Bad = {}
  <2> SUFFICES ASSUME Bad # {} PROVE FALSE
    OBVIOUS
  <2>1. PICK n \in Bad : \A m \in Bad : ~ (m < n)
    <3>1. Bad \in SUBSET Nat
      OBVIOUS
    <3> HIDE DEF Bad
    <3> QED BY <3>1, SmallestNumber
  <2>2. PICK u \in I : mu[u] = n /\ Fails(u)
    OBVIOUS
  <2>3. g[u] = IF u \in E THEN value[u] ELSE g[next[u]]
    BY LoopUnfolds
  <2>4. u \notin E
    BY <2>2, <2>3
  <2>5. next[u] \in I /\ mu[next[u]] \in Nat /\ mu[next[u]] < n
    BY <2>2, <2>4 DEF WindsDown
  <2>6. Fails(next[u])
    BY <2>2, <2>3, <2>4
  <2>7. mu[next[u]] \in Bad
    BY <2>5, <2>6
  <2> QED BY <2>1, <2>5, <2>7
<1>2. mu[w] \in Nat
  BY DEF WindsDown
<1> QED BY <1>1, <1>2

-----------------------------------------------------------------------------
(* What loops use up and go along: a finite set of which less and less is  *)
(* left, and a path.                                                       *)

LEMMA Unvisited ==
    ASSUME NEW S, IsFiniteSet(S), NEW A \in SUBSET S, NEW s \in S
    PROVE  /\ Cardinality(S \ A) \in Nat /\ Cardinality(S \ (A \cup {s})) \in Nat
           /\ s \in A => S \ (A \cup {s}) = S \ A
           /\ s \notin A => Cardinality(S \ (A \cup {s})) = Cardinality(S \ A) - 1
<1>1. IsFiniteSet(S \ A) /\ IsFiniteSet(S \ (A \cup {s}))
  BY FS_Subset
<1>2. Cardinality(S \ A) \in Nat /\ Cardinality(S \ (A \cup {s})) \in Nat
  BY <1>1, FS_CardinalityType
<1>3. ASSUME s \notin A PROVE Cardinality(S \ (A \cup {s})) = Cardinality(S \ A) - 1
  <2>1. S \ (A \cup {s}) = (S \ A) \ {s} /\ s \in S \ A
    BY <1>3
  <2>2. Cardinality((S \ A) \ {s}) = Cardinality(S \ A) - 1
    BY <1>1, <2>1, FS_RemoveElement
  <2> QED BY <2>1, <2>2
<1>4. s \in A => S \ (A \cup {s}) = S \ A
  OBVIOUS
<1> QED BY <1>2, <1>3, <1>4

LEMMA FrontIs ==
    ASSUME NEW S, NEW p \in Seq(S), p # <<>>
    PROVE  /\ Front(p) \in Seq(S) /\ Len(Front(p)) = Len(p) - 1 /\ Len(p) \in Nat /\ Len(p) > 0
           /\ \A i \in 1 .. Len(p) - 1 : Front(p)[i] = p[i]
           /\ Last(p) = p[Len(p)] /\ Last(p) \in S
<1>1. Len(p) \in Nat /\ Len(p) > 0 /\ Last(p) = p[Len(p)] /\ Last(p) \in S
  BY DEF Last
<1>2. /\ SubSeq(p, 1, Len(p) - 1) \in Seq(S)
      /\ Len(SubSeq(p, 1, Len(p) - 1)) = IF 1 <= Len(p) - 1 THEN Len(p) - 1 - 1 + 1 ELSE 0
      /\ \A i \in 1 .. Len(p) - 1 - 1 + 1 : SubSeq(p, 1, Len(p) - 1)[i] = p[1 + i - 1]
  BY <1>1, SubSeqProperties
<1>3. Front(p) \in Seq(S) /\ Len(Front(p)) = Len(p) - 1 /\ \A i \in 1 .. Len(p) - 1 : Front(p)[i] = p[i]
  <2> DEFINE f == SubSeq(p, 1, Len(p) - 1)
             n == Len(p)
  <2>1. /\ f \in Seq(S) /\ Len(f) = IF 1 <= n - 1 THEN n - 1 - 1 + 1 ELSE 0
        /\ \A i \in 1 .. n - 1 - 1 + 1 : f[i] = p[1 + i - 1]
    BY <1>2
  <2>2. n \in Nat /\ n > 0 /\ Front(p) = f
    BY <1>1 DEF Front
  <2> HIDE DEF f, n
  <2>3. Len(f) = n - 1
    BY <2>1, <2>2
  <2>4. \A i \in 1 .. n - 1 : f[i] = p[i]
    <3> TAKE i \in 1 .. n - 1
    <3>1. i \in 1 .. n - 1 - 1 + 1 /\ 1 + i - 1 = i
      BY <2>2
    <3> QED BY <2>1, <3>1
  <2> QED BY <2>1, <2>2, <2>3, <2>4 DEF n
<1> QED BY <1>1, <1>3

LEMMA TailIs ==
    ASSUME NEW S, NEW p \in Seq(S), p # <<>>
    PROVE  /\ Tail(p) \in Seq(S) /\ Len(Tail(p)) = Len(p) - 1 /\ Len(p) \in Nat /\ Len(p) > 0
           /\ \A i \in 1 .. Len(p) - 1 : Tail(p)[i] = p[i + 1]
           /\ Head(p) = p[1] /\ Head(p) \in S
OBVIOUS

LEMMA AppendIs ==
    ASSUME NEW S, NEW p \in Seq(S), NEW t \in S
    PROVE  /\ Append(p, t) \in Seq(S) /\ Len(Append(p, t)) = Len(p) + 1 /\ Len(p) \in Nat
           /\ \A i \in 1 .. Len(p) : Append(p, t)[i] = p[i]
           /\ Append(p, t)[Len(p) + 1] = t
OBVIOUS
=============================================================================
