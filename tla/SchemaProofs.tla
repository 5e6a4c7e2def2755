---------------------------- MODULE SchemaProofs ----------------------------
(***************************************************************************)
(* Theorems about Schema, for whatever rows the parts of the product write:*)
(* any number of them, in any tables, with any values.                     *)
(***************************************************************************)
EXTENDS Schema, Loops

-----------------------------------------------------------------------------
(* A migration is what its statements do one after the other, from a state *)
(* [d, rows, ok]; it is accepted when each of them is.                     *)
After(s, ops, n) ==
    LET after[i \in 0 .. n] == IF i = 0 THEN s ELSE Execute(after[i - 1], ops[i]) IN after

Unfolds(a, s, ops, n) == a = [i \in 0 .. n |-> IF i = 0 THEN s ELSE Execute(a[i - 1], ops[i])]

From(d, rs) == [d |-> d, rows |-> rs, ok |-> TRUE]

Ops(ops)    == {ops[i] : i \in 1 .. Len(ops)}
IsList(ops) == ops \in Seq(Ops(ops))

\* The state after every statement, if each was accepted.
Accepted(a, s, ops, n) ==
    /\ a[0] = s
    /\ \A i \in 0 .. n : a[i].ok
    /\ \A i \in 1 .. n :
          LET done == Affect(a[i - 1].d, a[i - 1].rows, ops[i]) IN
          /\ Legal(a[i - 1].d, a[i - 1].rows, ops[i])
          /\ a[i] = [d |-> Alter(a[i - 1].d, ops[i]), rows |-> done.rows, ok |-> done.ok]

LEMMA AfterExists ==
    ASSUME NEW s, NEW ops, NEW n \in Nat
    PROVE  \E a : Unfolds(a, s, ops, n)
<1> DEFINE Bad == {k \in Nat : ~ \E a : Unfolds(a, s, ops, k)}
<1>1. Bad = {}
  <2> SUFFICES ASSUME Bad # {} PROVE FALSE
    OBVIOUS
  <2>1. PICK k \in Bad : \A l \in Bad : ~ (l < k)
    <3>1. Bad \in SUBSET Nat
      OBVIOUS
    <3> HIDE DEF Bad
    <3> QED BY <3>1, SmallestNumber
  <2>2. k \in Nat /\ ~ \E a : Unfolds(a, s, ops, k)
    OBVIOUS
  <2>3. CASE k = 0
    <3> DEFINE b == [i \in 0 .. 0 |-> s]
    <3>1. \A i \in 0 .. 0 : i = 0
      OBVIOUS
    <3>2. b = [i \in 0 .. 0 |-> IF i = 0 THEN s ELSE Execute(b[i - 1], ops[i])]
      BY <3>1
    <3>3. Unfolds(b, s, ops, 0)
      BY <3>2 DEF Unfolds
    <3> QED BY <2>2, <2>3, <3>3
  <2>4. CASE k > 0
    <3>1. k - 1 \in Nat /\ k - 1 < k
      BY <2>2, <2>4
    <3>2. PICK a : Unfolds(a, s, ops, k - 1)
      BY <2>1, <3>1
    <3> DEFINE b == [i \in 0 .. k |-> IF i = 0 THEN s ELSE Execute(a[i - 1], ops[i])]
    <3>3. \A i \in 0 .. k - 1 : a[i] = IF i = 0 THEN s ELSE Execute(a[i - 1], ops[i])
      BY <3>2 DEF Unfolds
    <3>4. \A i \in 0 .. k - 1 : i \in 0 .. k
      BY <2>2
    <3>5. \A i \in 0 .. k - 1 : b[i] = a[i]
      BY <3>3, <3>4
    <3>6. \A i \in 0 .. k : i # 0 => i - 1 \in 0 .. k - 1
      BY <2>2
    <3>7. \A i \in 0 .. k : b[i] = IF i = 0 THEN s ELSE Execute(b[i - 1], ops[i])
      BY <3>5, <3>6
    <3>8. b = [i \in 0 .. k |-> b[i]]
      OBVIOUS
    <3> HIDE DEF b
    <3>9. Unfolds(b, s, ops, k)
      BY <3>7, <3>8 DEF Unfolds
    <3> QED BY <2>2, <3>9
  <2> QED BY <2>2, <2>3, <2>4
<1> QED BY <1>1

LEMMA AfterUnfolds ==
    ASSUME NEW s, NEW ops, NEW n \in Nat
    PROVE  /\ After(s, ops, n)[0] = s
           /\ \A i \in 1 .. n : After(s, ops, n)[i] = Execute(After(s, ops, n)[i - 1], ops[i])
<1> DEFINE a == After(s, ops, n)
<1>1. Unfolds(a, s, ops, n)
  <2>1. \E b : Unfolds(b, s, ops, n)
    BY AfterExists
  <2>2. a = CHOOSE b : Unfolds(b, s, ops, n)
    BY DEF After, Unfolds
  <2> HIDE DEF a
  <2> QED BY <2>1, <2>2
<1> HIDE DEF a
<1>2. \A i \in 0 .. n : a[i] = IF i = 0 THEN s ELSE Execute(a[i - 1], ops[i])
  BY <1>1 DEF Unfolds
<1>3. a[0] = s /\ \A i \in 1 .. n : a[i] = Execute(a[i - 1], ops[i])
  BY <1>2
<1> QED BY <1>3 DEF a

\* Run goes through these states.
LEMMA RunIsAfter ==
    ASSUME NEW d, NEW rs, NEW ops
    PROVE  Run(d, rs, ops) = After(From(d, rs), ops, Len(ops))[Len(ops)]
BY DEF Run, After, From

\* What holds at the start and after each statement that finds it holding, always holds.
LEMMA Upward ==
    ASSUME NEW n \in Nat, NEW k \in 0 .. n, NEW I, k \in I,
           \A i \in k .. n : i \in I /\ i < n => i + 1 \in I
    PROVE  \A i \in k .. n : i \in I
<1> DEFINE Bad == {i \in Nat : i \in k .. n /\ i \notin I}
<1>1. Bad = {}
  <2> SUFFICES ASSUME Bad # {} PROVE FALSE
    OBVIOUS
  <2>1. PICK m \in Bad : \A l \in Bad : ~ (l < m)
    <3>1. Bad \in SUBSET Nat
      OBVIOUS
    <3> HIDE DEF Bad
    <3> QED BY <3>1, SmallestNumber
  <2>2. m \in Nat /\ m \in k .. n /\ m \notin I /\ m # k
    OBVIOUS
  <2>3. m - 1 \in Nat /\ m - 1 \in k .. n /\ m - 1 < n /\ m - 1 < m /\ (m - 1) + 1 = m
    BY <2>2
  <2>4. m - 1 \in I
    BY <2>1, <2>3
  <2> QED BY <2>2, <2>3, <2>4
<1> QED BY <1>1

\* A migration that was accepted was accepted statement by statement.
LEMMA AcceptedStepByStep ==
    ASSUME NEW d, NEW rs, NEW ops, Len(ops) \in Nat, Run(d, rs, ops).ok
    PROVE  \E a : Accepted(a, From(d, rs), ops, Len(ops)) /\ Run(d, rs, ops) = a[Len(ops)]
<1> DEFINE s == From(d, rs)
           n == Len(ops)
           a == After(s, ops, n)
<1>1. a[0] = s /\ \A i \in 1 .. n : a[i] = Execute(a[i - 1], ops[i])
  BY AfterUnfolds
<1>2. Run(d, rs, ops) = a[n] /\ a[n].ok
  BY RunIsAfter
<1> HIDE DEF a
<1>3. ASSUME NEW i \in 1 .. n, a[i].ok
      PROVE  /\ a[i - 1].ok
             /\ Legal(a[i - 1].d, a[i - 1].rows, ops[i])
             /\ a[i] = [d |-> Alter(a[i - 1].d, ops[i]), rows |-> Affect(a[i - 1].d, a[i - 1].rows, ops[i]).rows,
                        ok |-> Affect(a[i - 1].d, a[i - 1].rows, ops[i]).ok]
  <2>1. a[i] = Execute(a[i - 1], ops[i])
    BY <1>1
  <2>2. ASSUME ~ (a[i - 1].ok /\ Legal(a[i - 1].d, a[i - 1].rows, ops[i])) PROVE FALSE
    <3>1. a[i] = [d |-> a[i - 1].d, rows |-> a[i - 1].rows, ok |-> FALSE]
      BY <2>1, <2>2, Zenon DEF Execute
    <3>2. ~ a[i].ok
      BY <3>1
    <3> QED BY <1>3, <3>2
  <2>3. a[i - 1].ok /\ Legal(a[i - 1].d, a[i - 1].rows, ops[i])
    BY <1>3, <2>2
  <2> QED BY <2>1, <2>3, Zenon DEF Execute
<1> DEFINE Bad == {k \in Nat : k \in 0 .. n /\ ~ a[n - k].ok}
<1>4. Bad = {}
  <2> SUFFICES ASSUME Bad # {} PROVE FALSE
    OBVIOUS
  <2>1. PICK k \in Bad : \A l \in Bad : ~ (l < k)
    <3>1. Bad \in SUBSET Nat
      OBVIOUS
    <3> HIDE DEF Bad
    <3> QED BY <3>1, SmallestNumber
  <2>2. k \in Nat /\ k \in 0 .. n /\ ~ a[n - k].ok
    OBVIOUS
  <2>3. k # 0
    BY <1>2, <2>2
  <2>4. k - 1 \in Nat /\ k - 1 \in 0 .. n /\ k - 1 < k /\ n - (k - 1) \in 1 .. n /\ (n - (k - 1)) - 1 = n - k
    BY <2>2, <2>3
  <2>5. a[n - (k - 1)].ok
    BY <2>1, <2>4
  <2>6. a[n - k].ok
    BY <1>3, <2>4, <2>5
  <2> QED BY <2>2, <2>6
<1>5. \A i \in 0 .. n : a[i].ok
  <2> TAKE i \in 0 .. n
  <2>1. n - i \in Nat /\ n - i \in 0 .. n /\ n - (n - i) = i
    OBVIOUS
  <2> QED BY <1>4, <2>1
<1>6. Accepted(a, s, ops, n)
  <2>1. \A i \in 1 .. n : i \in 0 .. n
    OBVIOUS
  <2> QED BY <1>1, <1>3, <1>5, <2>1 DEF Accepted
<1> QED BY <1>2, <1>6

-----------------------------------------------------------------------------
(* The statements of a migration.                                          *)
LEMMA ConcatOps ==
    ASSUME NEW a, NEW b, IsList(a), IsList(b)
    PROVE  IsList(a \o b) /\ Ops(a \o b) = Ops(a) \cup Ops(b)
<1> DEFINE S == Ops(a) \cup Ops(b)
<1>1. a \in Seq(S) /\ b \in Seq(S)
  BY SeqMonotonic DEF IsList
<1>2. /\ a \o b \in Seq(S)
      /\ Len(a \o b) = Len(a) + Len(b)
      /\ \A i \in 1 .. Len(a) + Len(b) : (a \o b)[i] = IF i <= Len(a) THEN a[i] ELSE b[i - Len(a)]
      /\ Len(a) \in Nat /\ Len(b) \in Nat
  BY <1>1, ConcatProperties, LenProperties
<1>3. Ops(a \o b) = S
  <2>1. \A i \in 1 .. Len(a) : i \in 1 .. Len(a) + Len(b) /\ (a \o b)[i] = a[i]
    BY <1>2
  <2>2. \A i \in 1 .. Len(b) : i + Len(a) \in 1 .. Len(a) + Len(b) /\ (a \o b)[i + Len(a)] = b[i]
    BY <1>2
  <2>3. \A i \in 1 .. Len(a) + Len(b) : (a \o b)[i] \in S
    BY <1>2 DEF Ops
  <2>4. \A x \in Ops(a) : x \in Ops(a \o b)
    BY <1>2, <2>1 DEF Ops
  <2>5. \A x \in Ops(b) : x \in Ops(a \o b)
    BY <1>2, <2>2, SMTT(40) DEF Ops
  <2>6. \A x \in Ops(a \o b) : x \in S
    BY <1>2, <2>3 DEF Ops
  <2> QED BY <2>4, <2>5, <2>6
<1> QED BY <1>2, <1>3 DEF IsList

LEMMA List0 == IsList(<<>>) /\ Ops(<<>>) = {}
  BY DEF IsList, Ops
LEMMA List1 == \A a : IsList(<<a>>) /\ Ops(<<a>>) = {a}
  BY DEF IsList, Ops
LEMMA List2 == \A a, b : IsList(<<a, b>>) /\ Ops(<<a, b>>) = {a, b}
  BY DEF IsList, Ops
LEMMA List3 == \A a, b, c : IsList(<<a, b, c>>) /\ Ops(<<a, b, c>>) = {a, b, c}
  BY DEF IsList, Ops
LEMMA List4 == \A a, b, c, d : IsList(<<a, b, c, d>>) /\ Ops(<<a, b, c, d>>) = {a, b, c, d}
  BY DEF IsList, Ops
LEMMA List6 ==
    \A a, b, c, d, e, f : IsList(<<a, b, c, d, e, f>>) /\ Ops(<<a, b, c, d, e, f>>) = {a, b, c, d, e, f}
  BY DEF IsList, Ops
LEMMA List5 == \A a, b, c, d, e : IsList(<<a, b, c, d, e>>) /\ Ops(<<a, b, c, d, e>>) = {a, b, c, d, e}
  BY DEF IsList, Ops
LEMMA List7 ==
    \A a, b, c, d, e, f, g : IsList(<<a, b, c, d, e, f, g>>) /\ Ops(<<a, b, c, d, e, f, g>>) = {a, b, c, d, e, f, g}
  BY DEF IsList, Ops
LEMMA List8 ==
    \A a, b, c, d, e, f, g, h :
        /\ IsList(<<a, b, c, d, e, f, g, h>>)
        /\ Ops(<<a, b, c, d, e, f, g, h>>) = {a, b, c, d, e, f, g, h}
  BY DEF IsList, Ops
LEMMA List9 ==
    \A a, b, c, d, e, f, g, h, i :
        /\ IsList(<<a, b, c, d, e, f, g, h, i>>)
        /\ Ops(<<a, b, c, d, e, f, g, h, i>>) = {a, b, c, d, e, f, g, h, i}
  BY DEF IsList, Ops
LEMMA List11 ==
    \A a, b, c, d, e, f, g, h, i, j, k :
        /\ IsList(<<a, b, c, d, e, f, g, h, i, j, k>>)
        /\ Ops(<<a, b, c, d, e, f, g, h, i, j, k>>) = {a, b, c, d, e, f, g, h, i, j, k}
  BY DEF IsList, Ops
LEMMA List15 ==
    \A a, b, c, d, e, f, g, h, i, j, k, l, m, n, o :
        /\ IsList(<<a, b, c, d, e, f, g, h, i, j, k, l, m, n, o>>)
        /\ Ops(<<a, b, c, d, e, f, g, h, i, j, k, l, m, n, o>>) = {a, b, c, d, e, f, g, h, i, j, k, l, m, n, o}
  BY DEF IsList, Ops

-----------------------------------------------------------------------------
(* What a deletion does. The loop ends: each event fires once.             *)
RefsOK(d) ==
    /\ IsFiniteSet(d.refs)
    /\ d.last \in Nat
    /\ \A f \in d.refs : f.n \in Nat

Begun(first)  == [gone |-> first, cleared |-> {}, ok |-> TRUE, fired |-> {}, queue |-> <<first>>]
Ended(d, rs)  == {w \in Deletions(d, rs) : w.queue = <<>> \/ ~w.ok}
Same(d, rs)   == [w \in Deletions(d, rs) |-> w]
Fired(d, rs)  == [w \in Deletions(d, rs) |-> Fire(d, rs, w)]
ToFire(d, rs) == [w \in Deletions(d, rs) |-> 2 * Cardinality(Events(d, rs) \ w.fired) + Len(w.queue)]

\* The outcomes of one turn.
Returns(d, rs, w, v) ==
    /\ Due(d, rs, w) = {}
    /\ v.gone = w.gone /\ v.cleared = w.cleared /\ v.ok = w.ok /\ v.fired = w.fired
    /\ v.queue = Tail(w.queue)

Fires(d, rs, w, v, e) ==
    /\ e \in Due(d, rs, w)
    /\ v.fired = w.fired \cup {e}

PassesBy(d, rs, w, v, e) ==
    /\ Fires(d, rs, w, v, e)
    /\ Referring(rs, w, e) = {}
    /\ v.gone = w.gone /\ v.cleared = w.cleared /\ v.ok = w.ok /\ v.queue = w.queue

Cascades(d, rs, w, v, e) ==
    /\ Fires(d, rs, w, v, e)
    /\ e[2].ref.on = "cascade"
    /\ v.gone = w.gone \cup Referring(rs, w, e)
    /\ v.queue = Append(w.queue, Referring(rs, w, e))
    /\ v.cleared = w.cleared /\ v.ok = w.ok

Empties(d, rs, w, v, e) ==
    /\ Fires(d, rs, w, v, e)
    /\ e[2].ref.on = "null"
    /\ Clears(e[2].ref) \cap d.tables[e[2].from].must = {}
    /\ v.cleared = w.cleared \cup (Referring(rs, w, e) \X Clears(e[2].ref))
    /\ v.gone = w.gone /\ v.ok = w.ok /\ v.queue = w.queue

Refuses(d, rs, w, v, e) ==
    /\ Fires(d, rs, w, v, e)
    /\ v.gone = w.gone /\ v.cleared = w.cleared /\ v.ok = FALSE /\ v.queue = w.queue

FireOutcome(d, rs, w, v) ==
    \/ Returns(d, rs, w, v)
    \/ \E e \in Events(d, rs) :
          \/ PassesBy(d, rs, w, v, e)
          \/ Cascades(d, rs, w, v, e)
          \/ Empties(d, rs, w, v, e)
          \/ Refuses(d, rs, w, v, e)

\* An event is taken from those that are due, whatever their numbers.
LEMMA FirstIsDue ==
    ASSUME NEW d, NEW rs, RefsOK(d), NEW due \in SUBSET Events(d, rs), due # {}
    PROVE  First(due) \in due
<1> DEFINE q == CHOOSE x \in {e[1] : e \in due} : TRUE
           mine == {e \in due : e[1] = q}
           numbers == {e[2].n : e \in mine}
<1>1. q \in {e[1] : e \in due}
  BY Zenon
<1>2. mine # {}
  BY <1>1
<1>3. numbers \in SUBSET Nat /\ numbers # {}
  BY <1>2 DEF Events, RefsOK
<1>4. PICK k \in numbers : \A l \in numbers : ~ (l < k)
  <2> HIDE DEF numbers
  <2> QED BY <1>3, SmallestNumber
<1>5. PICK e \in mine : e[2].n = k
  BY <1>4
<1>6. ASSUME NEW f \in due, f[1] = q PROVE e[2].n <= f[2].n
  <2>1. f \in mine /\ f[2].n \in numbers
    BY <1>6
  <2>2. e[2].n \in Nat /\ f[2].n \in Nat /\ ~ (f[2].n < e[2].n)
    BY <1>3, <1>4, <1>5, <2>1
  <2> QED BY <2>2
<1>7. e \in due /\ e[1] = q
  BY <1>5
<1>8. First(due) = CHOOSE x \in due : x[1] = q /\ \A f \in due : f[1] = q => x[2].n <= f[2].n
  BY DEF First
<1> HIDE DEF q, mine, numbers
<1> QED BY <1>6, <1>7, <1>8, Zenon

LEMMA FireTurns ==
    ASSUME NEW d, NEW rs, RefsOK(d), NEW w \in Deletions(d, rs), w \notin Ended(d, rs)
    PROVE  Fire(d, rs, w) \in Deletions(d, rs) /\ FireOutcome(d, rs, w, Fire(d, rs, w))
<1> DEFINE due == Due(d, rs, w)
           e   == First(due)
           hit == Referring(rs, w, e)
           on  == [w EXCEPT !.fired = @ \cup {e}]
           v   == Fire(d, rs, w)
<1>1. w.queue \in Seq(SUBSET DOMAIN rs) /\ w.queue # <<>> /\ w.ok = TRUE
  BY DEF Ended, Deletions
<1>2. Head(w.queue) \in SUBSET DOMAIN rs /\ Tail(w.queue) \in Seq(SUBSET DOMAIN rs)
  BY <1>1, TailIs
<1>3. due \in SUBSET Events(d, rs)
  BY <1>2 DEF Due, Events
<1>4. CASE due = {}
  <2>1. v = [w EXCEPT !.queue = Tail(@)]
    BY <1>4, Zenon DEF Fire
  <2>2. v \in Deletions(d, rs)
    BY <1>2, <2>1 DEF Deletions
  <2>3. Returns(d, rs, w, v)
    BY <1>4, <2>1 DEF Deletions, Returns
  <2> QED BY <2>2, <2>3 DEF FireOutcome
<1>5. CASE due # {}
  <2>1. e \in due
    BY <1>3, <1>5, FirstIsDue
  <2>2. e \in Events(d, rs) /\ e \in Due(d, rs, w) /\ e[2] \in d.refs
    BY <1>3, <2>1 DEF Events
  <2>3. hit \in SUBSET DOMAIN rs
    BY DEF Referring, In
  <2>4. Clears(e[2].ref) \in SUBSET Columns(d)
    BY <2>2 DEF Columns
  <2> DEFINE clears == Clears(e[2].ref)
  <2> HIDE DEF due, hit, clears, e
  <2>5. on \in Deletions(d, rs) /\ on.gone = w.gone /\ on.cleared = w.cleared /\ on.ok = w.ok
          /\ on.queue = w.queue /\ on.fired = w.fired \cup {e}
    BY <2>2 DEF Deletions
  <2>6. CASE hit = {}
    <3>1. v = on
      BY <1>5, <2>6, Zenon DEF Fire, due, e, hit
    <3>2. PassesBy(d, rs, w, v, e)
      BY <2>2, <2>5, <2>6, <3>1 DEF PassesBy, Fires, hit
    <3> QED BY <2>2, <2>5, <3>1, <3>2 DEF FireOutcome
  <2>7. CASE hit # {} /\ e[2].ref.on = "cascade"
    <3>1. v = [on EXCEPT !.gone = @ \cup hit, !.queue = Append(@, hit)]
      BY <1>5, <2>7, Zenon DEF Fire, due, e, hit
    <3>2. Append(on.queue, hit) \in Seq(SUBSET DOMAIN rs)
      BY <1>1, <2>3, <2>5
    <3> HIDE DEF on
    <3>3. v \in Deletions(d, rs) /\ v.gone = w.gone \cup hit /\ v.queue = Append(w.queue, hit)
            /\ v.cleared = w.cleared /\ v.ok = w.ok /\ v.fired = w.fired \cup {e}
      BY <2>3, <2>5, <3>1, <3>2 DEF Deletions
    <3>4. Cascades(d, rs, w, v, e)
      BY <2>2, <2>7, <3>3 DEF Cascades, Fires, hit
    <3> QED BY <2>2, <3>3, <3>4 DEF FireOutcome
  <2>8. CASE hit # {} /\ e[2].ref.on = "null" /\ clears \cap d.tables[e[2].from].must = {}
    <3>1. v = [on EXCEPT !.cleared = @ \cup (hit \X clears)]
      <4>1. e[2].ref.on # "cascade"
        BY <2>8
      <4> QED BY <1>5, <2>8, <4>1, Zenon DEF Fire, due, e, hit, clears
    <3>2. hit \X clears \in SUBSET ((DOMAIN rs) \X Columns(d))
      BY <2>3, <2>4 DEF clears
    <3> HIDE DEF on
    <3>3. v \in Deletions(d, rs) /\ v.gone = w.gone /\ v.queue = w.queue
            /\ v.cleared = w.cleared \cup (hit \X clears) /\ v.ok = w.ok /\ v.fired = w.fired \cup {e}
      BY <2>5, <3>1, <3>2 DEF Deletions
    <3>4. Empties(d, rs, w, v, e)
      BY <2>2, <2>8, <3>3 DEF Empties, Fires, hit, clears
    <3> QED BY <2>2, <3>3, <3>4 DEF FireOutcome
  <2>9. CASE /\ hit # {} /\ e[2].ref.on # "cascade"
             /\ ~ (e[2].ref.on = "null" /\ clears \cap d.tables[e[2].from].must = {})
    <3>1. v = [on EXCEPT !.ok = FALSE]
      BY <1>5, <2>9, Zenon DEF Fire, due, e, hit, clears
    <3> HIDE DEF on
    <3>2. v \in Deletions(d, rs) /\ v.gone = w.gone /\ v.queue = w.queue
            /\ v.cleared = w.cleared /\ v.ok = FALSE /\ v.fired = w.fired \cup {e}
      BY <2>5, <3>1 DEF Deletions
    <3>3. Refuses(d, rs, w, v, e)
      BY <2>2, <3>2 DEF Refuses, Fires
    <3> QED BY <2>2, <3>2, <3>3 DEF FireOutcome
  <2> QED BY <2>6, <2>7, <2>8, <2>9
<1> QED BY <1>4, <1>5

LEMMA DeletionTurns ==
    ASSUME NEW d, NEW rs, RefsOK(d), IsFiniteSet(DOMAIN rs)
    PROVE  WindsDown(Deletions(d, rs), Ended(d, rs), Fired(d, rs), ToFire(d, rs))
<1> DEFINE D == Deletions(d, rs)
           E == Events(d, rs)
<1>1. IsFiniteSet(E)
  BY FS_Product DEF Events, RefsOK
<1>2. \A w \in D : IsFiniteSet(E \ w.fired)
  BY <1>1, FS_Subset
<1>3. \A w \in D : Cardinality(E \ w.fired) \in Nat
  BY <1>2, FS_CardinalityType
<1>4. \A w \in D : Len(w.queue) \in Nat
  BY LenProperties DEF Deletions
<1>5. \A w \in D : ToFire(d, rs)[w] = 2 * Cardinality(E \ w.fired) + Len(w.queue)
  BY DEF ToFire
<1>6. ASSUME NEW w \in D PROVE ToFire(d, rs)[w] \in Nat
  <2> DEFINE c == Cardinality(E \ w.fired)
             l == Len(w.queue)
  <2>1. ToFire(d, rs)[w] = 2 * c + l /\ c \in Nat /\ l \in Nat
    BY <1>3, <1>4, <1>5
  <2> HIDE DEF c, l
  <2> QED BY <2>1
<1>7. ASSUME NEW w \in D \ Ended(d, rs)
      PROVE  Fired(d, rs)[w] \in D /\ ToFire(d, rs)[Fired(d, rs)[w]] < ToFire(d, rs)[w]
  <2> DEFINE v    == Fire(d, rs, w)
             left == Cardinality(E \ w.fired)
             more == Cardinality(E \ v.fired)
  <2>1. v \in D /\ FireOutcome(d, rs, w, v)
    BY FireTurns
  <2>2. Fired(d, rs)[w] = v
    BY DEF Fired
  <2>3. w.queue \in Seq(SUBSET DOMAIN rs) /\ w.queue # <<>> /\ w.fired \in SUBSET E
    BY DEF Ended, Deletions
  <2> HIDE DEF v
  <2>4. CASE Returns(d, rs, w, v)
    <3>1. v.fired = w.fired /\ Len(v.queue) = Len(w.queue) - 1 /\ Len(w.queue) \in Nat
      BY <2>3, <2>4, TailIs DEF Returns
    <3>2. ToFire(d, rs)[v] = 2 * left + (Len(w.queue) - 1)
      BY <1>5, <2>1, <3>1
    <3>3. ToFire(d, rs)[w] = 2 * left + Len(w.queue) /\ left \in Nat
      BY <1>3, <1>5
    <3> DEFINE l == Len(w.queue)
    <3>4. ToFire(d, rs)[v] = 2 * left + (l - 1) /\ ToFire(d, rs)[w] = 2 * left + l /\ l \in Nat /\ left \in Nat
      BY <3>1, <3>2, <3>3
    <3> HIDE DEF left, l
    <3>5. ToFire(d, rs)[v] < ToFire(d, rs)[w]
      BY <3>4
    <3> QED BY <2>1, <2>2, <3>5
  <2>5. ASSUME NEW e \in E, Fires(d, rs, w, v, e), Len(v.queue) <= Len(w.queue) + 1
        PROVE  ToFire(d, rs)[v] < ToFire(d, rs)[w]
    <3>1. e \notin w.fired /\ v.fired = w.fired \cup {e}
      BY <2>5 DEF Fires, Due
    <3>2. more = left - 1 /\ more \in Nat /\ left \in Nat
      <4>1. /\ left \in Nat /\ Cardinality(E \ (w.fired \cup {e})) \in Nat
            /\ Cardinality(E \ (w.fired \cup {e})) = left - 1
        <5> HIDE DEF E
        <5> QED BY <1>1, <2>3, <3>1, Unvisited
      <4> QED BY <3>1, <4>1
    <3> DEFINE l == Len(w.queue)
               m == Len(v.queue)
    <3>3. /\ ToFire(d, rs)[v] = 2 * more + m /\ m \in Nat
          /\ ToFire(d, rs)[w] = 2 * left + l /\ l \in Nat /\ m <= l + 1
      BY <1>4, <1>5, <2>1, <2>5
    <3> HIDE DEF left, more, l, m
    <3> QED BY <3>2, <3>3
  <2>6. ASSUME NEW e \in E, Cascades(d, rs, w, v, e)
        PROVE  Fires(d, rs, w, v, e) /\ Len(v.queue) <= Len(w.queue) + 1
    <3>1. Referring(rs, w, e) \in SUBSET DOMAIN rs
      BY DEF Referring, In
    <3>2. Len(v.queue) = Len(w.queue) + 1 /\ Len(w.queue) \in Nat
      BY <2>3, <2>6, <3>1, AppendIs DEF Cascades
    <3> QED BY <2>6, <3>2 DEF Cascades
  <2>7. ASSUME NEW e \in E,
               PassesBy(d, rs, w, v, e) \/ Empties(d, rs, w, v, e) \/ Refuses(d, rs, w, v, e)
        PROVE  Fires(d, rs, w, v, e) /\ Len(v.queue) <= Len(w.queue) + 1
    <3>1. Len(w.queue) \in Nat
      BY <1>4
    <3> QED BY <2>7, <3>1 DEF PassesBy, Empties, Refuses
  <2> QED BY <2>1, <2>2, <2>4, <2>5, <2>6, <2>7 DEF FireOutcome
<1> QED BY <1>6, <1>7 DEF WindsDown

LEMMA BegunIsDeletion ==
    ASSUME NEW d, NEW rs, NEW first \in SUBSET DOMAIN rs
    PROVE  Begun(first) \in Deletions(d, rs)
BY DEF Begun, Deletions

\* What holds when a deletion begins and is kept by each turn holds of what it does.
LEMMA DeletedKeeps ==
    ASSUME NEW d, NEW rs, RefsOK(d), IsFiniteSet(DOMAIN rs), NEW first,
           NEW I \in SUBSET Deletions(d, rs), Begun(first) \in I,
           \A w \in I \ Ended(d, rs) : Fire(d, rs, w) \in I
    PROVE  Deleted(d, rs, first) \in I \cap Ended(d, rs)
<1> DEFINE D == Deletions(d, rs)
           Unfold(g) == g = [w \in D |-> IF w.queue = <<>> \/ ~w.ok THEN w ELSE g[Fire(d, rs, w)]]
           ends == CHOOSE g : Unfold(g)
<1>1. ASSUME NEW g PROVE Unfold(g) <=> Loop(g, D, Ended(d, rs), Same(d, rs), Fired(d, rs))
  <2>1. ASSUME NEW w \in D
        PROVE  (IF w.queue = <<>> \/ ~w.ok THEN w ELSE g[Fire(d, rs, w)])
                 = (IF w \in Ended(d, rs) THEN Same(d, rs)[w] ELSE g[Fired(d, rs)[w]])
    BY DEF Ended, Same, Fired
  <2>2. [w \in D |-> IF w.queue = <<>> \/ ~w.ok THEN w ELSE g[Fire(d, rs, w)]]
          = [w \in D |-> IF w \in Ended(d, rs) THEN Same(d, rs)[w] ELSE g[Fired(d, rs)[w]]]
    BY <2>1
  <2> QED BY <2>2 DEF Loop
<1>2. WindsDown(D, Ended(d, rs), Fired(d, rs), ToFire(d, rs))
  BY DeletionTurns
<1>3. \E g : Loop(g, D, Ended(d, rs), Same(d, rs), Fired(d, rs))
  BY <1>2, LoopComputes
<1>4. Deleted(d, rs, first) = ends[Begun(first)]
  BY DEF Deleted, Begun
<1> HIDE DEF Unfold
<1>5. Unfold(ends)
  BY <1>1, <1>3
<1>6. Loop(ends, D, Ended(d, rs), Same(d, rs), Fired(d, rs))
  BY <1>1, <1>5
<1> HIDE DEF ends
<1>7. \A w \in I \ Ended(d, rs) : Fired(d, rs)[w] \in I
  BY DEF Fired
<1>8. \E v \in I \cap Ended(d, rs) : ends[Begun(first)] = Same(d, rs)[v]
  <2>1. I \in SUBSET D /\ Begun(first) \in I
    OBVIOUS
  <2> HIDE DEF D
  <2> QED BY <1>2, <1>6, <1>7, <2>1, LoopKeeps
<1> QED BY <1>4, <1>8 DEF Same

-----------------------------------------------------------------------------
(* What a deletion takes along, and what it leaves.                        *)

\* A row refers to one by a reference of its table.
Points(d, rs, q, f, p) ==
    f \in d.refs /\ f.from = rs[q].t /\ f.ref.to = rs[p].t /\ Value(rs[q], f.ref.col) = p

QueueGone(w) == \A i \in 1 .. Len(w.queue) : w.queue[i] \in SUBSET w.gone

Linked(d, rs, first, w) ==
    /\ first \in SUBSET w.gone
    /\ \A q \in w.gone \ first : \E p \in w.gone, f \in d.refs :
          Points(d, rs, q, f, p) /\ f.ref.on = "cascade"

MayEmpty(d, rs, w) ==
    \A x \in w.cleared : \E f \in d.refs :
        /\ f.from = rs[x[1]].t /\ f.ref.on = "null"
        /\ x[2] \in Clears(f.ref) /\ Clears(f.ref) \cap d.tables[f.from].must = {}

\* An event that fired left nothing that refers to its row.
Swept(rs, w) ==
    w.ok => \A e \in w.fired : \A q \in In(rs, e[2].from) :
        Value(rs[q], e[2].ref.col) = e[1] => q \in w.gone \/ <<q, e[2].ref.col>> \in w.cleared

\* An event that has not fired is of a row that is in the queue.
Pending(d, rs, w) ==
    w.ok => \A p \in w.gone, f \in d.refs :
        f.ref.to = rs[p].t => <<p, f>> \in w.fired \/ \E i \in 1 .. Len(w.queue) : p \in w.queue[i]

LEMMA QueueGoneKept ==
    ASSUME NEW d, NEW rs, RefsOK(d), NEW w \in Deletions(d, rs), w \notin Ended(d, rs), QueueGone(w)
    PROVE  QueueGone(Fire(d, rs, w)) /\ Head(w.queue) \in SUBSET w.gone
<1> DEFINE v == Fire(d, rs, w)
<1>1. v \in Deletions(d, rs) /\ FireOutcome(d, rs, w, v)
  BY FireTurns
<1>2. w.queue \in Seq(SUBSET DOMAIN rs) /\ w.queue # <<>>
  BY DEF Ended, Deletions
<1> HIDE DEF v
<1>3. Head(w.queue) \in SUBSET w.gone
  BY <1>2, TailIs DEF QueueGone
<1>4. CASE Returns(d, rs, w, v)
  <2>1. \A i \in 1 .. Len(v.queue) : i + 1 \in 1 .. Len(w.queue) /\ v.queue[i] = w.queue[i + 1]
    BY <1>2, <1>4, TailIs DEF Returns
  <2> QED BY <1>3, <1>4, <2>1 DEF QueueGone, Returns, v
<1>5. ASSUME NEW e, Cascades(d, rs, w, v, e) PROVE QueueGone(v)
  <2> DEFINE hit == Referring(rs, w, e)
  <2>1. hit \in SUBSET DOMAIN rs
    BY DEF Referring, In
  <2>2. v.queue = Append(w.queue, hit) /\ v.gone = w.gone \cup hit
    BY <1>5 DEF Cascades
  <2> HIDE DEF hit
  <2>3. /\ Len(v.queue) = Len(w.queue) + 1 /\ Len(w.queue) \in Nat
        /\ \A i \in 1 .. Len(w.queue) : v.queue[i] = w.queue[i]
        /\ v.queue[Len(w.queue) + 1] = hit
    BY <1>2, <2>1, <2>2, AppendIs
  <2>4. \A i \in 1 .. Len(v.queue) : i \in 1 .. Len(w.queue) \/ i = Len(w.queue) + 1
    BY <2>3
  <2> QED BY <2>2, <2>3, <2>4 DEF QueueGone
<1>6. ASSUME NEW e, PassesBy(d, rs, w, v, e) \/ Empties(d, rs, w, v, e) \/ Refuses(d, rs, w, v, e)
      PROVE  QueueGone(v)
  BY <1>6 DEF QueueGone, PassesBy, Empties, Refuses
<1> QED BY <1>1, <1>3, <1>4, <1>5, <1>6 DEF FireOutcome, v

\* A row that a deletion takes along refers to one that is gone, by a reference that cascades.
LEMMA GoneIsLinked ==
    ASSUME NEW d, NEW rs, RefsOK(d), IsFiniteSet(DOMAIN rs), NEW first \in SUBSET DOMAIN rs
    PROVE  /\ Deleted(d, rs, first) \in Deletions(d, rs)
           /\ Linked(d, rs, first, Deleted(d, rs, first))
           /\ MayEmpty(d, rs, Deleted(d, rs, first))
<1> DEFINE I == {w \in Deletions(d, rs) : QueueGone(w) /\ Linked(d, rs, first, w) /\ MayEmpty(d, rs, w)}
<1>1. Begun(first) \in I
  <2>1. /\ Begun(first) \in Deletions(d, rs)
        /\ Begun(first).gone = first /\ Begun(first).cleared = {} /\ Begun(first).queue = <<first>>
    BY BegunIsDeletion DEF Begun
  <2>2. QueueGone(Begun(first))
    BY <2>1 DEF QueueGone
  <2>3. Linked(d, rs, first, Begun(first)) /\ MayEmpty(d, rs, Begun(first))
    BY <2>1 DEF Linked, MayEmpty
  <2> QED BY <2>1, <2>2, <2>3
<1>2. ASSUME NEW w \in I \ Ended(d, rs) PROVE Fire(d, rs, w) \in I
  <2> DEFINE v == Fire(d, rs, w)
  <2>1. w \in Deletions(d, rs) /\ w \notin Ended(d, rs) /\ QueueGone(w) /\ Linked(d, rs, first, w)
          /\ MayEmpty(d, rs, w)
    OBVIOUS
  <2>2. v \in Deletions(d, rs) /\ FireOutcome(d, rs, w, v) /\ QueueGone(v) /\ Head(w.queue) \in SUBSET w.gone
    BY <2>1, FireTurns, QueueGoneKept
  <2> HIDE DEF v
  <2>3. ASSUME NEW e, Cascades(d, rs, w, v, e) PROVE Linked(d, rs, first, v) /\ MayEmpty(d, rs, v)
    <3>1. /\ v.gone = w.gone \cup Referring(rs, w, e) /\ v.cleared = w.cleared
          /\ e[2].ref.on = "cascade" /\ e \in Due(d, rs, w)
      BY <2>3 DEF Cascades, Fires
    <3>2. e[1] \in w.gone /\ e[2] \in d.refs /\ e[2].ref.to = rs[e[1]].t
      BY <2>2, <3>1 DEF Due
    <3>3. \A q \in Referring(rs, w, e) : Points(d, rs, q, e[2], e[1])
      BY <3>2 DEF Referring, In, Points
    <3>4. \A q \in v.gone \ first : \E p \in v.gone, f \in d.refs :
             Points(d, rs, q, f, p) /\ f.ref.on = "cascade"
      <4> TAKE q \in v.gone \ first
      <4>1. CASE q \in w.gone
        BY <2>1, <3>1, <4>1 DEF Linked
      <4>2. CASE q \notin w.gone
        BY <3>1, <3>2, <3>3, <4>2
      <4> QED BY <4>1, <4>2
    <3> QED BY <2>1, <3>1, <3>4 DEF Linked, MayEmpty
  <2>4. ASSUME NEW e, Empties(d, rs, w, v, e) PROVE Linked(d, rs, first, v) /\ MayEmpty(d, rs, v)
    <3>1. /\ v.cleared = w.cleared \cup (Referring(rs, w, e) \X Clears(e[2].ref)) /\ v.gone = w.gone
          /\ e[2].ref.on = "null" /\ e \in Due(d, rs, w)
          /\ Clears(e[2].ref) \cap d.tables[e[2].from].must = {}
      BY <2>4 DEF Empties, Fires
    <3>2. e[2] \in d.refs
      BY <3>1 DEF Due
    <3>3. \A x \in Referring(rs, w, e) \X Clears(e[2].ref) : e[2].from = rs[x[1]].t /\ x[2] \in Clears(e[2].ref)
      BY DEF Referring, In
    <3>4. MayEmpty(d, rs, v)
      BY <2>1, <3>1, <3>2, <3>3 DEF MayEmpty
    <3> QED BY <2>1, <3>1, <3>4 DEF Linked
  <2>5. ASSUME v.gone = w.gone /\ v.cleared = w.cleared PROVE Linked(d, rs, first, v) /\ MayEmpty(d, rs, v)
    BY <2>1, <2>5 DEF Linked, MayEmpty
  <2>6. Linked(d, rs, first, v) /\ MayEmpty(d, rs, v)
    BY <2>2, <2>3, <2>4, <2>5 DEF FireOutcome, Returns, PassesBy, Refuses
  <2> QED BY <2>2, <2>6 DEF v
<1>3. Deleted(d, rs, first) \in I \cap Ended(d, rs)
  BY <1>1, <1>2, DeletedKeeps
<1> QED BY <1>3

\* A deletion stays within any rows that no reference that cascades leads out of.
LEMMA GoneIsWithin ==
    ASSUME NEW d, NEW rs, RefsOK(d), IsFiniteSet(DOMAIN rs), NEW first \in SUBSET DOMAIN rs,
           NEW G, first \in SUBSET G,
           \A p \in G, q \in DOMAIN rs, f \in d.refs :
              Points(d, rs, q, f, p) /\ f.ref.on = "cascade" => q \in G
    PROVE  Deleted(d, rs, first).gone \in SUBSET G
<1> DEFINE I == {w \in Deletions(d, rs) : QueueGone(w) /\ w.gone \in SUBSET G}
<1>1. Begun(first) \in I
  <2>1. Begun(first) \in Deletions(d, rs) /\ Begun(first).gone = first /\ Begun(first).queue = <<first>>
    BY BegunIsDeletion DEF Begun
  <2> QED BY <2>1 DEF QueueGone
<1>2. ASSUME NEW w \in I \ Ended(d, rs) PROVE Fire(d, rs, w) \in I
  <2> DEFINE v == Fire(d, rs, w)
  <2>1. w \in Deletions(d, rs) /\ w \notin Ended(d, rs) /\ QueueGone(w) /\ w.gone \in SUBSET G
    OBVIOUS
  <2>2. v \in Deletions(d, rs) /\ FireOutcome(d, rs, w, v) /\ QueueGone(v) /\ Head(w.queue) \in SUBSET w.gone
    BY <2>1, FireTurns, QueueGoneKept
  <2> HIDE DEF v
  <2>3. ASSUME NEW e, Cascades(d, rs, w, v, e) PROVE v.gone \in SUBSET G
    <3>1. v.gone = w.gone \cup Referring(rs, w, e) /\ e[2].ref.on = "cascade" /\ e \in Due(d, rs, w)
      BY <2>3 DEF Cascades, Fires
    <3>2. e[1] \in G /\ e[2] \in d.refs /\ e[2].ref.to = rs[e[1]].t
      BY <2>1, <2>2, <3>1 DEF Due
    <3>3. \A q \in Referring(rs, w, e) : q \in DOMAIN rs /\ Points(d, rs, q, e[2], e[1])
      BY <3>2 DEF Referring, In, Points
    <3> QED BY <2>1, <3>1, <3>2, <3>3
  <2>4. v.gone \in SUBSET G
    BY <2>1, <2>2, <2>3 DEF FireOutcome, Returns, PassesBy, Empties, Refuses
  <2> QED BY <2>2, <2>4 DEF v
<1>3. Deleted(d, rs, first) \in I \cap Ended(d, rs)
  BY <1>1, <1>2, DeletedKeeps
<1> QED BY <1>3

\* A deletion that the database accepts leaves no row that still refers to one that is gone.
LEMMA NothingDangles ==
    ASSUME NEW d, NEW rs, RefsOK(d), IsFiniteSet(DOMAIN rs), NEW first \in SUBSET DOMAIN rs,
           Deleted(d, rs, first).ok
    PROVE  LET w == Deleted(d, rs, first) IN
           \A p \in w.gone, q \in DOMAIN rs \ w.gone, f \in d.refs :
              Points(d, rs, q, f, p) => <<q, f.ref.col>> \in w.cleared
<1> DEFINE I == {w \in Deletions(d, rs) : QueueGone(w) /\ Swept(rs, w) /\ Pending(d, rs, w)}
<1>1. Begun(first) \in I
  <2>1. /\ Begun(first) \in Deletions(d, rs) /\ Begun(first).gone = first
        /\ Begun(first).queue = <<first>> /\ Begun(first).fired = {}
    BY BegunIsDeletion DEF Begun
  <2>2. QueueGone(Begun(first)) /\ Swept(rs, Begun(first))
    BY <2>1 DEF QueueGone, Swept
  <2>3. 1 \in 1 .. Len(Begun(first).queue) /\ Begun(first).queue[1] = first
    BY <2>1
  <2>4. Pending(d, rs, Begun(first))
    BY <2>1, <2>3 DEF Pending
  <2> QED BY <2>1, <2>2, <2>4
<1>2. ASSUME NEW w \in I \ Ended(d, rs) PROVE Fire(d, rs, w) \in I
  <2> DEFINE v == Fire(d, rs, w)
  <2>1. w \in Deletions(d, rs) /\ w \notin Ended(d, rs) /\ QueueGone(w) /\ Swept(rs, w) /\ Pending(d, rs, w)
    OBVIOUS
  <2>2. v \in Deletions(d, rs) /\ FireOutcome(d, rs, w, v) /\ QueueGone(v)
    BY <2>1, FireTurns, QueueGoneKept
  <2>3. w.ok /\ w.queue \in Seq(SUBSET DOMAIN rs) /\ w.queue # <<>> /\ w.gone \in SUBSET DOMAIN rs
    BY <2>1 DEF Ended, Deletions
  <2> HIDE DEF v
  <2>4. ASSUME Returns(d, rs, w, v) PROVE Swept(rs, v) /\ Pending(d, rs, v)
    <3>1. Swept(rs, v)
      BY <2>1, <2>4 DEF Swept, Returns
    <3>2. ASSUME NEW p \in v.gone, NEW f \in d.refs, f.ref.to = rs[p].t, <<p, f>> \notin v.fired
          PROVE  \E i \in 1 .. Len(v.queue) : p \in v.queue[i]
      <4>1. PICK i \in 1 .. Len(w.queue) : p \in w.queue[i]
        BY <2>1, <2>3, <2>4, <3>2 DEF Pending, Returns
      <4>2. /\ Len(v.queue) = Len(w.queue) - 1 /\ Len(w.queue) \in Nat
            /\ \A j \in 1 .. Len(w.queue) - 1 : v.queue[j] = w.queue[j + 1]
            /\ Head(w.queue) = w.queue[1]
        BY <2>3, <2>4, TailIs DEF Returns
      <4>3. i # 1
        <5> SUFFICES ASSUME i = 1 PROVE FALSE
          OBVIOUS
        <5>1. p \in Head(w.queue)
          BY <4>1, <4>2
        <5>2. <<p, f>> \in Due(d, rs, w)
          BY <2>4, <3>2, <5>1 DEF Due, Returns
        <5> QED BY <2>4, <5>2 DEF Returns
      <4>4. i - 1 \in 1 .. Len(v.queue) /\ v.queue[i - 1] = w.queue[i]
        BY <4>1, <4>2, <4>3
      <4> QED BY <4>1, <4>4
    <3> QED BY <3>1, <3>2, Zenon DEF Pending
  <2>5. ASSUME NEW e, Fires(d, rs, w, v, e), v.ok, w.gone \in SUBSET v.gone, w.cleared \in SUBSET v.cleared,
               \A q \in Referring(rs, w, e) : q \in v.gone \/ <<q, e[2].ref.col>> \in v.cleared
        PROVE  Swept(rs, v)
    <3>1. v.fired = w.fired \cup {e}
      BY <2>5 DEF Fires
    <3>2. \A q \in In(rs, e[2].from) : Value(rs[q], e[2].ref.col) = e[1]
             => q \in w.gone \/ <<q, e[2].ref.col>> \in w.cleared \/ q \in Referring(rs, w, e)
      BY DEF Referring
    <3> QED BY <2>1, <2>3, <2>5, <3>1, <3>2 DEF Swept
  <2>6. ASSUME NEW e, Fires(d, rs, w, v, e), v.gone = w.gone, v.queue = w.queue PROVE Pending(d, rs, v)
    BY <2>1, <2>3, <2>6 DEF Pending, Fires
  <2>7. ASSUME NEW e, PassesBy(d, rs, w, v, e) PROVE Swept(rs, v) /\ Pending(d, rs, v)
    <3>1. Fires(d, rs, w, v, e) /\ v.gone = w.gone /\ v.queue = w.queue /\ v.cleared = w.cleared /\ v.ok
            /\ Referring(rs, w, e) = {}
      BY <2>3, <2>7 DEF PassesBy
    <3> QED BY <2>5, <2>6, <3>1
  <2>8. ASSUME NEW e, Empties(d, rs, w, v, e) PROVE Swept(rs, v) /\ Pending(d, rs, v)
    <3>1. /\ Fires(d, rs, w, v, e) /\ v.gone = w.gone /\ v.queue = w.queue /\ v.ok
          /\ v.cleared = w.cleared \cup (Referring(rs, w, e) \X Clears(e[2].ref))
      BY <2>3, <2>8 DEF Empties
    <3>2. e[2].ref.col \in Clears(e[2].ref)
      BY DEF Clears
    <3> QED BY <2>5, <2>6, <3>1, <3>2
  <2>9. ASSUME NEW e, Cascades(d, rs, w, v, e) PROVE Swept(rs, v) /\ Pending(d, rs, v)
    <3> DEFINE hit == Referring(rs, w, e)
    <3>1. /\ Fires(d, rs, w, v, e) /\ v.gone = w.gone \cup hit /\ v.queue = Append(w.queue, hit) /\ v.ok
          /\ v.cleared = w.cleared /\ w.fired \in SUBSET v.fired
      BY <2>3, <2>9 DEF Cascades, Fires
    <3>2. hit \in SUBSET DOMAIN rs
      BY DEF Referring, In
    <3>3. Swept(rs, v)
      BY <2>5, <3>1
    <3> HIDE DEF hit
    <3>4. /\ Len(v.queue) = Len(w.queue) + 1 /\ Len(w.queue) \in Nat
          /\ \A i \in 1 .. Len(w.queue) : v.queue[i] = w.queue[i]
          /\ v.queue[Len(w.queue) + 1] = hit
      BY <2>3, <3>1, <3>2, AppendIs
    <3>5. ASSUME NEW p \in v.gone, NEW f \in d.refs, f.ref.to = rs[p].t, <<p, f>> \notin v.fired
          PROVE  \E i \in 1 .. Len(v.queue) : p \in v.queue[i]
      <4>1. CASE p \in hit
        <5>1. Len(w.queue) + 1 \in 1 .. Len(v.queue)
          BY <3>4
        <5> QED BY <3>4, <4>1, <5>1
      <4>2. CASE p \in w.gone
        <5>1. PICK i \in 1 .. Len(w.queue) : p \in w.queue[i]
          BY <2>1, <2>3, <3>1, <3>5, <4>2 DEF Pending
        <5>2. i \in 1 .. Len(v.queue) /\ v.queue[i] = w.queue[i]
          BY <3>4
        <5> QED BY <5>1, <5>2
      <4> QED BY <3>1, <4>1, <4>2
    <3> QED BY <3>3, <3>5 DEF Pending
  <2>10. ASSUME NEW e, Refuses(d, rs, w, v, e) PROVE Swept(rs, v) /\ Pending(d, rs, v)
    BY <2>10 DEF Refuses, Swept, Pending
  <2>11. Swept(rs, v) /\ Pending(d, rs, v)
    <3>1. CASE Returns(d, rs, w, v)
      BY <2>4, <3>1, Zenon
    <3>2. CASE \E e \in Events(d, rs) : \/ PassesBy(d, rs, w, v, e) \/ Cascades(d, rs, w, v, e)
                                        \/ Empties(d, rs, w, v, e) \/ Refuses(d, rs, w, v, e)
      BY <2>7, <2>8, <2>9, <2>10, <3>2, Zenon
    <3> QED BY <2>2, <3>1, <3>2, Zenon DEF FireOutcome
  <2> QED BY <2>2, <2>11 DEF v
<1>3. Deleted(d, rs, first) \in I \cap Ended(d, rs)
  BY <1>1, <1>2, DeletedKeeps
<1> DEFINE w == Deleted(d, rs, first)
<1>4. w.queue = <<>> /\ Swept(rs, w) /\ Pending(d, rs, w)
  BY <1>3 DEF Ended
<1>5. ASSUME NEW p \in w.gone, NEW q \in DOMAIN rs \ w.gone, NEW f \in d.refs, Points(d, rs, q, f, p)
      PROVE  <<q, f.ref.col>> \in w.cleared
  <2>1. Len(w.queue) = 0
    BY <1>4
  <2>2. <<p, f>> \in w.fired
    BY <1>4, <1>5, <2>1 DEF Pending, Points
  <2>3. q \in In(rs, f.from)
    BY <1>5 DEF Points, In
  <2> HIDE DEF w
  <2> DEFINE e == <<p, f>>
  <2>4. e \in w.fired /\ e[1] = p /\ e[2] = f
    BY <2>2
  <2> HIDE DEF e
  <2>5. Value(rs[q], e[2].ref.col) = e[1] /\ q \in In(rs, e[2].from) /\ w.ok
    BY <1>5, <2>3, <2>4 DEF Points, w
  <2>6. q \in w.gone \/ <<q, e[2].ref.col>> \in w.cleared
    BY <1>4, <2>4, <2>5 DEF Swept
  <2> QED BY <2>4, <2>6
<1> QED BY <1>5

-----------------------------------------------------------------------------
(* What a statement does to the schema.                                    *)
TableOK(tab) == tab = [must |-> tab.must, opt |-> tab.opt, keys |-> tab.keys]

DbOK(d) == RefsOK(d) /\ \A t \in DOMAIN d.tables : TableOK(d.tables[t])

\* A statement adds a list of references.
Sound(o) == IsList(NewRefs(o))

\* The references it adds.
Adds(o) == {[from |-> o.t, ref |-> NewRefs(o)[i]] : i \in DOMAIN NewRefs(o)}

LEMMA AlteredIs ==
    ASSUME NEW tab, NEW o
    PROVE  LET new == Altered(tab, o) IN
      /\ o.op = "table" \/ TableOK(tab) => TableOK(new)
      /\ o.op = "table" => new.must = o.must /\ new.opt = o.opt /\ new.keys = o.keys
      /\ o.op = "add" => new.must = tab.must \cup o.must /\ new.opt = tab.opt \cup o.opt /\ new.keys = tab.keys
      /\ o.op = "remove" => /\ new.must = tab.must \ o.cols /\ new.opt = tab.opt \ o.cols
                            /\ new.keys = {k \in tab.keys : k \cap o.cols = {}}
      /\ o.op = "relax" => /\ new.must = tab.must \ {o.col} /\ new.opt = tab.opt \cup {o.col}
                           /\ new.keys = tab.keys
      /\ o.op = "require" => /\ new.must = tab.must \cup {o.col} /\ new.opt = tab.opt \ {o.col}
                             /\ new.keys = tab.keys
      /\ o.op = "key" => new.must = tab.must /\ new.opt = tab.opt /\ new.keys = tab.keys \cup {o.key}
      /\ o.op = "drop_key" => new.must = tab.must /\ new.opt = tab.opt /\ new.keys = tab.keys \ {o.key}
      /\ o.op \notin {"table", "add", "remove", "relax", "require", "key", "drop_key"} => new = tab
<1> DEFINE new == Altered(tab, o)
<1>1. o.op = "table" => TableOK(new) /\ new.must = o.must /\ new.opt = o.opt /\ new.keys = o.keys
  BY DEF Altered, TableOK
<1>2. o.op = "add" => /\ TableOK(new) /\ new.must = tab.must \cup o.must /\ new.opt = tab.opt \cup o.opt
                      /\ new.keys = tab.keys
  BY DEF Altered, TableOK
<1>3. o.op = "remove" => /\ TableOK(new) /\ new.must = tab.must \ o.cols /\ new.opt = tab.opt \ o.cols
                         /\ new.keys = {k \in tab.keys : k \cap o.cols = {}}
  BY DEF Altered, TableOK
<1>4. o.op = "relax" => /\ TableOK(new) /\ new.must = tab.must \ {o.col} /\ new.opt = tab.opt \cup {o.col}
                        /\ new.keys = tab.keys
  BY DEF Altered, TableOK
<1>5. o.op = "require" => /\ TableOK(new) /\ new.must = tab.must \cup {o.col} /\ new.opt = tab.opt \ {o.col}
                          /\ new.keys = tab.keys
  BY DEF Altered, TableOK
<1>6. o.op = "key" => TableOK(new) /\ new.must = tab.must /\ new.opt = tab.opt /\ new.keys = tab.keys \cup {o.key}
  BY DEF Altered, TableOK
<1>7. o.op = "drop_key" => TableOK(new) /\ new.must = tab.must /\ new.opt = tab.opt /\ new.keys = tab.keys \ {o.key}
  BY DEF Altered, TableOK
<1>8. o.op \notin {"table", "add", "remove", "relax", "require", "key", "drop_key"} => new = tab
  BY DEF Altered
<1> HIDE DEF new
<1>9. TableOK(tab) => TableOK(new)
  BY <1>1, <1>2, <1>3, <1>4, <1>5, <1>6, <1>7, <1>8
<1> QED BY <1>1, <1>2, <1>3, <1>4, <1>5, <1>6, <1>7, <1>8, <1>9 DEF new

\* Only the table of a statement changes, and only a new or a dropped one comes or goes.
LEMMA AlterTables ==
    ASSUME NEW d, NEW o, NEW t
    PROVE  /\ t # o.t => /\ t \in DOMAIN Alter(d, o).tables <=> t \in DOMAIN d.tables
                         /\ t \in DOMAIN d.tables => Alter(d, o).tables[t] = d.tables[t]
           /\ t = o.t => /\ o.op = "table" => t \in DOMAIN Alter(d, o).tables
                         /\ o.op = "drop" => t \notin DOMAIN Alter(d, o).tables
                         /\ o.op \notin {"table", "drop"} =>
                              (t \in DOMAIN Alter(d, o).tables <=> t \in DOMAIN d.tables)
                         /\ t \in DOMAIN Alter(d, o).tables => Alter(d, o).tables[t] = Altered(d.tables[t], o)
<1> DEFINE T == CASE o.op = "table" -> DOMAIN d.tables \cup {o.t}
                  [] o.op = "drop"  -> DOMAIN d.tables \ {o.t}
                  [] OTHER          -> DOMAIN d.tables
<1>1. Alter(d, o).tables = [x \in T |-> IF x = o.t THEN Altered(d.tables[x], o) ELSE d.tables[x]]
  BY DEF Alter
<1>2. /\ o.op = "table" => T = DOMAIN d.tables \cup {o.t}
      /\ o.op = "drop"  => T = DOMAIN d.tables \ {o.t}
      /\ o.op \notin {"table", "drop"} => T = DOMAIN d.tables
  OBVIOUS
<1> HIDE DEF T
<1>3. DOMAIN Alter(d, o).tables = T
  BY <1>1
<1>4. \A x \in T : Alter(d, o).tables[x] = IF x = o.t THEN Altered(d.tables[x], o) ELSE d.tables[x]
  BY <1>1
<1>5. CASE o.op = "table"
  BY <1>2, <1>3, <1>4, <1>5
<1>6. CASE o.op = "drop"
  BY <1>2, <1>3, <1>4, <1>6
<1>7. CASE o.op \notin {"table", "drop"}
  BY <1>2, <1>3, <1>4, <1>7
<1> QED BY <1>5, <1>6, <1>7

LEMMA AlterRefs ==
    ASSUME NEW d, NEW o
    PROVE  /\ Alter(d, o).refs = {f \in d.refs : ~DropsRef(o, f)}
                \cup {[n |-> d.last + i, from |-> o.t, ref |-> NewRefs(o)[i]] : i \in DOMAIN NewRefs(o)}
           /\ Alter(d, o).last = d.last + Len(NewRefs(o))
           /\ Links(Alter(d, o)) \in SUBSET (Links(d) \cup Adds(o))
           /\ \A f \in Alter(d, o).refs : (f \in d.refs /\ ~DropsRef(o, f))
                                           \/ (f.from = o.t /\ \E i \in DOMAIN NewRefs(o) : f.ref = NewRefs(o)[i])
<1> DEFINE N == {[n |-> d.last + i, from |-> o.t, ref |-> NewRefs(o)[i]] : i \in DOMAIN NewRefs(o)}
           K == {f \in d.refs : ~DropsRef(o, f)}
<1>1. Alter(d, o).refs = K \cup N /\ Alter(d, o).last = d.last + Len(NewRefs(o))
  BY DEF Alter
<1>2. \A f \in N : f.from = o.t /\ \E i \in DOMAIN NewRefs(o) : f.ref = NewRefs(o)[i]
  OBVIOUS
<1>3. \A f \in N : [from |-> f.from, ref |-> f.ref] \in Adds(o)
  BY <1>2 DEF Adds
<1>4. \A f \in K : [from |-> f.from, ref |-> f.ref] \in Links(d)
  BY DEF Links
<1>5. \A l \in Links(Alter(d, o)) : l \in Links(d) \cup Adds(o)
  <2> HIDE DEF N, K
  <2> QED BY <1>1, <1>3, <1>4 DEF Links
<1> QED BY <1>1, <1>2, <1>5

LEMMA AlterKeepsShape ==
    ASSUME NEW d, DbOK(d), NEW o, Sound(o)
    PROVE  DbOK(Alter(d, o))
<1>1. ASSUME NEW t \in DOMAIN Alter(d, o).tables PROVE TableOK(Alter(d, o).tables[t])
  <2>1. CASE t # o.t
    <3>1. t \in DOMAIN d.tables /\ Alter(d, o).tables[t] = d.tables[t]
      BY <2>1, AlterTables
    <3> QED BY <3>1 DEF DbOK
  <2>2. CASE t = o.t
    <3>1. Alter(d, o).tables[t] = Altered(d.tables[t], o) /\ (o.op # "table" => t \in DOMAIN d.tables)
      <4>1. o.op = "drop" => t \notin DOMAIN Alter(d, o).tables
        BY <2>2, AlterTables
      <4> QED BY <2>2, <4>1, AlterTables
    <3>2. o.op = "table" \/ TableOK(d.tables[t])
      BY <3>1 DEF DbOK
    <3>3. TableOK(Altered(d.tables[t], o))
      BY <3>2, AlteredIs
    <3> QED BY <3>1, <3>3
  <2> QED BY <2>1, <2>2
<1> DEFINE new == NewRefs(o)
           N == {[n |-> d.last + i, from |-> o.t, ref |-> new[i]] : i \in DOMAIN new}
<1>2. new \in Seq(Ops(new)) /\ Len(new) \in Nat /\ DOMAIN new = 1 .. Len(new)
  BY LenProperties DEF Sound, IsList
<1>3. IsFiniteSet(N)
  <2> DEFINE F == [i \in 1 .. Len(new) |-> [n |-> d.last + i, from |-> o.t, ref |-> new[i]]]
  <2> HIDE DEF new
  <2>1. IsFiniteSet(1 .. Len(new))
    BY <1>2, FS_Interval
  <2>2. N = {F[i] : i \in 1 .. Len(new)}
    BY <1>2
  <2>3. F \in Surjection(1 .. Len(new), N)
    BY <2>2 DEF Surjection
  <2> QED BY <2>1, <2>3, FS_Surjection
<1>4. IsFiniteSet({f \in d.refs : ~DropsRef(o, f)})
  BY FS_Subset DEF DbOK, RefsOK
<1>5. IsFiniteSet(Alter(d, o).refs)
  <2>1. IsFiniteSet({f \in d.refs : ~DropsRef(o, f)} \cup N)
    BY <1>3, <1>4, FS_Union
  <2> QED BY <2>1, AlterRefs
<1>6. \A f \in N : f.n \in Nat
  BY <1>2 DEF DbOK, RefsOK
<1>7. \A f \in Alter(d, o).refs : f.n \in Nat
  BY <1>6, AlterRefs DEF DbOK, RefsOK
<1>8. Alter(d, o).last \in Nat
  BY <1>2, AlterRefs DEF DbOK, RefsOK
<1> QED BY <1>1, <1>5, <1>7, <1>8 DEF DbOK, RefsOK

-----------------------------------------------------------------------------
(* What a statement does to the rows.                                      *)
RowOK(r) == r = [t |-> r.t, v |-> r.v] /\ \A c \in DOMAIN r.v : r.v[c] # "NULL"

RowsOK(rs) == IsFiniteSet(DOMAIN rs) /\ "NULL" \notin DOMAIN rs /\ \A q \in DOMAIN rs : RowOK(rs[q])

\* Rows and columns only go.
PartOf(r, s) ==
    /\ s = [t |-> s.t, v |-> s.v]
    /\ s.t = r.t
    /\ DOMAIN s.v \in SUBSET DOMAIN r.v
    /\ \A c \in DOMAIN s.v : s.v[c] = r.v[c]

Remain(rs, after) ==
    /\ DOMAIN after \in SUBSET DOMAIN rs
    /\ \A q \in DOMAIN after : PartOf(rs[q], after[q])

AllFit(d, rs) == \A q \in DOMAIN rs : Fits(d, rs[q])

LEMMA WithoutIs ==
    ASSUME NEW r, RowOK(r), NEW cols
    PROVE  PartOf(r, Without(r, cols)) /\ DOMAIN Without(r, cols).v = DOMAIN r.v \ cols
<1>1. Without(r, cols) = [t |-> r.t, v |-> [c \in DOMAIN r.v \ cols |-> r.v[c]]]
  BY DEF Without, RowOK
<1> QED BY <1>1 DEF PartOf

LEMMA RemainOK ==
    ASSUME NEW rs, RowsOK(rs), NEW after, Remain(rs, after)
    PROVE  RowsOK(after)
<1>1. IsFiniteSet(DOMAIN after)
  BY FS_Subset DEF RowsOK, Remain
<1>2. ASSUME NEW q \in DOMAIN after PROVE RowOK(after[q])
  <2>1. PartOf(rs[q], after[q]) /\ RowOK(rs[q])
    BY DEF Remain, RowsOK
  <2> QED BY <2>1 DEF PartOf, RowOK
<1> QED BY <1>1, <1>2 DEF RowsOK, Remain

LEMMA RemainAll ==
    ASSUME NEW rs, RowsOK(rs)
    PROVE  Remain(rs, rs)
BY DEF RowsOK, RowOK, Remain, PartOf

LEMMA RemainOn ==
    ASSUME NEW rs, NEW mid, NEW after, Remain(rs, mid), Remain(mid, after)
    PROVE  Remain(rs, after)
<1>1. DOMAIN after \in SUBSET DOMAIN rs
  BY DEF Remain
<1>2. ASSUME NEW q \in DOMAIN after PROVE PartOf(rs[q], after[q])
  <2>1. PartOf(rs[q], mid[q]) /\ PartOf(mid[q], after[q])
    BY DEF Remain
  <2> QED BY <2>1 DEF PartOf
<1> QED BY <1>1, <1>2 DEF Remain

\* A value is NULL exactly where there is none.
LEMMA ValueIs ==
    ASSUME NEW r, RowOK(r), NEW c
    PROVE  /\ Value(r, c) = "NULL" <=> c \notin DOMAIN r.v
           /\ c \in DOMAIN r.v => Value(r, c) = r.v[c]
BY DEF Value, RowOK

\* A deletion that is accepted: what is left, and where columns were cleared.
LEMMA EraseIs ==
    ASSUME NEW d, NEW rs, RefsOK(d), RowsOK(rs), NEW first \in SUBSET DOMAIN rs
    PROVE  LET w     == Deleted(d, rs, first)
               after == Erase(d, rs, first).rows
           IN /\ Erase(d, rs, first).ok = w.ok
              /\ DOMAIN after = DOMAIN rs \ w.gone
              /\ Remain(rs, after)
              /\ \A q \in DOMAIN after : DOMAIN after[q].v = {c \in DOMAIN rs[q].v : <<q, c>> \notin w.cleared}
<1> DEFINE w == Deleted(d, rs, first)
           after == Left(rs, w)
           cut(q) == {c \in DOMAIN rs[q].v : <<q, c>> \in w.cleared}
<1>1. Erase(d, rs, first).ok = w.ok /\ Erase(d, rs, first).rows = after
  BY DEF Erase
<1>2. after = [q \in DOMAIN rs \ w.gone |-> Without(rs[q], cut(q))]
  BY DEF Left
<1> HIDE DEF w
<1>3. DOMAIN after = DOMAIN rs \ w.gone
  BY <1>2
<1>4. ASSUME NEW q \in DOMAIN after
      PROVE  PartOf(rs[q], after[q]) /\ DOMAIN after[q].v = {c \in DOMAIN rs[q].v : <<q, c>> \notin w.cleared}
  <2>1. q \in DOMAIN rs /\ after[q] = Without(rs[q], cut(q))
    BY <1>2, <1>3
  <2>2. RowOK(rs[q])
    BY <2>1 DEF RowsOK
  <2> HIDE DEF after
  <2>3. PartOf(rs[q], after[q]) /\ DOMAIN after[q].v = DOMAIN rs[q].v \ cut(q)
    BY <2>1, <2>2, WithoutIs
  <2> QED BY <2>3
<1> HIDE DEF after
<1>5. Remain(rs, after)
  BY <1>3, <1>4 DEF Remain
<1> QED BY <1>1, <1>3, <1>4, <1>5 DEF w

\* The rows a statement deletes first.
Purged(rs, o) ==
    IF o.op = "superseded" THEN Superseded(rs, o.t) ELSE {q \in In(rs, o.t) : Value(rs[q], o.null) = "NULL"}

LEMMA PurgedAre ==
    ASSUME NEW rs, NEW o
    PROVE  Purged(rs, o) \in SUBSET In(rs, o.t) /\ In(rs, o.t) \in SUBSET DOMAIN rs
BY DEF Purged, Superseded, In

Dropped(rs, t)       == [q \in {p \in DOMAIN rs : rs[p].t # t} |-> rs[q]]
Stripped(rs, t, cols) == [q \in DOMAIN rs |-> IF rs[q].t = t THEN Without(rs[q], cols) ELSE rs[q]]

LEMMA AffectIs ==
    ASSUME NEW d, NEW rs, NEW o
    PROVE  /\ o.op = "drop" => Affect(d, rs, o).rows = Dropped(rs, o.t) /\ Affect(d, rs, o).ok
           /\ o.op = "remove" => Affect(d, rs, o).rows = Stripped(rs, o.t, o.cols) /\ Affect(d, rs, o).ok
           /\ o.op \in {"purge", "superseded"} => Affect(d, rs, o) = Erase(d, rs, Purged(rs, o))
           /\ o.op \notin {"drop", "remove", "purge", "superseded"} =>
                 Affect(d, rs, o).rows = rs /\ Affect(d, rs, o).ok
<1>1. CASE o.op = "drop"
  <2>1. Affect(d, rs, o) = [rows |-> Dropped(rs, o.t), ok |-> TRUE]
    BY <1>1, Zenon DEF Affect, Dropped
  <2> QED BY <1>1, <2>1
<1>2. CASE o.op = "remove"
  <2>1. Affect(d, rs, o) = [rows |-> Stripped(rs, o.t, o.cols), ok |-> TRUE]
    BY <1>2 DEF Affect, Stripped
  <2> QED BY <1>2, <2>1
<1>3. CASE o.op = "purge"
  <2>1. Affect(d, rs, o) = Erase(d, rs, Purged(rs, o))
    BY <1>3 DEF Affect, Purged
  <2> QED BY <1>3, <2>1
<1>4. CASE o.op = "superseded"
  <2>1. Affect(d, rs, o) = Erase(d, rs, Purged(rs, o))
    BY <1>4 DEF Affect, Purged
  <2> QED BY <1>4, <2>1
<1>5. CASE o.op \notin {"drop", "remove", "purge", "superseded"}
  <2>1. Affect(d, rs, o) = [rows |-> rs, ok |-> TRUE]
    BY <1>5 DEF Affect
  <2> QED BY <1>5, <2>1
<1> QED BY <1>1, <1>2, <1>3, <1>4, <1>5

\* What a statement leaves of the rows, and what it took.
Keeps(d, rs, o, after) ==
    /\ Remain(rs, after) /\ RowsOK(after)
    /\ o.op = "drop" => DOMAIN after = {q \in DOMAIN rs : rs[q].t # o.t}
    /\ o.op \in {"purge", "superseded"} => DOMAIN after = DOMAIN rs \ Deleted(d, rs, Purged(rs, o)).gone
    /\ o.op \notin {"drop", "purge", "superseded"} => DOMAIN after = DOMAIN rs
    /\ o.op = "remove" => \A q \in DOMAIN after : rs[q].t = o.t => DOMAIN after[q].v = DOMAIN rs[q].v \ o.cols
    /\ \A q \in DOMAIN after : \A c \in DOMAIN rs[q].v : c \notin DOMAIN after[q].v =>
          \/ o.op = "remove" /\ rs[q].t = o.t /\ c \in o.cols
          \/ /\ o.op \in {"purge", "superseded"}
             /\ \E f \in d.refs : /\ f.from = rs[q].t /\ f.ref.on = "null" /\ c \in Clears(f.ref)
                                   /\ Clears(f.ref) \cap d.tables[f.from].must = {}

LEMMA AffectKeeps ==
    ASSUME NEW d, NEW rs, RefsOK(d), RowsOK(rs), NEW o
    PROVE  Keeps(d, rs, o, Affect(d, rs, o).rows)
<1> DEFINE after == Affect(d, rs, o).rows
           took(q, c) == \/ o.op = "remove" /\ rs[q].t = o.t /\ c \in o.cols
                         \/ /\ o.op \in {"purge", "superseded"}
                            /\ \E f \in d.refs : /\ f.from = rs[q].t /\ f.ref.on = "null" /\ c \in Clears(f.ref)
                                                  /\ Clears(f.ref) \cap d.tables[f.from].must = {}
<1>1. CASE o.op = "drop"
  <2>1. after = Dropped(rs, o.t)
    BY <1>1, AffectIs
  <2> HIDE DEF after
  <2>2. DOMAIN after = {q \in DOMAIN rs : rs[q].t # o.t} /\ \A q \in DOMAIN after : after[q] = rs[q]
    BY <2>1 DEF Dropped
  <2>3. Remain(rs, after)
    BY <2>2, RemainAll DEF Remain
  <2> QED BY <1>1, <2>2, <2>3, RemainOK DEF after, Keeps
<1>2. CASE o.op = "remove"
  <2>1. after = Stripped(rs, o.t, o.cols)
    BY <1>2, AffectIs
  <2> HIDE DEF after
  <2>2. /\ DOMAIN after = DOMAIN rs
        /\ \A q \in DOMAIN rs : after[q] = IF rs[q].t = o.t THEN Without(rs[q], o.cols) ELSE rs[q]
    BY <2>1 DEF Stripped
  <2>3. ASSUME NEW q \in DOMAIN rs
        PROVE  /\ PartOf(rs[q], after[q])
               /\ rs[q].t = o.t => DOMAIN after[q].v = DOMAIN rs[q].v \ o.cols
               /\ rs[q].t # o.t => after[q] = rs[q]
    <3>1. RowOK(rs[q]) /\ PartOf(rs[q], rs[q])
      BY RemainAll DEF RowsOK, Remain
    <3> QED BY <2>2, <3>1, WithoutIs
  <2>4. Remain(rs, after)
    BY <2>2, <2>3 DEF Remain
  <2>5. \A q \in DOMAIN after : \A c \in DOMAIN rs[q].v : c \notin DOMAIN after[q].v => took(q, c)
    BY <1>2, <2>2, <2>3
  <2>6. RowsOK(after)
    BY <2>4, RemainOK
  <2> QED BY <1>2, <2>2, <2>3, <2>4, <2>5, <2>6 DEF after, Keeps
<1>3. CASE o.op \in {"purge", "superseded"}
  <2> DEFINE w == Deleted(d, rs, Purged(rs, o))
  <2>1. Purged(rs, o) \in SUBSET DOMAIN rs
    BY PurgedAre
  <2>2. after = Erase(d, rs, Purged(rs, o)).rows
    BY <1>3, AffectIs
  <2>3. MayEmpty(d, rs, w)
    BY <2>1, GoneIsLinked DEF RowsOK
  <2>4. /\ DOMAIN after = DOMAIN rs \ w.gone /\ Remain(rs, after)
        /\ \A q \in DOMAIN after : DOMAIN after[q].v = {c \in DOMAIN rs[q].v : <<q, c>> \notin w.cleared}
    BY <2>1, <2>2, EraseIs
  <2> HIDE DEF after, w
  <2>5. ASSUME NEW q \in DOMAIN after, NEW c \in DOMAIN rs[q].v, c \notin DOMAIN after[q].v PROVE took(q, c)
    <3> DEFINE x == <<q, c>>
    <3>1. x \in w.cleared /\ x[1] = q /\ x[2] = c
      BY <2>4, <2>5
    <3> HIDE DEF x
    <3>2. PICK f \in d.refs : /\ f.from = rs[x[1]].t /\ f.ref.on = "null"
                              /\ x[2] \in Clears(f.ref) /\ Clears(f.ref) \cap d.tables[f.from].must = {}
      BY <2>3, <3>1 DEF MayEmpty
    <3>3. f.from = rs[q].t /\ c \in Clears(f.ref)
      BY <3>1, <3>2
    <3> QED BY <1>3, <3>2, <3>3
  <2>6. RowsOK(after)
    BY <2>4, RemainOK
  <2> QED BY <1>3, <2>4, <2>5, <2>6 DEF after, w, Keeps
<1>4. CASE o.op \notin {"drop", "remove", "purge", "superseded"}
  <2>1. after = rs
    BY <1>4, AffectIs
  <2> QED BY <1>4, <2>1, RemainAll DEF Keeps
<1> QED BY <1>1, <1>2, <1>3, <1>4

\* The rows that are left after a deletion fit as before: no column that is NOT NULL is cleared.
LEMMA EraseFits ==
    ASSUME NEW d, NEW rs, RefsOK(d), RowsOK(rs), AllFit(d, rs), NEW first \in SUBSET DOMAIN rs
    PROVE  RowsOK(Erase(d, rs, first).rows) /\ AllFit(d, Erase(d, rs, first).rows)
<1> DEFINE after == Erase(d, rs, first).rows
           w     == Deleted(d, rs, first)
<1>1. /\ DOMAIN after = DOMAIN rs \ w.gone
      /\ Remain(rs, after)
      /\ \A q \in DOMAIN after : DOMAIN after[q].v = {c \in DOMAIN rs[q].v : <<q, c>> \notin w.cleared}
  BY EraseIs
<1>2. MayEmpty(d, rs, w)
  BY GoneIsLinked DEF RowsOK
<1> HIDE DEF after, w
<1>3. ASSUME NEW q \in DOMAIN after PROVE Fits(d, after[q])
  <2>1. q \in DOMAIN rs /\ PartOf(rs[q], after[q]) /\ Fits(d, rs[q])
    BY <1>1 DEF Remain, AllFit
  <2>2. ASSUME NEW c \in d.tables[rs[q].t].must PROVE c \in DOMAIN after[q].v
    <3> SUFFICES ASSUME c \notin DOMAIN after[q].v PROVE FALSE
      OBVIOUS
    <3>1. c \in DOMAIN rs[q].v
      BY <2>1 DEF Fits
    <3> DEFINE x == <<q, c>>
    <3>2. x \in w.cleared /\ x[1] = q /\ x[2] = c
      BY <1>1, <3>1
    <3> HIDE DEF x
    <3>3. PICK f \in d.refs : /\ f.from = rs[x[1]].t /\ x[2] \in Clears(f.ref)
                              /\ Clears(f.ref) \cap d.tables[f.from].must = {}
      BY <1>2, <3>2 DEF MayEmpty
    <3> QED BY <3>2, <3>3
  <2> QED BY <2>1, <2>2 DEF Fits, PartOf
<1>4. RowsOK(after)
  BY <1>1, RemainOK
<1> QED BY <1>3, <1>4 DEF AllFit, after

\* The rows a statement leaves fit the schema it leaves.
LEMMA StatementFits ==
    ASSUME NEW d, NEW rs, DbOK(d), RowsOK(rs), AllFit(d, rs), NEW o, Legal(d, rs, o)
    PROVE  RowsOK(Affect(d, rs, o).rows) /\ AllFit(Alter(d, o), Affect(d, rs, o).rows)
<1> DEFINE after == Affect(d, rs, o).rows
           new   == Alter(d, o)
<1>0. RefsOK(d)
  BY DEF DbOK
<1>9. Keeps(d, rs, o, after)
  BY <1>0, AffectKeeps
<1> HIDE DEF after
<1>1. /\ Remain(rs, after) /\ RowsOK(after)
      /\ o.op = "drop" => DOMAIN after = {q \in DOMAIN rs : rs[q].t # o.t}
      /\ o.op = "remove" => \A q \in DOMAIN after : rs[q].t = o.t => DOMAIN after[q].v = DOMAIN rs[q].v \ o.cols
      /\ \A q \in DOMAIN after : \A c \in DOMAIN rs[q].v : c \notin DOMAIN after[q].v =>
            \/ o.op = "remove" /\ rs[q].t = o.t /\ c \in o.cols
            \/ /\ o.op \in {"purge", "superseded"}
               /\ \E f \in d.refs : /\ f.from = rs[q].t /\ f.ref.on = "null" /\ c \in Clears(f.ref)
                                     /\ Clears(f.ref) \cap d.tables[f.from].must = {}
  BY <1>9 DEF Keeps
<1>2. ASSUME NEW q \in DOMAIN after PROVE Fits(new, after[q])
  <2> DEFINE t == rs[q].t
             tab == d.tables[t]
             c0 == DOMAIN rs[q].v
             c1 == DOMAIN after[q].v
  <2>1. /\ q \in DOMAIN rs /\ after[q].t = t /\ c1 \in SUBSET c0
        /\ t \in DOMAIN d.tables /\ c0 \in SUBSET (tab.must \cup tab.opt) /\ tab.must \in SUBSET c0
        /\ t = o.t => q \in In(rs, o.t)
    BY <1>1 DEF Remain, PartOf, AllFit, Fits, In
  <2>2. \A c \in tab.must : c \in c1 \/ (o.op = "remove" /\ t = o.t /\ c \in o.cols)
    <3> TAKE c \in tab.must
    <3>1. c \in c0
      BY <2>1
    <3> SUFFICES ASSUME c \notin c1, ~ (o.op = "remove" /\ t = o.t /\ c \in o.cols) PROVE FALSE
      OBVIOUS
    <3>2. PICK f \in d.refs : /\ f.from = t /\ c \in Clears(f.ref)
                              /\ Clears(f.ref) \cap d.tables[f.from].must = {}
      BY <1>1, <3>1
    <3> QED BY <3>2
  <2>3. CASE t # o.t
    <3>1. t \in DOMAIN new.tables /\ new.tables[t] = tab
      BY <2>1, <2>3, AlterTables
    <3> HIDE DEF new
    <3>2. tab.must \in SUBSET c1
      BY <2>2, <2>3
    <3> HIDE DEF tab, c0, c1
    <3> QED BY <2>1, <3>1, <3>2 DEF Fits, c1
  <2>4. CASE t = o.t
    <3>1. o.op # "table"
      BY <2>1, <2>4 DEF Legal
    <3>2. o.op # "drop"
      BY <1>1, <2>1, <2>4
    <3>3. t \in DOMAIN new.tables /\ new.tables[t] = Altered(tab, o)
      BY <2>1, <2>4, <3>1, <3>2, AlterTables, SMTT(40)
    <3> DEFINE alt == Altered(tab, o)
    <3>4. alt.must \cup alt.opt = IF o.op = "remove" THEN (tab.must \cup tab.opt) \ o.cols
                                  ELSE IF o.op = "add" THEN tab.must \cup o.must \cup tab.opt \cup o.opt
                                  ELSE IF o.op \in {"relax", "require"} THEN tab.must \cup tab.opt \cup {o.col}
                                  ELSE tab.must \cup tab.opt
      <4>0. o.op # "table"
        BY <3>1
      <4>1. CASE o.op = "remove"
        BY <4>1, AlteredIs
      <4>2. CASE o.op = "add"
        BY <4>2, AlteredIs
      <4>3. CASE o.op = "relax"
        <5>1. alt.must = tab.must \ {o.col} /\ alt.opt = tab.opt \cup {o.col}
          BY <4>3, AlteredIs
        <5> QED BY <4>3, <5>1
      <4>4. CASE o.op = "require"
        <5>1. alt.must = tab.must \cup {o.col} /\ alt.opt = tab.opt \ {o.col}
          BY <4>4, AlteredIs
        <5> QED BY <4>4, <5>1
      <4>5. CASE o.op \in {"key", "drop_key"}
        BY <4>5, AlteredIs
      <4>6. CASE o.op \notin {"table", "remove", "add", "relax", "require", "key", "drop_key"}
        BY <4>6, AlteredIs
      <4> QED BY <4>0, <4>1, <4>2, <4>3, <4>4, <4>5, <4>6
    <3>5. c1 \in SUBSET (alt.must \cup alt.opt)
      <4>1. o.op = "remove" => c1 = c0 \ o.cols
        BY <1>1, <2>4
      <4> HIDE DEF alt, c0, c1, tab
      <4> QED BY <2>1, <3>4, <4>1
    <3>6. alt.must \in SUBSET c1
      <4>1. CASE o.op = "remove"
        <5>1. alt.must = tab.must \ o.cols
          BY <4>1, AlteredIs
        <5> HIDE DEF alt, c1, tab
        <5> QED BY <2>2, <5>1
      <4>2. CASE o.op = "add"
        <5>1. alt.must = tab.must \cup o.must
          BY <4>2, AlteredIs
        <5>2. o.must = {}
          BY <2>1, <2>4, <4>2 DEF Legal
        <5> HIDE DEF alt, c1, tab
        <5> QED BY <2>2, <4>2, <5>1, <5>2
      <4>3. CASE o.op = "relax"
        <5>1. alt.must = tab.must \ {o.col}
          BY <4>3, AlteredIs
        <5> HIDE DEF alt, c1, tab
        <5> QED BY <2>2, <4>3, <5>1
      <4>4. CASE o.op = "require"
        <5>1. alt.must = tab.must \cup {o.col}
          BY <4>4, AlteredIs
        <5>2. o.col \in c0
          BY <2>1, <2>4, <4>4 DEF Legal
        <5>3. c1 = c0
          BY <1>1, <2>1, <4>4
        <5> HIDE DEF alt, c1, tab
        <5> QED BY <2>2, <4>4, <5>1, <5>2, <5>3
      <4>5. CASE o.op \in {"key", "drop_key"}
        <5>1. alt.must = tab.must
          BY <4>5, AlteredIs
        <5> HIDE DEF alt, c1, tab
        <5> QED BY <2>2, <4>5, <5>1
      <4>6. CASE o.op \notin {"table", "remove", "add", "relax", "require", "key", "drop_key"}
        <5>1. alt.must = tab.must
          BY <4>6, AlteredIs
        <5> HIDE DEF alt, c1, tab
        <5> QED BY <2>2, <4>6, <5>1
      <4> QED BY <3>1, <4>1, <4>2, <4>3, <4>4, <4>5, <4>6
    <3>7. after[q].t = t /\ t \in DOMAIN new.tables /\ new.tables[t] = alt
      BY <2>1, <3>3
    <3> HIDE DEF alt, new, t, c0
    <3> QED BY <3>5, <3>6, <3>7 DEF Fits
  <2> QED BY <2>3, <2>4
<1> QED BY <1>1, <1>2 DEF AllFit, after

-----------------------------------------------------------------------------
(* Keys and references stay upheld, row by row.                            *)

\* Where a row has an organization it is NOT NULL: nothing clears it.
OrgRequired(d) == \A t \in DOMAIN d.tables : "organization_id" \notin d.tables[t].opt

KeysHold(d, rs) == \A t \in DOMAIN d.tables : \A key \in d.tables[t].keys : Agree(rs, t, key)

RefsHold(d, rs) == \A f \in d.refs : \A q \in In(rs, f.from) : Refers(rs, q, f.ref)

Upheld(d, rs) == OrgRequired(d) /\ KeysHold(d, rs) /\ RefsHold(d, rs)

\* A statement that leaves the column so.
OrgSafe(o) ==
    /\ o.op \in {"table", "add"} => "organization_id" \notin o.opt
    /\ o.op = "relax" => o.col # "organization_id"

\* A value that is left is the one that was there.
LEMMA ValueLeft ==
    ASSUME NEW rs, RowsOK(rs), NEW after, Remain(rs, after), NEW q \in DOMAIN after, NEW c,
           Value(after[q], c) # "NULL"
    PROVE  Value(after[q], c) = Value(rs[q], c) /\ c \in DOMAIN after[q].v
<1>1. RowOK(rs[q]) /\ PartOf(rs[q], after[q]) /\ RowsOK(after)
  BY RemainOK DEF RowsOK, Remain
<1>2. RowOK(after[q])
  BY <1>1 DEF RowsOK
<1>3. c \in DOMAIN after[q].v /\ Value(after[q], c) = after[q].v[c]
  BY <1>2, ValueIs
<1>4. c \in DOMAIN rs[q].v /\ after[q].v[c] = rs[q].v[c]
  BY <1>1, <1>3 DEF PartOf
<1> QED BY <1>1, <1>3, <1>4, ValueIs

\* Fewer rows, with fewer values, share no key either.
LEMMA AgreeLeft ==
    ASSUME NEW rs, RowsOK(rs), NEW after, Remain(rs, after), NEW t, NEW key, Agree(rs, t, key)
    PROVE  Agree(after, t, key)
<1> SUFFICES ASSUME "id" \notin key, NEW p \in In(after, t), NEW q \in In(after, t), p # q,
                    Clash(after, key, p, q)
             PROVE  FALSE
  BY DEF Agree
<1>1. p \in DOMAIN after /\ q \in DOMAIN after /\ PartOf(rs[p], after[p]) /\ PartOf(rs[q], after[q])
  BY DEF In, Remain
<1>2. p \in In(rs, t) /\ q \in In(rs, t)
  BY <1>1 DEF In, Remain, PartOf
<1>3. key \in SUBSET DOMAIN after[p].v /\ \A c \in key : Value(after[q], c) = after[p].v[c]
  BY DEF Clash
<1>4. key \in SUBSET DOMAIN rs[p].v /\ \A c \in key : after[p].v[c] = rs[p].v[c]
  BY <1>1, <1>3 DEF PartOf
<1>5. \A c \in key : Value(rs[q], c) = rs[p].v[c]
  <2> TAKE c \in key
  <2>1. RowOK(rs[p])
    BY <1>2 DEF In, RowsOK
  <2>2. Value(after[q], c) # "NULL"
    BY <1>3, <1>4, <2>1 DEF RowOK
  <2> QED BY <1>1, <1>3, <1>4, <2>2, ValueLeft
<1>6. Clash(rs, key, p, q)
  BY <1>2, <1>4, <1>5 DEF Clash, In
<1> QED BY <1>2, <1>6 DEF Agree

\* A row refers as before if what it refers to is left, and the organization of both.
LEMMA RefersLeft ==
    ASSUME NEW rs, RowsOK(rs), NEW after, Remain(rs, after), NEW q \in DOMAIN after, NEW f,
           Refers(rs, q, f), Value(after[q], f.col) # "NULL" => Value(rs[q], f.col) \in DOMAIN after,
           f.tenant => \A p \in DOMAIN after : p = q \/ rs[p].t = f.to =>
              Value(after[p], "organization_id") = Value(rs[p], "organization_id")
    PROVE  Refers(after, q, f)
<1>1. CASE Value(after[q], f.col) = "NULL"
  BY <1>1 DEF Refers
<1>2. CASE Value(after[q], f.col) # "NULL"
  <2> DEFINE p == Value(rs[q], f.col)
  <2>1. Value(after[q], f.col) = p /\ p # "NULL"
    BY <1>2, ValueLeft
  <2>2. p \in In(rs, f.to) /\ (f.tenant => Value(rs[p], "organization_id") = Value(rs[q], "organization_id"))
    BY <2>1 DEF Refers
  <2>3. p \in DOMAIN after
    BY <1>2
  <2> HIDE DEF p
  <2>4. rs[p].t = f.to /\ p \in In(after, f.to)
    BY <2>2, <2>3 DEF In, Remain, PartOf
  <2>5. f.tenant => Value(after[p], "organization_id") = Value(after[q], "organization_id")
    BY <2>2, <2>3, <2>4
  <2> QED BY <2>1, <2>4, <2>5 DEF Refers
<1> QED BY <1>1, <1>2

\* A deletion that is accepted upholds them.
LEMMA EraseUpholds ==
    ASSUME NEW d, NEW rs, RefsOK(d), RowsOK(rs), AllFit(d, rs), Upheld(d, rs),
           NEW first \in SUBSET DOMAIN rs, Erase(d, rs, first).ok
    PROVE  Upheld(d, Erase(d, rs, first).rows)
<1> DEFINE after == Erase(d, rs, first).rows
           w     == Deleted(d, rs, first)
<1>1. /\ DOMAIN after = DOMAIN rs \ w.gone
      /\ Remain(rs, after)
      /\ \A q \in DOMAIN after : DOMAIN after[q].v = {c \in DOMAIN rs[q].v : <<q, c>> \notin w.cleared}
      /\ w.ok
  BY EraseIs
<1>2. MayEmpty(d, rs, w)
  BY GoneIsLinked DEF RowsOK
<1>3. \A p \in w.gone, q \in DOMAIN rs \ w.gone, f \in d.refs :
         Points(d, rs, q, f, p) => <<q, f.ref.col>> \in w.cleared
  BY <1>1, NothingDangles DEF RowsOK
<1> HIDE DEF after, w
<1>4. ASSUME NEW q \in DOMAIN after
      PROVE  Value(after[q], "organization_id") = Value(rs[q], "organization_id")
  <2>1. q \in DOMAIN rs /\ PartOf(rs[q], after[q]) /\ Fits(d, rs[q]) /\ RowOK(rs[q])
    BY <1>1 DEF Remain, AllFit, RowsOK
  <2>2. CASE "organization_id" \in DOMAIN after[q].v
    BY <2>1, <2>2 DEF PartOf, Value
  <2>3. CASE "organization_id" \notin DOMAIN rs[q].v
    BY <2>1, <2>3 DEF PartOf, Value
  <2>4. CASE "organization_id" \in DOMAIN rs[q].v /\ "organization_id" \notin DOMAIN after[q].v
    <3> DEFINE x == <<q, "organization_id">>
    <3>1. x \in w.cleared /\ x[1] = q /\ x[2] = "organization_id"
      BY <1>1, <2>4
    <3> HIDE DEF x
    <3>2. PICK f \in d.refs : /\ f.from = rs[x[1]].t /\ x[2] \in Clears(f.ref)
                              /\ Clears(f.ref) \cap d.tables[f.from].must = {}
      BY <1>2, <3>1 DEF MayEmpty
    <3>3. "organization_id" \notin d.tables[rs[q].t].must
      BY <3>1, <3>2
    <3>4. "organization_id" \in d.tables[rs[q].t].opt /\ rs[q].t \in DOMAIN d.tables
      BY <2>1, <2>4, <3>3 DEF Fits
    <3> QED BY <3>4 DEF Upheld, OrgRequired
  <2> QED BY <2>2, <2>3, <2>4
<1>5. KeysHold(d, after)
  BY <1>1, AgreeLeft DEF Upheld, KeysHold
<1>6. ASSUME NEW f \in d.refs, NEW q \in In(after, f.from) PROVE Refers(after, q, f.ref)
  <2>1. q \in DOMAIN after /\ q \in DOMAIN rs /\ q \notin w.gone /\ rs[q].t = f.from
    BY <1>1, <1>6 DEF In, Remain, PartOf
  <2>2. Refers(rs, q, f.ref)
    BY <2>1 DEF Upheld, RefsHold, In
  <2>3. ASSUME Value(after[q], f.ref.col) # "NULL" PROVE Value(rs[q], f.ref.col) \in DOMAIN after
    <3> DEFINE p == Value(rs[q], f.ref.col)
    <3>1. p = Value(after[q], f.ref.col) /\ f.ref.col \in DOMAIN after[q].v
      BY <1>1, <2>1, <2>3, ValueLeft
    <3>2. p \in In(rs, f.ref.to)
      BY <2>2, <2>3, <3>1 DEF Refers
    <3>3. Points(d, rs, q, f, p) /\ p \in DOMAIN rs
      BY <2>1, <3>2 DEF Points, In
    <3>4. <<q, f.ref.col>> \notin w.cleared
      BY <1>1, <2>1, <3>1
    <3> HIDE DEF p
    <3>5. p \notin w.gone
      BY <1>3, <2>1, <3>3, <3>4
    <3> QED BY <1>1, <3>3, <3>5 DEF p
  <2> QED BY <1>1, <1>4, <2>1, <2>2, <2>3, RefersLeft
<1> QED BY <1>5, <1>6 DEF Upheld, RefsHold, after

\* Any statement the database accepts upholds them.
LEMMA StatementUpholds ==
    ASSUME NEW d, NEW rs, DbOK(d), RowsOK(rs), AllFit(d, rs), Upheld(d, rs), NEW o, Sound(o), OrgSafe(o),
           Legal(d, rs, o), Affect(d, rs, o).ok
    PROVE  Upheld(Alter(d, o), Affect(d, rs, o).rows)
<1> DEFINE after == Affect(d, rs, o).rows
           new   == Alter(d, o)
<1>0. RefsOK(d)
  BY DEF DbOK
<1>1. Keeps(d, rs, o, after)
  BY <1>0, AffectKeeps
<1>2. o.op \notin {"drop", "remove", "purge", "superseded"} => after = rs
  BY AffectIs
<1>3. o.op \in {"purge", "superseded"} => Upheld(d, after)
  <2> SUFFICES ASSUME o.op \in {"purge", "superseded"} PROVE Upheld(d, after)
    OBVIOUS
  <2>1. Affect(d, rs, o) = Erase(d, rs, Purged(rs, o))
    BY AffectIs
  <2>2. Purged(rs, o) \in SUBSET DOMAIN rs
    BY PurgedAre
  <2> QED BY <1>0, <2>1, <2>2, EraseUpholds
<1> HIDE DEF after
<1>4. Remain(rs, after) /\ RowsOK(after)
  BY <1>1 DEF Keeps
<1>5. OrgRequired(new)
  <2> SUFFICES ASSUME NEW t \in DOMAIN new.tables, "organization_id" \in new.tables[t].opt PROVE FALSE
    BY DEF OrgRequired
  <2>1. t \in DOMAIN d.tables => "organization_id" \notin d.tables[t].opt
    BY DEF Upheld, OrgRequired
  <2>2. CASE t # o.t
    BY <2>1, <2>2, AlterTables
  <2>3. CASE t = o.t
    <3> DEFINE tab == d.tables[t]
               alt == Altered(tab, o)
    <3>1. new.tables[t] = alt /\ (o.op # "table" => t \in DOMAIN d.tables)
      <4>1. o.op # "drop"
        BY <2>3, AlterTables
      <4> QED BY <2>3, <4>1, AlterTables
    <3>2. o.op # "table" => "organization_id" \notin tab.opt
      BY <2>1, <3>1
    <3>3. /\ o.op = "table" => alt.opt = o.opt
          /\ o.op = "add" => alt.opt = tab.opt \cup o.opt
          /\ o.op = "remove" => alt.opt = tab.opt \ o.cols
          /\ o.op = "relax" => alt.opt = tab.opt \cup {o.col}
          /\ o.op = "require" => alt.opt = tab.opt \ {o.col}
          /\ o.op \notin {"table", "add", "remove", "relax", "require"} => alt.opt = tab.opt
      BY AlteredIs
    <3> HIDE DEF alt, tab
    <3>4. "organization_id" \in alt.opt
      BY <3>1
    <3> QED BY <3>2, <3>3, <3>4 DEF OrgSafe
  <2> QED BY <2>2, <2>3
<1>6. \A t : t \notin DOMAIN d.tables => In(after, t) = {}
  <2>1. \A q \in DOMAIN after : q \in DOMAIN rs /\ PartOf(rs[q], after[q])
    BY <1>4 DEF Remain
  <2>2. \A q \in DOMAIN after : after[q].t \in DOMAIN d.tables
    BY <2>1 DEF PartOf, AllFit, Fits
  <2> QED BY <2>2 DEF In
<1>7. KeysHold(new, after)
  <2> SUFFICES ASSUME NEW t \in DOMAIN new.tables, NEW key \in new.tables[t].keys PROVE Agree(after, t, key)
    BY DEF KeysHold
  <2>1. CASE t \notin DOMAIN d.tables
    BY <1>6, <2>1 DEF Agree
  <2>2. CASE t \in DOMAIN d.tables /\ key \in d.tables[t].keys
    BY <1>4, <2>2, AgreeLeft DEF Upheld, KeysHold
  <2>3. CASE t \in DOMAIN d.tables /\ key \notin d.tables[t].keys
    <3>1. t = o.t /\ o.op # "drop"
      BY <2>3, AlterTables
    <3> DEFINE tab == d.tables[t]
               alt == Altered(tab, o)
    <3>2. new.tables[t] = alt
      BY <3>1, AlterTables
    <3>3. /\ o.op \in {"add", "relax", "require"} => alt.keys = tab.keys
          /\ o.op = "remove" => alt.keys = {k \in tab.keys : k \cap o.cols = {}}
          /\ o.op = "key" => alt.keys = tab.keys \cup {o.key}
          /\ o.op = "drop_key" => alt.keys = tab.keys \ {o.key}
          /\ o.op \notin {"table", "add", "remove", "relax", "require", "key", "drop_key"} => alt = tab
      BY AlteredIs
    <3>4. o.op # "table"
      BY <2>3, <3>1 DEF Legal
    <3>5. key \in alt.keys /\ key \notin tab.keys
      BY <2>3, <3>2
    <3> HIDE DEF alt, tab
    <3>6. o.op = "key" /\ key = o.key
      BY <3>3, <3>4, <3>5
    <3> QED BY <1>2, <3>1, <3>6 DEF Legal
  <2> QED BY <2>1, <2>2, <2>3
<1>8. ASSUME NEW f \in new.refs, NEW q \in In(after, f.from) PROVE Refers(after, q, f.ref)
  <2>1. q \in DOMAIN after /\ q \in DOMAIN rs /\ PartOf(rs[q], after[q]) /\ rs[q].t = f.from
    BY <1>4, <1>8 DEF In, Remain, PartOf
  <2>2. \/ f \in d.refs /\ ~DropsRef(o, f)
        \/ f.from = o.t /\ \E i \in DOMAIN NewRefs(o) : f.ref = NewRefs(o)[i]
    BY AlterRefs
  <2>3. CASE f.from = o.t /\ \E i \in DOMAIN NewRefs(o) : f.ref = NewRefs(o)[i]
    <3>1. o.op \in {"table", "ref"}
      <4> SUFFICES ASSUME o.op \notin {"table", "ref"} PROVE FALSE
        OBVIOUS
      <4>1. NewRefs(o) = <<>>
        BY DEF NewRefs
      <4>2. DOMAIN NewRefs(o) = {}
        BY <4>1
      <4> QED BY <2>3, <4>2
    <3>2. CASE o.op = "table"
      <4>1. o.t \notin DOMAIN d.tables
        BY <3>2 DEF Legal
      <4> QED BY <1>6, <1>8, <2>3, <4>1
    <3>3. CASE o.op = "ref"
      <4>1. NewRefs(o) = <<o.ref>>
        BY <3>3 DEF NewRefs
      <4>2. f.ref = o.ref
        <5>1. \A i \in DOMAIN <<o.ref>> : <<o.ref>>[i] = o.ref
          OBVIOUS
        <5> QED BY <2>3, <4>1, <5>1
      <4>3. after = rs /\ \A p \in In(rs, o.t) : Refers(rs, p, o.ref)
        BY <1>2, <3>3 DEF Legal
      <4> QED BY <1>8, <2>3, <4>2, <4>3
    <3> QED BY <3>1, <3>2, <3>3
  <2>4. CASE f \in d.refs /\ ~DropsRef(o, f)
    <3>1. Refers(rs, q, f.ref)
      BY <2>1, <2>4 DEF Upheld, RefsHold, In
    <3>2. CASE o.op \in {"purge", "superseded"}
      BY <1>3, <1>8, <2>4, <3>2 DEF Upheld, RefsHold
    <3>3. CASE o.op = "drop"
      <4>1. DOMAIN after = {p \in DOMAIN rs : rs[p].t # o.t}
        BY <1>1, <3>3 DEF Keeps
      <4>2. \A p \in DOMAIN after : after[p] = rs[p]
        <5>1. after = Dropped(rs, o.t)
          BY <3>3, AffectIs DEF after
        <5> QED BY <4>1, <5>1 DEF Dropped
      <4>3. f.from # o.t
        BY <2>4, <3>3 DEF DropsRef
      <4>4. f.ref.to # o.t
        BY <2>4, <3>3, <4>3 DEF Legal
      <4>5. Value(rs[q], f.ref.col) # "NULL" => Value(rs[q], f.ref.col) \in DOMAIN after
        BY <3>1, <4>1, <4>4 DEF Refers, In
      <4>6. Value(after[q], f.ref.col) = Value(rs[q], f.ref.col)
        BY <2>1, <4>2
      <4> QED BY <1>4, <2>1, <3>1, <4>2, <4>5, <4>6, RefersLeft
    <3>4. CASE o.op = "remove"
      <4>1. DOMAIN after = DOMAIN rs
        BY <1>1, <3>4 DEF Keeps
      <4>2. \A p \in DOMAIN rs : after[p] = IF rs[p].t = o.t THEN Without(rs[p], o.cols) ELSE rs[p]
        <5>1. after = Stripped(rs, o.t, o.cols)
          BY <3>4, AffectIs DEF after
        <5> QED BY <5>1 DEF Stripped
      <4>3. Value(rs[q], f.ref.col) # "NULL" => Value(rs[q], f.ref.col) \in DOMAIN after
        BY <3>1, <4>1 DEF Refers, In
      <4>4. Value(after[q], f.ref.col) # "NULL" => Value(rs[q], f.ref.col) # "NULL"
        BY <1>4, <2>1, ValueLeft
      <4>5. ASSUME f.ref.tenant, NEW p \in DOMAIN after, p = q \/ rs[p].t = f.ref.to
            PROVE  Value(after[p], "organization_id") = Value(rs[p], "organization_id")
        <5>1. RowOK(rs[p]) /\ p \in DOMAIN rs
          BY <4>1 DEF RowsOK
        <5>2. CASE rs[p].t # o.t
          BY <4>2, <5>1, <5>2
        <5>3. CASE rs[p].t = o.t
          <6>1. "organization_id" \notin o.cols
            <7>1. CASE p = q
              <8>1. f.from = o.t
                BY <2>1, <5>3, <7>1
              <8>2. Clears(f.ref) \cap o.cols = {}
                BY <2>4, <3>4, <8>1 DEF DropsRef
              <8> QED BY <4>5, <8>2 DEF Clears
            <7>2. CASE rs[p].t = f.ref.to
              <8>1. o.cols \cap OrgKey = {}
                BY <2>4, <3>4, <4>5, <5>3, <7>2 DEF Legal
              <8> QED BY <8>1 DEF OrgKey
            <7> QED BY <4>5, <7>1, <7>2
          <6>2. after[p] = Without(rs[p], o.cols)
            BY <4>2, <5>1, <5>3
          <6>3. PartOf(rs[p], after[p]) /\ DOMAIN after[p].v = DOMAIN rs[p].v \ o.cols
            BY <5>1, <6>2, WithoutIs
          <6> QED BY <6>1, <6>3 DEF PartOf, Value
        <5> QED BY <5>2, <5>3
      <4> QED BY <1>4, <2>1, <3>1, <4>3, <4>4, <4>5, RefersLeft
    <3>5. CASE o.op \notin {"drop", "remove", "purge", "superseded"}
      BY <1>2, <3>1, <3>5
    <3> QED BY <3>2, <3>3, <3>4, <3>5
  <2> QED BY <2>2, <2>3, <2>4
<1> QED BY <1>5, <1>7, <1>8 DEF Upheld, RefsHold, after

-----------------------------------------------------------------------------
(* What the references of every revision have in common.                   *)
Nullers == {"audit_events", "documents", "approvals", "workflow_step_runs"}

LinkOK(t, r) ==
    /\ r.on = "cascade" /\ r.to = "users" => t = "organization_members"
    /\ r.on = "null" => t \in Nullers
    /\ r.to # "organization_members"
    /\ t = "workflows" => r.to = "organizations"
    /\ t # "users" /\ t # "organizations"

OpOK(o) == Sound(o) /\ OrgSafe(o) /\ \A r \in Ops(NewRefs(o)) : LinkOK(o.t, r)

\* The inductive invariant, of a schema and the rows in it.
Base(d, rs) ==
    /\ DbOK(d) /\ RowsOK(rs) /\ AllFit(d, rs) /\ Upheld(d, rs)
    /\ \A f \in d.refs : LinkOK(f.from, f.ref)

LEMMA NewRefIs ==
    ASSUME NEW o, Sound(o)
    PROVE  \A i \in DOMAIN NewRefs(o) : NewRefs(o)[i] \in Ops(NewRefs(o))
<1>1. DOMAIN NewRefs(o) = 1 .. Len(NewRefs(o))
  BY LenProperties DEF Sound, IsList
<1> QED BY <1>1 DEF Ops

LEMMA StatementKeeps ==
    ASSUME NEW d, NEW rs, Base(d, rs), NEW o, OpOK(o), Legal(d, rs, o), Affect(d, rs, o).ok
    PROVE  Base(Alter(d, o), Affect(d, rs, o).rows) /\ Remain(rs, Affect(d, rs, o).rows)
<1>1. DbOK(d) /\ RefsOK(d) /\ RowsOK(rs) /\ AllFit(d, rs) /\ Upheld(d, rs) /\ Sound(o) /\ OrgSafe(o)
  BY DEF Base, DbOK, OpOK
<1>2. DbOK(Alter(d, o))
  BY <1>1, AlterKeepsShape
<1>3. RowsOK(Affect(d, rs, o).rows) /\ AllFit(Alter(d, o), Affect(d, rs, o).rows)
  BY <1>1, StatementFits
<1>4. Remain(rs, Affect(d, rs, o).rows)
  BY <1>1, AffectKeeps DEF Keeps
<1>5. ASSUME NEW f \in Alter(d, o).refs PROVE LinkOK(f.from, f.ref)
  <2>1. (f \in d.refs /\ ~DropsRef(o, f)) \/ (f.from = o.t /\ \E i \in DOMAIN NewRefs(o) : f.ref = NewRefs(o)[i])
    BY AlterRefs
  <2>2. CASE f \in d.refs
    BY <2>2 DEF Base
  <2>3. CASE f.from = o.t /\ \E i \in DOMAIN NewRefs(o) : f.ref = NewRefs(o)[i]
    <3>1. f.ref \in Ops(NewRefs(o))
      BY <1>1, <2>3, NewRefIs
    <3> QED BY <2>3, <3>1 DEF OpOK
  <2> QED BY <2>1, <2>2, <2>3
<1>6. Upheld(Alter(d, o), Affect(d, rs, o).rows)
  BY <1>1, StatementUpholds
<1> QED BY <1>2, <1>3, <1>4, <1>5, <1>6 DEF Base

LEMMA MigrationKeeps ==
    ASSUME NEW d, NEW rs, Base(d, rs), NEW ops, IsList(ops), \A o \in Ops(ops) : OpOK(o),
           Run(d, rs, ops).ok
    PROVE  \E a : /\ Accepted(a, From(d, rs), ops, Len(ops)) /\ Run(d, rs, ops) = a[Len(ops)]
                  /\ \A i \in 0 .. Len(ops) : Base(a[i].d, a[i].rows) /\ Remain(rs, a[i].rows)
<1>1. Len(ops) \in Nat /\ \A i \in 1 .. Len(ops) : ops[i] \in Ops(ops)
  BY LenProperties DEF IsList, Ops
<1>2. PICK a : Accepted(a, From(d, rs), ops, Len(ops)) /\ Run(d, rs, ops) = a[Len(ops)]
  BY <1>1, AcceptedStepByStep
<1> DEFINE n == Len(ops)
           I == {i \in 0 .. n : Base(a[i].d, a[i].rows) /\ Remain(rs, a[i].rows)}
<1>3. 0 \in I
  <2>1. a[0] = From(d, rs)
    BY <1>2 DEF Accepted
  <2>2. a[0].d = d /\ a[0].rows = rs
    BY <2>1 DEF From
  <2>3. Remain(rs, rs)
    BY RemainAll DEF Base
  <2> QED BY <1>1, <2>2, <2>3
<1>4. ASSUME NEW i \in 0 .. n, i \in I, i < n PROVE i + 1 \in I
  <2>1. i + 1 \in 1 .. n /\ i + 1 \in 0 .. n /\ (i + 1) - 1 = i
    BY <1>1, <1>4
  <2> DEFINE o == ops[i + 1]
             done == Affect(a[i].d, a[i].rows, o)
  <2>2. /\ Legal(a[i].d, a[i].rows, o)
        /\ a[i + 1] = [d |-> Alter(a[i].d, o), rows |-> done.rows, ok |-> done.ok]
    BY <1>2, <2>1 DEF Accepted
  <2>3. OpOK(o) /\ done.ok
    <3>1. a[i + 1].ok
      BY <1>2, <2>1 DEF Accepted
    <3> HIDE DEF done, o
    <3>2. done.ok
      BY <2>2, <3>1
    <3> QED BY <1>1, <2>1, <3>2 DEF o
  <2> HIDE DEF o
  <2>4. Base(Alter(a[i].d, o), done.rows) /\ Remain(a[i].rows, done.rows)
    BY <1>4, <2>2, <2>3, StatementKeeps
  <2>5. a[i + 1].d = Alter(a[i].d, o) /\ a[i + 1].rows = done.rows
    BY <2>2
  <2> HIDE DEF done
  <2>6. Remain(rs, done.rows)
    BY <1>4, <2>4, RemainOn
  <2> QED BY <2>1, <2>4, <2>5, <2>6
<1> HIDE DEF I
<1>5. \A i \in 0 .. n : i \in I
  <2>1. 0 \in 0 .. n /\ n \in Nat
    BY <1>1
  <2> HIDE DEF n
  <2> QED BY <1>3, <1>4, <2>1, Upward
<1> QED BY <1>2, <1>5 DEF I

LEMMA RenumberedKeeps ==
    ASSUME NEW d, NEW rs, Base(d, rs)
    PROVE  Base(Renumbered(d), rs) /\ Renumbered(d).tables = d.tables /\ Links(Renumbered(d)) = Links(d)
<1> DEFINE new == Renumbered(d)
           upto(f) == Cardinality({g \in d.refs : g.n <= f.n})
           F == [f \in d.refs |-> [n |-> upto(f), from |-> f.from, ref |-> f.ref]]
<1>1. /\ new.tables = d.tables
      /\ new.refs = {[n |-> upto(f), from |-> f.from, ref |-> f.ref] : f \in d.refs}
      /\ new.last = Cardinality(d.refs)
  BY DEF Renumbered
<1>2. IsFiniteSet(d.refs) /\ Cardinality(d.refs) \in Nat
  BY FS_CardinalityType DEF Base, DbOK, RefsOK
<1>3. ASSUME NEW f \in d.refs PROVE upto(f) \in Nat
  <2>1. IsFiniteSet({g \in d.refs : g.n <= f.n})
    BY <1>2, FS_Subset
  <2> QED BY <2>1, FS_CardinalityType
<1> HIDE DEF upto
<1>4. F \in Surjection(d.refs, new.refs)
  BY <1>1 DEF Surjection
<1> HIDE DEF F, new
<1>5. IsFiniteSet(new.refs)
  BY <1>2, <1>4, FS_Surjection
<1>6. \A f \in new.refs : f.n \in Nat /\ \E g \in d.refs : f.from = g.from /\ f.ref = g.ref
  BY <1>1, <1>3
<1>7. Links(new) = Links(d)
  <2>1. \A g \in d.refs : \E f \in new.refs : f.from = g.from /\ f.ref = g.ref
    <3> TAKE g \in d.refs
    <3> DEFINE f == [n |-> upto(g), from |-> g.from, ref |-> g.ref]
    <3>1. f \in new.refs
      BY <1>1
    <3>2. f.from = g.from /\ f.ref = g.ref
      OBVIOUS
    <3> QED BY <3>1, <3>2
  <2> QED BY <1>6, <2>1 DEF Links
<1>8. DbOK(new)
  BY <1>1, <1>2, <1>5, <1>6 DEF Base, DbOK, RefsOK
<1>9. AllFit(new, rs)
  BY <1>1 DEF Base, AllFit, Fits
<1>10. Upheld(new, rs)
  BY <1>1, <1>6 DEF Base, Upheld, OrgRequired, KeysHold, RefsHold
<1> QED BY <1>1, <1>6, <1>7, <1>8, <1>9, <1>10 DEF Base, new

-----------------------------------------------------------------------------
(* What the later revisions leave alone, which the way down relies on.     *)

\* A statement that leaves a column of a table NOT NULL if it is.
Spares(o, t, c) ==
    o.t = t => /\ o.op # "drop"
               /\ o.op = "remove" => c \notin o.cols
               /\ o.op = "relax" => c # o.col

Steady(o) ==
    /\ Spares(o, "workflows", "name")
    /\ Spares(o, "workflows", "organization_id")

Owned(o) == Spares(o, "workflow_runs", "user_id")

\* The statements of the way down from revision k: what it deletes, and what is as it was.
DownOp(k, o) ==
    /\ o.op # "table"
    /\ k >= 3 => Steady(o)
    /\ k >= 6 => Owned(o)
    /\ o.op = "purge" =>
         \/ k = 4 /\ o.t = "conversations" /\ o.null = "agent_id"
         \/ k = 5 /\ o.t = "tool_executions" /\ o.null = "run_id"
         \/ k = 5 /\ o.t = "workflow_runs"
    /\ o.op = "superseded" => k = 5 /\ o.t = "workflows"
    /\ k = 4 => Spares(o, "conversations", "agent_id")
    /\ k = 5 => /\ o.op # "drop"
                /\ Spares(o, "tool_executions", "run_id")
                /\ o.t = "workflow_runs" =>
                     /\ o.op \in {"relax", "require"} => o.col # "user_id"
                     /\ o.op = "add" => "user_id" \notin o.must \cup o.opt
                /\ o.t = "workflows" /\ o.op = "drop_key" => o.key # {"organization_id", "name"}

\* The way up leaves them alone too, and deletes no row.
UpOp(o) == Steady(o) /\ Owned(o) /\ o.op \notin {"purge", "superseded"}

LEMMA UpNew == \A o : o.op \notin {"drop", "remove", "relax", "purge", "superseded"} => UpOp(o)
BY DEF UpOp, Steady, Owned, Spares
LEMMA UpOps ==
    /\ \A t, x, y, z, r : UpOp(Table(t, x, y, z, r))
    /\ \A t, x, y : UpOp(AddColumns(t, x, y))
    /\ \A t, x : UpOp(UniqueKey(t, x))
    /\ \A t, x : UpOp(DropKey(t, x))
    /\ \A t, x : UpOp(Ref(t, x))
    /\ \A t, x : UpOp(DropRef(t, x))
    /\ \A t, x : UpOp(Check(t, x))
    /\ \A t, x : UpOp(DropCheck(t, x))
    /\ \A t : UpOp(Empty(t))
    /\ \A t, x : t # "workflows" /\ t # "workflow_runs" => UpOp(Relax(t, x))
<1>1. \A t, x : t # "workflows" /\ t # "workflow_runs" => UpOp(Relax(t, x))
  BY DEF UpOp, Steady, Owned, Spares, Relax
<1> QED BY <1>1, UpNew DEF Table, AddColumns, UniqueKey, DropKey, Ref, DropRef, Check, DropCheck, Empty

-----------------------------------------------------------------------------
(* The statements of each revision add such references.                    *)
LEMMA LinkTo == \A s, c, t, on :
    LinkOK(s, To(c, t, on)) <=>
        /\ on = "cascade" /\ t = "users" => s = "organization_members"
        /\ on = "null" => s \in Nullers
        /\ t # "organization_members" /\ s # "users" /\ s # "organizations"
        /\ s = "workflows" => t = "organizations"
BY DEF LinkOK, To

LEMMA LinkWithin == \A s, c, t, on :
    LinkOK(s, Within(c, t, on)) <=>
        /\ on = "cascade" /\ t = "users" => s = "organization_members"
        /\ on = "null" => s \in Nullers
        /\ t # "organization_members" /\ s # "users" /\ s # "organizations"
        /\ s = "workflows" => t = "organizations"
BY DEF LinkOK, Within

LEMMA LinkOrg == \A s : LinkOK(s, Org) <=> s # "users" /\ s # "organizations"
BY LinkTo DEF Org

LEMMA TableOp ==
    ASSUME NEW t, NEW plain, NEW opt, NEW keys, NEW refs, IsList(refs), \A r \in Ops(refs) : LinkOK(t, r),
           "organization_id" \notin opt
    PROVE  OpOK(Table(t, plain, opt, keys, refs))
<1> DEFINE o == Table(t, plain, opt, keys, refs)
<1>1. o.op = "table" /\ o.t = t /\ o.refs = refs /\ o.opt = opt
  BY DEF Table
<1> HIDE DEF o
<1>2. NewRefs(o) = refs
  BY <1>1 DEF NewRefs
<1> QED BY <1>1, <1>2 DEF OpOK, Sound, OrgSafe, o

LEMMA Table0 == \A t, plain, opt, keys :
    "organization_id" \notin opt => OpOK(Table(t, plain, opt, keys, <<>>))
BY TableOp, List0

LEMMA Table1 == \A t, plain, opt, keys, r :
    LinkOK(t, r) /\ "organization_id" \notin opt => OpOK(Table(t, plain, opt, keys, <<r>>))
<1> TAKE t, plain, opt, keys, r
<1> QED BY TableOp, List1

LEMMA Table2 == \A t, plain, opt, keys, r1, r2 :
    LinkOK(t, r1) /\ LinkOK(t, r2) /\ "organization_id" \notin opt
      => OpOK(Table(t, plain, opt, keys, <<r1, r2>>))
<1> TAKE t, plain, opt, keys, r1, r2
<1> QED BY TableOp, List2

LEMMA Table3 == \A t, plain, opt, keys, r1, r2, r3 :
    LinkOK(t, r1) /\ LinkOK(t, r2) /\ LinkOK(t, r3) /\ "organization_id" \notin opt
      => OpOK(Table(t, plain, opt, keys, <<r1, r2, r3>>))
<1> TAKE t, plain, opt, keys, r1, r2, r3
<1> QED BY TableOp, List3

LEMMA Table6 == \A t, plain, opt, keys, r1, r2, r3, r4, r5, r6 :
    LinkOK(t, r1) /\ LinkOK(t, r2) /\ LinkOK(t, r3) /\ LinkOK(t, r4) /\ LinkOK(t, r5) /\ LinkOK(t, r6)
        /\ "organization_id" \notin opt
      => OpOK(Table(t, plain, opt, keys, <<r1, r2, r3, r4, r5, r6>>))
<1> TAKE t, plain, opt, keys, r1, r2, r3, r4, r5, r6
<1> QED BY TableOp, List6

LEMMA RefOp == \A t, r : LinkOK(t, r) => OpOK(Ref(t, r))
<1> TAKE t, r
<1> DEFINE o == Ref(t, r)
<1>1. o.op = "ref" /\ o.t = t /\ o.ref = r
  BY DEF Ref
<1> HIDE DEF o
<1>2. NewRefs(o) = <<r>>
  BY <1>1 DEF NewRefs
<1> QED BY <1>1, <1>2, List1 DEF OpOK, Sound, OrgSafe, o

LEMMA OtherOp == \A o : o.op \notin {"table", "ref"} /\ OrgSafe(o) => OpOK(o)
<1> TAKE o
<1> HAVE o.op \notin {"table", "ref"} /\ OrgSafe(o)
<1>1. NewRefs(o) = <<>>
  BY DEF NewRefs
<1> QED BY <1>1, List0 DEF OpOK, Sound

LEMMA OtherOps ==
    /\ \A t : OpOK(Drop(t))
    /\ \A t : OpOK(Empty(t))
    /\ \A t : OpOK(PurgeAll(t))
    /\ \A t : OpOK(PurgeSuperseded(t))
    /\ \A t, x, y : "organization_id" \notin y => OpOK(AddColumns(t, x, y))
    /\ \A t, x : OpOK(RemoveColumns(t, x))
    /\ \A t, x : x # "organization_id" => OpOK(Relax(t, x))
    /\ \A t, x : OpOK(Require(t, x))
    /\ \A t, x : OpOK(UniqueKey(t, x))
    /\ \A t, x : OpOK(DropKey(t, x))
    /\ \A t, x : OpOK(DropRef(t, x))
    /\ \A t, x : OpOK(Check(t, x))
    /\ \A t, x : OpOK(DropCheck(t, x))
    /\ \A t, x : OpOK(PurgeNull(t, x))
BY OtherOp DEF Drop, Empty, PurgeAll, PurgeSuperseded, AddColumns, RemoveColumns, Relax, Require, UniqueKey,
               DropKey, DropRef, Check, DropCheck, PurgeNull, OrgSafe

LEMMA PlatformOK == IsList(Platform) /\ \A o \in Ops(Platform) : OpOK(o)
BY List4, Table0, Table1, LinkOrg DEF Platform
LEMMA RecordsOK == IsList(Records) /\ \A o \in Ops(Records) : OpOK(o)
BY List3, Table2, LinkOrg, LinkTo DEF Records, Nullers
LEMMA ChatsOK == IsList(Chats) /\ \A o \in Ops(Chats) : OpOK(o)
BY List3, Table1, Table2, Table3, LinkOrg, LinkTo DEF Chats
LEMMA FlowsOK == IsList(Flows) /\ \A o \in Ops(Flows) : OpOK(o)
BY List3, Table1, Table2, OtherOps, LinkOrg, LinkTo DEF Flows
LEMMA QuestionsOK == IsList(Questions) /\ \A o \in Ops(Questions) : OpOK(o)
BY List1, Table6, LinkOrg, LinkTo DEF Questions, Nullers
LEMMA TurnsOK == IsList(Turns) /\ \A o \in Ops(Turns) : OpOK(o)
BY List3, Table1, Table2, OtherOps, LinkTo DEF Turns
LEMMA BusinessOK ==
    /\ IsList(Customers) /\ \A o \in Ops(Customers) : OpOK(o)
    /\ IsList(Bills) /\ \A o \in Ops(Bills) : OpOK(o)
    /\ IsList(Charges) /\ \A o \in Ops(Charges) : OpOK(o)
<1>1. IsList(Customers) /\ \A o \in Ops(Customers) : OpOK(o)
  BY List2, Table1, Table2, LinkOrg, LinkWithin DEF Customers
<1>2. IsList(Bills) /\ \A o \in Ops(Bills) : OpOK(o)
  BY List1, Table3, LinkOrg, LinkWithin DEF Bills
<1>3. IsList(Charges) /\ \A o \in Ops(Charges) : OpOK(o)
  BY List1, Table2, LinkOrg, LinkWithin DEF Charges
<1> QED BY <1>1, <1>2, <1>3
LEMMA RunTablesOK == IsList(RunTables) /\ \A o \in Ops(RunTables) : OpOK(o)
BY List4, Table3, OtherOps, LinkOrg, LinkTo, LinkWithin DEF RunTables
LEMMA ExecutionTablesOK == IsList(ExecutionTables) /\ \A o \in Ops(ExecutionTables) : OpOK(o)
BY List6, Table2, RefOp, OtherOps, LinkOrg, LinkWithin DEF ExecutionTables
LEMMA VersionWorkflowsOK == IsList(VersionWorkflows) /\ \A o \in Ops(VersionWorkflows) : OpOK(o)
BY List8, OtherOps DEF VersionWorkflows
LEMMA WidenOK == \A t, x, y : IsList(Widen(t, x, y)) /\ \A o \in Ops(Widen(t, x, y)) : OpOK(o)
BY List2, OtherOps DEF Widen
LEMMA UpWiden == \A t, x, y : \A o \in Ops(Widen(t, x, y)) : UpOp(o)
BY List2, UpOps DEF Widen
LEMMA DownWiden == \A t, x, y : \A o \in Ops(Widen(t, x, y)) : DownOp(5, o)
BY List2 DEF Widen, Check, DropCheck, DownOp, Spares, Steady, Owned
LEMMA ReshapeRunsOK ==
    /\ IsList(ReshapeRuns) /\ \A o \in Ops(ReshapeRuns) : OpOK(o) /\ UpOp(o)
    /\ \E o \in Ops(ReshapeRuns) : o.op = "add" /\ o.t = "workflow_runs" /\ "user_id" \in o.must
<1> DEFINE a == <<DropRef("workflow_runs", To("workflow_id", "workflows", "cascade")),
                  AddColumns("workflow_runs", {"user_id"},
                      {"workflow_version", "current_step", "step_count", "input_data", "output_data",
                       "idempotency_key", "request_id", "error_code"})>>
           w == Widen("workflow_runs", OldRunStatuses, RunStatuses)
           b == <<Ref("workflow_runs", To("user_id", "users", "restrict")),
                  Ref("workflow_runs", Within("workflow_id", "workflows", "cascade")),
                  UniqueKey("workflow_runs", {"organization_id", "idempotency_key"}),
                  UniqueKey("workflow_runs", OrgKey),
                  Check("workflow_runs", {"step_count_not_negative"}),
                  Check("workflow_runs", {"workflow_version_positive"})>>
<1>1. IsList(a) /\ \A o \in Ops(a) : OpOK(o) /\ UpOp(o)
  BY List2, OtherOps, UpOps
<1>2. IsList(w) /\ \A o \in Ops(w) : OpOK(o) /\ UpOp(o)
  BY WidenOK, UpWiden
<1>3. IsList(b) /\ \A o \in Ops(b) : OpOK(o) /\ UpOp(o)
  BY List6, OtherOps, RefOp, LinkTo, LinkWithin, UpOps
<1>4. ReshapeRuns = (a \o w) \o b
  BY DEF ReshapeRuns
<1>5. \E o \in Ops(a) : o.op = "add" /\ o.t = "workflow_runs" /\ "user_id" \in o.must
  BY List2 DEF AddColumns
<1> HIDE DEF a, w, b
<1>6. IsList(a \o w) /\ Ops(a \o w) = Ops(a) \cup Ops(w)
  BY <1>1, <1>2, ConcatOps
<1>7. IsList((a \o w) \o b) /\ Ops((a \o w) \o b) = Ops(a \o w) \cup Ops(b)
  BY <1>3, <1>6, ConcatOps
<1> QED BY <1>1, <1>2, <1>3, <1>4, <1>6, <1>7, <1>5
LEMMA ReshapeStepRunsOK == IsList(ReshapeStepRuns) /\ \A o \in Ops(ReshapeStepRuns) : OpOK(o) /\ UpOp(o)
<1> DEFINE a == <<DropRef("workflow_step_runs", To("workflow_run_id", "workflow_runs", "cascade")),
                  AddColumns("workflow_step_runs", {"organization_id", "step_key", "step_type", "position"},
                      {"agent_run_id", "error_code"}),
                  Relax("workflow_step_runs", "workflow_step_id")>>
           w == Widen("workflow_step_runs", OldStepStatuses, StepStatuses)
           b == <<Ref("workflow_step_runs", Org),
                  Ref("workflow_step_runs", Within("workflow_run_id", "workflow_runs", "cascade")),
                  Ref("workflow_step_runs", Within("agent_run_id", "agent_runs", "null")),
                  UniqueKey("workflow_step_runs", {"workflow_run_id", "step_key"}),
                  UniqueKey("workflow_step_runs", {"workflow_run_id", "position"}),
                  UniqueKey("workflow_step_runs", OrgKey),
                  Check("workflow_step_runs", {"position_positive"})>>
<1>1. IsList(a) /\ \A o \in Ops(a) : OpOK(o) /\ UpOp(o)
  BY List3, OtherOps, UpOps
<1>2. IsList(w) /\ \A o \in Ops(w) : OpOK(o) /\ UpOp(o)
  BY WidenOK, UpWiden
<1>3. IsList(b) /\ \A o \in Ops(b) : OpOK(o) /\ UpOp(o)
  BY List7, OtherOps, RefOp, LinkOrg, LinkWithin, UpOps DEF Nullers
<1>4. ReshapeStepRuns = (a \o w) \o b
  BY DEF ReshapeStepRuns
<1> HIDE DEF a, w, b
<1>5. IsList(a \o w) /\ Ops(a \o w) = Ops(a) \cup Ops(w)
  BY <1>1, <1>2, ConcatOps
<1>6. IsList((a \o w) \o b) /\ Ops((a \o w) \o b) = Ops(a \o w) \cup Ops(b)
  BY <1>3, <1>5, ConcatOps
<1> QED BY <1>1, <1>2, <1>3, <1>4, <1>5, <1>6
LEMMA LinkCallersOK == IsList(LinkCallers) /\ \A o \in Ops(LinkCallers) : OpOK(o)
BY List9, OtherOps, RefOp, LinkWithin DEF LinkCallers
LEMMA ReviewedOK ==
    /\ IsList(Reviewed) /\ \A o \in Ops(Reviewed) : OpOK(o)
    /\ IsList(UndoReviewed) /\ \A o \in Ops(UndoReviewed) : OpOK(o)
BY List1, OtherOps DEF Reviewed, UndoReviewed
LEMMA UsageOK ==
    /\ IsList(Usage) /\ \A o \in Ops(Usage) : OpOK(o)
    /\ IsList(UndoUsage) /\ \A o \in Ops(UndoUsage) : OpOK(o)
<1>1. IsList(Usage) /\ \A o \in Ops(Usage) : OpOK(o)
  BY List1, Table2, LinkOrg, LinkTo DEF Usage
<1>2. IsList(UndoUsage) /\ \A o \in Ops(UndoUsage) : OpOK(o)
  BY List1, OtherOps DEF UndoUsage
<1> QED BY <1>1, <1>2

\* The way down adds references in two places only.
LEMMA UndoInitialOK == IsList(UndoInitial) /\ \A o \in Ops(UndoInitial) : OpOK(o)
BY List15, OtherOps DEF UndoInitial
LEMMA UndoBusinessOK == IsList(UndoBusiness) /\ \A o \in Ops(UndoBusiness) : OpOK(o)
BY List4, OtherOps DEF UndoBusiness
LEMMA UndoExecutionOK == IsList(UndoExecution) /\ \A o \in Ops(UndoExecution) : OpOK(o)
BY List11, OtherOps DEF UndoExecution
LEMMA UnlinkCallersOK == IsList(UnlinkCallers) /\ \A o \in Ops(UnlinkCallers) : OpOK(o)
BY List11, OtherOps DEF UnlinkCallers
LEMMA RestoreWorkflowsOK == IsList(RestoreWorkflows) /\ \A o \in Ops(RestoreWorkflows) : OpOK(o)
BY List7, OtherOps DEF RestoreWorkflows
LEMMA RestoreStepRunsOK == IsList(RestoreStepRuns) /\ \A o \in Ops(RestoreStepRuns) : OpOK(o) /\ DownOp(5, o)
<1> DEFINE a == <<DropCheck("workflow_step_runs", {"position_positive"}),
                  DropKey("workflow_step_runs", OrgKey),
                  DropKey("workflow_step_runs", {"workflow_run_id", "position"}),
                  DropKey("workflow_step_runs", {"workflow_run_id", "step_key"}),
                  DropRef("workflow_step_runs", Within("agent_run_id", "agent_runs", "null")),
                  DropRef("workflow_step_runs", Within("workflow_run_id", "workflow_runs", "cascade")),
                  DropRef("workflow_step_runs", Org)>>
           w == Widen("workflow_step_runs", StepStatuses, OldStepStatuses)
           b == <<Require("workflow_step_runs", "workflow_step_id"),
                  RemoveColumns("workflow_step_runs",
                      {"error_code", "agent_run_id", "position", "step_type", "step_key", "organization_id"}),
                  Ref("workflow_step_runs", To("workflow_run_id", "workflow_runs", "cascade"))>>
<1>1. IsList(a) /\ \A o \in Ops(a) : OpOK(o) /\ DownOp(5, o)
  <2>1. \A o \in Ops(a) : DownOp(5, o)
    BY List7 DEF DropCheck, DropKey, DropRef, DownOp, Spares, Steady, Owned
  <2> QED BY <2>1, List7, OtherOps
<1>2. IsList(w) /\ \A o \in Ops(w) : OpOK(o) /\ DownOp(5, o)
  BY WidenOK, DownWiden
<1>3. IsList(b) /\ \A o \in Ops(b) : OpOK(o) /\ DownOp(5, o)
  <2>1. \A o \in Ops(b) : DownOp(5, o)
    BY List3 DEF Require, RemoveColumns, Ref, DownOp, Spares, Steady, Owned
  <2> QED BY <2>1, List3, OtherOps, RefOp, LinkTo
<1>4. RestoreStepRuns = (a \o w) \o b
  BY DEF RestoreStepRuns
<1> HIDE DEF a, w, b
<1>5. IsList(a \o w) /\ Ops(a \o w) = Ops(a) \cup Ops(w)
  BY <1>1, <1>2, ConcatOps
<1>6. IsList((a \o w) \o b) /\ Ops((a \o w) \o b) = Ops(a \o w) \cup Ops(b)
  BY <1>3, <1>5, ConcatOps
<1> QED BY <1>1, <1>2, <1>3, <1>4, <1>5, <1>6
LEMMA RestoreRunsOK ==
    /\ IsList(RestoreRuns) /\ \A o \in Ops(RestoreRuns) : OpOK(o) /\ DownOp(5, o)
    /\ \E o \in Ops(RestoreRuns) : o.op = "remove" /\ o.t = "workflow_runs" /\ "user_id" \in o.cols
<1> DEFINE a == <<DropCheck("workflow_runs", {"workflow_version_positive"}),
                  DropCheck("workflow_runs", {"step_count_not_negative"}),
                  DropKey("workflow_runs", OrgKey),
                  DropKey("workflow_runs", {"organization_id", "idempotency_key"}),
                  DropRef("workflow_runs", Within("workflow_id", "workflows", "cascade")),
                  DropRef("workflow_runs", To("user_id", "users", "restrict"))>>
           w == Widen("workflow_runs", RunStatuses, OldRunStatuses)
           b == <<RemoveColumns("workflow_runs",
                      {"error_code", "request_id", "idempotency_key", "output_data", "input_data",
                       "step_count", "current_step", "user_id", "workflow_version"}),
                  Ref("workflow_runs", To("workflow_id", "workflows", "cascade"))>>
<1>1. IsList(a) /\ \A o \in Ops(a) : OpOK(o) /\ DownOp(5, o)
  <2>1. \A o \in Ops(a) : DownOp(5, o)
    BY List6 DEF DropCheck, DropKey, DropRef, DownOp, Spares, Steady, Owned
  <2> QED BY <2>1, List6, OtherOps
<1>2. IsList(w) /\ \A o \in Ops(w) : OpOK(o) /\ DownOp(5, o)
  BY WidenOK, DownWiden
<1>3. IsList(b) /\ \A o \in Ops(b) : OpOK(o) /\ DownOp(5, o)
  <2>1. \A o \in Ops(b) : DownOp(5, o)
    BY List2 DEF RemoveColumns, Ref, DownOp, Spares, Steady, Owned
  <2> QED BY <2>1, List2, OtherOps, RefOp, LinkTo
<1>4. RestoreRuns = (a \o w) \o b
  BY DEF RestoreRuns
<1>5. \E o \in Ops(b) : o.op = "remove" /\ o.t = "workflow_runs" /\ "user_id" \in o.cols
  BY List2 DEF RemoveColumns
<1> HIDE DEF a, w, b
<1>6. IsList(a \o w) /\ Ops(a \o w) = Ops(a) \cup Ops(w)
  BY <1>1, <1>2, ConcatOps
<1>7. IsList((a \o w) \o b) /\ Ops((a \o w) \o b) = Ops(a \o w) \cup Ops(b)
  BY <1>3, <1>6, ConcatOps
<1> QED BY <1>1, <1>2, <1>3, <1>4, <1>6, <1>7, <1>5

LEMMA DownInitial == \A o \in Ops(UndoInitial) : DownOp(2, o)
BY List15 DEF UndoInitial, Drop, DownOp, Spares, Steady, Owned
LEMMA DownBusiness == \A o \in Ops(UndoBusiness) : DownOp(3, o)
BY List4 DEF UndoBusiness, Drop, DownOp, Spares, Steady, Owned
LEMMA DownExecution == \A o \in Ops(UndoExecution) : DownOp(4, o)
BY List11 DEF UndoExecution, Drop, DropRef, DropKey, RemoveColumns, PurgeNull, Require,
              DownOp, Spares, Steady, Owned
LEMMA DownCallers == \A o \in Ops(UnlinkCallers) : DownOp(5, o)
BY List11 DEF UnlinkCallers, PurgeAll, PurgeNull, DropRef, DropKey, DropCheck, RemoveColumns, Require,
              DownOp, Spares, Steady, Owned
LEMMA DownWorkflows == \A o \in Ops(RestoreWorkflows) : DownOp(5, o)
BY List7 DEF RestoreWorkflows, AddColumns, DropKey, DropCheck, UniqueKey, PurgeSuperseded, RemoveColumns,
              OrgKey, DownOp, Spares, Steady, Owned
LEMMA DownReviewed == \A o \in Ops(UndoReviewed) : DownOp(6, o)
BY List1 DEF UndoReviewed, RemoveColumns, DownOp, Spares, Steady, Owned
LEMMA DownUsage == \A o \in Ops(UndoUsage) : DownOp(7, o)
BY List1 DEF UndoUsage, Drop, DownOp, Spares, Steady, Owned

LEMMA UpPlatform == \A o \in Ops(Platform) : UpOp(o)
BY List4, UpOps DEF Platform
LEMMA UpRecords == \A o \in Ops(Records) : UpOp(o)
BY List3, UpOps DEF Records
LEMMA UpChats == \A o \in Ops(Chats) : UpOp(o)
BY List3, UpOps DEF Chats
LEMMA UpFlows == \A o \in Ops(Flows) : UpOp(o)
BY List3, UpOps DEF Flows
LEMMA UpQuestions == \A o \in Ops(Questions) : UpOp(o)
BY List1, UpOps DEF Questions
LEMMA UpTurns == \A o \in Ops(Turns) : UpOp(o)
BY List3, UpOps DEF Turns
LEMMA UpCustomers == \A o \in Ops(Customers) : UpOp(o)
BY List2, UpOps DEF Customers
LEMMA UpBills == \A o \in Ops(Bills) : UpOp(o)
BY List1, UpOps DEF Bills
LEMMA UpCharges == \A o \in Ops(Charges) : UpOp(o)
BY List1, UpOps DEF Charges
LEMMA UpRunTables == \A o \in Ops(RunTables) : UpOp(o)
BY List4, UpOps DEF RunTables
LEMMA UpExecutionTables == \A o \in Ops(ExecutionTables) : UpOp(o)
BY List6, UpOps DEF ExecutionTables
LEMMA UpVersionWorkflows == \A o \in Ops(VersionWorkflows) : UpOp(o)
<1>1. UpOp(RemoveColumns("workflows", {"enabled"}))
  BY DEF UpOp, Steady, Owned, Spares, RemoveColumns
<1> QED BY <1>1, List8, UpOps DEF VersionWorkflows
LEMMA UpLinkCallers == \A o \in Ops(LinkCallers) : UpOp(o)
BY List9, UpOps DEF LinkCallers
LEMMA UpReviewed == \A o \in Ops(Reviewed) : UpOp(o)
BY List1, UpOps DEF Reviewed
LEMMA UpUsage == \A o \in Ops(Usage) : UpOp(o)
BY List1, UpOps DEF Usage

\* The statements of each revision, up and down, and those the way down relies on.
LEMMA InitialIs ==
    /\ IsList(Up[2]) /\ \A o \in Ops(Up[2]) : OpOK(o) /\ UpOp(o)
    /\ \E o \in Ops(Up[2]) : o.op = "table" /\ o.t = "workflows" /\ {"name", "organization_id"} \in SUBSET o.must
<1>1. Up[2] = ((((Platform \o Records) \o Chats) \o Flows) \o Questions) \o Turns
  BY DEF Up
<1>2. IsList(Platform \o Records) /\ Ops(Platform \o Records) = Ops(Platform) \cup Ops(Records)
  BY PlatformOK, RecordsOK, ConcatOps
<1> DEFINE b == Platform \o Records
           c == b \o Chats
           e == c \o Flows
           f == e \o Questions
           g == f \o Turns
<1> HIDE DEF b
<1>3. IsList(c) /\ Ops(c) = Ops(b) \cup Ops(Chats)
  BY <1>2, ChatsOK, ConcatOps DEF b
<1> HIDE DEF c
<1>4. IsList(e) /\ Ops(e) = Ops(c) \cup Ops(Flows)
  BY <1>3, FlowsOK, ConcatOps
<1> HIDE DEF e
<1>5. IsList(f) /\ Ops(f) = Ops(e) \cup Ops(Questions)
  BY <1>4, QuestionsOK, ConcatOps
<1> HIDE DEF f
<1>6. IsList(g) /\ Ops(g) = Ops(f) \cup Ops(Turns)
  BY <1>5, TurnsOK, ConcatOps
<1>7. Up[2] = g
  BY <1>1 DEF b, c, e, f
<1> HIDE DEF g
<1>8. \A o \in Ops(g) : OpOK(o) /\ UpOp(o)
  BY <1>2, <1>3, <1>4, <1>5, <1>6, PlatformOK, RecordsOK, ChatsOK, FlowsOK, QuestionsOK, TurnsOK,
     UpPlatform, UpRecords, UpChats, UpFlows, UpQuestions, UpTurns DEF b
<1>9. \E o \in Ops(Chats) : o.op = "table" /\ o.t = "workflows" /\ {"name", "organization_id"} \in SUBSET o.must
  <2> DEFINE o == Table("workflows", {"name"}, {"enabled"}, {{"organization_id", "name"}}, <<Org>>)
  <2>1. o \in Ops(Chats)
    BY List3 DEF Chats
  <2>2. o.op = "table" /\ o.t = "workflows" /\ o.must = ({"name"} \cup {<<Org>>[i].col : i \in DOMAIN <<Org>>}) \ {"enabled"}
    BY DEF Table
  <2>3. <<Org>>[1].col = "organization_id" /\ 1 \in DOMAIN <<Org>>
    BY DEF Org, To
  <2>4. "organization_id" \in {<<Org>>[i].col : i \in DOMAIN <<Org>>}
    BY <2>3
  <2> HIDE DEF o
  <2>5. {"name", "organization_id"} \in SUBSET o.must
    BY <2>2, <2>4
  <2> QED BY <2>1, <2>2, <2>5
<1> QED BY <1>3, <1>4, <1>5, <1>6, <1>7, <1>8, <1>9

LEMMA BusinessIs == IsList(Up[3]) /\ \A o \in Ops(Up[3]) : OpOK(o) /\ UpOp(o)
<1>1. Up[3] = (Customers \o Bills) \o Charges
  BY DEF Up
<1>2. IsList(Customers \o Bills) /\ Ops(Customers \o Bills) = Ops(Customers) \cup Ops(Bills)
  BY BusinessOK, ConcatOps
<1>3. /\ IsList((Customers \o Bills) \o Charges)
      /\ Ops((Customers \o Bills) \o Charges) = Ops(Customers \o Bills) \cup Ops(Charges)
  BY <1>2, BusinessOK, ConcatOps
<1> QED BY <1>1, <1>2, <1>3, BusinessOK, UpCustomers, UpBills, UpCharges

LEMMA ExecutionIs ==
    /\ IsList(Up[4]) /\ \A o \in Ops(Up[4]) : OpOK(o) /\ UpOp(o)
    /\ \E o \in Ops(Down[4]) : o.op = "require" /\ o.t = "conversations" /\ o.col = "agent_id"
<1>1. Up[4] = RunTables \o ExecutionTables /\ Down[4] = UndoExecution
  BY DEF Up, Down
<1>2. IsList(RunTables \o ExecutionTables) /\ Ops(RunTables \o ExecutionTables) = Ops(RunTables) \cup Ops(ExecutionTables)
  BY RunTablesOK, ExecutionTablesOK, ConcatOps
<1>3. \E o \in Ops(UndoExecution) : o.op = "require" /\ o.t = "conversations" /\ o.col = "agent_id"
  BY List11 DEF UndoExecution, Require
<1> QED BY <1>1, <1>2, <1>3, RunTablesOK, ExecutionTablesOK, UpRunTables, UpExecutionTables

LEMMA EngineIs ==
    /\ IsList(Up[5]) /\ \A o \in Ops(Up[5]) : OpOK(o) /\ UpOp(o)
    /\ \E o \in Ops(Up[5]) : o.op = "add" /\ o.t = "workflow_runs" /\ "user_id" \in o.must
<1>1. Up[5] = ((VersionWorkflows \o ReshapeRuns) \o ReshapeStepRuns) \o LinkCallers
  BY DEF Up
<1> DEFINE b == VersionWorkflows \o ReshapeRuns
           c == b \o ReshapeStepRuns
           e == c \o LinkCallers
<1>2. IsList(b) /\ Ops(b) = Ops(VersionWorkflows) \cup Ops(ReshapeRuns)
  BY VersionWorkflowsOK, ReshapeRunsOK, ConcatOps
<1> HIDE DEF b
<1>3. IsList(c) /\ Ops(c) = Ops(b) \cup Ops(ReshapeStepRuns)
  BY <1>2, ReshapeStepRunsOK, ConcatOps
<1> HIDE DEF c
<1>4. IsList(e) /\ Ops(e) = Ops(c) \cup Ops(LinkCallers)
  BY <1>3, LinkCallersOK, ConcatOps
<1>5. Up[5] = e
  BY <1>1 DEF b, c
<1> HIDE DEF e
<1> QED BY <1>2, <1>3, <1>4, <1>5, VersionWorkflowsOK, ReshapeRunsOK, ReshapeStepRunsOK, LinkCallersOK,
           UpVersionWorkflows, UpLinkCallers

LEMMA UndoEngineIs ==
    /\ IsList(Down[5]) /\ \A o \in Ops(Down[5]) : OpOK(o) /\ DownOp(5, o)
    /\ \E o \in Ops(Down[5]) : o.op = "require" /\ o.t = "tool_executions" /\ o.col = "run_id"
    /\ \E o \in Ops(Down[5]) : o.op = "remove" /\ o.t = "workflow_runs" /\ "user_id" \in o.cols
    /\ \E o \in Ops(Down[5]) : o.op = "key" /\ o.t = "workflows" /\ o.key = {"organization_id", "name"}
<1>1. Down[5] = ((UnlinkCallers \o RestoreStepRuns) \o RestoreRuns) \o RestoreWorkflows
  BY DEF Down
<1> DEFINE b == UnlinkCallers \o RestoreStepRuns
           c == b \o RestoreRuns
           e == c \o RestoreWorkflows
<1>2. IsList(b) /\ Ops(b) = Ops(UnlinkCallers) \cup Ops(RestoreStepRuns)
  BY UnlinkCallersOK, RestoreStepRunsOK, ConcatOps
<1> HIDE DEF b
<1>3. IsList(c) /\ Ops(c) = Ops(b) \cup Ops(RestoreRuns)
  BY <1>2, RestoreRunsOK, ConcatOps
<1> HIDE DEF c
<1>4. IsList(e) /\ Ops(e) = Ops(c) \cup Ops(RestoreWorkflows)
  BY <1>3, RestoreWorkflowsOK, ConcatOps
<1>5. Down[5] = e
  BY <1>1 DEF b, c
<1> HIDE DEF e
<1>6. \E o \in Ops(UnlinkCallers) : o.op = "require" /\ o.t = "tool_executions" /\ o.col = "run_id"
  BY List11 DEF UnlinkCallers, Require
<1>7. \E o \in Ops(RestoreWorkflows) : o.op = "key" /\ o.t = "workflows" /\ o.key = {"organization_id", "name"}
  BY List7 DEF RestoreWorkflows, UniqueKey
<1> QED BY <1>2, <1>3, <1>4, <1>5, <1>6, <1>7, UnlinkCallersOK, RestoreStepRunsOK, RestoreRunsOK,
           RestoreWorkflowsOK, DownCallers, DownWorkflows

LEMMA Revisions ==
    /\ Latest = 7
    /\ \A k \in 1 .. 7 : /\ IsList(Up[k]) /\ \A o \in Ops(Up[k]) : OpOK(o) /\ UpOp(o)
                         /\ IsList(Down[k]) /\ \A o \in Ops(Down[k]) : OpOK(o) /\ DownOp(k, o)
<1>1. Latest = 7
  BY DEF Latest, Up
<1>2. /\ Up[1] = <<>> /\ Up[6] = Reviewed /\ Up[7] = Usage
      /\ Down[1] = <<>> /\ Down[2] = UndoInitial /\ Down[3] = UndoBusiness /\ Down[4] = UndoExecution
      /\ Down[6] = UndoReviewed /\ Down[7] = UndoUsage
  BY DEF Up, Down
<1>3. \A k \in 1 .. 7 : IsList(Up[k]) /\ \A o \in Ops(Up[k]) : OpOK(o) /\ UpOp(o)
  <2> TAKE k \in 1 .. 7
  <2>1. k \in {1, 2, 3, 4, 5, 6, 7}
    OBVIOUS
  <2> QED BY <1>2, <2>1, List0, InitialIs, BusinessIs, ExecutionIs, EngineIs, ReviewedOK, UsageOK,
             UpReviewed, UpUsage
<1>4. \A k \in 1 .. 7 : IsList(Down[k]) /\ \A o \in Ops(Down[k]) : OpOK(o) /\ DownOp(k, o)
  <2> TAKE k \in 1 .. 7
  <2>1. k \in {1, 2, 3, 4, 5, 6, 7}
    OBVIOUS
  <2> QED BY <1>2, <2>1, List0, UndoInitialOK, UndoBusinessOK, UndoExecutionOK, UndoEngineIs, ReviewedOK,
             UsageOK, DownInitial, DownBusiness, DownExecution, DownReviewed, DownUsage
<1> QED BY <1>1, <1>3, <1>4

-----------------------------------------------------------------------------
(* What holds of every schema and the rows in it.                          *)
SchemaInv ==
    /\ rev \in 0 .. 7
    /\ Base(db, rows)
    /\ DOMAIN rows \in SUBSET WrittenIds
    /\ refused \in SUBSET {"migration", "offboarding"}

LEMMA StartsEmpty ==
    ASSUME SchemaInit
    PROVE  SchemaInv
<1>1. db = Nothing /\ rows = NoRows /\ rev = 0 /\ refused = {}
  BY DEF SchemaInit
<1>2. DOMAIN rows = {}
  BY <1>1 DEF NoRows
<1>3. db.refs = {} /\ db.last = 0 /\ DOMAIN db.tables = {}
  BY <1>1 DEF Nothing
<1>4. IsFiniteSet({})
  BY FS_EmptySet
<1>5. DbOK(db) /\ \A f \in db.refs : LinkOK(f.from, f.ref)
  BY <1>3, <1>4 DEF DbOK, RefsOK
<1>6. RowsOK(rows) /\ AllFit(db, rows)
  BY <1>2, <1>4 DEF RowsOK, AllFit
<1>7. Upheld(db, rows)
  BY <1>2, <1>3 DEF Upheld, OrgRequired, KeysHold, RefsHold
<1> QED BY <1>1, <1>2, <1>5, <1>6, <1>7 DEF SchemaInv, Base

\* A migration that is accepted, from the schema and the rows to the new ones.
Migrated(ops) ==
    \E a : /\ Accepted(a, From(db, rows), ops, Len(ops))
           /\ \A i \in 0 .. Len(ops) : Base(a[i].d, a[i].rows) /\ Remain(rows, a[i].rows)
           /\ db'.tables = a[Len(ops)].d.tables /\ rows' = a[Len(ops)].rows

LEMMA MigrateIs ==
    ASSUME SchemaInv, NEW ops, IsList(ops), \A o \in Ops(ops) : OpOK(o), NEW to, Migrate(ops, to)
    PROVE  \/ /\ rev' = to /\ refused' = refused
              /\ Base(db', rows') /\ Remain(rows, rows')
              /\ Migrated(ops)
           \/ /\ refused' = refused \cup {"migration"}
              /\ UNCHANGED <<rev, db, rows>>
<1> DEFINE done == Run(db, rows, ops)
<1>1. CASE ~ done.ok
  BY <1>1 DEF Migrate
<1>2. CASE done.ok
  <2>1. rev' = to /\ db' = Renumbered(done.d) /\ rows' = done.rows /\ refused' = refused
    BY <1>2 DEF Migrate
  <2>2. PICK a : /\ Accepted(a, From(db, rows), ops, Len(ops)) /\ done = a[Len(ops)]
                 /\ \A i \in 0 .. Len(ops) : Base(a[i].d, a[i].rows) /\ Remain(rows, a[i].rows)
    BY <1>2, MigrationKeeps DEF SchemaInv
  <2>3. Len(ops) \in 0 .. Len(ops)
    BY LenProperties DEF IsList
  <2> HIDE DEF done
  <2>4. Base(done.d, done.rows) /\ Remain(rows, done.rows)
    BY <2>2, <2>3
  <2>5. Base(Renumbered(done.d), done.rows) /\ Renumbered(done.d).tables = done.d.tables
    BY <2>4, RenumberedKeeps
  <2>6. db'.tables = a[Len(ops)].d.tables /\ rows' = a[Len(ops)].rows
    BY <2>1, <2>2, <2>5
  <2>7. Migrated(ops)
    BY <2>2, <2>6 DEF Migrated
  <2> QED BY <2>1, <2>4, <2>5, <2>7
<1> QED BY <1>1, <1>2

LEMMA UpgradeIs ==
    ASSUME SchemaInv, Upgrade
    PROVE  /\ rev \in 0 .. 6
           /\ \/ /\ rev' = rev + 1 /\ refused' = refused
                 /\ Base(db', rows') /\ Remain(rows, rows')
                 /\ Migrated(Up[rev + 1])
              \/ /\ refused' = refused \cup {"migration"}
                 /\ UNCHANGED <<rev, db, rows>>
<1>1. rev \in 0 .. 7 /\ rev < 7 /\ Migrate(Up[rev + 1], rev + 1)
  BY Revisions DEF SchemaInv, Upgrade
<1>2. rev + 1 \in 1 .. 7 /\ rev \in 0 .. 6
  BY <1>1
<1>3. IsList(Up[rev + 1]) /\ \A o \in Ops(Up[rev + 1]) : OpOK(o)
  BY <1>2, Revisions
<1> DEFINE ops == Up[rev + 1]
<1> HIDE DEF ops
<1> QED BY <1>1, <1>2, <1>3, MigrateIs DEF ops

LEMMA DowngradeIs ==
    ASSUME SchemaInv, Downgrade
    PROVE  /\ rev \in 1 .. 7
           /\ \/ /\ rev' = rev - 1 /\ refused' = refused
                 /\ Base(db', rows') /\ Remain(rows, rows')
                 /\ Migrated(Down[rev])
              \/ /\ refused' = refused \cup {"migration"}
                 /\ UNCHANGED <<rev, db, rows>>
<1>1. rev \in 0 .. 7 /\ rev > 0 /\ Migrate(Down[rev], rev - 1)
  BY DEF SchemaInv, Downgrade
<1>2. rev \in 1 .. 7
  BY <1>1
<1>3. IsList(Down[rev]) /\ \A o \in Ops(Down[rev]) : OpOK(o)
  BY <1>2, Revisions
<1> DEFINE ops == Down[rev]
<1> HIDE DEF ops
<1> QED BY <1>1, <1>2, <1>3, MigrateIs DEF ops

LEMMA DeleteIs ==
    ASSUME SchemaInv, NEW t, NEW noted, Delete(t, noted)
    PROVE  /\ rev' = rev /\ db' = db
           /\ \/ refused' = refused \cup noted /\ rows' = rows
              \/ \E id \in In(rows, t) :
                    /\ refused' = refused /\ Deleted(db, rows, {id}).ok
                    /\ RowsOK(rows') /\ AllFit(db, rows') /\ Upheld(db, rows') /\ Remain(rows, rows')
                    /\ DOMAIN rows' = DOMAIN rows \ Deleted(db, rows, {id}).gone
<1>1. PICK id \in In(rows, t) :
         LET done == Erase(db, rows, {id}) IN
         IF done.ok THEN rows' = done.rows /\ UNCHANGED <<rev, db, refused>>
                    ELSE refused' = refused \cup noted /\ UNCHANGED <<rev, db, rows>>
  BY DEF Delete
<1> DEFINE done == Erase(db, rows, {id})
<1>2. CASE ~ done.ok
  BY <1>1, <1>2
<1>3. CASE done.ok
  <2>1. rows' = done.rows /\ UNCHANGED <<rev, db, refused>>
    BY <1>1, <1>3
  <2>2. RefsOK(db) /\ RowsOK(rows) /\ AllFit(db, rows) /\ Upheld(db, rows) /\ {id} \in SUBSET DOMAIN rows
    BY DEF SchemaInv, Base, DbOK, In
  <2>3. RowsOK(done.rows) /\ AllFit(db, done.rows) /\ Upheld(db, done.rows)
    BY <1>3, <2>2, EraseFits, EraseUpholds
  <2>4. done.ok = Deleted(db, rows, {id}).ok /\ Remain(rows, done.rows)
          /\ DOMAIN done.rows = DOMAIN rows \ Deleted(db, rows, {id}).gone
    BY <2>2, EraseIs
  <2> HIDE DEF done
  <2> QED BY <1>3, <2>1, <2>3, <2>4
<1> QED BY <1>2, <1>3

LEMMA UseIs ==
    ASSUME SchemaInv, NEW p \in DOMAIN Written, Use(p)
    PROVE  /\ UNCHANGED <<rev, db, refused>>
           /\ RowsOK(rows') /\ AllFit(db, rows') /\ Upheld(db, rows') /\ DOMAIN rows' \in SUBSET WrittenIds
           /\ DOMAIN rows \in SUBSET DOMAIN rows'
           /\ \A q \in DOMAIN rows : rows'[q] = rows[q]
<1> DEFINE new  == Written[p]
           news == {new[i].id : i \in DOMAIN new}
           made(q) == CHOOSE j \in DOMAIN new : new[j].id = q
           all  == [q \in DOMAIN rows \cup news |->
                       IF q \in news THEN [t |-> new[made(q)].t, v |-> new[made(q)].v] ELSE rows[q]]
<1>1. /\ news \cap DOMAIN rows = {}
      /\ \A q \in news : Admitted(db, all, q)
      /\ rows' = all
      /\ UNCHANGED <<rev, db, refused>>
  BY Zenon DEF Use
<1>2. IsFiniteSet(news)
  <2> DEFINE F == [i \in DOMAIN new |-> new[i].id]
  <2>1. F \in Surjection(DOMAIN new, news)
    BY DEF Surjection
  <2>2. IsFiniteSet(DOMAIN new)
    BY WrittenAssumption
  <2> QED BY <2>1, <2>2, FS_Surjection
<1>3. ASSUME NEW q \in news PROVE made(q) \in DOMAIN new /\ new[made(q)].id = q
  BY Zenon
<1>4. \A i \in DOMAIN new : new[i].id # "NULL" /\ \A c \in DOMAIN new[i].v : new[i].v[c] # "NULL"
  BY WrittenAssumption
<1>5. \A q \in news : all[q] = [t |-> new[made(q)].t, v |-> new[made(q)].v]
  OBVIOUS
<1>6. /\ DOMAIN all = DOMAIN rows \cup news
      /\ \A q \in DOMAIN rows : all[q] = rows[q]
  BY <1>1
<1> HIDE DEF all, made
<1>7. news \in SUBSET WrittenIds
  BY DEF WrittenIds
<1>8. "NULL" \notin news
  BY <1>4
<1>9. ASSUME NEW q \in news PROVE RowOK(all[q])
  <2>1. made(q) \in DOMAIN new
    BY <1>3
  <2>2. \A c \in DOMAIN new[made(q)].v : new[made(q)].v[c] # "NULL"
    BY <1>4, <2>1
  <2> DEFINE r == all[q]
             x == new[made(q)]
  <2>3. r = [t |-> x.t, v |-> x.v] /\ \A c \in DOMAIN x.v : x.v[c] # "NULL"
    BY <1>5, <2>2
  <2> HIDE DEF r, x
  <2>4. RowOK(r)
    BY <2>3 DEF RowOK
  <2> QED BY <2>4 DEF r
<1> HIDE DEF news
<1>10. RowsOK(rows) /\ AllFit(db, rows) /\ DOMAIN rows \in SUBSET WrittenIds
  BY DEF SchemaInv, Base
<1>11. IsFiniteSet(DOMAIN all)
  BY <1>2, <1>6, <1>10, FS_Union DEF RowsOK
<1>12. RowsOK(all)
  BY <1>6, <1>8, <1>9, <1>10, <1>11 DEF RowsOK
<1>13. AllFit(db, all)
  BY <1>1, <1>6, <1>10 DEF AllFit, Admitted
<1>14. \A t, key : (\A q \in news : all[q].t # t) /\ Agree(rows, t, key) => Agree(all, t, key)
  <2> TAKE t, key
  <2> HAVE (\A q \in news : all[q].t # t) /\ Agree(rows, t, key)
  <2>1. \A q \in In(all, t) : q \in In(rows, t) /\ all[q] = rows[q]
    BY <1>6 DEF In
  <2>2. \A q1, q2 \in In(all, t) : Clash(all, key, q1, q2) => Clash(rows, key, q1, q2)
    BY <2>1 DEF Clash
  <2> QED BY <2>1, <2>2 DEF Agree
<1>15. KeysHold(db, all)
  <2> SUFFICES ASSUME NEW t \in DOMAIN db.tables, NEW key \in db.tables[t].keys PROVE Agree(all, t, key)
    BY DEF KeysHold
  <2>1. CASE \A q \in news : all[q].t # t
    <3>1. Agree(rows, t, key)
      BY DEF SchemaInv, Base, Upheld, KeysHold
    <3> QED BY <1>14, <2>1, <3>1
  <2>2. ASSUME NEW q \in news, all[q].t = t PROVE Agree(all, t, key)
    BY <1>1, <2>2 DEF Admitted
  <2> QED BY <2>1, <2>2
<1>16. RefsHold(db, all)
  <2> SUFFICES ASSUME NEW f \in db.refs, NEW q \in In(all, f.from) PROVE Refers(all, q, f.ref)
    BY DEF RefsHold
  <2>1. q \in DOMAIN rows \cup news /\ all[q].t = f.from
    BY <1>6 DEF In
  <2>2. CASE q \in news
    BY <1>1, <2>1, <2>2 DEF Admitted
  <2>3. CASE q \in DOMAIN rows
    <3>1. all[q] = rows[q] /\ q \in In(rows, f.from)
      BY <1>6, <2>1, <2>3 DEF In
    <3>2. Refers(rows, q, f.ref)
      BY <3>1 DEF SchemaInv, Base, Upheld, RefsHold
    <3>3. \A x \in In(rows, f.ref.to) : x \in In(all, f.ref.to) /\ all[x] = rows[x]
      BY <1>6 DEF In
    <3> QED BY <3>1, <3>2, <3>3 DEF Refers
  <2> QED BY <2>1, <2>2, <2>3
<1>17. Upheld(db, all)
  BY <1>15, <1>16 DEF SchemaInv, Base, Upheld
<1> QED BY <1>1, <1>6, <1>7, <1>10, <1>12, <1>13, <1>17

LEMMA SchemaInvKept ==
    ASSUME SchemaInv, [SchemaNext]_schemaVars
    PROVE  SchemaInv'
<1>1. CASE Upgrade
  <2>1. rev \in 0 .. 6 /\ Base(db, rows) /\ DOMAIN rows \in SUBSET WrittenIds
          /\ refused \in SUBSET {"migration", "offboarding"}
    BY <1>1, UpgradeIs DEF SchemaInv
  <2>2. CASE rev' = rev + 1 /\ refused' = refused /\ Base(db', rows') /\ Remain(rows, rows')
    BY <2>1, <2>2 DEF SchemaInv, Remain
  <2>3. CASE refused' = refused \cup {"migration"} /\ UNCHANGED <<rev, db, rows>>
    BY <2>1, <2>3 DEF SchemaInv
  <2> QED BY <1>1, <2>2, <2>3, UpgradeIs
<1>2. CASE Downgrade
  <2>1. rev \in 1 .. 7 /\ Base(db, rows) /\ DOMAIN rows \in SUBSET WrittenIds
          /\ refused \in SUBSET {"migration", "offboarding"}
    BY <1>2, DowngradeIs DEF SchemaInv
  <2>2. CASE rev' = rev - 1 /\ refused' = refused /\ Base(db', rows') /\ Remain(rows, rows')
    BY <2>1, <2>2 DEF SchemaInv, Remain
  <2>3. CASE refused' = refused \cup {"migration"} /\ UNCHANGED <<rev, db, rows>>
    BY <2>1, <2>3 DEF SchemaInv
  <2> QED BY <1>2, <2>2, <2>3, DowngradeIs
<1>3. ASSUME NEW p \in DOMAIN Written, Use(p) PROVE SchemaInv'
  BY <1>3, UseIs DEF SchemaInv, Base
<1>4. ASSUME NEW t, NEW noted \in SUBSET {"offboarding"}, Delete(t, noted) PROVE SchemaInv'
  <2>1. rev' = rev /\ db' = db
    BY <1>4, DeleteIs
  <2>2. CASE refused' = refused \cup noted /\ rows' = rows
    BY <1>4, <2>1, <2>2 DEF SchemaInv
  <2>3. CASE refused' = refused /\ RowsOK(rows') /\ AllFit(db, rows') /\ Upheld(db, rows') /\ Remain(rows, rows')
    BY <2>1, <2>3 DEF SchemaInv, Base, Remain
  <2> QED BY <1>4, <2>2, <2>3, DeleteIs
<1>5. CASE UNCHANGED schemaVars
  BY <1>5 DEF SchemaInv, schemaVars
<1> QED BY <1>1, <1>2, <1>3, <1>4, <1>5 DEF SchemaNext

\* What every revision and deletion keeps, and the theorems below rest on: the schema is well
\* formed; the rows fit it, with no key repeated and every reference upheld; and of the
\* references of alembic/versions only that of a membership takes rows along with an account.
THEOREM SchemaHolds == SchemaSpec => []SchemaInv
<1>1. SchemaInit => SchemaInv
  BY StartsEmpty
<1>2. SchemaInv /\ [SchemaNext]_schemaVars => SchemaInv'
  BY SchemaInvKept
<1> QED BY <1>1, <1>2, PTL DEF SchemaSpec

\* Whatever the revisions of alembic/versions move and the deletions of a tenant or an account
\* take along, a row that is left is one the database would admit again: it fits its table, no
\* other has its key, and what it refers to is there and of its organization.
LEMMA RowsAreAdmitted ==
    ASSUME SchemaInv
    PROVE  RowsAdmitted
<1>1. AllFit(db, rows) /\ KeysHold(db, rows) /\ RefsHold(db, rows)
  BY DEF SchemaInv, Base, Upheld
<1>2. ASSUME NEW q \in DOMAIN rows PROVE Admitted(db, rows, q)
  <2>1. Fits(db, rows[q]) /\ rows[q].t \in DOMAIN db.tables
    BY <1>1 DEF AllFit, Fits
  <2>2. \A key \in db.tables[rows[q].t].keys : Agree(rows, rows[q].t, key)
    BY <1>1, <2>1 DEF KeysHold
  <2>3. \A f \in db.refs : f.from = rows[q].t => Refers(rows, q, f.ref)
    BY <1>1 DEF RefsHold, In
  <2> QED BY <2>1, <2>2, <2>3 DEF Admitted
<1> QED BY <1>2 DEF RowsAdmitted

\* The revision is one of the chain, every row was written by the product and is one the
\* database would admit again - it fits, repeats no key, and refers to what is there, in its
\* organization - and only a migration and the deletion of a tenant or of an account are ever
\* refused, whatever order migrations (alembic/versions), uses and deletions come in.
THEOREM SchemaTypes == SchemaSpec => []SchemaTypeOK
<1>1. SchemaInv => SchemaTypeOK
  BY Revisions, RowsAreAdmitted DEF SchemaInv, SchemaTypeOK
<1> QED BY <1>1, SchemaHolds, PTL

\* No revision, up or down, and no deletion leaves a row that the schema has no place for: its
\* table is there, with every column the row has, and it has every column that is NOT NULL.
THEOREM RowsAlwaysFit == SchemaSpec => []AllFit(db, rows)
<1>1. SchemaInv => AllFit(db, rows)
  BY DEF SchemaInv, Base
<1> QED BY <1>1, SchemaHolds, PTL

\* A person leaving (a deleted account, whatever the product wrote before) takes only its
\* memberships along: no run, approval, message or audit event refers to an account by a
\* reference that cascades, and no reference leads on from a membership.
THEOREM LeavingTakesMembershipsOnly == SchemaSpec => LeavingErasesNoRecord
<1> DEFINE A == \A u \in In(rows, "users") \ DOMAIN rows' : rev' = rev =>
                   \A q \in DOMAIN rows \ (DOMAIN rows' \cup {u}) : rows[q].t = "organization_members"
<1>1. ASSUME SchemaInv, [SchemaNext]_schemaVars PROVE [A]_schemaVars
  <2>1. CASE Upgrade
    <3>1. rev \in 0 .. 6 /\ (rev' = rev + 1 \/ rows' = rows)
      BY <1>1, <2>1, UpgradeIs
    <3>2. rev' = rev => rows' = rows
      BY <3>1
    <3> QED BY <3>2 DEF In
  <2>2. CASE Downgrade
    <3>1. rev \in 1 .. 7 /\ (rev' = rev - 1 \/ rows' = rows)
      BY <1>1, <2>2, DowngradeIs
    <3>2. rev' = rev => rows' = rows
      BY <3>1
    <3> QED BY <3>2 DEF In
  <2>3. ASSUME NEW p \in DOMAIN Written, Use(p) PROVE A
    BY <1>1, <2>3, UseIs DEF In
  <2>4. RefsOK(db) /\ IsFiniteSet(DOMAIN rows) /\ \A f \in db.refs : LinkOK(f.from, f.ref)
    BY <1>1 DEF SchemaInv, Base, DbOK, RowsOK
  <2>5. CASE Delete("organizations", {"offboarding"})
    <3>1. CASE rows' = rows
      BY <3>1 DEF In
    <3>2. ASSUME NEW id \in In(rows, "organizations"), DOMAIN rows' = DOMAIN rows \ Deleted(db, rows, {id}).gone
          PROVE  A
      <4> DEFINE G == {q \in DOMAIN rows : rows[q].t # "users"}
      <4>1. {id} \in SUBSET DOMAIN rows /\ {id} \in SUBSET G
        BY DEF In
      <4>2. \A p \in G, q \in DOMAIN rows, f \in db.refs :
               Points(db, rows, q, f, p) /\ f.ref.on = "cascade" => q \in G
        BY <2>4 DEF Points, LinkOK
      <4> HIDE DEF G
      <4>3. Deleted(db, rows, {id}).gone \in SUBSET G
        BY <2>4, <4>1, <4>2, GoneIsWithin
      <4>4. In(rows, "users") \ DOMAIN rows' = {}
        BY <3>2, <4>3 DEF In, G
      <4> QED BY <4>4
    <3> QED BY <1>1, <2>5, <3>1, <3>2, DeleteIs
  <2>6. CASE Delete("users", {})
    <3>1. CASE rows' = rows
      BY <3>1 DEF In
    <3>2. ASSUME NEW id \in In(rows, "users"), DOMAIN rows' = DOMAIN rows \ Deleted(db, rows, {id}).gone
          PROVE  A
      <4> DEFINE G == {id} \cup In(rows, "organization_members")
      <4>1. {id} \in SUBSET DOMAIN rows /\ {id} \in SUBSET G
        BY DEF In
      <4>2. ASSUME NEW p \in G, NEW q \in DOMAIN rows, NEW f \in db.refs,
                   Points(db, rows, q, f, p), f.ref.on = "cascade"
            PROVE  q \in G
        <5>1. LinkOK(f.from, f.ref) /\ f.from = rows[q].t /\ f.ref.to = rows[p].t
          BY <2>4, <4>2 DEF Points
        <5>2. rows[p].t = "users"
          BY <3>2, <5>1 DEF In, LinkOK
        <5>3. rows[q].t = "organization_members"
          BY <4>2, <5>1, <5>2 DEF LinkOK
        <5> QED BY <5>3 DEF In
      <4> HIDE DEF G
      <4>3. Deleted(db, rows, {id}).gone \in SUBSET G
        BY <2>4, <4>1, <4>2, GoneIsWithin
      <4>4. \A q \in DOMAIN rows \ DOMAIN rows' : q = id \/ rows[q].t = "organization_members"
        BY <3>2, <4>3 DEF G, In
      <4> QED BY <4>4 DEF In
    <3> QED BY <1>1, <2>6, <3>1, <3>2, DeleteIs
  <2>7. CASE UNCHANGED schemaVars
    BY <2>7
  <2> QED BY <1>1, <2>1, <2>2, <2>3, <2>5, <2>6, <2>7 DEF SchemaNext
<1>2. SchemaInv /\ [SchemaNext]_schemaVars => [A]_schemaVars
  BY <1>1
<1> QED BY <1>2, SchemaHolds, PTL DEF SchemaSpec, LeavingErasesNoRecord

-----------------------------------------------------------------------------
(* What a migration makes and keeps, whatever the order of its statements. *)
Has(d, t, c)   == t \in DOMAIN d.tables /\ c \in d.tables[t].must
Lacks(d, t, c) == t \in DOMAIN d.tables => c \notin d.tables[t].must \cup d.tables[t].opt
HasKey(d, t, k) == t \in DOMAIN d.tables /\ k \in d.tables[t].keys

Makes(o, t, c) ==
    o.t = t /\ \/ o.op \in {"table", "add"} /\ c \in o.must
               \/ o.op = "require" /\ o.col = c

LEMMA HasKept ==
    ASSUME NEW d, NEW rs, NEW o, NEW t, NEW c, Legal(d, rs, o), Spares(o, t, c), Has(d, t, c)
    PROVE  Has(Alter(d, o), t, c)
<1>1. CASE t # o.t
  BY <1>1, AlterTables DEF Has
<1>2. CASE t = o.t
  <2> DEFINE tab == d.tables[t]
             alt == Altered(tab, o)
  <2>1. /\ o.op # "table" /\ o.op # "drop"
        /\ o.op = "remove" => c \notin o.cols
        /\ o.op = "relax" => c # o.col
        /\ t \in DOMAIN d.tables /\ c \in tab.must
    BY <1>2 DEF Legal, Has, Spares
  <2>2. t \in DOMAIN Alter(d, o).tables /\ Alter(d, o).tables[t] = alt
    BY <1>2, <2>1, AlterTables
  <2>3. CASE o.op = "add"
    <3>1. alt.must = tab.must \cup o.must
      BY <2>3, AlteredIs
    <3> QED BY <2>1, <2>2, <3>1 DEF Has
  <2>4. CASE o.op = "remove"
    <3>1. alt.must = tab.must \ o.cols
      BY <2>4, AlteredIs
    <3> QED BY <2>1, <2>2, <2>4, <3>1 DEF Has
  <2>5. CASE o.op = "relax"
    <3>1. alt.must = tab.must \ {o.col}
      BY <2>5, AlteredIs
    <3> QED BY <2>1, <2>2, <2>5, <3>1 DEF Has
  <2>6. CASE o.op = "require"
    <3>1. alt.must = tab.must \cup {o.col}
      BY <2>6, AlteredIs
    <3> QED BY <2>1, <2>2, <3>1 DEF Has
  <2>7. CASE o.op \in {"key", "drop_key"}
    <3>1. alt.must = tab.must
      BY <2>7, AlteredIs
    <3> QED BY <2>1, <2>2, <3>1 DEF Has
  <2>8. CASE o.op \notin {"table", "add", "remove", "relax", "require", "key", "drop_key"}
    <3>1. alt = tab
      BY <2>8, AlteredIs
    <3> QED BY <2>1, <2>2, <3>1 DEF Has
  <2> QED BY <2>1, <2>3, <2>4, <2>5, <2>6, <2>7, <2>8
<1> QED BY <1>1, <1>2

LEMMA HasMade ==
    ASSUME NEW d, NEW rs, NEW o, NEW t, NEW c, Legal(d, rs, o), Makes(o, t, c)
    PROVE  Has(Alter(d, o), t, c)
<1> DEFINE alt == Altered(d.tables[t], o)
<1>1. o.t = t /\ (o.op # "table" => t \in DOMAIN d.tables)
  BY DEF Legal, Makes
<1>2. o.op \in {"table", "add", "require"}
  BY DEF Makes
<1>3. t \in DOMAIN Alter(d, o).tables /\ Alter(d, o).tables[t] = alt
  <2>1. t \in DOMAIN Alter(d, o).tables
    BY <1>1, <1>2, AlterTables
  <2> QED BY <1>1, <2>1, AlterTables
<1>4. CASE o.op = "table"
  <2>1. alt.must = o.must
    BY <1>4, AlteredIs
  <2> QED BY <1>3, <1>4, <2>1 DEF Has, Makes
<1>5. CASE o.op = "add"
  <2>1. alt.must = d.tables[t].must \cup o.must
    BY <1>5, AlteredIs
  <2> QED BY <1>3, <1>5, <2>1 DEF Has, Makes
<1>6. CASE o.op = "require"
  <2>1. alt.must = d.tables[t].must \cup {o.col}
    BY <1>6, AlteredIs
  <2> QED BY <1>3, <1>6, <2>1 DEF Has, Makes
<1> QED BY <1>2, <1>4, <1>5, <1>6

\* What a statement of the way down never gives back: the accounts of the workflow runs.
LEMMA LacksKept ==
    ASSUME NEW d, NEW rs, NEW o, Legal(d, rs, o), DownOp(5, o),
           \/ Lacks(d, "workflow_runs", "user_id")
           \/ o.op = "remove" /\ o.t = "workflow_runs" /\ "user_id" \in o.cols
    PROVE  Lacks(Alter(d, o), "workflow_runs", "user_id")
<1> DEFINE t == "workflow_runs"
           c == "user_id"
<1>1. CASE t # o.t
  BY <1>1, AlterTables DEF Lacks
<1>2. CASE t = o.t
  <2> SUFFICES ASSUME t \in DOMAIN Alter(d, o).tables
               PROVE  c \notin Alter(d, o).tables[t].must \cup Alter(d, o).tables[t].opt
    BY DEF Lacks
  <2> DEFINE tab == d.tables[t]
             alt == Altered(tab, o)
  <2>1. /\ o.op # "table" /\ o.op # "drop" /\ t \in DOMAIN d.tables
        /\ o.op \in {"relax", "require"} => o.col # c
        /\ o.op = "add" => c \notin o.must \cup o.opt
    BY <1>2 DEF Legal, DownOp
  <2>2. Alter(d, o).tables[t] = alt
    BY <1>2, AlterTables
  <2>3. o.op # "remove" => c \notin tab.must \cup tab.opt
    BY <2>1 DEF Lacks
  <2>4. o.op = "remove" => c \in o.cols \/ c \notin tab.must \cup tab.opt
    BY <2>1 DEF Lacks
  <2> HIDE DEF c, t
  <2>5. CASE o.op = "add"
    <3>1. alt.must = tab.must \cup o.must /\ alt.opt = tab.opt \cup o.opt
      BY <2>5, AlteredIs
    <3> QED BY <2>1, <2>2, <2>3, <2>5, <3>1
  <2>6. CASE o.op = "remove"
    <3>1. alt.must = tab.must \ o.cols /\ alt.opt = tab.opt \ o.cols
      BY <2>6, AlteredIs
    <3> QED BY <2>2, <2>4, <2>6, <3>1
  <2>7. CASE o.op = "relax"
    <3>1. alt.must = tab.must \ {o.col} /\ alt.opt = tab.opt \cup {o.col}
      BY <2>7, AlteredIs
    <3> QED BY <2>1, <2>2, <2>3, <2>7, <3>1
  <2>8. CASE o.op = "require"
    <3>1. alt.must = tab.must \cup {o.col} /\ alt.opt = tab.opt \ {o.col}
      BY <2>8, AlteredIs
    <3> QED BY <2>1, <2>2, <2>3, <2>8, <3>1
  <2>9. CASE o.op \in {"key", "drop_key"}
    <3>1. alt.must = tab.must /\ alt.opt = tab.opt
      BY <2>9, AlteredIs
    <3> QED BY <2>2, <2>3, <2>9, <3>1
  <2>10. CASE o.op \notin {"table", "add", "remove", "relax", "require", "key", "drop_key"}
    <3>1. alt = tab
      BY <2>10, AlteredIs
    <3> QED BY <2>2, <2>3, <2>10, <3>1
  <2> QED BY <2>1, <2>5, <2>6, <2>7, <2>8, <2>9, <2>10
<1> QED BY <1>1, <1>2

NameKey == {"organization_id", "name"}

LEMMA HasKeyKept ==
    ASSUME NEW d, NEW rs, NEW o, Legal(d, rs, o), DownOp(5, o),
           \/ HasKey(d, "workflows", NameKey)
           \/ o.op = "key" /\ o.t = "workflows" /\ o.key = NameKey
    PROVE  HasKey(Alter(d, o), "workflows", NameKey)
<1> DEFINE t == "workflows"
<1>1. CASE t # o.t
  BY <1>1, AlterTables DEF HasKey
<1>2. CASE t = o.t
  <2> DEFINE tab == d.tables[t]
             alt == Altered(tab, o)
  <2>1. /\ o.op # "table" /\ o.op # "drop" /\ t \in DOMAIN d.tables
        /\ o.op = "drop_key" => o.key # NameKey
        /\ o.op = "remove" => NameKey \cap o.cols = {}
    BY <1>2 DEF Legal, DownOp, Steady, Spares, NameKey
  <2>2. t \in DOMAIN Alter(d, o).tables /\ Alter(d, o).tables[t] = alt
    BY <1>2, <2>1, AlterTables
  <2>3. CASE o.op = "key"
    <3>1. alt.keys = tab.keys \cup {o.key}
      BY <2>3, AlteredIs
    <3> QED BY <2>2, <2>3, <3>1 DEF HasKey
  <2>4. CASE o.op = "drop_key"
    <3>1. alt.keys = tab.keys \ {o.key}
      BY <2>4, AlteredIs
    <3> QED BY <2>1, <2>2, <2>4, <3>1 DEF HasKey
  <2>5. CASE o.op = "remove"
    <3>1. alt.keys = {x \in tab.keys : x \cap o.cols = {}}
      BY <2>5, AlteredIs
    <3> QED BY <2>1, <2>2, <2>5, <3>1 DEF HasKey
  <2>6. CASE o.op \in {"add", "relax", "require"}
    <3>1. alt.keys = tab.keys
      BY <2>6, AlteredIs
    <3> QED BY <2>1, <2>2, <2>6, <3>1 DEF HasKey
  <2>7. CASE o.op \notin {"table", "add", "remove", "relax", "require", "key", "drop_key"}
    <3>1. alt = tab
      BY <2>7, AlteredIs
    <3> QED BY <2>1, <2>2, <2>7, <3>1 DEF HasKey
  <2> QED BY <2>1, <2>3, <2>4, <2>5, <2>6, <2>7
<1> QED BY <1>1, <1>2

\* What each statement keeps, and what holds at first or one of them makes, holds at the end.
LEMMA MadeAndKept ==
    ASSUME NEW ops, IsList(ops), NEW I, NEW M,
           \A i \in 1 .. Len(ops) : i - 1 \in I \/ ops[i] \in M => i \in I,
           0 \in I \/ \E o \in Ops(ops) : o \in M
    PROVE  Len(ops) \in I
<1> DEFINE n == Len(ops)
<1>1. n \in Nat
  BY LenProperties DEF IsList
<1> HIDE DEF n
<1>2. ASSUME NEW m \in 0 .. n, m \in I PROVE n \in I
  <2>1. ASSUME NEW i \in m .. n, i \in I, i < n PROVE i + 1 \in I
    <3>1. i + 1 \in 1 .. n /\ (i + 1) - 1 = i
      BY <1>1, <2>1
    <3> QED BY <2>1, <3>1 DEF n
  <2>2. \A i \in m .. n : i \in I
    BY <1>1, <1>2, <2>1, Upward
  <2> QED BY <1>1, <2>2
<1>3. CASE 0 \in I
  BY <1>1, <1>2, <1>3 DEF n
<1>4. ASSUME NEW o \in Ops(ops), o \in M PROVE n \in I
  <2>1. PICK m \in 1 .. n : ops[m] = o
    BY DEF Ops, n
  <2>2. m \in I /\ m \in 0 .. n
    BY <1>1, <1>4, <2>1 DEF n
  <2> QED BY <1>2, <2>2
<1> QED BY <1>3, <1>4 DEF n

\* The schemas of an accepted migration, one statement after the other.
LEMMA StepIs ==
    ASSUME NEW a, NEW s, NEW ops, IsList(ops), Accepted(a, s, ops, Len(ops)), NEW i \in 1 .. Len(ops)
    PROVE  /\ i - 1 \in 0 .. Len(ops) /\ ops[i] \in Ops(ops)
           /\ Legal(a[i - 1].d, a[i - 1].rows, ops[i])
           /\ a[i].d = Alter(a[i - 1].d, ops[i])
           /\ a[i].rows = Affect(a[i - 1].d, a[i - 1].rows, ops[i]).rows
<1>1. Len(ops) \in Nat
  BY LenProperties DEF IsList
<1>2. i - 1 \in 0 .. Len(ops) /\ ops[i] \in Ops(ops)
  BY <1>1 DEF Ops
<1> DEFINE done == Affect(a[i - 1].d, a[i - 1].rows, ops[i])
<1>3. /\ Legal(a[i - 1].d, a[i - 1].rows, ops[i])
      /\ a[i] = [d |-> Alter(a[i - 1].d, ops[i]), rows |-> done.rows, ok |-> done.ok]
  BY DEF Accepted
<1> HIDE DEF done
<1>4. a[i].d = Alter(a[i - 1].d, ops[i]) /\ a[i].rows = done.rows
  BY <1>3
<1> QED BY <1>2, <1>3, <1>4 DEF done

\* A column that is NOT NULL before, or that a statement makes so, is NOT NULL after a migration
\* that spares it.
LEMMA HasAtEnd ==
    ASSUME NEW ops, IsList(ops), NEW t, NEW c, \A o \in Ops(ops) : Spares(o, t, c),
           Has(db, t, c) \/ \E o \in Ops(ops) : Makes(o, t, c),
           Migrated(ops)
    PROVE  Has(db', t, c)
<1>1. PICK a : Accepted(a, From(db, rows), ops, Len(ops)) /\ db'.tables = a[Len(ops)].d.tables
  BY DEF Migrated
<1> DEFINE I == {i \in 0 .. Len(ops) : Has(a[i].d, t, c)}
           M == {o \in Ops(ops) : Makes(o, t, c)}
<1>2. Len(ops) \in Nat
  BY LenProperties DEF IsList
<1>3. ASSUME NEW i \in 1 .. Len(ops), i - 1 \in I \/ ops[i] \in M PROVE i \in I
  <2>1. /\ ops[i] \in Ops(ops) /\ Legal(a[i - 1].d, a[i - 1].rows, ops[i])
        /\ a[i].d = Alter(a[i - 1].d, ops[i])
    BY <1>1, StepIs
  <2>2. Has(a[i - 1].d, t, c) \/ Makes(ops[i], t, c)
    BY <1>3
  <2>3. Has(a[i].d, t, c)
    BY <2>1, <2>2, HasKept, HasMade
  <2> QED BY <1>2, <2>3
<1>4. a[0] = From(db, rows)
  BY <1>1 DEF Accepted
<1>5. a[0].d = db
  BY <1>4 DEF From
<1>6. 0 \in I \/ \E o \in Ops(ops) : o \in M
  BY <1>2, <1>5
<1> HIDE DEF I, M
<1>7. Len(ops) \in I
  BY <1>3, <1>6, MadeAndKept
<1>8. Has(a[Len(ops)].d, t, c)
  BY <1>7 DEF I
<1> QED BY <1>1, <1>8 DEF Has

(* The columns the way down relies on are there and NOT NULL.              *)
Relied ==
    /\ rev >= 2 => Has(db, "workflows", "name") /\ Has(db, "workflows", "organization_id")
    /\ rev >= 5 => Has(db, "workflow_runs", "user_id")

LEMMA ReliedKept ==
    ASSUME SchemaInv, Relied, [SchemaNext]_schemaVars
    PROVE  Relied'
<1>1. CASE UNCHANGED <<rev, db>>
  BY <1>1 DEF Relied
<1>2. ASSUME rev \in 0 .. 6, rev' = rev + 1, Migrated(Up[rev + 1]) PROVE Relied'
  <2> DEFINE ops == Up[rev + 1]
  <2>1. rev + 1 \in 1 .. 7
    BY <1>2
  <2>2. IsList(ops) /\ \A o \in Ops(ops) : UpOp(o)
    BY <2>1, Revisions
  <2>3. /\ \A o \in Ops(ops) : Spares(o, "workflows", "name")
        /\ \A o \in Ops(ops) : Spares(o, "workflows", "organization_id")
        /\ \A o \in Ops(ops) : Spares(o, "workflow_runs", "user_id")
    BY <2>2 DEF UpOp, Steady, Owned
  <2>4. rev' >= 2 => /\ Has(db, "workflows", "name") \/ \E o \in Ops(ops) : Makes(o, "workflows", "name")
                     /\ Has(db, "workflows", "organization_id")
                          \/ \E o \in Ops(ops) : Makes(o, "workflows", "organization_id")
    <3>1. CASE rev >= 2
      BY <3>1 DEF Relied
    <3>2. CASE rev = 1
      <4>1. ops = Up[2]
        BY <3>2
      <4> HIDE DEF ops
      <4> QED BY <4>1, InitialIs DEF Makes
    <3>3. CASE rev = 0
      BY <1>2, <3>3
    <3> QED BY <1>2, <3>1, <3>2, <3>3
  <2>5. rev' >= 5 => Has(db, "workflow_runs", "user_id") \/ \E o \in Ops(ops) : Makes(o, "workflow_runs", "user_id")
    <3>1. CASE rev >= 5
      BY <3>1 DEF Relied
    <3>2. CASE rev = 4
      <4>1. ops = Up[5]
        BY <3>2
      <4> HIDE DEF ops
      <4> QED BY <4>1, EngineIs DEF Makes
    <3>3. CASE rev < 4
      BY <1>2, <3>3
    <3> QED BY <1>2, <3>1, <3>2, <3>3
  <2>6. Migrated(ops)
    BY <1>2
  <2> HIDE DEF ops
  <2>7. rev' >= 2 => Has(db', "workflows", "name") /\ Has(db', "workflows", "organization_id")
    BY <2>2, <2>3, <2>4, <2>6, HasAtEnd
  <2>8. rev' >= 5 => Has(db', "workflow_runs", "user_id")
    BY <2>2, <2>3, <2>5, <2>6, HasAtEnd
  <2> QED BY <2>7, <2>8 DEF Relied, Has
<1>3. ASSUME rev \in 1 .. 7, rev' = rev - 1, Migrated(Down[rev]) PROVE Relied'
  <2> DEFINE ops == Down[rev]
  <2>1. IsList(ops) /\ \A o \in Ops(ops) : DownOp(rev, o)
    BY <1>3, Revisions
  <2>2. /\ rev >= 3 => \A o \in Ops(ops) : Spares(o, "workflows", "name")
        /\ rev >= 3 => \A o \in Ops(ops) : Spares(o, "workflows", "organization_id")
        /\ rev >= 6 => \A o \in Ops(ops) : Spares(o, "workflow_runs", "user_id")
    BY <2>1 DEF DownOp, Steady, Owned
  <2>3. Migrated(ops)
    BY <1>3
  <2> HIDE DEF ops
  <2>4. ASSUME rev' >= 2 PROVE Has(db', "workflows", "name") /\ Has(db', "workflows", "organization_id")
    <3>1. rev >= 3
      BY <1>3, <2>4
    <3>2. Has(db, "workflows", "name") /\ Has(db, "workflows", "organization_id")
      BY <1>3, <3>1 DEF Relied
    <3> QED BY <2>1, <2>2, <2>3, <3>1, <3>2, HasAtEnd
  <2>5. ASSUME rev' >= 5 PROVE Has(db', "workflow_runs", "user_id")
    <3>1. rev >= 6
      BY <1>3, <2>5
    <3>2. Has(db, "workflow_runs", "user_id")
      BY <1>3, <3>1 DEF Relied
    <3> QED BY <2>1, <2>2, <2>3, <3>1, <3>2, HasAtEnd
  <2> QED BY <2>4, <2>5 DEF Relied, Has
<1>4. CASE Upgrade
  BY <1>1, <1>2, <1>4, UpgradeIs
<1>5. CASE Downgrade
  BY <1>1, <1>3, <1>5, DowngradeIs
<1>6. ASSUME NEW p \in DOMAIN Written, Use(p) PROVE Relied'
  BY <1>1, <1>6, UseIs
<1>7. ASSUME NEW t, NEW noted, Delete(t, noted) PROVE Relied'
  BY <1>1, <1>7, DeleteIs
<1>8. CASE UNCHANGED schemaVars
  BY <1>1, <1>8 DEF schemaVars
<1> QED BY <1>4, <1>5, <1>6, <1>7, <1>8 DEF SchemaNext

\* What the way down takes for granted without checking it: since its first revision a workflow
\* has a name and an organization, and since the workflow engine's (its upgrade adds user_id
\* NOT NULL) a run has the person who started it.
THEOREM ReliedHolds == SchemaSpec => []Relied
<1>1. SchemaInit => Relied
  BY DEF SchemaInit, Relied
<1>2. SchemaInv /\ Relied /\ [SchemaNext]_schemaVars => Relied'
  BY ReliedKept
<1> QED BY <1>1, <1>2, SchemaHolds, PTL DEF SchemaSpec

-----------------------------------------------------------------------------
(* What the way down deletes.                                              *)

\* A deletion reaches a workflow only from an organization.
LEMMA WorkflowsNotReached ==
    ASSUME NEW d, NEW rs, Base(d, rs), NEW first \in SUBSET DOMAIN rs, \A q \in first : rs[q].t # "organizations"
    PROVE  \A q \in Deleted(d, rs, first).gone : rs[q].t = "workflows" => q \in first
<1> DEFINE w == Deleted(d, rs, first)
<1>1. RefsOK(d) /\ IsFiniteSet(DOMAIN rs) /\ \A f \in d.refs : LinkOK(f.from, f.ref)
  BY DEF Base, DbOK, RowsOK
<1>2. Linked(d, rs, first, w)
  BY <1>1, GoneIsLinked
<1> HIDE DEF w
<1>3. \A q \in w.gone \ first : \E p \in w.gone, f \in d.refs : Points(d, rs, q, f, p)
  BY <1>2 DEF Linked
<1>4. \A q \in w.gone : rs[q].t # "organizations"
  BY <1>1, <1>3 DEF Points, LinkOK
<1>5. \A q \in w.gone \ first : rs[q].t # "workflows"
  BY <1>1, <1>3, <1>4 DEF Points, LinkOK
<1> QED BY <1>5 DEF w

\* A row goes with its table, or is deleted first, or refers to one that goes.
LEMMA LostIs ==
    ASSUME NEW d, NEW rs, Base(d, rs), NEW o, NEW q \in DOMAIN rs \ DOMAIN Affect(d, rs, o).rows
    PROVE  \/ o.op = "drop" /\ rs[q].t = o.t
           \/ o.op \in {"purge", "superseded"} /\ q \in Purged(rs, o)
           \/ /\ o.op \in {"purge", "superseded"}
              /\ \E p \in DOMAIN rs \ DOMAIN Affect(d, rs, o).rows, f \in d.refs : Points(d, rs, q, f, p)
<1> DEFINE after == Affect(d, rs, o).rows
           first == Purged(rs, o)
           w     == Deleted(d, rs, first)
<1>1. RefsOK(d) /\ RowsOK(rs) /\ IsFiniteSet(DOMAIN rs)
  BY DEF Base, DbOK, RowsOK
<1>2. Keeps(d, rs, o, after)
  BY <1>1, AffectKeeps
<1>3. first \in SUBSET DOMAIN rs
  BY PurgedAre
<1>4. w \in Deletions(d, rs) /\ Linked(d, rs, first, w)
  BY <1>1, <1>3, GoneIsLinked
<1> HIDE DEF after
<1>5. q \in DOMAIN rs \ DOMAIN after
  BY DEF after
<1>6. CASE o.op = "drop"
  <2>1. DOMAIN after = {x \in DOMAIN rs : rs[x].t # o.t}
    BY <1>2, <1>6 DEF Keeps
  <2> QED BY <1>5, <1>6, <2>1
<1>7. CASE o.op \in {"purge", "superseded"}
  <2>1. DOMAIN after = DOMAIN rs \ w.gone
    BY <1>2, <1>7 DEF Keeps
  <2> HIDE DEF w
  <2>2. w.gone \in SUBSET DOMAIN rs
    BY <1>4 DEF Deletions
  <2>3. q \in w.gone /\ \A p \in w.gone : p \in DOMAIN rs \ DOMAIN after
    BY <1>5, <2>1, <2>2
  <2>4. q \in first \/ \E p \in w.gone, f \in d.refs : Points(d, rs, q, f, p)
    BY <1>4, <2>3 DEF Linked
  <2> QED BY <1>7, <2>3, <2>4 DEF after
<1>8. CASE o.op \notin {"drop", "purge", "superseded"}
  BY <1>2, <1>5, <1>8 DEF Keeps
<1> QED BY <1>6, <1>7, <1>8

\* Only the removal of superseded versions takes a workflow, and it leaves one of the same
\* name and organization.
LEMMA WorkflowLost ==
    ASSUME NEW d, NEW rs, Base(d, rs), NEW o, DownOp(5, o),
           NEW q \in DOMAIN rs \ DOMAIN Affect(d, rs, o).rows, rs[q].t = "workflows"
    PROVE  \E p \in DOMAIN Affect(d, rs, o).rows :
              /\ rs[p].t = "workflows"
              /\ Value(rs[p], "name") = Value(rs[q], "name")
              /\ Value(rs[p], "organization_id") = Value(rs[q], "organization_id")
<1> DEFINE after == Affect(d, rs, o).rows
           first == Purged(rs, o)
           w     == Deleted(d, rs, first)
<1>1. RefsOK(d) /\ RowsOK(rs)
  BY DEF Base, DbOK
<1>2. Keeps(d, rs, o, after)
  BY <1>1, AffectKeeps
<1>3. first \in SUBSET In(rs, o.t) /\ first \in SUBSET DOMAIN rs
  BY PurgedAre
<1>4. o.op # "drop"
  BY DEF DownOp
<1> HIDE DEF after
<1>5. q \in DOMAIN rs \ DOMAIN after
  BY DEF after
<1>6. o.op \in {"purge", "superseded"}
  BY <1>2, <1>4, <1>5 DEF Keeps
<1>7. o.t \in {"tool_executions", "workflow_runs", "workflows"} /\ (o.op = "superseded" <=> o.t = "workflows")
  BY <1>6 DEF DownOp
<1>8. \A p \in first : rs[p].t # "organizations"
  BY <1>3, <1>7 DEF In
<1>9. \A p \in w.gone : rs[p].t = "workflows" => p \in first
  BY <1>3, <1>8, WorkflowsNotReached
<1>10. DOMAIN after = DOMAIN rs \ w.gone
  BY <1>2, <1>6 DEF Keeps
<1> HIDE DEF w
<1>11. q \in first
  BY <1>5, <1>9, <1>10
<1>12. o.op = "superseded" /\ o.t = "workflows"
  BY <1>3, <1>7, <1>11 DEF In
<1>13. first = Superseded(rs, "workflows")
  BY <1>12 DEF Purged
<1> HIDE DEF first
<1>14. PICK p \in In(rs, "workflows") : /\ Value(rs[p], "name") = Value(rs[q], "name")
                                         /\ Value(rs[p], "organization_id") = Value(rs[q], "organization_id")
                                         /\ VersionOf(rs[q]) < VersionOf(rs[p])
  BY <1>11, <1>13 DEF Superseded
<1>15. \A x \in DOMAIN rs : VersionOf(rs[x]) \in {1, 2}
  BY DEF VersionOf
<1>16. VersionOf(rs[p]) = 2
  BY <1>5, <1>14, <1>15 DEF In
<1>17. p \notin first
  <2> SUFFICES ASSUME p \in first PROVE FALSE
    OBVIOUS
  <2>1. PICK x \in In(rs, "workflows") : VersionOf(rs[p]) < VersionOf(rs[x])
    BY <1>13 DEF Superseded
  <2> QED BY <1>15, <1>16, <2>1 DEF In
<1>18. p \in DOMAIN after /\ rs[p].t = "workflows"
  BY <1>9, <1>10, <1>14, <1>17 DEF In
<1> QED BY <1>14, <1>18 DEF after

\* A column that the statement spares is not cleared either: only a few tables have references
\* that clear a column.
LEMMA ColumnKept ==
    ASSUME NEW d, NEW rs, Base(d, rs), NEW o, NEW t, NEW c, Spares(o, t, c), t \notin Nullers,
           NEW q \in DOMAIN Affect(d, rs, o).rows, rs[q].t = t, c \in DOMAIN rs[q].v
    PROVE  c \in DOMAIN Affect(d, rs, o).rows[q].v
<1> DEFINE after == Affect(d, rs, o).rows
<1>1. RefsOK(d) /\ RowsOK(rs) /\ \A f \in d.refs : LinkOK(f.from, f.ref)
  BY DEF Base, DbOK
<1>2. Keeps(d, rs, o, after)
  BY <1>1, AffectKeeps
<1> HIDE DEF after
<1> SUFFICES ASSUME q \in DOMAIN after, c \notin DOMAIN after[q].v PROVE FALSE
  BY DEF after
<1>3. \/ o.op = "remove" /\ rs[q].t = o.t /\ c \in o.cols
      \/ \E f \in d.refs : f.from = rs[q].t /\ f.ref.on = "null"
  BY <1>2 DEF Keeps
<1> QED BY <1>1, <1>3 DEF Spares, LinkOK

\* Why a row q of rs is gone in the state s, on the way down from revision k.
SameFlow(rs, p, q) ==
    /\ rs[p].t = "workflows"
    /\ Value(rs[p], "name") = Value(rs[q], "name")
    /\ Value(rs[p], "organization_id") = Value(rs[q], "organization_id")

Excused(k, rs, s, q) ==
    \/ rs[q].t \notin DOMAIN s.d.tables
    \/ \E c \in DOMAIN rs[q].v : rs[q].v[c] \in DOMAIN rs \ DOMAIN s.rows
    \/ k = 4 /\ rs[q].t = "conversations" /\ "agent_id" \notin DOMAIN rs[q].v
    \/ k = 5 /\ rs[q].t = "tool_executions" /\ "run_id" \notin DOMAIN rs[q].v
    \/ k = 5 /\ rs[q].t = "workflow_runs"
    \/ k = 5 /\ rs[q].t = "workflows" /\ \E p \in DOMAIN s.rows : SameFlow(rs, p, q)

\* The columns that decide it are as they were.
Decided(k, rs, s) == \A q \in DOMAIN s.rows :
    /\ k = 4 /\ rs[q].t = "conversations" /\ "agent_id" \in DOMAIN rs[q].v => "agent_id" \in DOMAIN s.rows[q].v
    /\ k = 5 /\ rs[q].t = "tool_executions" /\ "run_id" \in DOMAIN rs[q].v => "run_id" \in DOMAIN s.rows[q].v
    /\ k = 5 /\ rs[q].t = "workflows" =>
         /\ "name" \in DOMAIN rs[q].v => "name" \in DOMAIN s.rows[q].v
         /\ "organization_id" \in DOMAIN rs[q].v => "organization_id" \in DOMAIN s.rows[q].v

Explained(k, rs, s) == Decided(k, rs, s) /\ \A q \in DOMAIN rs \ DOMAIN s.rows : Excused(k, rs, s, q)

LEMMA DecidedKept ==
    ASSUME NEW k \in 1 .. 7, NEW rs, NEW s, NEW v, NEW o,
           Base(s.d, s.rows), Remain(rs, s.rows), Decided(k, rs, s), DownOp(k, o),
           v.rows = Affect(s.d, s.rows, o).rows, Remain(s.rows, v.rows)
    PROVE  Decided(k, rs, v)
<1>1. ASSUME NEW q \in DOMAIN v.rows
      PROVE  q \in DOMAIN s.rows /\ s.rows[q].t = rs[q].t
  BY DEF Remain, PartOf
<1>2. ASSUME NEW q \in DOMAIN v.rows, NEW t, NEW c, s.rows[q].t = t, t \notin Nullers, Spares(o, t, c),
             c \in DOMAIN s.rows[q].v
      PROVE  c \in DOMAIN v.rows[q].v
  BY <1>2, ColumnKept
<1>3. /\ k = 4 => Spares(o, "conversations", "agent_id")
      /\ k = 5 => Spares(o, "tool_executions", "run_id")
      /\ k = 5 => Spares(o, "workflows", "name") /\ Spares(o, "workflows", "organization_id")
  BY DEF DownOp, Steady
<1>4. {"conversations", "tool_executions", "workflows"} \cap Nullers = {}
  BY DEF Nullers
<1>5. ASSUME NEW q \in DOMAIN v.rows
      PROVE  /\ k = 4 /\ rs[q].t = "conversations" /\ "agent_id" \in DOMAIN rs[q].v => "agent_id" \in DOMAIN v.rows[q].v
             /\ k = 5 /\ rs[q].t = "tool_executions" /\ "run_id" \in DOMAIN rs[q].v => "run_id" \in DOMAIN v.rows[q].v
             /\ k = 5 /\ rs[q].t = "workflows" =>
                  /\ "name" \in DOMAIN rs[q].v => "name" \in DOMAIN v.rows[q].v
                  /\ "organization_id" \in DOMAIN rs[q].v => "organization_id" \in DOMAIN v.rows[q].v
  <2>1. q \in DOMAIN s.rows /\ s.rows[q].t = rs[q].t
    BY <1>1
  <2>2. k = 4 /\ rs[q].t = "conversations" /\ "agent_id" \in DOMAIN rs[q].v => "agent_id" \in DOMAIN v.rows[q].v
    BY <1>2, <1>3, <1>4, <2>1 DEF Decided
  <2>3. k = 5 /\ rs[q].t = "tool_executions" /\ "run_id" \in DOMAIN rs[q].v => "run_id" \in DOMAIN v.rows[q].v
    BY <1>2, <1>3, <1>4, <2>1 DEF Decided
  <2>4. k = 5 /\ rs[q].t = "workflows" =>
           /\ "name" \in DOMAIN rs[q].v => "name" \in DOMAIN v.rows[q].v
           /\ "organization_id" \in DOMAIN rs[q].v => "organization_id" \in DOMAIN v.rows[q].v
    BY <1>2, <1>3, <1>4, <2>1 DEF Decided
  <2> QED BY <2>2, <2>3, <2>4
<1> QED BY <1>5, Zenon DEF Decided

\* What a row that is left has in a column is what it had, if the column was not cleared.
LEMMA ValueKept ==
    ASSUME NEW rs, RowsOK(rs), NEW mid, Remain(rs, mid), NEW q \in DOMAIN mid, NEW c,
           c \in DOMAIN rs[q].v => c \in DOMAIN mid[q].v
    PROVE  Value(mid[q], c) = Value(rs[q], c)
<1>1. PartOf(rs[q], mid[q])
  BY DEF Remain
<1> QED BY <1>1 DEF PartOf, Value

LEMMA ExplainedKept ==
    ASSUME NEW k \in 1 .. 7, NEW rs, RowsOK(rs), NEW s, NEW v, NEW o,
           Base(s.d, s.rows), Remain(rs, s.rows), Explained(k, rs, s), DownOp(k, o), Legal(s.d, s.rows, o),
           v.d = Alter(s.d, o), v.rows = Affect(s.d, s.rows, o).rows, Remain(s.rows, v.rows)
    PROVE  Explained(k, rs, v)
<1>1. Decided(k, rs, v)
  BY DecidedKept DEF Explained
<1>2. /\ DOMAIN v.rows \in SUBSET DOMAIN s.rows /\ DOMAIN s.rows \in SUBSET DOMAIN rs
      /\ \A q \in DOMAIN s.rows : PartOf(rs[q], s.rows[q])
  BY DEF Remain
<1>3. \A t : t \notin DOMAIN s.d.tables => t \notin DOMAIN v.d.tables
  <2> TAKE t
  <2>1. o.op # "table"
    BY DEF DownOp
  <2> QED BY <2>1, AlterTables DEF Legal
\* A workflow that goes now.
<1>4. ASSUME k = 5, NEW q \in DOMAIN s.rows \ DOMAIN v.rows, rs[q].t = "workflows"
      PROVE  \E p \in DOMAIN v.rows : SameFlow(rs, p, q)
  <2>1. s.rows[q].t = "workflows" /\ q \in DOMAIN s.rows \ DOMAIN Affect(s.d, s.rows, o).rows
    BY <1>2, <1>4 DEF PartOf
  <2>2. PICK p \in DOMAIN v.rows :
           /\ s.rows[p].t = "workflows"
           /\ Value(s.rows[p], "name") = Value(s.rows[q], "name")
           /\ Value(s.rows[p], "organization_id") = Value(s.rows[q], "organization_id")
    BY <1>4, <2>1, WorkflowLost
  <2>3. p \in DOMAIN s.rows /\ rs[p].t = "workflows"
    BY <1>2, <2>2 DEF PartOf
  <2>4. ASSUME NEW x \in {p, q}, NEW c \in {"name", "organization_id"} PROVE Value(s.rows[x], c) = Value(rs[x], c)
    <3>1. x \in DOMAIN s.rows /\ (c \in DOMAIN rs[x].v => c \in DOMAIN s.rows[x].v)
      BY <1>4, <2>3 DEF Explained, Decided
    <3> QED BY <3>1, ValueKept
  <2> QED BY <2>2, <2>3, <2>4 DEF SameFlow
<1>5. ASSUME NEW q \in DOMAIN rs \ DOMAIN s.rows PROVE Excused(k, rs, v, q)
  <2>1. Excused(k, rs, s, q)
    BY DEF Explained
  <2>2. CASE k = 5 /\ rs[q].t = "workflows" /\ \E p \in DOMAIN s.rows : SameFlow(rs, p, q)
    <3>1. PICK p \in DOMAIN s.rows : SameFlow(rs, p, q)
      BY <2>2
    <3>2. CASE p \in DOMAIN v.rows
      BY <2>2, <3>1, <3>2 DEF Excused
    <3>3. CASE p \notin DOMAIN v.rows
      <4>1. PICK x \in DOMAIN v.rows : SameFlow(rs, x, p)
        BY <1>4, <2>2, <3>1, <3>3 DEF SameFlow
      <4>2. SameFlow(rs, x, q)
        BY <3>1, <4>1 DEF SameFlow
      <4> QED BY <2>2, <4>2 DEF Excused
    <3> QED BY <3>2, <3>3
  <2>3. CASE rs[q].t \notin DOMAIN s.d.tables
    BY <1>3, <2>3 DEF Excused
  <2>4. CASE \E c \in DOMAIN rs[q].v : rs[q].v[c] \in DOMAIN rs \ DOMAIN s.rows
    BY <1>2, <2>4 DEF Excused
  <2> QED BY <2>1, <2>2, <2>3, <2>4 DEF Excused
<1>6. ASSUME NEW q \in DOMAIN s.rows \ DOMAIN v.rows PROVE Excused(k, rs, v, q)
  <2>1. q \in DOMAIN s.rows \ DOMAIN Affect(s.d, s.rows, o).rows /\ s.rows[q].t = rs[q].t /\ q \in DOMAIN rs
    BY <1>2 DEF PartOf
  <2>2. CASE o.op = "drop" /\ s.rows[q].t = o.t
    <3>1. rs[q].t \notin DOMAIN v.d.tables
      BY <2>1, <2>2, AlterTables
    <3> QED BY <3>1 DEF Excused
  <2>3. CASE o.op = "superseded" /\ q \in Purged(s.rows, o)
    <3>1. k = 5 /\ o.t = "workflows" /\ q \in In(s.rows, o.t)
      BY <2>3, PurgedAre DEF DownOp
    <3>2. rs[q].t = "workflows"
      BY <2>1, <3>1 DEF In
    <3> QED BY <1>4, <3>1, <3>2 DEF Excused
  <2>4. CASE o.op = "purge" /\ q \in Purged(s.rows, o)
    <3>1. q \in In(s.rows, o.t) /\ Value(s.rows[q], o.null) = "NULL"
      BY <2>4 DEF Purged
    <3>2. rs[q].t = o.t
      BY <2>1, <3>1 DEF In
    <3>3. RowOK(s.rows[q])
      BY DEF Base, RowsOK
    <3>4. o.null \notin DOMAIN s.rows[q].v
      BY <3>1, <3>3, ValueIs
    <3>5. \/ k = 4 /\ o.t = "conversations" /\ o.null = "agent_id"
          \/ k = 5 /\ o.t = "tool_executions" /\ o.null = "run_id"
          \/ k = 5 /\ o.t = "workflow_runs"
      BY <2>4 DEF DownOp
    <3> QED BY <3>2, <3>4, <3>5 DEF Excused, Explained, Decided
  <2>5. ASSUME NEW p \in DOMAIN s.rows \ DOMAIN v.rows, NEW f \in s.d.refs, Points(s.d, s.rows, q, f, p)
        PROVE  Excused(k, rs, v, q)
    <3>1. Value(s.rows[q], f.ref.col) = p
      BY <2>5 DEF Points
    <3>2. p # "NULL"
      BY DEF Base, RowsOK
    <3>3. f.ref.col \in DOMAIN s.rows[q].v /\ s.rows[q].v[f.ref.col] = p
      BY <3>1, <3>2 DEF Value
    <3>4. f.ref.col \in DOMAIN rs[q].v /\ rs[q].v[f.ref.col] = p
      BY <1>2, <3>3 DEF PartOf
    <3>5. p \in DOMAIN rs \ DOMAIN v.rows
      BY <1>2
    <3> QED BY <3>4, <3>5 DEF Excused
  <2>6. \/ o.op = "drop" /\ s.rows[q].t = o.t
        \/ o.op \in {"purge", "superseded"} /\ q \in Purged(s.rows, o)
        \/ \E p \in DOMAIN s.rows \ DOMAIN v.rows, f \in s.d.refs : Points(s.d, s.rows, q, f, p)
    BY <2>1, LostIs
  <2> QED BY <2>2, <2>3, <2>4, <2>5, <2>6
<1> QED BY <1>1, <1>5, <1>6 DEF Explained

\* The whole way down from a revision: why each row is gone at the end.
LEMMA DowngradeExplains ==
    ASSUME SchemaInv, NEW k \in 1 .. 7, Migrated(Down[k])
    PROVE  LET s == [d |-> db', rows |-> rows'] IN
           /\ \A q \in DOMAIN rows \ DOMAIN rows' : Excused(k, rows, s, q)
           /\ k = 4 => Has(db', "conversations", "agent_id")
           /\ k = 5 => /\ Has(db', "tool_executions", "run_id")
                       /\ Lacks(db', "workflow_runs", "user_id")
                       /\ HasKey(db', "workflows", NameKey)
<1> DEFINE ops == Down[k]
           n   == Len(ops)
<1>1. IsList(ops) /\ \A o \in Ops(ops) : DownOp(k, o)
  BY Revisions
<1>2. PICK a : /\ Accepted(a, From(db, rows), ops, n)
               /\ \A i \in 0 .. n : Base(a[i].d, a[i].rows) /\ Remain(rows, a[i].rows)
               /\ db'.tables = a[n].d.tables /\ rows' = a[n].rows
  BY DEF Migrated
<1>3. RowsOK(rows) /\ n \in Nat /\ Migrated(ops)
  BY <1>1, LenProperties DEF SchemaInv, Base, IsList
<1>4. k = 4 => \E o \in Ops(ops) : o.op = "require" /\ o.t = "conversations" /\ o.col = "agent_id"
  BY ExecutionIs
<1>5. k = 5 => /\ \E o \in Ops(ops) : o.op = "require" /\ o.t = "tool_executions" /\ o.col = "run_id"
               /\ \E o \in Ops(ops) : o.op = "remove" /\ o.t = "workflow_runs" /\ "user_id" \in o.cols
               /\ \E o \in Ops(ops) : o.op = "key" /\ o.t = "workflows" /\ o.key = NameKey
  BY UndoEngineIs DEF NameKey
<1> HIDE DEF ops
<1>6. ASSUME NEW i \in 1 .. n
      PROVE  /\ i - 1 \in 0 .. n /\ i \in 0 .. n /\ ops[i] \in Ops(ops)
             /\ Legal(a[i - 1].d, a[i - 1].rows, ops[i])
             /\ a[i].d = Alter(a[i - 1].d, ops[i])
             /\ a[i].rows = Affect(a[i - 1].d, a[i - 1].rows, ops[i]).rows
             /\ DownOp(k, ops[i])
  BY <1>1, <1>2, <1>3, StepIs
<1> HIDE DEF n
<1> DEFINE E == {i \in 0 .. n : Explained(k, rows, a[i])}
<1>7. 0 \in E
  <2>1. a[0] = From(db, rows)
    BY <1>2 DEF Accepted
  <2>2. a[0].rows = rows
    BY <2>1 DEF From
  <2> QED BY <1>3, <2>2 DEF Explained, Decided
<1>8. ASSUME NEW i \in 0 .. n, i \in E, i < n PROVE i + 1 \in E
  <2>1. i + 1 \in 1 .. n /\ (i + 1) - 1 = i
    BY <1>3, <1>8
  <2> DEFINE o == ops[i + 1]
             s == a[i]
             v == a[i + 1]
  <2>2. /\ Legal(s.d, s.rows, o) /\ v.d = Alter(s.d, o) /\ v.rows = Affect(s.d, s.rows, o).rows
        /\ DownOp(k, o) /\ i + 1 \in 0 .. n
    BY <1>6, <2>1
  <2>3. Base(s.d, s.rows) /\ Remain(rows, s.rows) /\ Explained(k, rows, s)
    BY <1>2, <1>8
  <2> HIDE DEF o, s, v
  <2>4. Remain(s.rows, v.rows)
    <3>1. RefsOK(s.d) /\ RowsOK(s.rows)
      BY <2>3 DEF Base, DbOK
    <3> QED BY <2>2, <3>1, AffectKeeps DEF Keeps
  <2>5. Explained(k, rows, v)
    BY <1>3, <2>2, <2>3, <2>4, ExplainedKept
  <2> QED BY <2>2, <2>5 DEF v
<1>9. n \in E
  <2>1. 0 \in 0 .. n /\ n \in 0 .. n
    BY <1>3
  <2> HIDE DEF E
  <2>2. \A i \in 0 .. n : i \in E
    BY <1>3, <1>7, <1>8, <2>1, Upward
  <2> QED BY <2>1, <2>2
<1>10. \A q \in DOMAIN rows \ DOMAIN rows' : Excused(k, rows, [d |-> db', rows |-> rows'], q)
  <2>1. \A q \in DOMAIN rows \ DOMAIN rows' : Excused(k, rows, a[n], q)
    BY <1>2, <1>9 DEF Explained, n
  <2> QED BY <1>2, <2>1 DEF Excused, n
<1>11. k = 4 => Has(db', "conversations", "agent_id")
  <2> SUFFICES ASSUME k = 4 PROVE Has(db', "conversations", "agent_id")
    OBVIOUS
  <2>1. \A o \in Ops(ops) : Spares(o, "conversations", "agent_id")
    BY <1>1 DEF DownOp
  <2>2. \E o \in Ops(ops) : Makes(o, "conversations", "agent_id")
    BY <1>4 DEF Makes
  <2> QED BY <1>1, <1>3, <2>1, <2>2, HasAtEnd
<1>12. ASSUME k = 5
       PROVE  Has(db', "tool_executions", "run_id") /\ Lacks(db', "workflow_runs", "user_id")
                /\ HasKey(db', "workflows", NameKey)
  <2>1. Has(db', "tool_executions", "run_id")
    <3>1. \A o \in Ops(ops) : Spares(o, "tool_executions", "run_id")
      BY <1>1, <1>12 DEF DownOp
    <3>2. \E o \in Ops(ops) : Makes(o, "tool_executions", "run_id")
      BY <1>5, <1>12 DEF Makes
    <3> QED BY <1>1, <1>3, <3>1, <3>2, HasAtEnd
  <2>2. Lacks(a[n].d, "workflow_runs", "user_id")
    <3> DEFINE I == {i \in 0 .. n : Lacks(a[i].d, "workflow_runs", "user_id")}
               M == {o \in Ops(ops) : o.op = "remove" /\ o.t = "workflow_runs" /\ "user_id" \in o.cols}
    <3>1. \A i \in 1 .. n : i - 1 \in I \/ ops[i] \in M => i \in I
      <4> TAKE i \in 1 .. n
      <4> HAVE i - 1 \in I \/ ops[i] \in M
      <4>1. Lacks(Alter(a[i - 1].d, ops[i]), "workflow_runs", "user_id")
        BY <1>6, <1>12, LacksKept
      <4> QED BY <1>6, <4>1
    <3>2. \E o \in Ops(ops) : o \in M
      BY <1>5, <1>12
    <3> HIDE DEF I, M
    <3>3. n \in I
      BY <1>1, <3>1, <3>2, MadeAndKept DEF n
    <3> QED BY <3>3 DEF I
  <2>3. HasKey(a[n].d, "workflows", NameKey)
    <3> DEFINE I == {i \in 0 .. n : HasKey(a[i].d, "workflows", NameKey)}
               M == {o \in Ops(ops) : o.op = "key" /\ o.t = "workflows" /\ o.key = NameKey}
    <3>1. \A i \in 1 .. n : i - 1 \in I \/ ops[i] \in M => i \in I
      <4> TAKE i \in 1 .. n
      <4> HAVE i - 1 \in I \/ ops[i] \in M
      <4>1. HasKey(Alter(a[i - 1].d, ops[i]), "workflows", NameKey)
        BY <1>6, <1>12, HasKeyKept
      <4> QED BY <1>6, <4>1
    <3>2. \E o \in Ops(ops) : o \in M
      BY <1>5, <1>12
    <3> HIDE DEF I, M
    <3>3. n \in I
      BY <1>1, <3>1, <3>2, MadeAndKept DEF n
    <3> QED BY <3>3 DEF I
  <2> QED BY <1>2, <2>1, <2>2, <2>3 DEF Lacks, HasKey, n
<1> QED BY <1>10, <1>11, <1>12

\* On the way down, whatever the product wrote and at whatever revision, a row goes only if the
\* older schema has no place for it - its table is gone, or it has a column that is gone or lacks
\* one that is required again -, if a row that stays has its key, as a superseded version of a
\* workflow has, or if it refers to a row that went (the downgrade() of alembic/versions).
THEOREM DowngradeSparesRows == SchemaSpec => DowngradeSparesOlderRows
<1> DEFINE A == rev' < rev =>
                  \A q \in DOMAIN rows \ DOMAIN rows' :
                      \/ ~Fits(db', rows[q])
                      \/ \E p \in DOMAIN rows', key \in db'.tables[rows[q].t].keys : Clash(rows, key, p, q)
                      \/ \E c \in DOMAIN rows[q].v : rows[q].v[c] \in DOMAIN rows \ DOMAIN rows'
<1>1. ASSUME SchemaInv, Relied, rev \in 1 .. 7, Migrated(Down[rev]), Remain(rows, rows') PROVE A
  <2> SUFFICES ASSUME NEW q \in DOMAIN rows \ DOMAIN rows'
               PROVE  \/ ~Fits(db', rows[q])
                      \/ \E p \in DOMAIN rows', key \in db'.tables[rows[q].t].keys : Clash(rows, key, p, q)
                      \/ \E c \in DOMAIN rows[q].v : rows[q].v[c] \in DOMAIN rows \ DOMAIN rows'
    OBVIOUS
  <2> DEFINE s == [d |-> db', rows |-> rows']
  <2>1. /\ Excused(rev, rows, s, q)
        /\ rev = 4 => Has(db', "conversations", "agent_id")
        /\ rev = 5 => /\ Has(db', "tool_executions", "run_id")
                      /\ Lacks(db', "workflow_runs", "user_id")
                      /\ HasKey(db', "workflows", NameKey)
    BY <1>1, DowngradeExplains
  <2>2. s.d = db' /\ s.rows = rows'
    OBVIOUS
  <2> HIDE DEF s
  <2>3. q \in DOMAIN rows /\ Fits(db, rows[q]) /\ \A p \in DOMAIN rows : Fits(db, rows[p])
    BY <1>1 DEF SchemaInv, Base, AllFit
  <2>4. CASE rows[q].t \notin DOMAIN s.d.tables
    BY <2>2, <2>4 DEF Fits
  <2>5. CASE \E c \in DOMAIN rows[q].v : rows[q].v[c] \in DOMAIN rows \ DOMAIN s.rows
    BY <2>2, <2>5
  <2>6. CASE rev = 4 /\ rows[q].t = "conversations" /\ "agent_id" \notin DOMAIN rows[q].v
    BY <2>1, <2>6 DEF Fits, Has
  <2>7. CASE rev = 5 /\ rows[q].t = "tool_executions" /\ "run_id" \notin DOMAIN rows[q].v
    BY <2>1, <2>7 DEF Fits, Has
  <2>8. CASE rev = 5 /\ rows[q].t = "workflow_runs"
    <3>1. "user_id" \in DOMAIN rows[q].v
      BY <1>1, <2>3, <2>8 DEF Relied, Has, Fits
    <3> QED BY <2>1, <2>8, <3>1 DEF Fits, Lacks
  <2>9. CASE rev = 5 /\ rows[q].t = "workflows" /\ \E p \in DOMAIN s.rows : SameFlow(rows, p, q)
    <3>1. PICK p \in DOMAIN rows' : SameFlow(rows, p, q)
      BY <2>2, <2>9
    <3>2. p \in DOMAIN rows /\ rows[p].t = "workflows" /\ Fits(db, rows[p])
      BY <1>1, <2>3, <3>1 DEF Remain, SameFlow
    <3>3. NameKey \in SUBSET DOMAIN rows[p].v
      BY <1>1, <2>9, <3>2 DEF Relied, Has, Fits, NameKey
    <3>4. \A c \in NameKey : Value(rows[q], c) = Value(rows[p], c)
      BY <3>1 DEF SameFlow, NameKey
    <3>5. \A c \in NameKey : Value(rows[q], c) = rows[p].v[c]
      BY <3>3, <3>4 DEF Value
    <3>6. Clash(rows, NameKey, p, q)
      BY <2>9, <3>2, <3>3, <3>5 DEF Clash
    <3>7. NameKey \in db'.tables[rows[q].t].keys
      BY <2>1, <2>9 DEF HasKey
    <3> QED BY <3>1, <3>6, <3>7
  <2> QED BY <2>1, <2>4, <2>5, <2>6, <2>7, <2>8, <2>9 DEF Excused
<1>2. ASSUME SchemaInv, Relied, [SchemaNext]_schemaVars PROVE [A]_schemaVars
  <2>1. rev \in 0 .. 7
    BY <1>2 DEF SchemaInv
  <2>2. CASE Upgrade
    <3>1. ~ (rev' < rev)
      BY <1>2, <2>1, <2>2, UpgradeIs
    <3> QED BY <3>1
  <2>3. CASE Downgrade
    <3>1. CASE rev' = rev
      BY <2>1, <3>1
    <3>2. CASE Remain(rows, rows') /\ Migrated(Down[rev])
      BY <1>1, <1>2, <2>3, <3>2, DowngradeIs
    <3> QED BY <1>2, <2>3, <3>1, <3>2, DowngradeIs
  <2>4. ASSUME NEW p \in DOMAIN Written, Use(p) PROVE A
    BY <1>2, <2>1, <2>4, UseIs
  <2>5. ASSUME NEW t, NEW noted, Delete(t, noted) PROVE A
    BY <1>2, <2>1, <2>5, DeleteIs
  <2>6. CASE UNCHANGED schemaVars
    BY <2>6
  <2> QED BY <1>2, <2>2, <2>3, <2>4, <2>5, <2>6 DEF SchemaNext
<1>3. SchemaInv /\ Relied /\ [SchemaNext]_schemaVars => [A]_schemaVars
  BY <1>2
<1> QED BY <1>3, SchemaHolds, ReliedHolds, PTL DEF SchemaSpec, DowngradeSparesOlderRows

-----------------------------------------------------------------------------
(* The schemas of a fresh database.                                        *)
Further(s, k) == Append(s, Run(Last(s), NoRows, Up[k]).d)

LEMMA FreshUnfolds ==
    /\ FreshUpto[0] = <<Nothing>>
    /\ \A k \in 1 .. 7 : FreshUpto[k] = Further(FreshUpto[k - 1], k)
<1> DEFINE Is(h) == h = [n \in 0 .. 7 |-> IF n = 0 THEN <<Nothing>> ELSE Further(h[n - 1], n)]
           s0 == <<Nothing>>
           s1 == Further(s0, 1)
           s2 == Further(s1, 2)
           s3 == Further(s2, 3)
           s4 == Further(s3, 4)
           s5 == Further(s4, 5)
           s6 == Further(s5, 6)
           s7 == Further(s6, 7)
           g  == [n \in 0 .. 7 |-> CASE n = 0 -> s0 [] n = 1 -> s1 [] n = 2 -> s2 [] n = 3 -> s3
                                     [] n = 4 -> s4 [] n = 5 -> s5 [] n = 6 -> s6 [] OTHER -> s7]
<1>1. FreshUpto = CHOOSE h : Is(h)
  BY Revisions DEF FreshUpto, Further
<1>2. \E h : Is(h)
  <2>1. /\ s1 = Further(s0, 1) /\ s2 = Further(s1, 2) /\ s3 = Further(s2, 3) /\ s4 = Further(s3, 4)
        /\ s5 = Further(s4, 5) /\ s6 = Further(s5, 6) /\ s7 = Further(s6, 7) /\ s0 = <<Nothing>>
    OBVIOUS
  <2> HIDE DEF s0, s1, s2, s3, s4, s5, s6, s7
  <2>2. /\ g[0] = s0 /\ g[1] = s1 /\ g[2] = s2 /\ g[3] = s3 /\ g[4] = s4 /\ g[5] = s5 /\ g[6] = s6 /\ g[7] = s7
        /\ g = [n \in 0 .. 7 |-> g[n]]
    OBVIOUS
  <2> HIDE DEF g
  <2>3. ASSUME NEW n \in 0 .. 7 PROVE g[n] = IF n = 0 THEN <<Nothing>> ELSE Further(g[n - 1], n)
    <3>1. n \in {0, 1, 2, 3, 4, 5, 6, 7}
      OBVIOUS
    <3> QED BY <2>1, <2>2, <3>1
  <2>4. Is(g)
    BY <2>2, <2>3
  <2> QED BY <2>4
<1>3. Is(FreshUpto)
  BY <1>1, <1>2
<1>4. \A n \in 0 .. 7 : FreshUpto[n] = IF n = 0 THEN <<Nothing>> ELSE Further(FreshUpto[n - 1], n)
  BY <1>3
<1>5. \A n \in 1 .. 7 : n \in 0 .. 7 /\ n # 0
  OBVIOUS
<1> QED BY <1>4, <1>5

LEMMA FreshIs ==
    /\ FreshSchema[1] = Nothing
    /\ \A k \in 1 .. 7 : FreshSchema[k + 1] = Run(FreshSchema[k], NoRows, Up[k]).d
<1> DEFINE G(k) == Run(Last(FreshUpto[k - 1]), NoRows, Up[k]).d
           S == {Nothing} \cup {G(k) : k \in 1 .. 7}
           I == {k \in 0 .. 7 : /\ FreshUpto[k] \in Seq(S) /\ Len(FreshUpto[k]) = k + 1
                                /\ \A i \in 1 .. k + 1 : FreshUpto[k][i] = Last(FreshUpto[i - 1])}
<1>1. FreshUpto[0] = <<Nothing>> /\ \A k \in 1 .. 7 : FreshUpto[k] = Append(FreshUpto[k - 1], G(k))
  BY FreshUnfolds DEF Further
<1> HIDE DEF G
<1>2. 0 \in I
  <2>1. <<Nothing>> \in Seq(S) /\ Len(<<Nothing>>) = 1 /\ Last(<<Nothing>>) = Nothing /\ <<Nothing>>[1] = Nothing
    BY DEF Last
  <2>2. \A i \in 1 .. 0 + 1 : i = 1 /\ i - 1 = 0
    OBVIOUS
  <2> DEFINE p == FreshUpto[0]
  <2>3. p \in Seq(S) /\ Len(p) = 1 /\ Last(p) = Nothing /\ p[1] = Nothing
    BY <1>1, <2>1
  <2> HIDE DEF S, p
  <2>4. \A i \in 1 .. 0 + 1 : p[i] = Last(FreshUpto[i - 1])
    BY <2>2, <2>3 DEF p
  <2>5. 0 \in 0 .. 7 /\ 0 + 1 = 1
    OBVIOUS
  <2> QED BY <2>3, <2>4, <2>5 DEF p
<1>3. ASSUME NEW k \in 0 .. 7, k \in I, k < 7 PROVE k + 1 \in I
  <2> DEFINE p == FreshUpto[k]
             n == FreshUpto[k + 1]
  <2>1. k + 1 \in 1 .. 7 /\ (k + 1) - 1 = k /\ G(k + 1) \in S
    BY <1>3
  <2>2. p \in Seq(S) /\ Len(p) = k + 1 /\ \A i \in 1 .. k + 1 : p[i] = Last(FreshUpto[i - 1])
    BY <1>3
  <2>3. n = Append(p, G(k + 1))
    BY <1>1, <2>1
  <2> HIDE DEF S, n, p
  <2>4. /\ n \in Seq(S) /\ Len(n) = k + 2 /\ n[k + 2] = G(k + 1)
        /\ \A i \in 1 .. k + 1 : n[i] = p[i]
    <3>1. /\ Append(p, G(k + 1)) \in Seq(S) /\ Len(Append(p, G(k + 1))) = Len(p) + 1
          /\ \A i \in 1 .. Len(p) : Append(p, G(k + 1))[i] = p[i]
          /\ Append(p, G(k + 1))[Len(p) + 1] = G(k + 1)
      BY <2>1, <2>2, AppendIs
    <3> QED BY <2>2, <2>3, <3>1, <1>3
  <2>5. Last(n) = n[k + 2]
    BY <2>4 DEF Last
  <2>6. \A i \in 1 .. k + 2 : n[i] = Last(FreshUpto[i - 1])
    <3> TAKE i \in 1 .. k + 2
    <3>1. CASE i = k + 2
      BY <1>3, <2>5, <3>1 DEF n
    <3>2. CASE i \in 1 .. k + 1
      BY <2>2, <2>4, <3>2
    <3> QED BY <1>3, <3>1, <3>2
  <2>7. k + 1 \in 0 .. 7 /\ (k + 1) + 1 = k + 2
    BY <1>3
  <2> QED BY <2>4, <2>6, <2>7 DEF n
<1>4. \A k \in 0 .. 7 : k \in I
  <2> HIDE DEF I
  <2>1. 7 \in Nat /\ 0 \in 0 .. 7
    OBVIOUS
  <2> QED BY <1>2, <1>3, <2>1, Upward
<1>5. \A i \in 1 .. 8 : FreshSchema[i] = Last(FreshUpto[i - 1])
  <2>1. FreshSchema = FreshUpto[7]
    BY Revisions DEF FreshSchema
  <2>2. 7 \in 0 .. 7 /\ 7 + 1 = 8
    OBVIOUS
  <2>3. 7 \in I
    BY <1>4, <2>2
  <2> HIDE DEF S
  <2> QED BY <2>1, <2>2, <2>3
<1>6. \A k \in 1 .. 7 : Last(FreshUpto[k]) = G(k)
  <2> TAKE k \in 1 .. 7
  <2> DEFINE p == FreshUpto[k - 1]
  <2>1. k - 1 \in 0 .. 7 /\ (k - 1) + 1 = k
    OBVIOUS
  <2>2. p \in Seq(S) /\ Len(p) = k /\ G(k) \in S
    BY <1>4, <2>1
  <2>3. FreshUpto[k] = Append(p, G(k))
    BY <1>1
  <2> HIDE DEF p, S, I
  <2>4. Append(p, G(k)) \in Seq(S) /\ Len(Append(p, G(k))) = k + 1 /\ Append(p, G(k))[k + 1] = G(k)
    BY <2>2, AppendIs
  <2> QED BY <2>3, <2>4 DEF Last
<1>7. FreshSchema[1] = Nothing
  <2>1. Last(<<Nothing>>) = Nothing
    BY DEF Last
  <2>2. 1 \in 1 .. 8 /\ 1 - 1 = 0
    OBVIOUS
  <2> HIDE DEF S, I
  <2> QED BY <1>1, <1>5, <2>1, <2>2
<1>8. \A k \in 1 .. 7 : FreshSchema[k + 1] = Run(FreshSchema[k], NoRows, Up[k]).d
  <2> TAKE k \in 1 .. 7
  <2>1. k \in 1 .. 8 /\ k + 1 \in 1 .. 8 /\ (k + 1) - 1 = k
    OBVIOUS
  <2>2. FreshSchema[k] = Last(FreshUpto[k - 1]) /\ FreshSchema[k + 1] = Last(FreshUpto[k])
    BY <1>5, <2>1
  <2>3. Last(FreshUpto[k]) = G(k)
    BY <1>6
  <2> QED BY <2>2, <2>3 DEF G
<1> QED BY <1>7, <1>8

-----------------------------------------------------------------------------
(* Two schemas that differ in the numbers of their references only.        *)
Alike(d, e) == d.tables = e.tables /\ Links(d) = Links(e) /\ d.checks = e.checks

LEMMA AlterLinks ==
    ASSUME NEW d, NEW o
    PROVE  Links(Alter(d, o)) = {l \in Links(d) : ~DropsRef(o, l)} \cup Adds(o)
<1> DEFINE N == {[n |-> d.last + i, from |-> o.t, ref |-> NewRefs(o)[i]] : i \in DOMAIN NewRefs(o)}
           K == {f \in d.refs : ~DropsRef(o, f)}
           link(f) == [from |-> f.from, ref |-> f.ref]
<1>1. Alter(d, o).refs = K \cup N
  BY AlterRefs
<1>2. {link(f) : f \in N} = Adds(o)
  <2>1. \A f \in N : link(f) \in Adds(o)
    BY DEF Adds
  <2>2. ASSUME NEW l \in Adds(o) PROVE l \in {link(f) : f \in N}
    <3>1. PICK i \in DOMAIN NewRefs(o) : l = [from |-> o.t, ref |-> NewRefs(o)[i]]
      BY DEF Adds
    <3>2. [n |-> d.last + i, from |-> o.t, ref |-> NewRefs(o)[i]] \in N
      OBVIOUS
    <3> QED BY <3>1, <3>2
  <2> QED BY <2>1, <2>2
<1>3. {link(f) : f \in K} = {l \in Links(d) : ~DropsRef(o, l)}
  <2>1. \A f : DropsRef(o, link(f)) <=> DropsRef(o, f)
    BY DEF DropsRef
  <2> QED BY <2>1 DEF Links
<1>4. Links(Alter(d, o)) = {link(f) : f \in K \cup N}
  BY <1>1 DEF Links
<1> HIDE DEF K, N, link
<1> QED BY <1>2, <1>3, <1>4

LEMMA AlterAlike ==
    ASSUME NEW d, NEW e, Alike(d, e), NEW o
    PROVE  Alike(Alter(d, o), Alter(e, o))
<1>1. Links(Alter(d, o)) = Links(Alter(e, o))
  BY AlterLinks DEF Alike
<1>2. Alter(d, o).tables = Alter(e, o).tables /\ Alter(d, o).checks = Alter(e, o).checks
  BY DEF Alter, Alike
<1> QED BY <1>1, <1>2 DEF Alike

\* A statement that an empty database refuses is refused in any other.
LEMMA LegalAlike ==
    ASSUME NEW d, NEW e, Alike(d, e), NEW rs, NEW o, Legal(d, rs, o)
    PROVE  Legal(e, NoRows, o)
<1> DEFINE tab == d.tables[o.t]
           all == tab.must \cup tab.opt
<1>1. e.tables = d.tables /\ e.checks = d.checks
  BY DEF Alike
<1>2. \A f \in e.refs : \E g \in d.refs : g.from = f.from /\ g.ref = f.ref
  <2> TAKE f \in e.refs
  <2>1. [from |-> f.from, ref |-> f.ref] \in Links(d)
    BY DEF Alike, Links
  <2> QED BY <2>1 DEF Links
<1>3. \A g \in d.refs : \E f \in e.refs : g.from = f.from /\ g.ref = f.ref
  <2> TAKE g \in d.refs
  <2>1. [from |-> g.from, ref |-> g.ref] \in Links(e)
    BY DEF Alike, Links
  <2> QED BY <2>1 DEF Links
<1>4. \A t : In(NoRows, t) = {}
  BY DEF In, NoRows
<1>5. \A r : CanRefer(e, r) <=> CanRefer(d, r)
  BY <1>1 DEF CanRefer
<1>6. /\ o.op = "table" <=> o.t \notin DOMAIN e.tables
      /\ o.op = "table" => \A i \in DOMAIN o.refs : CanRefer(e, o.refs[i])
  BY <1>1, <1>5 DEF Legal
<1>7. o.op = "drop" => \A f \in e.refs : f.ref.to = o.t => f.from = o.t
  BY <1>2 DEF Legal
<1>8. /\ o.op = "add" => (o.must \cup o.opt) \cap all = {} /\ (o.must # {} => In(NoRows, o.t) = {})
      /\ o.op = "relax" => o.col \in tab.must
      /\ o.op = "require" => o.col \in tab.opt /\ \A q \in In(NoRows, o.t) : o.col \in DOMAIN NoRows[q].v
      /\ o.op = "key" => o.key \subseteq all \cup {"id"} /\ Agree(NoRows, o.t, o.key)
      /\ o.op = "empty" => In(NoRows, o.t) = {}
  BY <1>4 DEF Legal, Agree
<1>9. /\ o.op = "remove" => /\ o.cols \subseteq all
                            /\ o.cols \cap OrgKey # {} => \A f \in e.refs : f.ref.tenant => f.ref.to # o.t
      /\ o.op = "drop_key" => /\ o.key \in tab.keys
                              /\ o.key = OrgKey => \A f \in e.refs : f.ref.tenant => f.ref.to # o.t
  BY <1>2 DEF Legal
<1>10. o.op = "ref" => /\ o.ref.col \in all /\ CanRefer(e, o.ref)
                       /\ \A q \in In(NoRows, o.t) : Refers(NoRows, q, o.ref)
  BY <1>4, <1>5 DEF Legal
<1>11. /\ o.op = "drop_ref" => \E f \in e.refs : f.from = o.t /\ f.ref = o.ref
       /\ o.op = "drop_check" => <<o.t, o.check>> \in e.checks
  BY <1>1, <1>3 DEF Legal
<1> QED BY <1>1, <1>6, <1>7, <1>8, <1>9, <1>10, <1>11 DEF Legal

LEMMA AffectNoRows ==
    ASSUME NEW d, NEW o, o.op \notin {"purge", "superseded"}
    PROVE  Affect(d, NoRows, o).rows = NoRows /\ Affect(d, NoRows, o).ok
<1>1. DOMAIN NoRows = {}
  BY DEF NoRows
<1>2. CASE o.op = "drop"
  <2>1. Affect(d, NoRows, o) = [rows |-> [q \in {p \in DOMAIN NoRows : NoRows[p].t # o.t} |-> NoRows[q]], ok |-> TRUE]
    BY <1>2 DEF Affect
  <2>2. {p \in DOMAIN NoRows : NoRows[p].t # o.t} = {}
    BY <1>1
  <2>3. [q \in {} |-> NoRows[q]] = NoRows
    BY DEF NoRows
  <2> QED BY <2>1, <2>2, <2>3
<1>3. CASE o.op = "remove"
  <2> DEFINE F == [q \in DOMAIN NoRows |-> IF NoRows[q].t = o.t THEN Without(NoRows[q], o.cols) ELSE NoRows[q]]
  <2>1. Affect(d, NoRows, o) = [rows |-> F, ok |-> TRUE]
    BY <1>3 DEF Affect
  <2>2. F = NoRows
    BY <1>1 DEF NoRows
  <2> HIDE DEF F
  <2> QED BY <2>1, <2>2
<1>4. CASE o.op \notin {"drop", "remove"}
  BY <1>4 DEF Affect
<1> QED BY <1>2, <1>3, <1>4

\* What a database with rows takes, an empty one with the same schema takes.
LEMMA Rehearsed ==
    ASSUME NEW d, NEW e, Alike(d, e), NEW rs, NEW ops, IsList(ops), Run(d, rs, ops).ok,
           \A o \in Ops(ops) : o.op \notin {"purge", "superseded"}
    PROVE  Run(e, NoRows, ops).ok /\ Alike(Run(d, rs, ops).d, Run(e, NoRows, ops).d)
<1> DEFINE n == Len(ops)
           b == After(From(e, NoRows), ops, n)
<1>1. n \in Nat
  BY LenProperties DEF IsList
<1>2. PICK a : Accepted(a, From(d, rs), ops, n) /\ Run(d, rs, ops) = a[n]
  BY <1>1, AcceptedStepByStep
<1>3. /\ b[0] = From(e, NoRows)
      /\ \A i \in 1 .. n : b[i] = Execute(b[i - 1], ops[i])
      /\ Run(e, NoRows, ops) = b[n]
  BY <1>1, AfterUnfolds, RunIsAfter
<1> HIDE DEF n, b
<1> DEFINE I == {i \in 0 .. n : b[i].ok /\ b[i].rows = NoRows /\ Alike(a[i].d, b[i].d)}
<1>4. 0 \in I
  <2>1. a[0] = From(d, rs)
    BY <1>2 DEF Accepted
  <2>2. a[0].d = d /\ b[0].d = e /\ b[0].ok /\ b[0].rows = NoRows
    BY <1>3, <2>1 DEF From
  <2> QED BY <1>1, <2>2
<1>5. ASSUME NEW i \in 0 .. n, i \in I, i < n PROVE i + 1 \in I
  <2>1. i + 1 \in 1 .. n /\ (i + 1) - 1 = i /\ i + 1 \in 0 .. n
    BY <1>1, <1>5
  <2> DEFINE o == ops[i + 1]
             done == Affect(b[i].d, NoRows, o)
  <2>2. o \in Ops(ops) /\ Legal(a[i].d, a[i].rows, o) /\ a[i + 1].d = Alter(a[i].d, o)
    BY <1>2, <2>1, StepIs DEF n
  <2>3. b[i].ok /\ b[i].rows = NoRows /\ Alike(a[i].d, b[i].d)
    BY <1>5
  <2>4. b[i + 1] = Execute(b[i], o)
    BY <1>3, <2>1
  <2> HIDE DEF o
  <2>5. Legal(b[i].d, NoRows, o)
    BY <2>2, <2>3, LegalAlike
  <2>6. done.rows = NoRows /\ done.ok
    BY <2>2, AffectNoRows
  <2>7. b[i + 1] = [d |-> Alter(b[i].d, o), rows |-> done.rows, ok |-> done.ok]
    BY <2>3, <2>4, <2>5, Zenon DEF Execute
  <2> HIDE DEF done
  <2>8. b[i + 1].d = Alter(b[i].d, o) /\ b[i + 1].rows = NoRows /\ b[i + 1].ok
    BY <2>6, <2>7
  <2>9. Alike(a[i + 1].d, b[i + 1].d)
    BY <2>2, <2>3, <2>8, AlterAlike
  <2> QED BY <2>1, <2>8, <2>9
<1>6. n \in I
  <2> HIDE DEF I
  <2>1. 0 \in 0 .. n /\ n \in 0 .. n
    BY <1>1
  <2>2. \A i \in 0 .. n : i \in I
    BY <1>1, <1>4, <1>5, <2>1, Upward
  <2> QED BY <2>1, <2>2
<1> QED BY <1>2, <1>3, <1>6

-----------------------------------------------------------------------------
(* One table of a schema, with the references from it and the checks on    *)
(* it, and what a statement does to it. No statement touches two tables.   *)
Shape(must, opt, keys, refs, checks) ==
    [tab |-> {[must |-> must, opt |-> opt, keys |-> keys]}, refs |-> refs, checks |-> checks]
Absent == [tab |-> {}, refs |-> {}, checks |-> {}]

ShapeIn(d, t) ==
    [tab    |-> {d.tables[u] : u \in {t} \cap DOMAIN d.tables},
     refs   |-> {l.ref : l \in {x \in Links(d) : x.from = t}},
     checks |-> {c \in d.checks : c[1] = t}]

LosesRef(o, r) == DropsRef(o, [from |-> o.t, ref |-> r])

Shaped(x, o) ==
    [tab    |-> CASE o.op = "table" -> {[must |-> o.must, opt |-> o.opt, keys |-> o.keys]}
                  [] o.op = "drop"  -> {}
                  [] OTHER          -> {Altered(tab, o) : tab \in x.tab},
     refs   |-> {r \in x.refs : ~LosesRef(o, r)} \cup {NewRefs(o)[i] : i \in DOMAIN NewRefs(o)},
     checks |-> CASE o.op = "drop"       -> {}
                  [] o.op = "check"      -> x.checks \cup {<<o.t, o.check>>}
                  [] o.op = "drop_check" -> x.checks \ {<<o.t, o.check>>}
                  [] OTHER               -> x.checks]

OnTable(t, x, o) == IF o.t = t THEN Shaped(x, o) ELSE x

LEMMA ShapeAltered ==
    ASSUME NEW d, NEW o, NEW t
    PROVE  ShapeIn(Alter(d, o), t) = OnTable(t, ShapeIn(d, t), o)
<1> DEFINE new == Alter(d, o)
           refsOf(L) == {l.ref : l \in {x \in L : x.from = t}}
<1>1. CASE t # o.t
  <2>1. t \in DOMAIN new.tables <=> t \in DOMAIN d.tables
    BY <1>1, AlterTables
  <2>2. {new.tables[u] : u \in {t} \cap DOMAIN new.tables} = {d.tables[u] : u \in {t} \cap DOMAIN d.tables}
    <3>1. t \in DOMAIN d.tables => new.tables[t] = d.tables[t]
      BY <1>1, AlterTables
    <3> HIDE DEF new
    <3> QED BY <2>1, <3>1
  <2>3. {x \in Links(new) : x.from = t} = {x \in Links(d) : x.from = t}
    <3>1. \A l \in Adds(o) : l.from = o.t
      BY DEF Adds
    <3>2. \A l : DropsRef(o, l) => l.from = o.t
      BY DEF DropsRef
    <3> QED BY <1>1, <3>1, <3>2, AlterLinks
  <2>4. {c \in new.checks : c[1] = t} = {c \in d.checks : c[1] = t}
    <3>1. new.checks = CASE o.op = "drop"       -> {c \in d.checks : c[1] # o.t}
                         [] o.op = "check"      -> d.checks \cup {<<o.t, o.check>>}
                         [] o.op = "drop_check" -> d.checks \ {<<o.t, o.check>>}
                         [] OTHER               -> d.checks
      BY DEF Alter
    <3>2. <<o.t, o.check>>[1] = o.t
      OBVIOUS
    <3> HIDE DEF new
    <3>3. CASE o.op = "drop"
      BY <1>1, <3>1, <3>3
    <3>4. CASE o.op = "check"
      BY <1>1, <3>1, <3>2, <3>4
    <3>5. CASE o.op = "drop_check"
      BY <1>1, <3>1, <3>2, <3>5
    <3>6. CASE o.op \notin {"drop", "check", "drop_check"}
      BY <3>1, <3>6
    <3> QED BY <3>3, <3>4, <3>5, <3>6
  <2> HIDE DEF new
  <2>5. ShapeIn(new, t) = ShapeIn(d, t)
    BY <2>2, <2>3, <2>4, Zenon DEF ShapeIn
  <2> QED BY <1>1, <2>5 DEF OnTable, new
<1>2. CASE t = o.t
  <2> DEFINE x == ShapeIn(d, t)
             y == ShapeIn(new, t)
             tabs == CASE o.op = "table" -> {[must |-> o.must, opt |-> o.opt, keys |-> o.keys]}
                       [] o.op = "drop"  -> {}
                       [] OTHER          -> {Altered(tab, o) : tab \in x.tab}
  <2>1. x.tab = {d.tables[u] : u \in {t} \cap DOMAIN d.tables}
    BY DEF ShapeIn
  <2>2. (t \in DOMAIN new.tables) <=> (o.op = "table" \/ (t \in DOMAIN d.tables /\ o.op # "drop"))
    BY <1>2, AlterTables
  <2>3. t \in DOMAIN new.tables => new.tables[t] = Altered(d.tables[t], o)
    BY <1>2, AlterTables
  <2>4. {new.tables[u] : u \in {t} \cap DOMAIN new.tables} = tabs
    <3>1. CASE o.op = "table"
      <4>1. Altered(d.tables[t], o) = [must |-> o.must, opt |-> o.opt, keys |-> o.keys]
        BY <3>1 DEF Altered
      <4>2. tabs = {[must |-> o.must, opt |-> o.opt, keys |-> o.keys]}
        BY <3>1
      <4> HIDE DEF new, tabs
      <4> QED BY <2>2, <2>3, <3>1, <4>1, <4>2
    <3>2. CASE o.op = "drop"
      <4>1. tabs = {}
        BY <3>2
      <4> HIDE DEF new, tabs
      <4> QED BY <2>2, <3>2, <4>1
    <3>3. CASE o.op \notin {"table", "drop"}
      <4>1. tabs = {Altered(tab, o) : tab \in x.tab}
        BY <3>3
      <4> HIDE DEF new, tabs, x
      <4> QED BY <2>1, <2>2, <2>3, <3>3, <4>1
    <3> QED BY <3>1, <3>2, <3>3
  <2>5. {l.ref : l \in {z \in Links(new) : z.from = t}}
          = {r \in x.refs : ~LosesRef(o, r)} \cup {NewRefs(o)[i] : i \in DOMAIN NewRefs(o)}
    <3> DEFINE R == {NewRefs(o)[i] : i \in DOMAIN NewRefs(o)}
    <3>1. x.refs = {l.ref : l \in {z \in Links(d) : z.from = t}}
      BY DEF ShapeIn
    <3>2. \A l \in Links(d) : l = [from |-> l.from, ref |-> l.ref]
      BY DEF Links
    <3>3. \A l \in Links(d) : l.from = t => (DropsRef(o, l) <=> LosesRef(o, l.ref))
      BY <1>2 DEF DropsRef, LosesRef
    <3>4. {l.ref : l \in Adds(o)} = R /\ \A l \in Adds(o) : l.from = t
      <4>1. \A l \in Adds(o) : l.from = t /\ l.ref \in R
        BY <1>2 DEF Adds
      <4>2. ASSUME NEW i \in DOMAIN NewRefs(o) PROVE \E l \in Adds(o) : l.ref = NewRefs(o)[i]
        <5>1. [from |-> o.t, ref |-> NewRefs(o)[i]] \in Adds(o)
          BY DEF Adds
        <5> QED BY <5>1
      <4>3. \A r \in R : \E l \in Adds(o) : l.ref = r
        BY <4>2
      <4> HIDE DEF R
      <4> QED BY <4>1, <4>3
    <3>5. Links(new) = {l \in Links(d) : ~DropsRef(o, l)} \cup Adds(o)
      BY AlterLinks
    <3> DEFINE A == {l \in Links(d) : l.from = t /\ ~DropsRef(o, l)}
    <3>6. {z \in Links(new) : z.from = t} = A \cup Adds(o)
      BY <3>4, <3>5
    <3>7. {l.ref : l \in A} = {r \in x.refs : ~LosesRef(o, r)}
      <4> HIDE DEF x
      <4> QED BY <3>1, <3>3
    <3> HIDE DEF R, x, new, A
    <3>8. {l.ref : l \in A \cup Adds(o)} = {l.ref : l \in A} \cup {l.ref : l \in Adds(o)}
      OBVIOUS
    <3>9. {l.ref : l \in {z \in Links(new) : z.from = t}} = {l.ref : l \in A \cup Adds(o)}
      BY <3>6, Zenon
    <3> QED BY <3>4, <3>7, <3>8, <3>9, Zenon DEF R
  <2>6. {c \in new.checks : c[1] = t} =
          CASE o.op = "drop"       -> {}
            [] o.op = "check"      -> x.checks \cup {<<o.t, o.check>>}
            [] o.op = "drop_check" -> x.checks \ {<<o.t, o.check>>}
            [] OTHER               -> x.checks
    <3>1. new.checks = CASE o.op = "drop"       -> {c \in d.checks : c[1] # o.t}
                         [] o.op = "check"      -> d.checks \cup {<<o.t, o.check>>}
                         [] o.op = "drop_check" -> d.checks \ {<<o.t, o.check>>}
                         [] OTHER               -> d.checks
      BY DEF Alter
    <3>2. <<o.t, o.check>>[1] = o.t /\ x.checks = {c \in d.checks : c[1] = t}
      BY DEF ShapeIn
    <3> HIDE DEF new, x
    <3>3. CASE o.op = "drop"
      BY <1>2, <3>1, <3>3
    <3>4. CASE o.op = "check"
      BY <1>2, <3>1, <3>2, <3>4
    <3>5. CASE o.op = "drop_check"
      BY <1>2, <3>1, <3>2, <3>5
    <3>6. CASE o.op \notin {"drop", "check", "drop_check"}
      BY <3>1, <3>2, <3>6
    <3> QED BY <3>3, <3>4, <3>5, <3>6
  <2>7. y = Shaped(x, o)
    <3>1. y = [tab    |-> {new.tables[u] : u \in {t} \cap DOMAIN new.tables},
               refs   |-> {l.ref : l \in {z \in Links(new) : z.from = t}},
               checks |-> {c \in new.checks : c[1] = t}]
      BY Zenon DEF ShapeIn
    <3> HIDE DEF x, y, new
    <3> QED BY <2>4, <2>5, <2>6, <3>1, Zenon DEF Shaped
  <2> QED BY <1>2, <2>7 DEF OnTable
<1> QED BY <1>1, <1>2

\* A list of statements takes a table from one shape to another.
Leads(t, ops, x, y) ==
    \A b : b[0] = x /\ (\A i \in 1 .. Len(ops) : b[i] = OnTable(t, b[i - 1], ops[i])) => b[Len(ops)] = y

LEMMA RunLeads ==
    ASSUME NEW d, NEW rs, NEW ops, IsList(ops), Run(d, rs, ops).ok, NEW t, NEW x, NEW y,
           Leads(t, ops, x, y), ShapeIn(d, t) = x
    PROVE  ShapeIn(Run(d, rs, ops).d, t) = y
<1> DEFINE n == Len(ops)
<1>1. n \in Nat
  BY LenProperties DEF IsList
<1>2. PICK a : Accepted(a, From(d, rs), ops, n) /\ Run(d, rs, ops) = a[n]
  BY <1>1, AcceptedStepByStep
<1> DEFINE b == [i \in 0 .. n |-> ShapeIn(a[i].d, t)]
<1>3. b[0] = x
  <2>1. a[0] = From(d, rs)
    BY <1>2 DEF Accepted
  <2> QED BY <1>1, <2>1 DEF From
<1>4. ASSUME NEW i \in 1 .. n PROVE b[i] = OnTable(t, b[i - 1], ops[i])
  <2>1. a[i].d = Alter(a[i - 1].d, ops[i]) /\ i - 1 \in 0 .. n /\ i \in 0 .. n
    BY <1>2, StepIs
  <2>2. ShapeIn(a[i].d, t) = OnTable(t, ShapeIn(a[i - 1].d, t), ops[i])
    BY <2>1, ShapeAltered
  <2> QED BY <2>1, <2>2
<1>5. b[n] = ShapeIn(a[n].d, t)
  BY <1>1
<1> HIDE DEF b
<1>6. b[n] = y
  BY <1>3, <1>4 DEF Leads
<1> QED BY <1>2, <1>5, <1>6

LEMMA LeadsPast ==
    ASSUME NEW t, NEW ops, IsList(ops), \A o \in Ops(ops) : o.t # t
    PROVE  \A x : Leads(t, ops, x, x)
<1> SUFFICES ASSUME NEW x, NEW b, b[0] = x, \A i \in 1 .. Len(ops) : b[i] = OnTable(t, b[i - 1], ops[i])
             PROVE  b[Len(ops)] = x
  BY DEF Leads
<1> DEFINE n == Len(ops)
           I == {i \in 0 .. n : b[i] = x}
<1>1. n \in Nat /\ \A i \in 1 .. n : ops[i] \in Ops(ops)
  BY LenProperties DEF IsList, Ops
<1>2. 0 \in I
  BY <1>1
<1>3. ASSUME NEW i \in 0 .. n, i \in I, i < n PROVE i + 1 \in I
  <2>1. i + 1 \in 1 .. n /\ (i + 1) - 1 = i /\ i + 1 \in 0 .. n
    BY <1>1, <1>3
  <2>2. b[i + 1] = OnTable(t, b[i], ops[i + 1]) /\ ops[i + 1] \in Ops(ops)
    BY <1>1, <2>1
  <2>3. b[i + 1] = b[i]
    BY <2>2 DEF OnTable
  <2> QED BY <1>3, <2>1, <2>3
<1> HIDE DEF n, I
<1>4. 0 \in 0 .. n /\ n \in 0 .. n
  BY <1>1
<1>5. \A i \in 0 .. n : i \in I
  BY <1>1, <1>2, <1>3, <1>4, Upward
<1> QED BY <1>4, <1>5 DEF I, n

LEMMA LeadsOn ==
    ASSUME NEW t, NEW p, NEW q, IsList(p), IsList(q), NEW x, NEW y, NEW z,
           Leads(t, p, x, y), Leads(t, q, y, z)
    PROVE  Leads(t, p \o q, x, z)
<1> DEFINE ops == p \o q
           m == Len(p)
           n == Len(q)
           S == Ops(p) \cup Ops(q)
<1>1. p \in Seq(S) /\ q \in Seq(S)
  BY SeqMonotonic DEF IsList
<1>2. /\ Len(ops) = m + n /\ m \in Nat /\ n \in Nat
      /\ \A i \in 1 .. m + n : ops[i] = IF i <= m THEN p[i] ELSE q[i - m]
  BY <1>1, ConcatProperties, LenProperties
<1> SUFFICES ASSUME NEW b, b[0] = x, \A i \in 1 .. Len(ops) : b[i] = OnTable(t, b[i - 1], ops[i])
             PROVE  b[Len(ops)] = z
  BY DEF Leads
<1> HIDE DEF ops, m, n
<1>3. \A i \in 1 .. m : b[i] = OnTable(t, b[i - 1], p[i])
  <2> TAKE i \in 1 .. m
  <2>1. i \in 1 .. m + n /\ i <= m
    BY <1>2
  <2> QED BY <1>2, <2>1
<1>4. b[m] = y
  BY <1>3 DEF Leads, m
<1> DEFINE c == [i \in 0 .. n |-> b[m + i]]
<1>5. c[0] = y /\ c[n] = b[m + n]
  BY <1>2, <1>4
<1>6. ASSUME NEW i \in 1 .. n PROVE c[i] = OnTable(t, c[i - 1], q[i])
  <2>1. /\ i \in 0 .. n /\ i - 1 \in 0 .. n /\ m + i \in 1 .. m + n /\ ~ (m + i <= m)
        /\ (m + i) - m = i /\ (m + i) - 1 = m + (i - 1)
    BY <1>2
  <2>2. b[m + i] = OnTable(t, b[m + (i - 1)], q[i])
    BY <1>2, <2>1
  <2> QED BY <2>1, <2>2
<1> HIDE DEF c
<1>7. c[n] = z
  BY <1>5, <1>6 DEF Leads, n
<1> QED BY <1>2, <1>5, <1>7

\* A table that a list of statements drops, and does nothing else to.
LEMMA LeadsAway ==
    ASSUME NEW t, NEW ops, IsList(ops), \A o \in Ops(ops) : o.t = t => o.op = "drop",
           \E o \in Ops(ops) : o.t = t
    PROVE  \A x : Leads(t, ops, x, Absent)
<1> SUFFICES ASSUME NEW x, NEW b, b[0] = x, \A i \in 1 .. Len(ops) : b[i] = OnTable(t, b[i - 1], ops[i])
             PROVE  b[Len(ops)] = Absent
  BY DEF Leads
<1> DEFINE I == {i \in 0 .. Len(ops) : b[i] = Absent}
           M == {o \in Ops(ops) : o.t = t}
<1>1. Len(ops) \in Nat /\ \A i \in 1 .. Len(ops) : ops[i] \in Ops(ops)
  BY LenProperties DEF IsList, Ops
<1>2. ASSUME NEW o, NEW y, o.op = "drop" PROVE Shaped(y, o) = Absent
  <2>1. {NewRefs(o)[i] : i \in DOMAIN NewRefs(o)} = {}
    BY <1>2 DEF NewRefs
  <2>2. \A r : LosesRef(o, r)
    BY <1>2 DEF LosesRef, DropsRef
  <2> QED BY <1>2, <2>1, <2>2 DEF Shaped, Absent
<1>3. ASSUME NEW i \in 1 .. Len(ops), i - 1 \in I \/ ops[i] \in M PROVE i \in I
  <2>1. b[i] = OnTable(t, b[i - 1], ops[i]) /\ ops[i] \in Ops(ops) /\ i \in 0 .. Len(ops)
    BY <1>1
  <2>2. CASE ops[i].t = t
    <3>1. b[i] = Absent
      BY <1>2, <2>1, <2>2 DEF OnTable
    <3> QED BY <2>1, <3>1
  <2>3. CASE ops[i].t # t
    <3>1. b[i] = Absent
      BY <1>3, <2>1, <2>3 DEF OnTable
    <3> QED BY <2>1, <3>1
  <2> QED BY <2>2, <2>3
<1>4. \E o \in Ops(ops) : o \in M
  OBVIOUS
<1> HIDE DEF I, M
<1>5. Len(ops) \in I
  BY <1>3, <1>4, MadeAndKept
<1> QED BY <1>5 DEF I

\* A table that a list of statements creates, and does nothing else to.
MadeBy(o) == Shape(o.must, o.opt, o.keys, {o.refs[i] : i \in DOMAIN o.refs}, {})

LEMMA LeadsToTable ==
    ASSUME NEW ops, IsList(ops), NEW o \in Ops(ops), o.op = "table",
           \A p \in Ops(ops) : p.t = o.t => p = o
    PROVE  Leads(o.t, ops, Absent, MadeBy(o))
<1> DEFINE t == o.t
<1> SUFFICES ASSUME NEW b, b[0] = Absent, \A i \in 1 .. Len(ops) : b[i] = OnTable(t, b[i - 1], ops[i])
             PROVE  b[Len(ops)] = MadeBy(o)
  BY DEF Leads
<1> DEFINE n == Len(ops)
           J == {i \in 0 .. n : b[i] \in {Absent, MadeBy(o)}}
           I == {i \in 0 .. n : b[i] = MadeBy(o)}
           M == {o}
<1>1. n \in Nat /\ \A i \in 1 .. n : ops[i] \in Ops(ops)
  BY LenProperties DEF IsList, Ops
<1>2. ASSUME NEW y \in {Absent, MadeBy(o)} PROVE Shaped(y, o) = MadeBy(o)
  <2>1. NewRefs(o) = o.refs /\ \A r : ~LosesRef(o, r)
    BY DEF NewRefs, LosesRef, DropsRef
  <2>2. y.refs \in {{}, {o.refs[i] : i \in DOMAIN o.refs}} /\ y.checks = {}
    BY DEF Absent, MadeBy, Shape
  <2>3. {r \in y.refs : ~LosesRef(o, r)} \cup {NewRefs(o)[i] : i \in DOMAIN NewRefs(o)}
          = {o.refs[i] : i \in DOMAIN o.refs}
    BY <2>1, <2>2
  <2>4. Shaped(y, o).tab = {[must |-> o.must, opt |-> o.opt, keys |-> o.keys]} /\ Shaped(y, o).checks = {}
    BY <2>2 DEF Shaped
  <2>5. Shaped(y, o).refs = {o.refs[i] : i \in DOMAIN o.refs}
    BY <2>3, Zenon DEF Shaped
  <2>6. Shaped(y, o) = [tab |-> Shaped(y, o).tab, refs |-> Shaped(y, o).refs, checks |-> Shaped(y, o).checks]
    BY DEF Shaped
  <2> QED BY <2>4, <2>5, <2>6, Zenon DEF MadeBy, Shape
<1>3. \A i \in 0 .. n : i \in J
  <2>1. 0 \in J /\ 0 \in 0 .. n
    BY <1>1
  <2>2. ASSUME NEW i \in 0 .. n, i \in J, i < n PROVE i + 1 \in J
    <3>1. i + 1 \in 1 .. n /\ (i + 1) - 1 = i /\ i + 1 \in 0 .. n
      BY <1>1, <2>2
    <3>2. b[i + 1] = OnTable(t, b[i], ops[i + 1]) /\ ops[i + 1] \in Ops(ops)
      BY <1>1, <3>1
    <3>3. b[i + 1] = b[i] \/ b[i + 1] = Shaped(b[i], o)
      BY <3>2 DEF OnTable
    <3>4. b[i] \in {Absent, MadeBy(o)}
      BY <2>2
    <3>5. b[i + 1] \in {Absent, MadeBy(o)}
      BY <1>2, <3>3, <3>4
    <3> QED BY <3>1, <3>5
  <2> HIDE DEF J
  <2> QED BY <1>1, <2>1, <2>2, Upward
<1>4. ASSUME NEW i \in 1 .. n, i - 1 \in I \/ ops[i] \in M PROVE i \in I
  <2>1. b[i] = OnTable(t, b[i - 1], ops[i]) /\ ops[i] \in Ops(ops) /\ i \in 0 .. n /\ i - 1 \in 0 .. n
    BY <1>1
  <2>2. b[i - 1] \in {Absent, MadeBy(o)}
    BY <1>3, <2>1
  <2>3. CASE ops[i].t = t
    <3>1. b[i] = MadeBy(o)
      BY <1>2, <2>1, <2>2, <2>3 DEF OnTable
    <3> QED BY <2>1, <3>1
  <2>4. CASE ops[i].t # t
    <3>1. b[i] = MadeBy(o)
      BY <1>4, <2>1, <2>4 DEF OnTable
    <3> QED BY <2>1, <3>1
  <2> QED BY <2>3, <2>4
<1>5. \E p \in Ops(ops) : p \in M
  OBVIOUS
<1> HIDE DEF I, M
<1>6. n \in I
  BY <1>4, <1>5, MadeAndKept
<1> QED BY <1>6 DEF I

\* Short lists, statement by statement.
LEMMA Leads1 == \A t, ops, x : Len(ops) = 1 => Leads(t, ops, x, OnTable(t, x, ops[1]))
BY DEF Leads

LEMMA Leads2 == \A t, ops, z0, z1, z2 :
    /\ Len(ops) = 2 /\ OnTable(t, z0, ops[1]) = z1 /\ OnTable(t, z1, ops[2]) = z2
      => Leads(t, ops, z0, z2)
BY DEF Leads

LEMMA Leads3 == \A t, ops, z0, z1, z2, z3 :
    /\ Len(ops) = 3 /\ OnTable(t, z0, ops[1]) = z1 /\ OnTable(t, z1, ops[2]) = z2
      /\ OnTable(t, z2, ops[3]) = z3
      => Leads(t, ops, z0, z3)
BY DEF Leads

LEMMA Leads4 == \A t, ops, z0, z1, z2, z3, z4 :
    /\ Len(ops) = 4 /\ OnTable(t, z0, ops[1]) = z1 /\ OnTable(t, z1, ops[2]) = z2
      /\ OnTable(t, z2, ops[3]) = z3 /\ OnTable(t, z3, ops[4]) = z4
      => Leads(t, ops, z0, z4)
BY DEF Leads

LEMMA Leads6 == \A t, ops, z0, z1, z2, z3, z4, z5, z6 :
    /\ Len(ops) = 6 /\ OnTable(t, z0, ops[1]) = z1 /\ OnTable(t, z1, ops[2]) = z2
      /\ OnTable(t, z2, ops[3]) = z3 /\ OnTable(t, z3, ops[4]) = z4 /\ OnTable(t, z4, ops[5]) = z5
      /\ OnTable(t, z5, ops[6]) = z6
      => Leads(t, ops, z0, z6)
BY SMTT(40) DEF Leads

LEMMA Leads7 == \A t, ops, z0, z1, z2, z3, z4, z5, z6, z7 :
    /\ Len(ops) = 7 /\ OnTable(t, z0, ops[1]) = z1 /\ OnTable(t, z1, ops[2]) = z2
      /\ OnTable(t, z2, ops[3]) = z3 /\ OnTable(t, z3, ops[4]) = z4 /\ OnTable(t, z4, ops[5]) = z5
      /\ OnTable(t, z5, ops[6]) = z6 /\ OnTable(t, z6, ops[7]) = z7
      => Leads(t, ops, z0, z7)
BY SMTT(40) DEF Leads

LEMMA Leads8 ==
    ASSUME NEW t, NEW ops, NEW z0, NEW z1, NEW z2, NEW z3, NEW z4, NEW z5, NEW z6,
           NEW z7, NEW z8,
           Len(ops) = 8, OnTable(t, z0, ops[1]) = z1, OnTable(t, z1, ops[2]) = z2,
           OnTable(t, z2, ops[3]) = z3, OnTable(t, z3, ops[4]) = z4, OnTable(t, z4, ops[5]) = z5,
           OnTable(t, z5, ops[6]) = z6, OnTable(t, z6, ops[7]) = z7, OnTable(t, z7, ops[8]) = z8
    PROVE  Leads(t, ops, z0, z8)
<1> SUFFICES ASSUME NEW b, b[0] = z0, \A i \in 1 .. 8 : b[i] = OnTable(t, b[i - 1], ops[i])
             PROVE  b[8] = z8
  BY DEF Leads
<1>1. b[1] = z1 /\ b[2] = z2 /\ b[3] = z3 /\ b[4] = z4
  OBVIOUS
<1>2. b[5] = z5 /\ b[6] = z6 /\ b[7] = z7 /\ b[8] = z8
  BY <1>1
<1> QED BY <1>2

LEMMA Leads9 ==
    ASSUME NEW t, NEW ops, NEW z0, NEW z1, NEW z2, NEW z3, NEW z4, NEW z5, NEW z6,
           NEW z7, NEW z8, NEW z9,
           Len(ops) = 9, OnTable(t, z0, ops[1]) = z1, OnTable(t, z1, ops[2]) = z2,
           OnTable(t, z2, ops[3]) = z3, OnTable(t, z3, ops[4]) = z4, OnTable(t, z4, ops[5]) = z5,
           OnTable(t, z5, ops[6]) = z6, OnTable(t, z6, ops[7]) = z7, OnTable(t, z7, ops[8]) = z8,
           OnTable(t, z8, ops[9]) = z9
    PROVE  Leads(t, ops, z0, z9)
<1> SUFFICES ASSUME NEW b, b[0] = z0, \A i \in 1 .. 9 : b[i] = OnTable(t, b[i - 1], ops[i])
             PROVE  b[9] = z9
  BY DEF Leads
<1>1. b[1] = z1 /\ b[2] = z2 /\ b[3] = z3 /\ b[4] = z4
  OBVIOUS
<1>2. b[5] = z5 /\ b[6] = z6 /\ b[7] = z7 /\ b[8] = z8
  BY <1>1
<1>3. b[9] = z9
  BY <1>2
<1> QED BY <1>3

LEMMA Leads11 ==
    ASSUME NEW t, NEW ops, NEW z0, NEW z1, NEW z2, NEW z3, NEW z4, NEW z5, NEW z6,
           NEW z7, NEW z8, NEW z9, NEW z10, NEW z11,
           Len(ops) = 11, OnTable(t, z0, ops[1]) = z1, OnTable(t, z1, ops[2]) = z2,
           OnTable(t, z2, ops[3]) = z3, OnTable(t, z3, ops[4]) = z4, OnTable(t, z4, ops[5]) = z5,
           OnTable(t, z5, ops[6]) = z6, OnTable(t, z6, ops[7]) = z7, OnTable(t, z7, ops[8]) = z8,
           OnTable(t, z8, ops[9]) = z9, OnTable(t, z9, ops[10]) = z10, OnTable(t, z10, ops[11]) = z11
    PROVE  Leads(t, ops, z0, z11)
<1> SUFFICES ASSUME NEW b, b[0] = z0, \A i \in 1 .. 11 : b[i] = OnTable(t, b[i - 1], ops[i])
             PROVE  b[11] = z11
  BY DEF Leads
<1>1. b[1] = z1 /\ b[2] = z2 /\ b[3] = z3 /\ b[4] = z4
  OBVIOUS
<1>2. b[5] = z5 /\ b[6] = z6 /\ b[7] = z7 /\ b[8] = z8
  BY <1>1
<1>3. b[9] = z9 /\ b[10] = z10 /\ b[11] = z11
  BY <1>2
<1> QED BY <1>3

-----------------------------------------------------------------------------
(* Each kind of statement on the table it is about, and elsewhere.         *)
RefsAfter(s, r)   == {x \in r : ~LosesRef(s, x)} \cup {NewRefs(s)[i] : i \in DOMAIN NewRefs(s)}
ChecksAfter(s, c) == CASE s.op = "check"      -> c \cup {<<s.t, s.check>>}
                       [] s.op = "drop_check" -> c \ {<<s.t, s.check>>}
                       [] OTHER               -> c
Tab(m, o, k) == [must |-> m, opt |-> o, keys |-> k]

LEMMA ShapedIs ==
    \A m, o, k, r, c, s, m2, o2, k2 :
        s.op \notin {"table", "drop"} /\ Altered(Tab(m, o, k), s) = Tab(m2, o2, k2)
          => OnTable(s.t, Shape(m, o, k, r, c), s) = Shape(m2, o2, k2, RefsAfter(s, r), ChecksAfter(s, c))
<1> TAKE m, o, k, r, c, s, m2, o2, k2
<1> HAVE s.op \notin {"table", "drop"} /\ Altered(Tab(m, o, k), s) = Tab(m2, o2, k2)
<1> DEFINE x == Shape(m, o, k, r, c)
<1>1. x.tab = {Tab(m, o, k)} /\ x.refs = r /\ x.checks = c
  BY DEF Shape, Tab
<1> HIDE DEF x
<1>2. {Altered(y, s) : y \in x.tab} = {Tab(m2, o2, k2)}
  BY <1>1
<1>3. Shaped(x, s).tab = {Tab(m2, o2, k2)}
  BY <1>2 DEF Shaped
<1>4. Shaped(x, s).refs = RefsAfter(s, r)
  BY <1>1 DEF Shaped, RefsAfter
<1>5. Shaped(x, s).checks = ChecksAfter(s, c)
  BY <1>1 DEF Shaped, ChecksAfter
<1>6. Shaped(x, s) = [tab |-> Shaped(x, s).tab, refs |-> Shaped(x, s).refs, checks |-> Shaped(x, s).checks]
  BY DEF Shaped
<1> QED BY <1>3, <1>4, <1>5, <1>6, Zenon DEF OnTable, Shape, Tab, x

LEMMA NoRefs ==
    ASSUME NEW s, s.op \notin {"table", "ref"}
    PROVE  {NewRefs(s)[i] : i \in DOMAIN NewRefs(s)} = {}
BY DEF NewRefs

LEMMA RefsStay ==
    ASSUME NEW s, s.op \notin {"table", "ref", "drop", "remove", "drop_ref"}
    PROVE  \A r : RefsAfter(s, r) = r
<1>1. \A x : ~LosesRef(s, x)
  BY DEF LosesRef, DropsRef
<1> QED BY <1>1, NoRefs DEF RefsAfter

LEMMA ChecksStay ==
    ASSUME NEW s, s.op \notin {"check", "drop_check"}
    PROVE  \A c : ChecksAfter(s, c) = c
BY DEF ChecksAfter

LEMMA OnAdd == \A t, m, o, k, r, c, x, y :
    OnTable(t, Shape(m, o, k, r, c), AddColumns(t, x, y)) = Shape(m \cup x, o \cup y, k, r, c)
<1> TAKE t, m, o, k, r, c, x, y
<1> DEFINE s == AddColumns(t, x, y)
<1>1. s.op = "add" /\ s.t = t /\ s.must = x /\ s.opt = y
  BY DEF AddColumns
<1> HIDE DEF s
<1>2. Altered(Tab(m, o, k), s) = Tab(m \cup x, o \cup y, k)
  BY <1>1 DEF Altered, Tab
<1>3. RefsAfter(s, r) = r /\ ChecksAfter(s, c) = c
  BY <1>1, RefsStay, ChecksStay
<1> QED BY <1>1, <1>2, <1>3, ShapedIs DEF s

LEMMA OnRemove == \A t, m, o, k, r, c, x :
    OnTable(t, Shape(m, o, k, r, c), RemoveColumns(t, x)) =
        Shape(m \ x, o \ x, {y \in k : y \cap x = {}}, {y \in r : Clears(y) \cap x = {}}, c)
<1> TAKE t, m, o, k, r, c, x
<1> DEFINE s == RemoveColumns(t, x)
<1>1. s.op = "remove" /\ s.t = t /\ s.cols = x
  BY DEF RemoveColumns
<1> HIDE DEF s
<1>2. Altered(Tab(m, o, k), s) = Tab(m \ x, o \ x, {y \in k : y \cap x = {}})
  BY <1>1 DEF Altered, Tab
<1>3. \A y : LosesRef(s, y) <=> Clears(y) \cap x # {}
  BY <1>1 DEF LosesRef, DropsRef
<1>4. RefsAfter(s, r) = {y \in r : Clears(y) \cap x = {}}
  BY <1>1, <1>3, NoRefs DEF RefsAfter
<1>5. ChecksAfter(s, c) = c
  BY <1>1, ChecksStay
<1> QED BY <1>1, <1>2, <1>4, <1>5, ShapedIs DEF s

LEMMA OnRelax == \A t, m, o, k, r, c, x :
    OnTable(t, Shape(m, o, k, r, c), Relax(t, x)) = Shape(m \ {x}, o \cup {x}, k, r, c)
<1> TAKE t, m, o, k, r, c, x
<1> DEFINE s == Relax(t, x)
<1>1. s.op = "relax" /\ s.t = t /\ s.col = x
  BY DEF Relax
<1> HIDE DEF s
<1>2. Altered(Tab(m, o, k), s) = Tab(m \ {x}, o \cup {x}, k)
  BY <1>1 DEF Altered, Tab
<1>3. RefsAfter(s, r) = r /\ ChecksAfter(s, c) = c
  BY <1>1, RefsStay, ChecksStay
<1> QED BY <1>1, <1>2, <1>3, ShapedIs DEF s

LEMMA OnRequire == \A t, m, o, k, r, c, x :
    OnTable(t, Shape(m, o, k, r, c), Require(t, x)) = Shape(m \cup {x}, o \ {x}, k, r, c)
<1> TAKE t, m, o, k, r, c, x
<1> DEFINE s == Require(t, x)
<1>1. s.op = "require" /\ s.t = t /\ s.col = x
  BY DEF Require
<1> HIDE DEF s
<1>2. Altered(Tab(m, o, k), s) = Tab(m \cup {x}, o \ {x}, k)
  BY <1>1 DEF Altered, Tab
<1>3. RefsAfter(s, r) = r /\ ChecksAfter(s, c) = c
  BY <1>1, RefsStay, ChecksStay
<1> QED BY <1>1, <1>2, <1>3, ShapedIs DEF s

LEMMA OnKey == \A t, m, o, k, r, c, x :
    OnTable(t, Shape(m, o, k, r, c), UniqueKey(t, x)) = Shape(m, o, k \cup {x}, r, c)
<1> TAKE t, m, o, k, r, c, x
<1> DEFINE s == UniqueKey(t, x)
<1>1. s.op = "key" /\ s.t = t /\ s.key = x
  BY DEF UniqueKey
<1> HIDE DEF s
<1>2. Altered(Tab(m, o, k), s) = Tab(m, o, k \cup {x})
  BY <1>1 DEF Altered, Tab
<1>3. RefsAfter(s, r) = r /\ ChecksAfter(s, c) = c
  BY <1>1, RefsStay, ChecksStay
<1> QED BY <1>1, <1>2, <1>3, ShapedIs DEF s

LEMMA OnDropKey == \A t, m, o, k, r, c, x :
    OnTable(t, Shape(m, o, k, r, c), DropKey(t, x)) = Shape(m, o, k \ {x}, r, c)
<1> TAKE t, m, o, k, r, c, x
<1> DEFINE s == DropKey(t, x)
<1>1. s.op = "drop_key" /\ s.t = t /\ s.key = x
  BY DEF DropKey
<1> HIDE DEF s
<1>2. Altered(Tab(m, o, k), s) = Tab(m, o, k \ {x})
  BY <1>1 DEF Altered, Tab
<1>3. RefsAfter(s, r) = r /\ ChecksAfter(s, c) = c
  BY <1>1, RefsStay, ChecksStay
<1> QED BY <1>1, <1>2, <1>3, ShapedIs DEF s

LEMMA OnRef == \A t, m, o, k, r, c, x :
    OnTable(t, Shape(m, o, k, r, c), Ref(t, x)) = Shape(m, o, k, r \cup {x}, c)
<1> TAKE t, m, o, k, r, c, x
<1> DEFINE s == Ref(t, x)
<1>1. s.op = "ref" /\ s.t = t /\ s.ref = x
  BY DEF Ref
<1> HIDE DEF s
<1>2. Altered(Tab(m, o, k), s) = Tab(m, o, k)
  BY <1>1 DEF Altered, Tab
<1>3. NewRefs(s) = <<x>> /\ \A y : ~LosesRef(s, y)
  BY <1>1 DEF LosesRef, DropsRef, NewRefs
<1>4. {<<x>>[i] : i \in DOMAIN <<x>>} = {x}
  OBVIOUS
<1>5. RefsAfter(s, r) = r \cup {x}
  BY <1>3, <1>4 DEF RefsAfter
<1>6. ChecksAfter(s, c) = c
  BY <1>1, ChecksStay
<1>7. OnTable(s.t, Shape(m, o, k, r, c), s) = Shape(m, o, k, r \cup {x}, c)
  <2>1. s.op \notin {"table", "drop"}
    BY <1>1
  <2> QED BY <1>2, <1>5, <1>6, <2>1, ShapedIs
<1> QED BY <1>1, <1>7 DEF s

LEMMA OnDropRef == \A t, m, o, k, r, c, x :
    OnTable(t, Shape(m, o, k, r, c), DropRef(t, x)) = Shape(m, o, k, r \ {x}, c)
<1> TAKE t, m, o, k, r, c, x
<1> DEFINE s == DropRef(t, x)
<1>1. s.op = "drop_ref" /\ s.t = t /\ s.ref = x
  BY DEF DropRef
<1> HIDE DEF s
<1>2. Altered(Tab(m, o, k), s) = Tab(m, o, k)
  BY <1>1 DEF Altered, Tab
<1>3. \A y : LosesRef(s, y) <=> y = x
  BY <1>1 DEF LosesRef, DropsRef
<1>4. RefsAfter(s, r) = r \ {x}
  BY <1>1, <1>3, NoRefs DEF RefsAfter
<1>5. ChecksAfter(s, c) = c
  BY <1>1, ChecksStay
<1> QED BY <1>1, <1>2, <1>4, <1>5, ShapedIs DEF s

LEMMA OnCheck == \A t, m, o, k, r, c, x :
    OnTable(t, Shape(m, o, k, r, c), Check(t, x)) = Shape(m, o, k, r, c \cup {<<t, x>>})
<1> TAKE t, m, o, k, r, c, x
<1> DEFINE s == Check(t, x)
<1>1. s.op = "check" /\ s.t = t /\ s.check = x
  BY DEF Check
<1> HIDE DEF s
<1>2. Altered(Tab(m, o, k), s) = Tab(m, o, k)
  BY <1>1 DEF Altered, Tab
<1>3. RefsAfter(s, r) = r /\ ChecksAfter(s, c) = c \cup {<<t, x>>}
  BY <1>1, RefsStay DEF ChecksAfter
<1> QED BY <1>1, <1>2, <1>3, ShapedIs DEF s

LEMMA OnDropCheck == \A t, m, o, k, r, c, x :
    OnTable(t, Shape(m, o, k, r, c), DropCheck(t, x)) = Shape(m, o, k, r, c \ {<<t, x>>})
<1> TAKE t, m, o, k, r, c, x
<1> DEFINE s == DropCheck(t, x)
<1>1. s.op = "drop_check" /\ s.t = t /\ s.check = x
  BY DEF DropCheck
<1> HIDE DEF s
<1>2. Altered(Tab(m, o, k), s) = Tab(m, o, k)
  BY <1>1 DEF Altered, Tab
<1>3. RefsAfter(s, r) = r /\ ChecksAfter(s, c) = c \ {<<t, x>>}
  BY <1>1, RefsStay DEF ChecksAfter
<1> QED BY <1>1, <1>2, <1>3, ShapedIs DEF s

\* Statements about the rows.
LEMMA OnRows == \A t, m, o, k, r, c, x :
    /\ OnTable(t, Shape(m, o, k, r, c), Empty(t)) = Shape(m, o, k, r, c)
    /\ OnTable(t, Shape(m, o, k, r, c), PurgeAll(t)) = Shape(m, o, k, r, c)
    /\ OnTable(t, Shape(m, o, k, r, c), PurgeNull(t, x)) = Shape(m, o, k, r, c)
    /\ OnTable(t, Shape(m, o, k, r, c), PurgeSuperseded(t)) = Shape(m, o, k, r, c)
<1> TAKE t, m, o, k, r, c, x
<1>1. ASSUME NEW s, s.op \in {"empty", "purge", "superseded"}, s.t = t
      PROVE  OnTable(t, Shape(m, o, k, r, c), s) = Shape(m, o, k, r, c)
  <2>1. Altered(Tab(m, o, k), s) = Tab(m, o, k)
    BY <1>1 DEF Altered
  <2>2. RefsAfter(s, r) = r /\ ChecksAfter(s, c) = c
    BY <1>1, RefsStay, ChecksStay
  <2> QED BY <1>1, <2>1, <2>2, ShapedIs
<1>2. /\ Empty(t).op = "empty" /\ Empty(t).t = t /\ PurgeAll(t).op = "purge" /\ PurgeAll(t).t = t
      /\ PurgeNull(t, x).op = "purge" /\ PurgeNull(t, x).t = t
      /\ PurgeSuperseded(t).op = "superseded" /\ PurgeSuperseded(t).t = t
  BY DEF Empty, PurgeAll, PurgeNull, PurgeSuperseded
<1> QED BY <1>1, <1>2

LEMMA Elsewhere == \A t, u, z, x, y, k, r : t # u =>
    /\ OnTable(t, z, Table(u, x, y, k, r)) = z /\ OnTable(t, z, Drop(u)) = z
    /\ OnTable(t, z, AddColumns(u, x, y)) = z /\ OnTable(t, z, RemoveColumns(u, x)) = z
    /\ OnTable(t, z, Relax(u, x)) = z /\ OnTable(t, z, Require(u, x)) = z
    /\ OnTable(t, z, UniqueKey(u, x)) = z /\ OnTable(t, z, DropKey(u, x)) = z
    /\ OnTable(t, z, Ref(u, x)) = z /\ OnTable(t, z, DropRef(u, x)) = z
    /\ OnTable(t, z, Check(u, x)) = z /\ OnTable(t, z, DropCheck(u, x)) = z
    /\ OnTable(t, z, Empty(u)) = z /\ OnTable(t, z, PurgeAll(u)) = z
    /\ OnTable(t, z, PurgeNull(u, x)) = z /\ OnTable(t, z, PurgeSuperseded(u)) = z
BY DEF OnTable, Table, Drop, AddColumns, RemoveColumns, Relax, Require, UniqueKey, DropKey, Ref, DropRef,
       Check, DropCheck, Empty, PurgeAll, PurgeNull, PurgeSuperseded

-----------------------------------------------------------------------------
(* The tables of each revision.                                            *)
TalkRefs == {To("agent_id", "agents", "cascade"), Org, To("user_id", "users", "restrict")}
Conversations2 == Shape({"agent_id", "organization_id", "user_id"}, {}, {}, TalkRefs, {})
Conversations4 == Shape({"organization_id", "user_id"}, {"agent_id"}, {OrgKey}, TalkRefs, {})

TurnRefs  == {To("conversation_id", "conversations", "cascade")}
Messages2 == Shape({"conversation_id"}, {}, {}, TurnRefs, {})
Messages4 == Shape({"conversation_id"}, {"tool_metadata", "sequence"}, {}, TurnRefs, {})

Asker    == {"organization_id", "requested_by"}
About    == {"agent_id", "tool_id", "conversation_id", "approved_by"}
AskRefs  == {To("agent_id", "agents", "cascade"), To("approved_by", "users", "null"),
             To("conversation_id", "conversations", "cascade"), Org,
             To("requested_by", "users", "restrict"), To("tool_id", "tools", "restrict")}
OfRun    == {"run_id", "tool_execution_id", "tool_name"}
RunRefs  == {Within("run_id", "agent_runs", "cascade"), Within("tool_execution_id", "tool_executions", "cascade")}
OfFlow   == {"workflow_run_id", "workflow_step_run_id"}
FlowRefs == {Within("workflow_run_id", "workflow_runs", "cascade"),
             Within("workflow_step_run_id", "workflow_step_runs", "cascade")}
OfReview == {"summary", "summary_fields", "decision_reason"}
Approvals2 == Shape(Asker, About, {}, AskRefs, {})
Approvals4 == Shape(Asker, About \cup OfRun, {{"tool_execution_id"}}, AskRefs \cup RunRefs, {})
Approvals5 == Shape(Asker, About \cup OfRun \cup OfFlow, {{"tool_execution_id"}, {"workflow_step_run_id"}},
                    AskRefs \cup RunRefs \cup FlowRefs, {})
Approvals6 == Shape(Asker, About \cup OfRun \cup OfFlow \cup OfReview,
                    {{"tool_execution_id"}, {"workflow_step_run_id"}}, AskRefs \cup RunRefs \cup FlowRefs, {})

NumberKey == {"run_id", "step_number"}
Executions4 == Shape({"step_number", "organization_id", "run_id"}, {}, {OrgKey, NumberKey},
                     {Org, Within("run_id", "agent_runs", "cascade")}, {})
Executions5 == Shape({"step_number", "organization_id"}, {"run_id", "workflow_step_run_id"},
                     {OrgKey, NumberKey, {"workflow_step_run_id"}},
                     {Org, Within("run_id", "agent_runs", "cascade"),
                      Within("workflow_step_run_id", "workflow_step_runs", "cascade")},
                     {<<"tool_executions", {"exactly_one_caller"}>>})

VersionKey == {"organization_id", "name", "version"}
Workflows2 == Shape({"name", "organization_id"}, {"enabled"}, {NameKey}, {Org}, {})
Workflows5 == Shape({"name", "organization_id"}, {"version", "status", "definition"}, {VersionKey, OrgKey}, {Org},
                    {<<"workflows", {"version_positive"}>>})

IdemKey  == {"organization_id", "idempotency_key"}
Runs2 == Shape({"organization_id", "workflow_id"}, {}, {}, {Org, To("workflow_id", "workflows", "cascade")},
               {<<"workflow_runs", OldRunStatuses>>})
Runs5 == Shape({"organization_id", "workflow_id", "user_id"},
               {"workflow_version", "current_step", "step_count", "input_data", "output_data",
                "idempotency_key", "request_id", "error_code"},
               {IdemKey, OrgKey},
               {Org, To("user_id", "users", "restrict"), Within("workflow_id", "workflows", "cascade")},
               {<<"workflow_runs", RunStatuses>>, <<"workflow_runs", {"step_count_not_negative"}>>,
                <<"workflow_runs", {"workflow_version_positive"}>>})

StepKey  == {"workflow_run_id", "step_key"}
PlaceKey == {"workflow_run_id", "position"}
StepRuns2 == Shape({"workflow_run_id", "workflow_step_id"}, {}, {},
                   {To("workflow_run_id", "workflow_runs", "cascade"),
                    To("workflow_step_id", "workflow_steps", "cascade")},
                   {<<"workflow_step_runs", OldStepStatuses>>})
StepRuns5 == Shape({"workflow_run_id", "organization_id", "step_key", "step_type", "position"},
                   {"workflow_step_id", "agent_run_id", "error_code"},
                   {StepKey, PlaceKey, OrgKey},
                   {To("workflow_step_id", "workflow_steps", "cascade"), Org,
                    Within("workflow_run_id", "workflow_runs", "cascade"),
                    Within("agent_run_id", "agent_runs", "null")},
                   {<<"workflow_step_runs", StepStatuses>>, <<"workflow_step_runs", {"position_positive"}>>})

\* The tables each revision creates or changes.
At2 == [organizations |-> MadeBy(Platform[1]), tools |-> MadeBy(Platform[2]), users |-> MadeBy(Platform[3]),
        agents |-> MadeBy(Platform[4]), audit_events |-> MadeBy(Records[1]), documents |-> MadeBy(Records[2]),
        organization_members |-> MadeBy(Records[3]), workflows |-> Workflows2, agent_tools |-> MadeBy(Chats[2]),
        conversations |-> Conversations2, workflow_runs |-> Runs2, workflow_steps |-> MadeBy(Flows[3]),
        approvals |-> Approvals2, messages |-> Messages2, workflow_step_runs |-> StepRuns2]
At3 == [customers |-> MadeBy(Customers[1]), shipments |-> MadeBy(Customers[2]), invoices |-> MadeBy(Bills[1]),
        shipment_charges |-> MadeBy(Charges[1])]
At4 == [conversations |-> Conversations4, messages |-> Messages4, approvals |-> Approvals4,
        agent_runs |-> MadeBy(RunTables[4]), agent_steps |-> MadeBy(ExecutionTables[1]),
        tool_executions |-> Executions4]
At5 == [workflows |-> Workflows5, workflow_runs |-> Runs5, workflow_step_runs |-> StepRuns5,
        tool_executions |-> Executions5, approvals |-> Approvals5]

Stage2(t) == IF t \in DOMAIN At2 THEN At2[t] ELSE Absent
Stage3(t) == IF t \in DOMAIN At3 THEN At3[t] ELSE Stage2(t)
Stage4(t) == IF t \in DOMAIN At4 THEN At4[t] ELSE Stage3(t)
Stage5(t) == IF t \in DOMAIN At5 THEN At5[t] ELSE Stage4(t)
Stage6(t) == IF t = "approvals" THEN Approvals6 ELSE Stage5(t)
Stage7(t) == IF t = "generation_usage" THEN MadeBy(Usage[1]) ELSE Stage6(t)

Stage(k, t) ==
    CASE k = 7 -> Stage7(t) [] k = 6 -> Stage6(t) [] k = 5 -> Stage5(t) [] k = 4 -> Stage4(t)
      [] k = 3 -> Stage3(t) [] k = 2 -> Stage2(t) [] OTHER -> Absent

LEMMA TablesOf ==
    /\ \A o \in Ops(Platform) : o.t \in {"organizations", "tools", "users", "agents"}
    /\ \A o \in Ops(Records) : o.t \in {"audit_events", "documents", "organization_members"}
    /\ \A o \in Ops(Chats) : o.t \in {"workflows", "agent_tools", "conversations"}
    /\ \A o \in Ops(Flows) : o.t \in {"workflow_runs", "workflow_steps"}
    /\ \A o \in Ops(Questions) : o.t = "approvals"
    /\ \A o \in Ops(Turns) : o.t \in {"messages", "workflow_step_runs"}
    /\ \A o \in Ops(Customers) : o.t \in {"customers", "shipments"}
    /\ \A o \in Ops(Bills) : o.t = "invoices"
    /\ \A o \in Ops(Charges) : o.t = "shipment_charges"
    /\ \A o \in Ops(RunTables) : o.t \in {"conversations", "messages", "agent_runs"}
    /\ \A o \in Ops(ExecutionTables) : o.t \in {"agent_steps", "tool_executions", "approvals"}
    /\ \A o \in Ops(VersionWorkflows) : o.t \in {"workflows", "workflow_runs", "workflow_step_runs"}
    /\ \A o \in Ops(LinkCallers) : o.t \in {"tool_executions", "approvals"}
    /\ \A o \in Ops(Reviewed) : o.t = "approvals"
    /\ \A o \in Ops(Usage) : o.t = "generation_usage"
<1>1. \A o \in Ops(Platform) : o.t \in {"organizations", "tools", "users", "agents"}
  BY List4 DEF Platform, Table
<1>2. \A o \in Ops(Records) : o.t \in {"audit_events", "documents", "organization_members"}
  BY List3 DEF Records, Table
<1>3. \A o \in Ops(Chats) : o.t \in {"workflows", "agent_tools", "conversations"}
  BY List3 DEF Chats, Table
<1>4. \A o \in Ops(Flows) : o.t \in {"workflow_runs", "workflow_steps"}
  BY List3 DEF Flows, Table, Check
<1>5. \A o \in Ops(Questions) : o.t = "approvals"
  BY List1 DEF Questions, Table
<1>6. \A o \in Ops(Turns) : o.t \in {"messages", "workflow_step_runs"}
  BY List3 DEF Turns, Table, Check
<1>7. \A o \in Ops(Customers) : o.t \in {"customers", "shipments"}
  BY List2 DEF Customers, Table
<1>8. \A o \in Ops(Bills) : o.t = "invoices"
  BY List1 DEF Bills, Table
<1>9. \A o \in Ops(Charges) : o.t = "shipment_charges"
  BY List1 DEF Charges, Table
<1>10. \A o \in Ops(RunTables) : o.t \in {"conversations", "messages", "agent_runs"}
  BY List4 DEF RunTables, Table, Relax, UniqueKey, AddColumns
<1>11. \A o \in Ops(ExecutionTables) : o.t \in {"agent_steps", "tool_executions", "approvals"}
  BY List6 DEF ExecutionTables, Table, AddColumns, UniqueKey, Ref
<1>12. \A o \in Ops(VersionWorkflows) : o.t \in {"workflows", "workflow_runs", "workflow_step_runs"}
  BY List8 DEF VersionWorkflows, Empty, AddColumns, DropKey, UniqueKey, Check, RemoveColumns
<1>13. \A o \in Ops(LinkCallers) : o.t \in {"tool_executions", "approvals"}
  BY List9 DEF LinkCallers, AddColumns, Relax, UniqueKey, Ref, Check
<1>14. \A o \in Ops(Reviewed) : o.t = "approvals"
  BY List1 DEF Reviewed, AddColumns
<1>15. \A o \in Ops(Usage) : o.t = "generation_usage"
  BY List1 DEF Usage, Table
<1> QED BY <1>1, <1>2, <1>3, <1>4, <1>5, <1>6, <1>7, <1>8, <1>9, <1>10, <1>11, <1>12, <1>13, <1>14, <1>15

\* The columns and the references of a new table.
LEMMA RefsOf ==
    /\ \A a : {<<a>>[i].col : i \in DOMAIN <<a>>} = {a.col} /\ {<<a>>[i] : i \in DOMAIN <<a>>} = {a}
    /\ \A a, b : /\ {<<a, b>>[i].col : i \in DOMAIN <<a, b>>} = {a.col, b.col}
                 /\ {<<a, b>>[i] : i \in DOMAIN <<a, b>>} = {a, b}
    /\ \A a, b, c : /\ {<<a, b, c>>[i].col : i \in DOMAIN <<a, b, c>>} = {a.col, b.col, c.col}
                    /\ {<<a, b, c>>[i] : i \in DOMAIN <<a, b, c>>} = {a, b, c}
    /\ \A a, b, c, d, e, f :
          /\ {<<a, b, c, d, e, f>>[i].col : i \in DOMAIN <<a, b, c, d, e, f>>}
               = {a.col, b.col, c.col, d.col, e.col, f.col}
          /\ {<<a, b, c, d, e, f>>[i] : i \in DOMAIN <<a, b, c, d, e, f>>} = {a, b, c, d, e, f}
<1>1. \A a : {<<a>>[i].col : i \in DOMAIN <<a>>} = {a.col} /\ {<<a>>[i] : i \in DOMAIN <<a>>} = {a}
  OBVIOUS
<1>2. \A a, b : /\ {<<a, b>>[i].col : i \in DOMAIN <<a, b>>} = {a.col, b.col}
                /\ {<<a, b>>[i] : i \in DOMAIN <<a, b>>} = {a, b}
  OBVIOUS
<1>3. \A a, b, c : /\ {<<a, b, c>>[i].col : i \in DOMAIN <<a, b, c>>} = {a.col, b.col, c.col}
                   /\ {<<a, b, c>>[i] : i \in DOMAIN <<a, b, c>>} = {a, b, c}
  OBVIOUS
<1>4. \A a, b, c, d, e, f :
          /\ {<<a, b, c, d, e, f>>[i].col : i \in DOMAIN <<a, b, c, d, e, f>>}
               = {a.col, b.col, c.col, d.col, e.col, f.col}
          /\ {<<a, b, c, d, e, f>>[i] : i \in DOMAIN <<a, b, c, d, e, f>>} = {a, b, c, d, e, f}
  OBVIOUS
<1> QED BY <1>1, <1>2, <1>3, <1>4

LEMMA MadeTable == \A t, plain, opt, keys, refs :
    MadeBy(Table(t, plain, opt, keys, refs)) =
        Shape((plain \cup {refs[i].col : i \in DOMAIN refs}) \ opt, opt, keys, {refs[i] : i \in DOMAIN refs}, {})
BY DEF MadeBy, Table

\* A column or an organization as a reference has it.
LEMMA ColOf ==
    /\ \A c, t, on : To(c, t, on).col = c /\ Within(c, t, on).col = c
    /\ Org.col = "organization_id"
BY DEF To, Within, Org

LEMMA BornShapes ==
    /\ MadeBy(Chats[1]) = Workflows2
    /\ MadeBy(Chats[3]) = Conversations2
    /\ MadeBy(Questions[1]) = Approvals2
    /\ MadeBy(Turns[1]) = Messages2
    /\ MadeBy(ExecutionTables[2]) = Executions4
<1>1. MadeBy(Chats[1]) = Workflows2
  <2>1. Chats[1] = Table("workflows", {"name"}, {"enabled"}, {{"organization_id", "name"}}, <<Org>>)
    BY DEF Chats
  <2>2. ({"name"} \cup {"organization_id"}) \ {"enabled"} = {"name", "organization_id"}
    OBVIOUS
  <2> QED BY <2>1, <2>2, MadeTable, RefsOf, ColOf DEF Workflows2, NameKey
<1>2. MadeBy(Chats[3]) = Conversations2
  <2>1. Chats[3] = Table("conversations", {}, {}, {},
          <<To("agent_id", "agents", "cascade"), Org, To("user_id", "users", "restrict")>>)
    BY DEF Chats
  <2>2. ({} \cup {"agent_id", "organization_id", "user_id"}) \ {} = {"agent_id", "organization_id", "user_id"}
    OBVIOUS
  <2> QED BY <2>1, <2>2, MadeTable, RefsOf, ColOf DEF Conversations2, TalkRefs
<1>3. MadeBy(Questions[1]) = Approvals2
  <2>1. Questions[1] = Table("approvals", {}, {"agent_id", "tool_id", "conversation_id", "approved_by"}, {},
          <<To("agent_id", "agents", "cascade"), To("approved_by", "users", "null"),
            To("conversation_id", "conversations", "cascade"), Org,
            To("requested_by", "users", "restrict"), To("tool_id", "tools", "restrict")>>)
    BY DEF Questions
  <2>2. ({} \cup {"agent_id", "approved_by", "conversation_id", "organization_id", "requested_by", "tool_id"})
          \ {"agent_id", "tool_id", "conversation_id", "approved_by"} = {"organization_id", "requested_by"}
    OBVIOUS
  <2> QED BY <2>1, <2>2, MadeTable, RefsOf, ColOf DEF Approvals2, AskRefs, Asker, About
<1>4. MadeBy(Turns[1]) = Messages2
  <2>1. Turns[1] = Table("messages", {}, {}, {}, <<To("conversation_id", "conversations", "cascade")>>)
    BY DEF Turns
  <2>2. ({} \cup {"conversation_id"}) \ {} = {"conversation_id"}
    OBVIOUS
  <2> QED BY <2>1, <2>2, MadeTable, RefsOf, ColOf DEF Messages2, TurnRefs
<1>5. MadeBy(ExecutionTables[2]) = Executions4
  <2>1. ExecutionTables[2] = Table("tool_executions", {"step_number"}, {}, {OrgKey, {"run_id", "step_number"}},
          <<Org, Within("run_id", "agent_runs", "cascade")>>)
    BY DEF ExecutionTables
  <2>2. ({"step_number"} \cup {"organization_id", "run_id"}) \ {} = {"step_number", "organization_id", "run_id"}
    OBVIOUS
  <2> QED BY <2>1, <2>2, MadeTable, RefsOf, ColOf DEF Executions4, NumberKey
<1> QED BY <1>1, <1>2, <1>3, <1>4, <1>5

\* A list of new tables, all different.
LEMMA LeadsToTables ==
    ASSUME NEW ops, IsList(ops), NEW o \in Ops(ops), o.op = "table",
           \A p \in Ops(ops) : p.t = o.t => p = o, NEW t, t = o.t
    PROVE  Leads(t, ops, Absent, MadeBy(o))
BY LeadsToTable

LEMMA PlatformLeads ==
    /\ Leads("organizations", Platform, Absent, MadeBy(Platform[1]))
    /\ Leads("tools", Platform, Absent, MadeBy(Platform[2]))
    /\ Leads("users", Platform, Absent, MadeBy(Platform[3]))
    /\ Leads("agents", Platform, Absent, MadeBy(Platform[4]))
<1> DEFINE a == Platform[1] b == Platform[2] c == Platform[3] d == Platform[4]
<1>1. Platform = <<a, b, c, d>>
  BY DEF Platform
<1>2. /\ a.op = "table" /\ b.op = "table" /\ c.op = "table" /\ d.op = "table"
      /\ a.t = "organizations" /\ b.t = "tools" /\ c.t = "users" /\ d.t = "agents"
  BY DEF Platform, Table
<1> HIDE DEF a, b, c, d
<1>3. Ops(Platform) = {a, b, c, d} /\ IsList(Platform)
  BY <1>1, List4
<1> QED BY <1>2, <1>3, LeadsToTables DEF a, b, c, d

LEMMA RecordsLeads ==
    /\ Leads("audit_events", Records, Absent, MadeBy(Records[1]))
    /\ Leads("documents", Records, Absent, MadeBy(Records[2]))
    /\ Leads("organization_members", Records, Absent, MadeBy(Records[3]))
<1> DEFINE a == Records[1] b == Records[2] c == Records[3]
<1>1. Records = <<a, b, c>>
  BY DEF Records
<1>2. /\ a.op = "table" /\ b.op = "table" /\ c.op = "table"
      /\ a.t = "audit_events" /\ b.t = "documents" /\ c.t = "organization_members"
  BY DEF Records, Table
<1> HIDE DEF a, b, c
<1>3. Ops(Records) = {a, b, c} /\ IsList(Records)
  BY <1>1, List3
<1> QED BY <1>2, <1>3, LeadsToTables DEF a, b, c

LEMMA ChatsLeads ==
    /\ Leads("workflows", Chats, Absent, Workflows2)
    /\ Leads("agent_tools", Chats, Absent, MadeBy(Chats[2]))
    /\ Leads("conversations", Chats, Absent, Conversations2)
<1> DEFINE a == Chats[1] b == Chats[2] c == Chats[3]
<1>1. Chats = <<a, b, c>>
  BY DEF Chats
<1>2. /\ a.op = "table" /\ b.op = "table" /\ c.op = "table"
      /\ a.t = "workflows" /\ b.t = "agent_tools" /\ c.t = "conversations"
  BY DEF Chats, Table
<1>3. MadeBy(a) = Workflows2 /\ MadeBy(c) = Conversations2
  BY BornShapes
<1> HIDE DEF a, b, c
<1>4. Ops(Chats) = {a, b, c} /\ IsList(Chats)
  BY <1>1, List3
<1>5. Leads("workflows", Chats, Absent, MadeBy(a)) /\ Leads("conversations", Chats, Absent, MadeBy(c))
  BY <1>2, <1>4, LeadsToTables
<1>6. Leads("agent_tools", Chats, Absent, MadeBy(b))
  BY <1>2, <1>4, LeadsToTables
<1> QED BY <1>3, <1>5, <1>6 DEF b

\* A new table, and a check on it.
LEMMA OnTableOp == \A t, x, y, k, r : OnTable(t, Absent, Table(t, x, y, k, r)) = MadeBy(Table(t, x, y, k, r))
<1> TAKE t, x, y, k, r
<1> DEFINE o == Table(t, x, y, k, r)
<1>1. o.op = "table" /\ o.t = t
  BY DEF Table
<1> HIDE DEF o
<1>2. IsList(<<o>>) /\ Ops(<<o>>) = {o} /\ Len(<<o>>) = 1 /\ <<o>>[1] = o
  BY List1
<1>3. Leads(t, <<o>>, Absent, MadeBy(o)) /\ Leads(t, <<o>>, Absent, OnTable(t, Absent, o))
  BY <1>1, <1>2, LeadsToTables, Leads1
<1> DEFINE b == [i \in 0 .. 1 |-> IF i = 0 THEN Absent ELSE OnTable(t, Absent, o)]
<1>4. b[0] = Absent /\ b[1] = OnTable(t, Absent, o) /\ \A i \in 1 .. 1 : b[i] = OnTable(t, b[i - 1], <<o>>[i])
  <2>1. \A i \in 1 .. 1 : i = 1 /\ i - 1 = 0
    OBVIOUS
  <2>2. b[0] = Absent /\ b[1] = OnTable(t, Absent, o)
    OBVIOUS
  <2> HIDE DEF b
  <2> QED BY <1>2, <2>1, <2>2
<1> HIDE DEF b
<1>5. b[1] = MadeBy(o)
  BY <1>2, <1>3, <1>4 DEF Leads
<1> QED BY <1>4, <1>5 DEF o

LEMMA FlowsLeads ==
    /\ Leads("workflow_runs", Flows, Absent, Runs2)
    /\ Leads("workflow_steps", Flows, Absent, MadeBy(Flows[3]))
<1> DEFINE a == Flows[1] b == Flows[2] c == Flows[3]
<1>1. Flows = <<a, b, c>> /\ Len(Flows) = 3 /\ Flows[1] = a /\ Flows[2] = b /\ Flows[3] = c
  BY DEF Flows
<1>2. /\ a = Table("workflow_runs", {}, {}, {}, <<Org, To("workflow_id", "workflows", "cascade")>>)
      /\ b = Check("workflow_runs", OldRunStatuses)
      /\ c = Table("workflow_steps", {"step_order"}, {}, {{"workflow_id", "step_order"}},
                   <<To("workflow_id", "workflows", "cascade")>>)
  BY DEF Flows
<1> HIDE DEF a, b, c
<1>3. a.t = "workflow_runs" /\ b.t = "workflow_runs" /\ c.t = "workflow_steps" /\ c.op = "table"
  BY <1>2 DEF Table, Check
<1>4. Ops(Flows) = {a, b, c} /\ IsList(Flows)
  BY <1>1, List3
<1>5. Leads("workflow_steps", Flows, Absent, MadeBy(c))
  BY <1>3, <1>4, LeadsToTables
<1> DEFINE x == Shape({"organization_id", "workflow_id"}, {}, {}, {Org, To("workflow_id", "workflows", "cascade")}, {})
<1>6. OnTable("workflow_runs", Absent, a) = x
  <2>1. MadeBy(a) = x
    <3>1. ({} \cup {"organization_id", "workflow_id"}) \ {} = {"organization_id", "workflow_id"}
      OBVIOUS
    <3> QED BY <1>2, <3>1, MadeTable, RefsOf, ColOf
  <2> QED BY <1>2, <2>1, OnTableOp
<1>7. OnTable("workflow_runs", x, b) = Runs2
  <2>1. {} \cup {<<"workflow_runs", OldRunStatuses>>} = {<<"workflow_runs", OldRunStatuses>>}
    OBVIOUS
  <2> QED BY <1>2, <2>1, OnCheck DEF Runs2
<1> HIDE DEF x
<1>8. OnTable("workflow_runs", Runs2, c) = Runs2
  BY <1>3 DEF OnTable
<1>9. Leads("workflow_runs", Flows, Absent, Runs2)
  BY <1>1, <1>6, <1>7, <1>8, Leads3
<1> QED BY <1>1, <1>5, <1>9

LEMMA QuestionsLeads == Leads("approvals", Questions, Absent, Approvals2)
<1> DEFINE a == Questions[1]
<1>1. Questions = <<a>>
  BY DEF Questions
<1>2. a.op = "table" /\ a.t = "approvals"
  BY DEF Questions, Table
<1>3. MadeBy(a) = Approvals2
  BY BornShapes
<1> HIDE DEF a
<1>4. Ops(Questions) = {a} /\ IsList(Questions)
  BY <1>1, List1
<1> QED BY <1>2, <1>3, <1>4, LeadsToTables

LEMMA TurnsLeads ==
    /\ Leads("messages", Turns, Absent, Messages2)
    /\ Leads("workflow_step_runs", Turns, Absent, StepRuns2)
<1> DEFINE a == Turns[1] b == Turns[2] c == Turns[3]
<1>1. Turns = <<a, b, c>> /\ Len(Turns) = 3 /\ Turns[1] = a /\ Turns[2] = b /\ Turns[3] = c
  BY DEF Turns
<1>2. /\ a = Table("messages", {}, {}, {}, <<To("conversation_id", "conversations", "cascade")>>)
      /\ b = Table("workflow_step_runs", {}, {}, {},
                   <<To("workflow_run_id", "workflow_runs", "cascade"),
                     To("workflow_step_id", "workflow_steps", "cascade")>>)
      /\ c = Check("workflow_step_runs", OldStepStatuses)
  BY DEF Turns
<1>3. MadeBy(a) = Messages2
  BY BornShapes
<1> HIDE DEF a, b, c
<1>4. a.t = "messages" /\ a.op = "table" /\ b.t = "workflow_step_runs" /\ c.t = "workflow_step_runs"
  BY <1>2 DEF Table, Check
<1>5. Ops(Turns) = {a, b, c} /\ IsList(Turns)
  BY <1>1, List3
<1>6. Leads("messages", Turns, Absent, MadeBy(a))
  BY <1>4, <1>5, LeadsToTables
<1> DEFINE r == {To("workflow_run_id", "workflow_runs", "cascade"), To("workflow_step_id", "workflow_steps", "cascade")}
           x == Shape({"workflow_run_id", "workflow_step_id"}, {}, {}, r, {})
<1>7. OnTable("workflow_step_runs", Absent, b) = x
  <2>1. MadeBy(b) = x
    <3>1. ({} \cup {"workflow_run_id", "workflow_step_id"}) \ {} = {"workflow_run_id", "workflow_step_id"}
      OBVIOUS
    <3> QED BY <1>2, <3>1, MadeTable, RefsOf, ColOf
  <2> QED BY <1>2, <2>1, OnTableOp
<1>8. OnTable("workflow_step_runs", x, c) = StepRuns2
  <2>1. {} \cup {<<"workflow_step_runs", OldStepStatuses>>} = {<<"workflow_step_runs", OldStepStatuses>>}
    OBVIOUS
  <2> QED BY <1>2, <2>1, OnCheck DEF StepRuns2
<1> HIDE DEF x
<1>9. OnTable("workflow_step_runs", Absent, a) = Absent
  BY <1>4 DEF OnTable
<1>10. Leads("workflow_step_runs", Turns, Absent, StepRuns2)
  BY <1>1, <1>7, <1>8, <1>9, Leads3
<1> QED BY <1>3, <1>6, <1>10

LEMMA BusinessLeads ==
    /\ Leads("customers", Customers, Absent, MadeBy(Customers[1]))
    /\ Leads("shipments", Customers, Absent, MadeBy(Customers[2]))
    /\ Leads("invoices", Bills, Absent, MadeBy(Bills[1]))
    /\ Leads("shipment_charges", Charges, Absent, MadeBy(Charges[1]))
<1> DEFINE a == Customers[1] b == Customers[2] c == Bills[1] d == Charges[1]
<1>1. Customers = <<a, b>> /\ Bills = <<c>> /\ Charges = <<d>>
  BY DEF Customers, Bills, Charges
<1>2. /\ a.op = "table" /\ b.op = "table" /\ a.t = "customers" /\ b.t = "shipments"
      /\ c.op = "table" /\ d.op = "table" /\ c.t = "invoices" /\ d.t = "shipment_charges"
  BY DEF Customers, Bills, Charges, Table
<1> HIDE DEF a, b, c, d
<1>3. /\ Ops(Customers) = {a, b} /\ IsList(Customers)
      /\ Ops(Bills) = {c} /\ IsList(Bills) /\ Ops(Charges) = {d} /\ IsList(Charges)
  BY <1>1, List1, List2
<1>4. Leads("customers", Customers, Absent, MadeBy(a)) /\ Leads("shipments", Customers, Absent, MadeBy(b))
  BY <1>2, <1>3, LeadsToTables
<1>5. Leads("invoices", Bills, Absent, MadeBy(c))
  BY <1>2, <1>3, LeadsToTables
<1>6. Leads("shipment_charges", Charges, Absent, MadeBy(d))
  BY <1>2, <1>3, LeadsToTables
<1> QED BY <1>4, <1>5, <1>6 DEF a, b, c, d

LEMMA UsageLeads == Leads("generation_usage", Usage, Absent, MadeBy(Usage[1]))
<1> DEFINE a == Usage[1]
<1>1. Usage = <<a>>
  BY DEF Usage
<1>2. a.op = "table" /\ a.t = "generation_usage"
  BY DEF Usage, Table
<1> HIDE DEF a
<1>3. Ops(Usage) = {a} /\ IsList(Usage)
  BY <1>1, List1
<1>4. Leads("generation_usage", Usage, Absent, MadeBy(a))
  BY <1>2, <1>3, LeadsToTables
<1> QED BY <1>4 DEF a

-----------------------------------------------------------------------------
(* The way up.                                                             *)
LEMMA At2Is ==
    /\ DOMAIN At2 = {"organizations", "tools", "users", "agents", "audit_events", "documents",
          "organization_members", "workflows", "agent_tools", "conversations", "workflow_runs", "workflow_steps",
          "approvals", "messages", "workflow_step_runs"}
    /\ At2["organizations"] = MadeBy(Platform[1]) /\ At2["tools"] = MadeBy(Platform[2])
    /\ At2["users"] = MadeBy(Platform[3]) /\ At2["agents"] = MadeBy(Platform[4])
    /\ At2["audit_events"] = MadeBy(Records[1]) /\ At2["documents"] = MadeBy(Records[2])
    /\ At2["organization_members"] = MadeBy(Records[3])
    /\ At2["workflows"] = Workflows2 /\ At2["agent_tools"] = MadeBy(Chats[2])
    /\ At2["conversations"] = Conversations2
    /\ At2["workflow_runs"] = Runs2 /\ At2["workflow_steps"] = MadeBy(Flows[3])
    /\ At2["approvals"] = Approvals2
    /\ At2["messages"] = Messages2 /\ At2["workflow_step_runs"] = StepRuns2
BY DEF At2

LEMMA InitialOn ==
    ASSUME NEW t, NEW a, NEW b, NEW c, NEW d, NEW e, NEW f, NEW g,
           Leads(t, Platform, a, b), Leads(t, Records, b, c), Leads(t, Chats, c, d),
           Leads(t, Flows, d, e), Leads(t, Questions, e, f), Leads(t, Turns, f, g)
    PROVE  Leads(t, Up[2], a, g)
<1>1. Up[2] = ((((Platform \o Records) \o Chats) \o Flows) \o Questions) \o Turns
  BY DEF Up
<1>2. IsList(Platform) /\ IsList(Records) /\ IsList(Chats) /\ IsList(Flows) /\ IsList(Questions) /\ IsList(Turns)
  BY PlatformOK, RecordsOK, ChatsOK, FlowsOK, QuestionsOK, TurnsOK
<1> DEFINE p == Platform \o Records
           q == p \o Chats
           r == q \o Flows
           s == r \o Questions
<1>3. IsList(p) /\ Leads(t, p, a, c)
  BY <1>2, ConcatOps, LeadsOn
<1> HIDE DEF p
<1>4. IsList(q) /\ Leads(t, q, a, d)
  BY <1>2, <1>3, ConcatOps, LeadsOn
<1> HIDE DEF q
<1>5. IsList(r) /\ Leads(t, r, a, e)
  BY <1>2, <1>4, ConcatOps, LeadsOn
<1> HIDE DEF r
<1>6. IsList(s) /\ Leads(t, s, a, f)
  BY <1>2, <1>5, ConcatOps, LeadsOn
<1> HIDE DEF s
<1>7. Leads(t, s \o Turns, a, g)
  BY <1>2, <1>6, LeadsOn
<1> QED BY <1>1, <1>7 DEF p, q, r, s

\* What a list of statements does not mention it leaves alone.
LEMMA PastInitial == \A t, x :
    /\ t \notin {"organizations", "tools", "users", "agents"} => Leads(t, Platform, x, x)
    /\ t \notin {"audit_events", "documents", "organization_members"} => Leads(t, Records, x, x)
    /\ t \notin {"workflows", "agent_tools", "conversations"} => Leads(t, Chats, x, x)
    /\ t \notin {"workflow_runs", "workflow_steps"} => Leads(t, Flows, x, x)
    /\ t # "approvals" => Leads(t, Questions, x, x)
    /\ t \notin {"messages", "workflow_step_runs"} => Leads(t, Turns, x, x)
<1> TAKE t, x
<1>1. t \notin {"organizations", "tools", "users", "agents"} => Leads(t, Platform, x, x)
  BY TablesOf, PlatformOK, LeadsPast
<1>2. t \notin {"audit_events", "documents", "organization_members"} => Leads(t, Records, x, x)
  BY TablesOf, RecordsOK, LeadsPast
<1>3. t \notin {"workflows", "agent_tools", "conversations"} => Leads(t, Chats, x, x)
  BY TablesOf, ChatsOK, LeadsPast
<1>4. t \notin {"workflow_runs", "workflow_steps"} => Leads(t, Flows, x, x)
  BY TablesOf, FlowsOK, LeadsPast
<1>5. t # "approvals" => Leads(t, Questions, x, x)
  BY TablesOf, QuestionsOK, LeadsPast
<1>6. t \notin {"messages", "workflow_step_runs"} => Leads(t, Turns, x, x)
  BY TablesOf, TurnsOK, LeadsPast
<1> QED BY <1>1, <1>2, <1>3, <1>4, <1>5, <1>6

LEMMA UpTo2 == \A t : Leads(t, Up[2], Absent, Stage2(t))
<1> TAKE t
<1> DEFINE y == Stage2(t)
<1>1. t \in DOMAIN At2 => y = At2[t]
  BY DEF Stage2
<1> HIDE DEF y
<1>2. CASE t \in {"organizations", "tools", "users", "agents"}
  <2>1. Leads(t, Platform, Absent, y)
    BY <1>1, <1>2, At2Is, PlatformLeads
  <2>2. /\ Leads(t, Records, y, y) /\ Leads(t, Chats, y, y) /\ Leads(t, Flows, y, y)
        /\ Leads(t, Questions, y, y) /\ Leads(t, Turns, y, y)
    BY <1>2, PastInitial
  <2> QED BY <2>1, <2>2, InitialOn DEF y
<1>3. CASE t \in {"audit_events", "documents", "organization_members"}
  <2>1. Leads(t, Records, Absent, y)
    BY <1>1, <1>3, At2Is, RecordsLeads
  <2>2. /\ Leads(t, Platform, Absent, Absent) /\ Leads(t, Chats, y, y) /\ Leads(t, Flows, y, y)
        /\ Leads(t, Questions, y, y) /\ Leads(t, Turns, y, y)
    BY <1>3, PastInitial
  <2> QED BY <2>1, <2>2, InitialOn DEF y
<1>4. CASE t \in {"workflows", "agent_tools", "conversations"}
  <2>1. Leads(t, Chats, Absent, y)
    BY <1>1, <1>4, At2Is, ChatsLeads
  <2>2. /\ Leads(t, Platform, Absent, Absent) /\ Leads(t, Records, Absent, Absent) /\ Leads(t, Flows, y, y)
        /\ Leads(t, Questions, y, y) /\ Leads(t, Turns, y, y)
    BY <1>4, PastInitial
  <2> QED BY <2>1, <2>2, InitialOn DEF y
<1>5. CASE t \in {"workflow_runs", "workflow_steps"}
  <2>1. Leads(t, Flows, Absent, y)
    BY <1>1, <1>5, At2Is, FlowsLeads
  <2>2. /\ Leads(t, Platform, Absent, Absent) /\ Leads(t, Records, Absent, Absent) /\ Leads(t, Chats, Absent, Absent)
        /\ Leads(t, Questions, y, y) /\ Leads(t, Turns, y, y)
    BY <1>5, PastInitial
  <2> QED BY <2>1, <2>2, InitialOn DEF y
<1>6. CASE t = "approvals"
  <2>1. Leads(t, Questions, Absent, y)
    BY <1>1, <1>6, At2Is, QuestionsLeads
  <2>2. /\ Leads(t, Platform, Absent, Absent) /\ Leads(t, Records, Absent, Absent) /\ Leads(t, Chats, Absent, Absent)
        /\ Leads(t, Flows, Absent, Absent) /\ Leads(t, Turns, y, y)
    BY <1>6, PastInitial
  <2> QED BY <2>1, <2>2, InitialOn DEF y
<1>7. CASE t \in {"messages", "workflow_step_runs"}
  <2>1. Leads(t, Turns, Absent, y)
    BY <1>1, <1>7, At2Is, TurnsLeads
  <2>2. /\ Leads(t, Platform, Absent, Absent) /\ Leads(t, Records, Absent, Absent) /\ Leads(t, Chats, Absent, Absent)
        /\ Leads(t, Flows, Absent, Absent) /\ Leads(t, Questions, Absent, Absent)
    BY <1>7, PastInitial
  <2> QED BY <2>1, <2>2, InitialOn DEF y
<1>8. CASE t \notin DOMAIN At2
  <2>1. y = Absent
    BY <1>8 DEF Stage2, y
  <2>2. /\ Leads(t, Platform, y, y) /\ Leads(t, Records, y, y) /\ Leads(t, Chats, y, y)
        /\ Leads(t, Flows, y, y) /\ Leads(t, Questions, y, y) /\ Leads(t, Turns, y, y)
    BY <1>8, At2Is, PastInitial
  <2> QED BY <2>1, <2>2, InitialOn DEF y
<1> QED BY <1>2, <1>3, <1>4, <1>5, <1>6, <1>7, <1>8, At2Is

LEMMA At3Is ==
    /\ DOMAIN At3 = {"customers", "shipments", "invoices", "shipment_charges"}
    /\ At3["customers"] = MadeBy(Customers[1]) /\ At3["shipments"] = MadeBy(Customers[2])
    /\ At3["invoices"] = MadeBy(Bills[1]) /\ At3["shipment_charges"] = MadeBy(Charges[1])
BY DEF At3

LEMMA UpTo3 == \A t : Leads(t, Up[3], Stage2(t), Stage3(t))
<1> TAKE t
<1> DEFINE x == Stage2(t)
           y == Stage3(t)
<1>1. ASSUME NEW a, NEW b, NEW c, NEW d, Leads(t, Customers, a, b), Leads(t, Bills, b, c), Leads(t, Charges, c, d)
      PROVE  Leads(t, Up[3], a, d)
  <2>1. Up[3] = (Customers \o Bills) \o Charges
    BY DEF Up
  <2>2. IsList(Customers) /\ IsList(Bills) /\ IsList(Charges)
    BY BusinessOK
  <2>3. IsList(Customers \o Bills) /\ Leads(t, Customers \o Bills, a, c)
    BY <1>1, <2>2, ConcatOps, LeadsOn
  <2>4. Leads(t, (Customers \o Bills) \o Charges, a, d)
    BY <1>1, <2>2, <2>3, LeadsOn
  <2> QED BY <2>1, <2>4
<1>2. \A z : /\ t \notin {"customers", "shipments"} => Leads(t, Customers, z, z)
             /\ t # "invoices" => Leads(t, Bills, z, z)
             /\ t # "shipment_charges" => Leads(t, Charges, z, z)
  BY TablesOf, BusinessOK, LeadsPast
<1>3. t \in DOMAIN At3 => x = Absent /\ y = At3[t]
  BY At2Is, At3Is DEF Stage2, Stage3
<1>4. t \notin DOMAIN At3 => y = x
  BY DEF Stage3
<1> HIDE DEF x, y
<1>5. CASE t \in {"customers", "shipments"}
  <2>1. Leads(t, Customers, x, y)
    BY <1>3, <1>5, At3Is, BusinessLeads
  <2> QED BY <1>1, <1>2, <1>5, <2>1 DEF x, y
<1>6. CASE t = "invoices"
  <2>1. Leads(t, Bills, x, y)
    BY <1>3, <1>6, At3Is, BusinessLeads
  <2> QED BY <1>1, <1>2, <1>6, <2>1 DEF x, y
<1>7. CASE t = "shipment_charges"
  <2>1. Leads(t, Charges, x, y)
    BY <1>3, <1>7, At3Is, BusinessLeads
  <2> QED BY <1>1, <1>2, <1>7, <2>1 DEF x, y
<1>8. CASE t \notin DOMAIN At3
  BY <1>1, <1>2, <1>4, <1>8, At3Is DEF x, y
<1> QED BY <1>5, <1>6, <1>7, <1>8, At3Is

-----------------------------------------------------------------------------
(* Each table that a list of statements changes, statement by statement.   *)
LEMMA ClearsOf ==
    /\ \A c, t, on : Clears(To(c, t, on)) = {c} /\ Clears(Within(c, t, on)) = {c, "organization_id"}
    /\ Clears(Org) = {"organization_id"}
BY DEF Clears, To, Within, Org

\* A constraint on the values of a column is known by the values it allows.
LEMMA StatusesApart ==
    /\ RunStatuses # OldRunStatuses /\ StepStatuses # OldStepStatuses
    /\ \A s \in {{"step_count_not_negative"}, {"workflow_version_positive"}, {"position_positive"}} :
          s \notin {RunStatuses, OldRunStatuses, StepStatuses, OldStepStatuses}
    /\ {"step_count_not_negative"} # {"workflow_version_positive"}
<1>1. /\ "awaiting_approval" \in RunStatuses /\ "awaiting_approval" \notin OldRunStatuses
      /\ "awaiting_approval" \in StepStatuses /\ "awaiting_approval" \notin OldStepStatuses
  BY DEF RunStatuses, OldRunStatuses, StepStatuses, OldStepStatuses
<1>2. \A s \in {RunStatuses, OldRunStatuses, StepStatuses, OldStepStatuses} : "pending" \in s
  BY DEF RunStatuses, OldRunStatuses, StepStatuses, OldStepStatuses
<1>3. "step_count_not_negative" \notin {"workflow_version_positive"}
  OBVIOUS
<1> QED BY <1>1, <1>2, <1>3

LEMMA TalksUp == Leads("conversations", RunTables, Conversations2, Conversations4)
<1> DEFINE m0 == {"agent_id", "organization_id", "user_id"}
           r == {To("agent_id", "agents", "cascade"), Org, To("user_id", "users", "restrict")}
           m1 == {"organization_id", "user_id"}
           o0 == {"agent_id"}
           k0 == {OrgKey}
           x2 == OrgKey
           s1 == Relax("conversations", "agent_id")
           s2 == UniqueKey("conversations", x2)
           s3 == AddColumns("messages", {}, {"tool_metadata", "sequence"})
           s4 == Table("agent_runs", {"agent_id"}, {"conversation_id", "idempotency_key"}, {OrgKey,
               {"organization_id", "idempotency_key"}}, <<Within("conversation_id", "conversations",
               "cascade"), Org, To("user_id", "users", "restrict")>>)
<1>1. Conversations2 = Shape(m0, {}, {}, r, {})
  <2>1. TalkRefs = r
    BY DEF TalkRefs
  <2> QED BY <2>1 DEF Conversations2
<1>2. Conversations4 = Shape(m1, o0, k0, r, {})
  <2>1. TalkRefs = r
    BY DEF TalkRefs
  <2> QED BY <2>1 DEF Conversations4
<1>3. /\ Len(RunTables) = 4 /\ RunTables[1] = s1 /\ RunTables[2] = s2 /\ RunTables[3] = s3 /\ RunTables[4] = s4
  BY DEF RunTables
<1>4. m0 \ {"agent_id"} = m1 /\ {} \cup {"agent_id"} = o0
  OBVIOUS
<1>5. {} \cup {x2} = k0
  OBVIOUS
<1>6. \A z : /\ OnTable("conversations", z, s3) = z /\ OnTable("conversations", z, s4) = z
  BY Elsewhere
<1> HIDE DEF m0, r, m1, o0, k0, x2, s1, s2, s3, s4
<1>7. OnTable("conversations", Shape(m0, {}, {}, r, {}), s1) = Shape(m1, o0, {}, r, {})
  BY <1>4, OnRelax DEF s1
<1>8. OnTable("conversations", Shape(m1, o0, {}, r, {}), s2) = Shape(m1, o0, k0, r, {})
  BY <1>5, OnKey DEF s2
<1> QED BY <1>1, <1>2, <1>3, <1>7, <1>8, <1>6, Leads4

LEMMA MessagesUp == Leads("messages", RunTables, Messages2, Messages4)
<1> DEFINE m == {"conversation_id"}
           r == {To("conversation_id", "conversations", "cascade")}
           o0 == {"tool_metadata", "sequence"}
           y3 == {"tool_metadata", "sequence"}
           s1 == Relax("conversations", "agent_id")
           s2 == UniqueKey("conversations", OrgKey)
           s3 == AddColumns("messages", {}, y3)
           s4 == Table("agent_runs", {"agent_id"}, {"conversation_id", "idempotency_key"}, {OrgKey,
               {"organization_id", "idempotency_key"}}, <<Within("conversation_id", "conversations",
               "cascade"), Org, To("user_id", "users", "restrict")>>)
<1>1. Messages2 = Shape(m, {}, {}, r, {})
  <2>1. TurnRefs = r
    BY DEF TurnRefs
  <2> QED BY <2>1 DEF Messages2
<1>2. Messages4 = Shape(m, o0, {}, r, {})
  <2>1. TurnRefs = r
    BY DEF TurnRefs
  <2> QED BY <2>1 DEF Messages4
<1>3. /\ Len(RunTables) = 4 /\ RunTables[1] = s1 /\ RunTables[2] = s2 /\ RunTables[3] = s3 /\ RunTables[4] = s4
  BY DEF RunTables
<1>4. m \cup {} = m /\ {} \cup y3 = o0
  OBVIOUS
<1>5. \A z : /\ OnTable("messages", z, s1) = z /\ OnTable("messages", z, s2) = z
             /\ OnTable("messages", z, s4) = z
  BY Elsewhere
<1> HIDE DEF m, r, o0, y3, s1, s2, s3, s4
<1>6. OnTable("messages", Shape(m, {}, {}, r, {}), s3) = Shape(m, o0, {}, r, {})
  BY <1>4, OnAdd DEF s3
<1> QED BY <1>1, <1>2, <1>3, <1>6, <1>5, Leads4

LEMMA ApprovalsRun == Leads("approvals", ExecutionTables, Approvals2, Approvals4)
<1> DEFINE m == {"organization_id", "requested_by"}
           o0 == {"agent_id", "tool_id", "conversation_id", "approved_by"}
           r0 == {To("agent_id", "agents", "cascade"), To("approved_by", "users", "null"),
               To("conversation_id", "conversations", "cascade"), Org, To("requested_by", "users", "restrict"),
               To("tool_id", "tools", "restrict")}
           o1 == {"agent_id", "tool_id", "conversation_id", "approved_by", "run_id", "tool_execution_id",
               "tool_name"}
           k0 == {{"tool_execution_id"}}
           r1 == {To("agent_id", "agents", "cascade"), To("approved_by", "users", "null"),
               To("conversation_id", "conversations", "cascade"), Org, To("requested_by", "users", "restrict"),
               To("tool_id", "tools", "restrict"), Within("run_id", "agent_runs", "cascade")}
           r2 == {To("agent_id", "agents", "cascade"), To("approved_by", "users", "null"),
               To("conversation_id", "conversations", "cascade"), Org, To("requested_by", "users", "restrict"),
               To("tool_id", "tools", "restrict"), Within("run_id", "agent_runs", "cascade"),
               Within("tool_execution_id", "tool_executions", "cascade")}
           y3 == {"run_id", "tool_execution_id", "tool_name"}
           x4 == {"tool_execution_id"}
           x5 == Within("run_id", "agent_runs", "cascade")
           x6 == Within("tool_execution_id", "tool_executions", "cascade")
           s1 == Table("agent_steps", {"step_number"}, {}, {{"run_id", "step_number"}}, <<Org, Within("run_id",
               "agent_runs", "cascade")>>)
           s2 == Table("tool_executions", {"step_number"}, {}, {OrgKey, {"run_id", "step_number"}}, <<Org,
               Within("run_id", "agent_runs", "cascade")>>)
           s3 == AddColumns("approvals", {}, y3)
           s4 == UniqueKey("approvals", x4)
           s5 == Ref("approvals", x5)
           s6 == Ref("approvals", x6)
<1>1. Approvals2 = Shape(m, o0, {}, r0, {})
  <2>1. Asker = m
    BY DEF Asker
  <2>2. About = o0
    BY DEF About
  <2>3. AskRefs = r0
    BY DEF AskRefs
  <2> QED BY <2>1, <2>2, <2>3 DEF Approvals2
<1>2. Approvals4 = Shape(m, o1, k0, r2, {})
  <2>1. Asker = m
    BY DEF Asker
  <2>2. About \cup OfRun = o1
    BY DEF About, OfRun
  <2>3. AskRefs \cup RunRefs = r2
    BY DEF AskRefs, RunRefs
  <2> QED BY <2>1, <2>2, <2>3 DEF Approvals4
<1>3. /\ Len(ExecutionTables) = 6 /\ ExecutionTables[1] = s1 /\ ExecutionTables[2] = s2
      /\ ExecutionTables[3] = s3 /\ ExecutionTables[4] = s4 /\ ExecutionTables[5] = s5
      /\ ExecutionTables[6] = s6
  BY DEF ExecutionTables
<1>4. m \cup {} = m /\ o0 \cup y3 = o1
  OBVIOUS
<1>5. {} \cup {x4} = k0
  OBVIOUS
<1>6. r0 \cup {x5} = r1
  OBVIOUS
<1>7. r1 \cup {x6} = r2
  OBVIOUS
<1>8. \A z : /\ OnTable("approvals", z, s1) = z /\ OnTable("approvals", z, s2) = z
  BY Elsewhere
<1> HIDE DEF m, o0, r0, o1, k0, r1, r2, y3, x4, x5, x6, s1, s2, s3, s4, s5, s6
<1>9. OnTable("approvals", Shape(m, o0, {}, r0, {}), s3) = Shape(m, o1, {}, r0, {})
  BY <1>4, OnAdd DEF s3
<1>10. OnTable("approvals", Shape(m, o1, {}, r0, {}), s4) = Shape(m, o1, k0, r0, {})
  BY <1>5, OnKey DEF s4
<1>11. OnTable("approvals", Shape(m, o1, k0, r0, {}), s5) = Shape(m, o1, k0, r1, {})
  BY <1>6, OnRef DEF s5
<1>12. OnTable("approvals", Shape(m, o1, k0, r1, {}), s6) = Shape(m, o1, k0, r2, {})
  BY <1>7, OnRef DEF s6
<1> QED BY <1>1, <1>2, <1>3, <1>9, <1>10, <1>11, <1>12, <1>8, Leads6

LEMMA WorkflowsUp == Leads("workflows", VersionWorkflows, Workflows2, Workflows5)
<1> DEFINE m == {"name", "organization_id"}
           o0 == {"enabled"}
           k0 == {{"organization_id", "name"}}
           r == {Org}
           o1 == {"enabled", "version", "status", "definition"}
           k1 == {{"organization_id", "name", "version"}}
           k2 == {{"organization_id", "name", "version"}, OrgKey}
           c0 == {<<"workflows", {"version_positive"}>>}
           o2 == {"version", "status", "definition"}
           y3 == {"version", "status", "definition"}
           x4 == {"organization_id", "name"}
           x5 == {"organization_id", "name", "version"}
           x6 == OrgKey
           x7 == {"version_positive"}
           x8 == {"enabled"}
           s1 == Empty("workflow_runs")
           s2 == Empty("workflow_step_runs")
           s3 == AddColumns("workflows", {}, y3)
           s4 == DropKey("workflows", x4)
           s5 == UniqueKey("workflows", x5)
           s6 == UniqueKey("workflows", x6)
           s7 == Check("workflows", x7)
           s8 == RemoveColumns("workflows", x8)
<1>1. Workflows2 = Shape(m, o0, k0, r, {})
  <2>1. {NameKey} = k0
    BY DEF NameKey
  <2> QED BY <2>1 DEF Workflows2
<1>2. Workflows5 = Shape(m, o2, k2, r, c0)
  <2>1. {VersionKey, OrgKey} = k2
    BY DEF VersionKey
  <2> QED BY <2>1 DEF Workflows5
<1>3. /\ Len(VersionWorkflows) = 8 /\ VersionWorkflows[1] = s1 /\ VersionWorkflows[2] = s2
      /\ VersionWorkflows[3] = s3 /\ VersionWorkflows[4] = s4 /\ VersionWorkflows[5] = s5
      /\ VersionWorkflows[6] = s6 /\ VersionWorkflows[7] = s7 /\ VersionWorkflows[8] = s8
  BY DEF VersionWorkflows
<1>4. m \cup {} = m /\ o0 \cup y3 = o1
  OBVIOUS
<1>5. k0 \ {x4} = {}
  OBVIOUS
<1>6. {} \cup {x5} = k1
  OBVIOUS
<1>7. k1 \cup {x6} = k2
  OBVIOUS
<1>8. {} \cup {<<"workflows", x7>>} = c0
  OBVIOUS
<1>9. m \ x8 = m /\ o1 \ x8 = o2
  OBVIOUS
<1>10. {y \in k2 : y \cap x8 = {}} = k2
  <2>1. {"organization_id", "name", "version"} \cap {"enabled"} = {}
    OBVIOUS
  <2>2. OrgKey \cap {"enabled"} = {}
    BY DEF OrgKey
  <2> QED BY <2>1, <2>2
<1>11. {y \in r : Clears(y) \cap x8 = {}} = r
  <2>1. Clears(Org) \cap {"enabled"} = {}
    BY ClearsOf
  <2> QED BY <2>1
<1>12. \A z : /\ OnTable("workflows", z, s1) = z /\ OnTable("workflows", z, s2) = z
  BY Elsewhere
<1> HIDE DEF m, o0, k0, r, o1, k1, k2, c0, o2, y3, x4, x5, x6, x7, x8, s1, s2, s3, s4, s5, s6, s7, s8
<1>13. OnTable("workflows", Shape(m, o0, k0, r, {}), s3) = Shape(m, o1, k0, r, {})
  BY <1>4, OnAdd DEF s3
<1>14. OnTable("workflows", Shape(m, o1, k0, r, {}), s4) = Shape(m, o1, {}, r, {})
  BY <1>5, OnDropKey DEF s4
<1>15. OnTable("workflows", Shape(m, o1, {}, r, {}), s5) = Shape(m, o1, k1, r, {})
  BY <1>6, OnKey DEF s5
<1>16. OnTable("workflows", Shape(m, o1, k1, r, {}), s6) = Shape(m, o1, k2, r, {})
  BY <1>7, OnKey DEF s6
<1>17. OnTable("workflows", Shape(m, o1, k2, r, {}), s7) = Shape(m, o1, k2, r, c0)
  BY <1>8, OnCheck DEF s7
<1>18. OnTable("workflows", Shape(m, o1, k2, r, c0), s8) = Shape(m, o2, k2, r, c0)
  BY <1>9, <1>10, <1>11, OnRemove DEF s8
<1> QED BY <1>1, <1>2, <1>3, <1>13, <1>14, <1>15, <1>16, <1>17, <1>18, <1>12, Leads8

LEMMA RunsUp == Leads("workflow_runs", ReshapeRuns, Runs2, Runs5)
<1> DEFINE m0 == {"organization_id", "workflow_id"}
           r0 == {Org, To("workflow_id", "workflows", "cascade")}
           c0 == {<<"workflow_runs", OldRunStatuses>>}
           r1 == {Org}
           m1 == {"organization_id", "workflow_id", "user_id"}
           o0 == {"workflow_version", "current_step", "step_count", "input_data", "output_data",
               "idempotency_key", "request_id", "error_code"}
           c1 == {<<"workflow_runs", RunStatuses>>}
           r2 == {Org, To("user_id", "users", "restrict")}
           r3 == {Org, To("user_id", "users", "restrict"), Within("workflow_id", "workflows", "cascade")}
           k0 == {{"organization_id", "idempotency_key"}}
           k1 == {{"organization_id", "idempotency_key"}, OrgKey}
           c2 == {<<"workflow_runs", RunStatuses>>, <<"workflow_runs", {"step_count_not_negative"}>>}
           c3 == {<<"workflow_runs", RunStatuses>>, <<"workflow_runs", {"step_count_not_negative"}>>,
               <<"workflow_runs", {"workflow_version_positive"}>>}
           x1 == To("workflow_id", "workflows", "cascade")
           x2 == {"user_id"}
           y2 == {"workflow_version", "current_step", "step_count", "input_data", "output_data",
               "idempotency_key", "request_id", "error_code"}
           x3 == OldRunStatuses
           x4 == RunStatuses
           x5 == To("user_id", "users", "restrict")
           x6 == Within("workflow_id", "workflows", "cascade")
           x7 == {"organization_id", "idempotency_key"}
           x8 == OrgKey
           x9 == {"step_count_not_negative"}
           x10 == {"workflow_version_positive"}
           s1 == DropRef("workflow_runs", x1)
           s2 == AddColumns("workflow_runs", x2, y2)
           s3 == DropCheck("workflow_runs", x3)
           s4 == Check("workflow_runs", x4)
           s5 == Ref("workflow_runs", x5)
           s6 == Ref("workflow_runs", x6)
           s7 == UniqueKey("workflow_runs", x7)
           s8 == UniqueKey("workflow_runs", x8)
           s9 == Check("workflow_runs", x9)
           s10 == Check("workflow_runs", x10)
<1>1. Runs2 = Shape(m0, {}, {}, r0, c0)
  BY DEF Runs2
<1>2. Runs5 = Shape(m1, o0, k1, r3, c3)
  <2>1. {IdemKey, OrgKey} = k1
    BY DEF IdemKey
  <2> QED BY <2>1 DEF Runs5
<1>3. ReshapeRuns = (<<s1, s2>> \o <<s3, s4>>) \o <<s5, s6, s7, s8, s9, s10>>
  BY DEF ReshapeRuns, Widen
<1>4. r0 \ {x1} = r1
  <2>1. Org # To("workflow_id", "workflows", "cascade")
    BY ColOf
  <2> QED BY <2>1
<1>5. m0 \cup x2 = m1 /\ {} \cup y2 = o0
  OBVIOUS
<1>6. c0 \ {<<"workflow_runs", x3>>} = {}
  OBVIOUS
<1>7. {} \cup {<<"workflow_runs", x4>>} = c1
  OBVIOUS
<1>8. r1 \cup {x5} = r2
  OBVIOUS
<1>9. r2 \cup {x6} = r3
  OBVIOUS
<1>10. {} \cup {x7} = k0
  OBVIOUS
<1>11. k0 \cup {x8} = k1
  OBVIOUS
<1>12. c1 \cup {<<"workflow_runs", x9>>} = c2
  OBVIOUS
<1>13. c2 \cup {<<"workflow_runs", x10>>} = c3
  OBVIOUS
<1> HIDE DEF m0, r0, c0, r1, m1, o0, c1, r2, r3, k0, k1, c2, c3, x1, x2, y2, x3, x4, x5, x6, x7, x8, x9, x10,
    s1, s2, s3, s4, s5, s6, s7, s8, s9, s10
<1>14. OnTable("workflow_runs", Shape(m0, {}, {}, r0, c0), s1) = Shape(m0, {}, {}, r1, c0)
  BY <1>4, OnDropRef DEF s1
<1>15. OnTable("workflow_runs", Shape(m0, {}, {}, r1, c0), s2) = Shape(m1, o0, {}, r1, c0)
  BY <1>5, OnAdd DEF s2
<1>16. OnTable("workflow_runs", Shape(m1, o0, {}, r1, c0), s3) = Shape(m1, o0, {}, r1, {})
  BY <1>6, OnDropCheck DEF s3
<1>17. OnTable("workflow_runs", Shape(m1, o0, {}, r1, {}), s4) = Shape(m1, o0, {}, r1, c1)
  BY <1>7, OnCheck DEF s4
<1>18. OnTable("workflow_runs", Shape(m1, o0, {}, r1, c1), s5) = Shape(m1, o0, {}, r2, c1)
  BY <1>8, OnRef DEF s5
<1>19. OnTable("workflow_runs", Shape(m1, o0, {}, r2, c1), s6) = Shape(m1, o0, {}, r3, c1)
  BY <1>9, OnRef DEF s6
<1>20. OnTable("workflow_runs", Shape(m1, o0, {}, r3, c1), s7) = Shape(m1, o0, k0, r3, c1)
  BY <1>10, OnKey DEF s7
<1>21. OnTable("workflow_runs", Shape(m1, o0, k0, r3, c1), s8) = Shape(m1, o0, k1, r3, c1)
  BY <1>11, OnKey DEF s8
<1>22. OnTable("workflow_runs", Shape(m1, o0, k1, r3, c1), s9) = Shape(m1, o0, k1, r3, c2)
  BY <1>12, OnCheck DEF s9
<1>23. OnTable("workflow_runs", Shape(m1, o0, k1, r3, c2), s10) = Shape(m1, o0, k1, r3, c3)
  BY <1>13, OnCheck DEF s10
<1>24. IsList(<<s1, s2>>) /\ Leads("workflow_runs", <<s1, s2>>, Shape(m0, {}, {}, r0, c0), Shape(m1, o0, {},
    r1, c0))
  <2>1. IsList(<<s1, s2>>)
    BY List2
  <2>2. Leads("workflow_runs", <<s1, s2>>, Shape(m0, {}, {}, r0, c0), Shape(m1, o0, {}, r1, c0))
    BY <1>14, <1>15, Leads2
  <2> QED BY <2>1, <2>2
<1>25. IsList(<<s3, s4>>) /\ Leads("workflow_runs", <<s3, s4>>, Shape(m1, o0, {}, r1, c0), Shape(m1, o0, {},
    r1, c1))
  <2>1. IsList(<<s3, s4>>)
    BY List2
  <2>2. Leads("workflow_runs", <<s3, s4>>, Shape(m1, o0, {}, r1, c0), Shape(m1, o0, {}, r1, c1))
    BY <1>16, <1>17, Leads2
  <2> QED BY <2>1, <2>2
<1>26. IsList(<<s5, s6, s7, s8, s9, s10>>) /\ Leads("workflow_runs", <<s5, s6, s7, s8, s9, s10>>, Shape(m1, o0,
    {}, r1, c1), Shape(m1, o0, k1, r3, c3))
  <2>1. IsList(<<s5, s6, s7, s8, s9, s10>>)
    BY List6
  <2>2. Leads("workflow_runs", <<s5, s6, s7, s8, s9, s10>>, Shape(m1, o0, {}, r1, c1), Shape(m1, o0, k1, r3,
      c3))
    BY <1>18, <1>19, <1>20, <1>21, <1>22, <1>23, Leads6
  <2> QED BY <2>1, <2>2
<1>27. IsList(<<s1, s2>> \o <<s3, s4>>) /\ Leads("workflow_runs", <<s1, s2>> \o <<s3, s4>>, Shape(m0, {}, {},
    r0, c0), Shape(m1, o0, {}, r1, c1))
  BY <1>24, <1>25, LeadsOn, ConcatOps
<1>28. Leads("workflow_runs", (<<s1, s2>> \o <<s3, s4>>) \o <<s5, s6, s7, s8, s9, s10>>, Shape(m0, {}, {}, r0,
    c0), Shape(m1, o0, k1, r3, c3))
  BY <1>27, <1>26, LeadsOn
<1> QED BY <1>1, <1>2, <1>3, <1>28

LEMMA StepRunsUp == Leads("workflow_step_runs", ReshapeStepRuns, StepRuns2, StepRuns5)
<1> DEFINE m0 == {"workflow_run_id", "workflow_step_id"}
           r0 == {To("workflow_run_id", "workflow_runs", "cascade"), To("workflow_step_id", "workflow_steps",
               "cascade")}
           c0 == {<<"workflow_step_runs", OldStepStatuses>>}
           r1 == {To("workflow_step_id", "workflow_steps", "cascade")}
           m1 == {"workflow_run_id", "workflow_step_id", "organization_id", "step_key", "step_type", "position"}
           o0 == {"agent_run_id", "error_code"}
           m2 == {"workflow_run_id", "organization_id", "step_key", "step_type", "position"}
           o1 == {"agent_run_id", "error_code", "workflow_step_id"}
           c1 == {<<"workflow_step_runs", StepStatuses>>}
           r2 == {To("workflow_step_id", "workflow_steps", "cascade"), Org}
           r3 == {To("workflow_step_id", "workflow_steps", "cascade"), Org, Within("workflow_run_id",
               "workflow_runs", "cascade")}
           r4 == {To("workflow_step_id", "workflow_steps", "cascade"), Org, Within("workflow_run_id",
               "workflow_runs", "cascade"), Within("agent_run_id", "agent_runs", "null")}
           k0 == {{"workflow_run_id", "step_key"}}
           k1 == {{"workflow_run_id", "step_key"}, {"workflow_run_id", "position"}}
           k2 == {{"workflow_run_id", "step_key"}, {"workflow_run_id", "position"}, OrgKey}
           c2 == {<<"workflow_step_runs", StepStatuses>>, <<"workflow_step_runs", {"position_positive"}>>}
           x1 == To("workflow_run_id", "workflow_runs", "cascade")
           x2 == {"organization_id", "step_key", "step_type", "position"}
           y2 == {"agent_run_id", "error_code"}
           x4 == OldStepStatuses
           x5 == StepStatuses
           x6 == Org
           x7 == Within("workflow_run_id", "workflow_runs", "cascade")
           x8 == Within("agent_run_id", "agent_runs", "null")
           x9 == {"workflow_run_id", "step_key"}
           x10 == {"workflow_run_id", "position"}
           x11 == OrgKey
           x12 == {"position_positive"}
           s1 == DropRef("workflow_step_runs", x1)
           s2 == AddColumns("workflow_step_runs", x2, y2)
           s3 == Relax("workflow_step_runs", "workflow_step_id")
           s4 == DropCheck("workflow_step_runs", x4)
           s5 == Check("workflow_step_runs", x5)
           s6 == Ref("workflow_step_runs", x6)
           s7 == Ref("workflow_step_runs", x7)
           s8 == Ref("workflow_step_runs", x8)
           s9 == UniqueKey("workflow_step_runs", x9)
           s10 == UniqueKey("workflow_step_runs", x10)
           s11 == UniqueKey("workflow_step_runs", x11)
           s12 == Check("workflow_step_runs", x12)
<1>1. StepRuns2 = Shape(m0, {}, {}, r0, c0)
  BY DEF StepRuns2
<1>2. StepRuns5 = Shape(m2, o1, k2, r4, c2)
  <2>1. {"workflow_step_id", "agent_run_id", "error_code"} = o1
    OBVIOUS
  <2>2. {StepKey, PlaceKey, OrgKey} = k2
    BY DEF StepKey, PlaceKey
  <2> QED BY <2>1, <2>2 DEF StepRuns5
<1>3. ReshapeStepRuns = (<<s1, s2, s3>> \o <<s4, s5>>) \o <<s6, s7, s8, s9, s10, s11, s12>>
  BY DEF ReshapeStepRuns, Widen
<1>4. r0 \ {x1} = r1
  <2>1. To("workflow_step_id", "workflow_steps", "cascade") # To("workflow_run_id", "workflow_runs", "cascade")
    BY ColOf
  <2> QED BY <2>1
<1>5. m0 \cup x2 = m1 /\ {} \cup y2 = o0
  OBVIOUS
<1>6. m1 \ {"workflow_step_id"} = m2 /\ o0 \cup {"workflow_step_id"} = o1
  OBVIOUS
<1>7. c0 \ {<<"workflow_step_runs", x4>>} = {}
  OBVIOUS
<1>8. {} \cup {<<"workflow_step_runs", x5>>} = c1
  OBVIOUS
<1>9. r1 \cup {x6} = r2
  OBVIOUS
<1>10. r2 \cup {x7} = r3
  OBVIOUS
<1>11. r3 \cup {x8} = r4
  OBVIOUS
<1>12. {} \cup {x9} = k0
  OBVIOUS
<1>13. k0 \cup {x10} = k1
  OBVIOUS
<1>14. k1 \cup {x11} = k2
  OBVIOUS
<1>15. c1 \cup {<<"workflow_step_runs", x12>>} = c2
  OBVIOUS
<1> HIDE DEF m0, r0, c0, r1, m1, o0, m2, o1, c1, r2, r3, r4, k0, k1, k2, c2, x1, x2, y2, x4, x5, x6, x7, x8,
    x9, x10, x11, x12, s1, s2, s3, s4, s5, s6, s7, s8, s9, s10, s11, s12
<1>16. OnTable("workflow_step_runs", Shape(m0, {}, {}, r0, c0), s1) = Shape(m0, {}, {}, r1, c0)
  BY <1>4, OnDropRef DEF s1
<1>17. OnTable("workflow_step_runs", Shape(m0, {}, {}, r1, c0), s2) = Shape(m1, o0, {}, r1, c0)
  BY <1>5, OnAdd DEF s2
<1>18. OnTable("workflow_step_runs", Shape(m1, o0, {}, r1, c0), s3) = Shape(m2, o1, {}, r1, c0)
  BY <1>6, OnRelax DEF s3
<1>19. OnTable("workflow_step_runs", Shape(m2, o1, {}, r1, c0), s4) = Shape(m2, o1, {}, r1, {})
  BY <1>7, OnDropCheck DEF s4
<1>20. OnTable("workflow_step_runs", Shape(m2, o1, {}, r1, {}), s5) = Shape(m2, o1, {}, r1, c1)
  BY <1>8, OnCheck DEF s5
<1>21. OnTable("workflow_step_runs", Shape(m2, o1, {}, r1, c1), s6) = Shape(m2, o1, {}, r2, c1)
  BY <1>9, OnRef DEF s6
<1>22. OnTable("workflow_step_runs", Shape(m2, o1, {}, r2, c1), s7) = Shape(m2, o1, {}, r3, c1)
  BY <1>10, OnRef DEF s7
<1>23. OnTable("workflow_step_runs", Shape(m2, o1, {}, r3, c1), s8) = Shape(m2, o1, {}, r4, c1)
  BY <1>11, OnRef DEF s8
<1>24. OnTable("workflow_step_runs", Shape(m2, o1, {}, r4, c1), s9) = Shape(m2, o1, k0, r4, c1)
  BY <1>12, OnKey DEF s9
<1>25. OnTable("workflow_step_runs", Shape(m2, o1, k0, r4, c1), s10) = Shape(m2, o1, k1, r4, c1)
  BY <1>13, OnKey DEF s10
<1>26. OnTable("workflow_step_runs", Shape(m2, o1, k1, r4, c1), s11) = Shape(m2, o1, k2, r4, c1)
  BY <1>14, OnKey DEF s11
<1>27. OnTable("workflow_step_runs", Shape(m2, o1, k2, r4, c1), s12) = Shape(m2, o1, k2, r4, c2)
  BY <1>15, OnCheck DEF s12
<1>28. IsList(<<s1, s2, s3>>) /\ Leads("workflow_step_runs", <<s1, s2, s3>>, Shape(m0, {}, {}, r0, c0),
    Shape(m2, o1, {}, r1, c0))
  <2>1. IsList(<<s1, s2, s3>>)
    BY List3
  <2>2. Leads("workflow_step_runs", <<s1, s2, s3>>, Shape(m0, {}, {}, r0, c0), Shape(m2, o1, {}, r1, c0))
    BY <1>16, <1>17, <1>18, Leads3
  <2> QED BY <2>1, <2>2
<1>29. IsList(<<s4, s5>>) /\ Leads("workflow_step_runs", <<s4, s5>>, Shape(m2, o1, {}, r1, c0), Shape(m2, o1,
    {}, r1, c1))
  <2>1. IsList(<<s4, s5>>)
    BY List2
  <2>2. Leads("workflow_step_runs", <<s4, s5>>, Shape(m2, o1, {}, r1, c0), Shape(m2, o1, {}, r1, c1))
    BY <1>19, <1>20, Leads2
  <2> QED BY <2>1, <2>2
<1>30. IsList(<<s6, s7, s8, s9, s10, s11, s12>>) /\ Leads("workflow_step_runs", <<s6, s7, s8, s9, s10, s11,
    s12>>, Shape(m2, o1, {}, r1, c1), Shape(m2, o1, k2, r4, c2))
  <2>1. IsList(<<s6, s7, s8, s9, s10, s11, s12>>)
    BY List7
  <2>2. Leads("workflow_step_runs", <<s6, s7, s8, s9, s10, s11, s12>>, Shape(m2, o1, {}, r1, c1), Shape(m2, o1,
      k2, r4, c2))
    BY <1>21, <1>22, <1>23, <1>24, <1>25, <1>26, <1>27, Leads7
  <2> QED BY <2>1, <2>2
<1>31. IsList(<<s1, s2, s3>> \o <<s4, s5>>) /\ Leads("workflow_step_runs", <<s1, s2, s3>> \o <<s4, s5>>,
    Shape(m0, {}, {}, r0, c0), Shape(m2, o1, {}, r1, c1))
  BY <1>28, <1>29, LeadsOn, ConcatOps
<1>32. Leads("workflow_step_runs", (<<s1, s2, s3>> \o <<s4, s5>>) \o <<s6, s7, s8, s9, s10, s11, s12>>,
    Shape(m0, {}, {}, r0, c0), Shape(m2, o1, k2, r4, c2))
  BY <1>31, <1>30, LeadsOn
<1> QED BY <1>1, <1>2, <1>3, <1>32

LEMMA CallersUp == Leads("tool_executions", LinkCallers, Executions4, Executions5)
<1> DEFINE m0 == {"step_number", "organization_id", "run_id"}
           k0 == {OrgKey, {"run_id", "step_number"}}
           r0 == {Org, Within("run_id", "agent_runs", "cascade")}
           o0 == {"workflow_step_run_id"}
           m1 == {"step_number", "organization_id"}
           o1 == {"workflow_step_run_id", "run_id"}
           k1 == {OrgKey, {"run_id", "step_number"}, {"workflow_step_run_id"}}
           r1 == {Org, Within("run_id", "agent_runs", "cascade"), Within("workflow_step_run_id",
               "workflow_step_runs", "cascade")}
           c0 == {<<"tool_executions", {"exactly_one_caller"}>>}
           y1 == {"workflow_step_run_id"}
           x3 == {"workflow_step_run_id"}
           x4 == Within("workflow_step_run_id", "workflow_step_runs", "cascade")
           x5 == {"exactly_one_caller"}
           s1 == AddColumns("tool_executions", {}, y1)
           s2 == Relax("tool_executions", "run_id")
           s3 == UniqueKey("tool_executions", x3)
           s4 == Ref("tool_executions", x4)
           s5 == Check("tool_executions", x5)
           s6 == AddColumns("approvals", {}, {"workflow_run_id", "workflow_step_run_id"})
           s7 == UniqueKey("approvals", {"workflow_step_run_id"})
           s8 == Ref("approvals", Within("workflow_run_id", "workflow_runs", "cascade"))
           s9 == Ref("approvals", Within("workflow_step_run_id", "workflow_step_runs", "cascade"))
<1>1. Executions4 = Shape(m0, {}, k0, r0, {})
  <2>1. {OrgKey, NumberKey} = k0
    BY DEF NumberKey
  <2> QED BY <2>1 DEF Executions4
<1>2. Executions5 = Shape(m1, o1, k1, r1, c0)
  <2>1. {"run_id", "workflow_step_run_id"} = o1
    OBVIOUS
  <2>2. {OrgKey, NumberKey, {"workflow_step_run_id"}} = k1
    BY DEF NumberKey
  <2> QED BY <2>1, <2>2 DEF Executions5
<1>3. /\ Len(LinkCallers) = 9 /\ LinkCallers[1] = s1 /\ LinkCallers[2] = s2 /\ LinkCallers[3] = s3
      /\ LinkCallers[4] = s4 /\ LinkCallers[5] = s5 /\ LinkCallers[6] = s6 /\ LinkCallers[7] = s7
      /\ LinkCallers[8] = s8 /\ LinkCallers[9] = s9
  BY DEF LinkCallers
<1>4. m0 \cup {} = m0 /\ {} \cup y1 = o0
  OBVIOUS
<1>5. m0 \ {"run_id"} = m1 /\ o0 \cup {"run_id"} = o1
  OBVIOUS
<1>6. k0 \cup {x3} = k1
  OBVIOUS
<1>7. r0 \cup {x4} = r1
  OBVIOUS
<1>8. {} \cup {<<"tool_executions", x5>>} = c0
  OBVIOUS
<1>9. \A z : /\ OnTable("tool_executions", z, s6) = z /\ OnTable("tool_executions", z, s7) = z
             /\ OnTable("tool_executions", z, s8) = z /\ OnTable("tool_executions", z, s9) = z
  BY Elsewhere
<1> HIDE DEF m0, k0, r0, o0, m1, o1, k1, r1, c0, y1, x3, x4, x5, s1, s2, s3, s4, s5, s6, s7, s8, s9
<1>10. OnTable("tool_executions", Shape(m0, {}, k0, r0, {}), s1) = Shape(m0, o0, k0, r0, {})
  BY <1>4, OnAdd DEF s1
<1>11. OnTable("tool_executions", Shape(m0, o0, k0, r0, {}), s2) = Shape(m1, o1, k0, r0, {})
  BY <1>5, OnRelax DEF s2
<1>12. OnTable("tool_executions", Shape(m1, o1, k0, r0, {}), s3) = Shape(m1, o1, k1, r0, {})
  BY <1>6, OnKey DEF s3
<1>13. OnTable("tool_executions", Shape(m1, o1, k1, r0, {}), s4) = Shape(m1, o1, k1, r1, {})
  BY <1>7, OnRef DEF s4
<1>14. OnTable("tool_executions", Shape(m1, o1, k1, r1, {}), s5) = Shape(m1, o1, k1, r1, c0)
  BY <1>8, OnCheck DEF s5
<1> QED BY <1>1, <1>2, <1>3, <1>10, <1>11, <1>12, <1>13, <1>14, <1>9, Leads9

LEMMA ApprovalsFlow == Leads("approvals", LinkCallers, Approvals4, Approvals5)
<1> DEFINE m == {"organization_id", "requested_by"}
           o0 == {"agent_id", "tool_id", "conversation_id", "approved_by", "run_id", "tool_execution_id",
               "tool_name"}
           k0 == {{"tool_execution_id"}}
           r0 == {To("agent_id", "agents", "cascade"), To("approved_by", "users", "null"),
               To("conversation_id", "conversations", "cascade"), Org, To("requested_by", "users", "restrict"),
               To("tool_id", "tools", "restrict"), Within("run_id", "agent_runs", "cascade"),
               Within("tool_execution_id", "tool_executions", "cascade")}
           o1 == {"agent_id", "tool_id", "conversation_id", "approved_by", "run_id", "tool_execution_id",
               "tool_name", "workflow_run_id", "workflow_step_run_id"}
           k1 == {{"tool_execution_id"}, {"workflow_step_run_id"}}
           r1 == {To("agent_id", "agents", "cascade"), To("approved_by", "users", "null"),
               To("conversation_id", "conversations", "cascade"), Org, To("requested_by", "users", "restrict"),
               To("tool_id", "tools", "restrict"), Within("run_id", "agent_runs", "cascade"),
               Within("tool_execution_id", "tool_executions", "cascade"), Within("workflow_run_id",
               "workflow_runs", "cascade")}
           r2 == {To("agent_id", "agents", "cascade"), To("approved_by", "users", "null"),
               To("conversation_id", "conversations", "cascade"), Org, To("requested_by", "users", "restrict"),
               To("tool_id", "tools", "restrict"), Within("run_id", "agent_runs", "cascade"),
               Within("tool_execution_id", "tool_executions", "cascade"), Within("workflow_run_id",
               "workflow_runs", "cascade"), Within("workflow_step_run_id", "workflow_step_runs", "cascade")}
           y6 == {"workflow_run_id", "workflow_step_run_id"}
           x7 == {"workflow_step_run_id"}
           x8 == Within("workflow_run_id", "workflow_runs", "cascade")
           x9 == Within("workflow_step_run_id", "workflow_step_runs", "cascade")
           s1 == AddColumns("tool_executions", {}, {"workflow_step_run_id"})
           s2 == Relax("tool_executions", "run_id")
           s3 == UniqueKey("tool_executions", {"workflow_step_run_id"})
           s4 == Ref("tool_executions", Within("workflow_step_run_id", "workflow_step_runs", "cascade"))
           s5 == Check("tool_executions", {"exactly_one_caller"})
           s6 == AddColumns("approvals", {}, y6)
           s7 == UniqueKey("approvals", x7)
           s8 == Ref("approvals", x8)
           s9 == Ref("approvals", x9)
<1>1. Approvals4 = Shape(m, o0, k0, r0, {})
  <2>1. Asker = m
    BY DEF Asker
  <2>2. About \cup OfRun = o0
    BY DEF About, OfRun
  <2>3. AskRefs \cup RunRefs = r0
    BY DEF AskRefs, RunRefs
  <2> QED BY <2>1, <2>2, <2>3 DEF Approvals4
<1>2. Approvals5 = Shape(m, o1, k1, r2, {})
  <2>1. Asker = m
    BY DEF Asker
  <2>2. About \cup OfRun \cup OfFlow = o1
    BY DEF About, OfRun, OfFlow
  <2>3. AskRefs \cup RunRefs \cup FlowRefs = r2
    BY DEF AskRefs, RunRefs, FlowRefs
  <2> QED BY <2>1, <2>2, <2>3 DEF Approvals5
<1>3. /\ Len(LinkCallers) = 9 /\ LinkCallers[1] = s1 /\ LinkCallers[2] = s2 /\ LinkCallers[3] = s3
      /\ LinkCallers[4] = s4 /\ LinkCallers[5] = s5 /\ LinkCallers[6] = s6 /\ LinkCallers[7] = s7
      /\ LinkCallers[8] = s8 /\ LinkCallers[9] = s9
  BY DEF LinkCallers
<1>4. m \cup {} = m /\ o0 \cup y6 = o1
  OBVIOUS
<1>5. k0 \cup {x7} = k1
  OBVIOUS
<1>6. r0 \cup {x8} = r1
  OBVIOUS
<1>7. r1 \cup {x9} = r2
  OBVIOUS
<1>8. \A z : /\ OnTable("approvals", z, s1) = z /\ OnTable("approvals", z, s2) = z
             /\ OnTable("approvals", z, s3) = z /\ OnTable("approvals", z, s4) = z
             /\ OnTable("approvals", z, s5) = z
  BY Elsewhere
<1> HIDE DEF m, o0, k0, r0, o1, k1, r1, r2, y6, x7, x8, x9, s1, s2, s3, s4, s5, s6, s7, s8, s9
<1>9. OnTable("approvals", Shape(m, o0, k0, r0, {}), s6) = Shape(m, o1, k0, r0, {})
  BY <1>4, OnAdd DEF s6
<1>10. OnTable("approvals", Shape(m, o1, k0, r0, {}), s7) = Shape(m, o1, k1, r0, {})
  BY <1>5, OnKey DEF s7
<1>11. OnTable("approvals", Shape(m, o1, k1, r0, {}), s8) = Shape(m, o1, k1, r1, {})
  BY <1>6, OnRef DEF s8
<1>12. OnTable("approvals", Shape(m, o1, k1, r1, {}), s9) = Shape(m, o1, k1, r2, {})
  BY <1>7, OnRef DEF s9
<1> QED BY <1>1, <1>2, <1>3, <1>9, <1>10, <1>11, <1>12, <1>8, Leads9

LEMMA ApprovalsReview == Leads("approvals", Reviewed, Approvals5, Approvals6)
<1> DEFINE m == {"organization_id", "requested_by"}
           o0 == {"agent_id", "tool_id", "conversation_id", "approved_by", "run_id", "tool_execution_id",
               "tool_name", "workflow_run_id", "workflow_step_run_id"}
           k == {{"tool_execution_id"}, {"workflow_step_run_id"}}
           r == {To("agent_id", "agents", "cascade"), To("approved_by", "users", "null"), To("conversation_id",
               "conversations", "cascade"), Org, To("requested_by", "users", "restrict"), To("tool_id",
               "tools", "restrict"), Within("run_id", "agent_runs", "cascade"), Within("tool_execution_id",
               "tool_executions", "cascade"), Within("workflow_run_id", "workflow_runs", "cascade"),
               Within("workflow_step_run_id", "workflow_step_runs", "cascade")}
           o1 == {"agent_id", "tool_id", "conversation_id", "approved_by", "run_id", "tool_execution_id",
               "tool_name", "workflow_run_id", "workflow_step_run_id", "summary", "summary_fields",
               "decision_reason"}
           y1 == {"summary", "summary_fields", "decision_reason"}
           s1 == AddColumns("approvals", {}, y1)
<1>1. Approvals5 = Shape(m, o0, k, r, {})
  <2>1. Asker = m
    BY DEF Asker
  <2>2. About \cup OfRun \cup OfFlow = o0
    BY DEF About, OfRun, OfFlow
  <2>3. AskRefs \cup RunRefs \cup FlowRefs = r
    BY DEF AskRefs, RunRefs, FlowRefs
  <2> QED BY <2>1, <2>2, <2>3 DEF Approvals5
<1>2. Approvals6 = Shape(m, o1, k, r, {})
  <2>1. Asker = m
    BY DEF Asker
  <2>2. About \cup OfRun \cup OfFlow \cup OfReview = o1
    BY DEF About, OfRun, OfFlow, OfReview
  <2>3. AskRefs \cup RunRefs \cup FlowRefs = r
    BY DEF AskRefs, RunRefs, FlowRefs
  <2> QED BY <2>1, <2>2, <2>3 DEF Approvals6
<1>3. /\ Len(Reviewed) = 1 /\ Reviewed[1] = s1
  BY DEF Reviewed
<1>4. m \cup {} = m /\ o0 \cup y1 = o1
  OBVIOUS
<1> HIDE DEF m, o0, k, r, o1, y1, s1
<1>5. OnTable("approvals", Shape(m, o0, k, r, {}), s1) = Shape(m, o1, k, r, {})
  BY <1>4, OnAdd DEF s1
<1> QED BY <1>1, <1>2, <1>3, <1>5, Leads1

LEMMA RunsEmpty == Leads("workflow_runs", VersionWorkflows, Runs2, Runs2)
<1> DEFINE m == {"organization_id", "workflow_id"}
           r == {Org, To("workflow_id", "workflows", "cascade")}
           c == {<<"workflow_runs", OldRunStatuses>>}
           s1 == Empty("workflow_runs")
           s2 == Empty("workflow_step_runs")
           s3 == AddColumns("workflows", {}, {"version", "status", "definition"})
           s4 == DropKey("workflows", {"organization_id", "name"})
           s5 == UniqueKey("workflows", {"organization_id", "name", "version"})
           s6 == UniqueKey("workflows", OrgKey)
           s7 == Check("workflows", {"version_positive"})
           s8 == RemoveColumns("workflows", {"enabled"})
<1>1. Runs2 = Shape(m, {}, {}, r, c)
  BY DEF Runs2
<1>2. Runs2 = Shape(m, {}, {}, r, c)
  BY DEF Runs2
<1>3. /\ Len(VersionWorkflows) = 8 /\ VersionWorkflows[1] = s1 /\ VersionWorkflows[2] = s2
      /\ VersionWorkflows[3] = s3 /\ VersionWorkflows[4] = s4 /\ VersionWorkflows[5] = s5
      /\ VersionWorkflows[6] = s6 /\ VersionWorkflows[7] = s7 /\ VersionWorkflows[8] = s8
  BY DEF VersionWorkflows
<1>4. \A z : /\ OnTable("workflow_runs", z, s2) = z /\ OnTable("workflow_runs", z, s3) = z
             /\ OnTable("workflow_runs", z, s4) = z /\ OnTable("workflow_runs", z, s5) = z
             /\ OnTable("workflow_runs", z, s6) = z /\ OnTable("workflow_runs", z, s7) = z
             /\ OnTable("workflow_runs", z, s8) = z
  BY Elsewhere
<1> HIDE DEF m, r, c, s1, s2, s3, s4, s5, s6, s7, s8
<1>5. OnTable("workflow_runs", Shape(m, {}, {}, r, c), s1) = Shape(m, {}, {}, r, c)
  BY OnRows DEF s1
<1> QED BY <1>1, <1>2, <1>3, <1>5, <1>4, Leads8

LEMMA StepRunsEmpty == Leads("workflow_step_runs", VersionWorkflows, StepRuns2, StepRuns2)
<1> DEFINE m == {"workflow_run_id", "workflow_step_id"}
           r == {To("workflow_run_id", "workflow_runs", "cascade"), To("workflow_step_id", "workflow_steps",
               "cascade")}
           c == {<<"workflow_step_runs", OldStepStatuses>>}
           s1 == Empty("workflow_runs")
           s2 == Empty("workflow_step_runs")
           s3 == AddColumns("workflows", {}, {"version", "status", "definition"})
           s4 == DropKey("workflows", {"organization_id", "name"})
           s5 == UniqueKey("workflows", {"organization_id", "name", "version"})
           s6 == UniqueKey("workflows", OrgKey)
           s7 == Check("workflows", {"version_positive"})
           s8 == RemoveColumns("workflows", {"enabled"})
<1>1. StepRuns2 = Shape(m, {}, {}, r, c)
  BY DEF StepRuns2
<1>2. StepRuns2 = Shape(m, {}, {}, r, c)
  BY DEF StepRuns2
<1>3. /\ Len(VersionWorkflows) = 8 /\ VersionWorkflows[1] = s1 /\ VersionWorkflows[2] = s2
      /\ VersionWorkflows[3] = s3 /\ VersionWorkflows[4] = s4 /\ VersionWorkflows[5] = s5
      /\ VersionWorkflows[6] = s6 /\ VersionWorkflows[7] = s7 /\ VersionWorkflows[8] = s8
  BY DEF VersionWorkflows
<1>4. \A z : /\ OnTable("workflow_step_runs", z, s1) = z /\ OnTable("workflow_step_runs", z, s3) = z
             /\ OnTable("workflow_step_runs", z, s4) = z /\ OnTable("workflow_step_runs", z, s5) = z
             /\ OnTable("workflow_step_runs", z, s6) = z /\ OnTable("workflow_step_runs", z, s7) = z
             /\ OnTable("workflow_step_runs", z, s8) = z
  BY Elsewhere
<1> HIDE DEF m, r, c, s1, s2, s3, s4, s5, s6, s7, s8
<1>5. OnTable("workflow_step_runs", Shape(m, {}, {}, r, c), s2) = Shape(m, {}, {}, r, c)
  BY OnRows DEF s2
<1> QED BY <1>1, <1>2, <1>3, <1>5, <1>4, Leads8

LEMMA ApprovalsUnreview == Leads("approvals", UndoReviewed, Approvals6, Approvals5)
<1> DEFINE m == {"organization_id", "requested_by"}
           o0 == {"agent_id", "tool_id", "conversation_id", "approved_by", "run_id", "tool_execution_id",
               "tool_name", "workflow_run_id", "workflow_step_run_id", "summary", "summary_fields",
               "decision_reason"}
           k == {{"tool_execution_id"}, {"workflow_step_run_id"}}
           r == {To("agent_id", "agents", "cascade"), To("approved_by", "users", "null"), To("conversation_id",
               "conversations", "cascade"), Org, To("requested_by", "users", "restrict"), To("tool_id",
               "tools", "restrict"), Within("run_id", "agent_runs", "cascade"), Within("tool_execution_id",
               "tool_executions", "cascade"), Within("workflow_run_id", "workflow_runs", "cascade"),
               Within("workflow_step_run_id", "workflow_step_runs", "cascade")}
           o1 == {"agent_id", "tool_id", "conversation_id", "approved_by", "run_id", "tool_execution_id",
               "tool_name", "workflow_run_id", "workflow_step_run_id"}
           x1 == {"decision_reason", "summary_fields", "summary"}
           s1 == RemoveColumns("approvals", x1)
<1>1. Approvals6 = Shape(m, o0, k, r, {})
  <2>1. Asker = m
    BY DEF Asker
  <2>2. About \cup OfRun \cup OfFlow \cup OfReview = o0
    BY DEF About, OfRun, OfFlow, OfReview
  <2>3. AskRefs \cup RunRefs \cup FlowRefs = r
    BY DEF AskRefs, RunRefs, FlowRefs
  <2> QED BY <2>1, <2>2, <2>3 DEF Approvals6
<1>2. Approvals5 = Shape(m, o1, k, r, {})
  <2>1. Asker = m
    BY DEF Asker
  <2>2. About \cup OfRun \cup OfFlow = o1
    BY DEF About, OfRun, OfFlow
  <2>3. AskRefs \cup RunRefs \cup FlowRefs = r
    BY DEF AskRefs, RunRefs, FlowRefs
  <2> QED BY <2>1, <2>2, <2>3 DEF Approvals5
<1>3. /\ Len(UndoReviewed) = 1 /\ UndoReviewed[1] = s1
  BY DEF UndoReviewed
<1>4. m \ x1 = m /\ o0 \ x1 = o1
  OBVIOUS
<1>5. {y \in k : y \cap x1 = {}} = k
  <2>1. {"tool_execution_id"} \cap {"decision_reason", "summary_fields", "summary"} = {}
    OBVIOUS
  <2>2. {"workflow_step_run_id"} \cap {"decision_reason", "summary_fields", "summary"} = {}
    OBVIOUS
  <2> QED BY <2>1, <2>2
<1>6. {y \in r : Clears(y) \cap x1 = {}} = r
  <2>1. Clears(To("agent_id", "agents", "cascade")) \cap {"decision_reason", "summary_fields", "summary"} = {}
    BY ClearsOf
  <2>2. Clears(To("approved_by", "users", "null")) \cap {"decision_reason", "summary_fields", "summary"} = {}
    BY ClearsOf
  <2>3. Clears(To("conversation_id", "conversations", "cascade")) \cap {"decision_reason", "summary_fields",
      "summary"} = {}
    BY ClearsOf
  <2>4. Clears(Org) \cap {"decision_reason", "summary_fields", "summary"} = {}
    BY ClearsOf
  <2>5. Clears(To("requested_by", "users", "restrict")) \cap {"decision_reason", "summary_fields",
      "summary"} = {}
    BY ClearsOf
  <2>6. Clears(To("tool_id", "tools", "restrict")) \cap {"decision_reason", "summary_fields", "summary"} = {}
    BY ClearsOf
  <2>7. Clears(Within("run_id", "agent_runs", "cascade")) \cap {"decision_reason", "summary_fields",
      "summary"} = {}
    BY ClearsOf
  <2>8. Clears(Within("tool_execution_id", "tool_executions", "cascade")) \cap {"decision_reason",
      "summary_fields", "summary"} = {}
    BY ClearsOf
  <2>9. Clears(Within("workflow_run_id", "workflow_runs", "cascade")) \cap {"decision_reason",
      "summary_fields", "summary"} = {}
    BY ClearsOf
  <2>10. Clears(Within("workflow_step_run_id", "workflow_step_runs", "cascade")) \cap {"decision_reason",
      "summary_fields", "summary"} = {}
    BY ClearsOf
  <2> QED BY <2>1, <2>2, <2>3, <2>4, <2>5, <2>6, <2>7, <2>8, <2>9, <2>10
<1> HIDE DEF m, o0, k, r, o1, x1, s1
<1>7. OnTable("approvals", Shape(m, o0, k, r, {}), s1) = Shape(m, o1, k, r, {})
  BY <1>4, <1>5, <1>6, OnRemove DEF s1
<1> QED BY <1>1, <1>2, <1>3, <1>7, Leads1

LEMMA ApprovalsUnflow == Leads("approvals", UnlinkCallers, Approvals5, Approvals4)
<1> DEFINE m == {"organization_id", "requested_by"}
           o0 == {"agent_id", "tool_id", "conversation_id", "approved_by", "run_id", "tool_execution_id",
               "tool_name", "workflow_run_id", "workflow_step_run_id"}
           k0 == {{"tool_execution_id"}, {"workflow_step_run_id"}}
           r0 == {To("agent_id", "agents", "cascade"), To("approved_by", "users", "null"),
               To("conversation_id", "conversations", "cascade"), Org, To("requested_by", "users", "restrict"),
               To("tool_id", "tools", "restrict"), Within("run_id", "agent_runs", "cascade"),
               Within("tool_execution_id", "tool_executions", "cascade"), Within("workflow_run_id",
               "workflow_runs", "cascade"), Within("workflow_step_run_id", "workflow_step_runs", "cascade")}
           r1 == {To("agent_id", "agents", "cascade"), To("approved_by", "users", "null"),
               To("conversation_id", "conversations", "cascade"), Org, To("requested_by", "users", "restrict"),
               To("tool_id", "tools", "restrict"), Within("run_id", "agent_runs", "cascade"),
               Within("tool_execution_id", "tool_executions", "cascade"), Within("workflow_run_id",
               "workflow_runs", "cascade")}
           r2 == {To("agent_id", "agents", "cascade"), To("approved_by", "users", "null"),
               To("conversation_id", "conversations", "cascade"), Org, To("requested_by", "users", "restrict"),
               To("tool_id", "tools", "restrict"), Within("run_id", "agent_runs", "cascade"),
               Within("tool_execution_id", "tool_executions", "cascade")}
           k1 == {{"tool_execution_id"}}
           o1 == {"agent_id", "tool_id", "conversation_id", "approved_by", "run_id", "tool_execution_id",
               "tool_name"}
           x3 == Within("workflow_step_run_id", "workflow_step_runs", "cascade")
           x4 == Within("workflow_run_id", "workflow_runs", "cascade")
           x5 == {"workflow_step_run_id"}
           x6 == {"workflow_step_run_id", "workflow_run_id"}
           s1 == PurgeAll("workflow_runs")
           s2 == PurgeNull("tool_executions", "run_id")
           s3 == DropRef("approvals", x3)
           s4 == DropRef("approvals", x4)
           s5 == DropKey("approvals", x5)
           s6 == RemoveColumns("approvals", x6)
           s7 == DropCheck("tool_executions", {"exactly_one_caller"})
           s8 == DropRef("tool_executions", Within("workflow_step_run_id", "workflow_step_runs", "cascade"))
           s9 == DropKey("tool_executions", {"workflow_step_run_id"})
           s10 == Require("tool_executions", "run_id")
           s11 == RemoveColumns("tool_executions", {"workflow_step_run_id"})
<1>1. Approvals5 = Shape(m, o0, k0, r0, {})
  <2>1. Asker = m
    BY DEF Asker
  <2>2. About \cup OfRun \cup OfFlow = o0
    BY DEF About, OfRun, OfFlow
  <2>3. AskRefs \cup RunRefs \cup FlowRefs = r0
    BY DEF AskRefs, RunRefs, FlowRefs
  <2> QED BY <2>1, <2>2, <2>3 DEF Approvals5
<1>2. Approvals4 = Shape(m, o1, k1, r2, {})
  <2>1. Asker = m
    BY DEF Asker
  <2>2. About \cup OfRun = o1
    BY DEF About, OfRun
  <2>3. AskRefs \cup RunRefs = r2
    BY DEF AskRefs, RunRefs
  <2> QED BY <2>1, <2>2, <2>3 DEF Approvals4
<1>3. /\ Len(UnlinkCallers) = 11 /\ UnlinkCallers[1] = s1 /\ UnlinkCallers[2] = s2 /\ UnlinkCallers[3] = s3
      /\ UnlinkCallers[4] = s4 /\ UnlinkCallers[5] = s5 /\ UnlinkCallers[6] = s6 /\ UnlinkCallers[7] = s7
      /\ UnlinkCallers[8] = s8 /\ UnlinkCallers[9] = s9 /\ UnlinkCallers[10] = s10 /\ UnlinkCallers[11] = s11
  BY DEF UnlinkCallers
<1>4. r0 \ {x3} = r1
  <2>1. To("agent_id", "agents", "cascade") # Within("workflow_step_run_id", "workflow_step_runs",
      "cascade") /\ To("approved_by", "users", "null") # Within("workflow_step_run_id", "workflow_step_runs",
      "cascade") /\ To("conversation_id", "conversations", "cascade") # Within("workflow_step_run_id",
      "workflow_step_runs", "cascade") /\ Org # Within("workflow_step_run_id", "workflow_step_runs",
      "cascade") /\ To("requested_by", "users", "restrict") # Within("workflow_step_run_id",
      "workflow_step_runs", "cascade") /\ To("tool_id", "tools", "restrict") # Within("workflow_step_run_id",
      "workflow_step_runs", "cascade") /\ Within("run_id", "agent_runs",
      "cascade") # Within("workflow_step_run_id", "workflow_step_runs",
      "cascade") /\ Within("tool_execution_id", "tool_executions", "cascade") # Within("workflow_step_run_id",
      "workflow_step_runs", "cascade") /\ Within("workflow_run_id", "workflow_runs",
      "cascade") # Within("workflow_step_run_id", "workflow_step_runs", "cascade")
    BY ColOf
  <2> QED BY <2>1
<1>5. r1 \ {x4} = r2
  <2>1. To("agent_id", "agents", "cascade") # Within("workflow_run_id", "workflow_runs",
      "cascade") /\ To("approved_by", "users", "null") # Within("workflow_run_id", "workflow_runs",
      "cascade") /\ To("conversation_id", "conversations", "cascade") # Within("workflow_run_id",
      "workflow_runs", "cascade") /\ Org # Within("workflow_run_id", "workflow_runs",
      "cascade") /\ To("requested_by", "users", "restrict") # Within("workflow_run_id", "workflow_runs",
      "cascade") /\ To("tool_id", "tools", "restrict") # Within("workflow_run_id", "workflow_runs",
      "cascade") /\ Within("run_id", "agent_runs", "cascade") # Within("workflow_run_id", "workflow_runs",
      "cascade") /\ Within("tool_execution_id", "tool_executions", "cascade") # Within("workflow_run_id",
      "workflow_runs", "cascade")
    BY ColOf
  <2> QED BY <2>1
<1>6. k0 \ {x5} = k1
  <2>1. {"tool_execution_id"} # {"workflow_step_run_id"}
    OBVIOUS
  <2> QED BY <2>1
<1>7. m \ x6 = m /\ o0 \ x6 = o1
  OBVIOUS
<1>8. {y \in k1 : y \cap x6 = {}} = k1
  <2>1. {"tool_execution_id"} \cap {"workflow_step_run_id", "workflow_run_id"} = {}
    OBVIOUS
  <2> QED BY <2>1
<1>9. {y \in r2 : Clears(y) \cap x6 = {}} = r2
  <2>1. Clears(To("agent_id", "agents", "cascade")) \cap {"workflow_step_run_id", "workflow_run_id"} = {}
    BY ClearsOf
  <2>2. Clears(To("approved_by", "users", "null")) \cap {"workflow_step_run_id", "workflow_run_id"} = {}
    BY ClearsOf
  <2>3. Clears(To("conversation_id", "conversations", "cascade")) \cap {"workflow_step_run_id",
      "workflow_run_id"} = {}
    BY ClearsOf
  <2>4. Clears(Org) \cap {"workflow_step_run_id", "workflow_run_id"} = {}
    BY ClearsOf
  <2>5. Clears(To("requested_by", "users", "restrict")) \cap {"workflow_step_run_id", "workflow_run_id"} = {}
    BY ClearsOf
  <2>6. Clears(To("tool_id", "tools", "restrict")) \cap {"workflow_step_run_id", "workflow_run_id"} = {}
    BY ClearsOf
  <2>7. Clears(Within("run_id", "agent_runs", "cascade")) \cap {"workflow_step_run_id", "workflow_run_id"} = {}
    BY ClearsOf
  <2>8. Clears(Within("tool_execution_id", "tool_executions", "cascade")) \cap {"workflow_step_run_id",
      "workflow_run_id"} = {}
    BY ClearsOf
  <2> QED BY <2>1, <2>2, <2>3, <2>4, <2>5, <2>6, <2>7, <2>8
<1>10. \A z : /\ OnTable("approvals", z, s1) = z /\ OnTable("approvals", z, s2) = z
              /\ OnTable("approvals", z, s7) = z /\ OnTable("approvals", z, s8) = z
              /\ OnTable("approvals", z, s9) = z /\ OnTable("approvals", z, s10) = z
              /\ OnTable("approvals", z, s11) = z
  BY Elsewhere
<1> HIDE DEF m, o0, k0, r0, r1, r2, k1, o1, x3, x4, x5, x6, s1, s2, s3, s4, s5, s6, s7, s8, s9, s10, s11
<1>11. OnTable("approvals", Shape(m, o0, k0, r0, {}), s3) = Shape(m, o0, k0, r1, {})
  BY <1>4, OnDropRef DEF s3
<1>12. OnTable("approvals", Shape(m, o0, k0, r1, {}), s4) = Shape(m, o0, k0, r2, {})
  BY <1>5, OnDropRef DEF s4
<1>13. OnTable("approvals", Shape(m, o0, k0, r2, {}), s5) = Shape(m, o0, k1, r2, {})
  BY <1>6, OnDropKey DEF s5
<1>14. OnTable("approvals", Shape(m, o0, k1, r2, {}), s6) = Shape(m, o1, k1, r2, {})
  BY <1>7, <1>8, <1>9, OnRemove DEF s6
<1> QED BY <1>1, <1>2, <1>3, <1>11, <1>12, <1>13, <1>14, <1>10, Leads11

LEMMA CallersDown == Leads("tool_executions", UnlinkCallers, Executions5, Executions4)
<1> DEFINE m0 == {"step_number", "organization_id"}
           o0 == {"run_id", "workflow_step_run_id"}
           k0 == {OrgKey, {"run_id", "step_number"}, {"workflow_step_run_id"}}
           r0 == {Org, Within("run_id", "agent_runs", "cascade"), Within("workflow_step_run_id",
               "workflow_step_runs", "cascade")}
           c0 == {<<"tool_executions", {"exactly_one_caller"}>>}
           r1 == {Org, Within("run_id", "agent_runs", "cascade")}
           k1 == {OrgKey, {"run_id", "step_number"}}
           m1 == {"step_number", "organization_id", "run_id"}
           o1 == {"workflow_step_run_id"}
           x7 == {"exactly_one_caller"}
           x8 == Within("workflow_step_run_id", "workflow_step_runs", "cascade")
           x9 == {"workflow_step_run_id"}
           x11 == {"workflow_step_run_id"}
           s1 == PurgeAll("workflow_runs")
           s2 == PurgeNull("tool_executions", "run_id")
           s3 == DropRef("approvals", Within("workflow_step_run_id", "workflow_step_runs", "cascade"))
           s4 == DropRef("approvals", Within("workflow_run_id", "workflow_runs", "cascade"))
           s5 == DropKey("approvals", {"workflow_step_run_id"})
           s6 == RemoveColumns("approvals", {"workflow_step_run_id", "workflow_run_id"})
           s7 == DropCheck("tool_executions", x7)
           s8 == DropRef("tool_executions", x8)
           s9 == DropKey("tool_executions", x9)
           s10 == Require("tool_executions", "run_id")
           s11 == RemoveColumns("tool_executions", x11)
<1>1. Executions5 = Shape(m0, o0, k0, r0, c0)
  <2>1. {OrgKey, NumberKey, {"workflow_step_run_id"}} = k0
    BY DEF NumberKey
  <2> QED BY <2>1 DEF Executions5
<1>2. Executions4 = Shape(m1, {}, k1, r1, {})
  <2>1. {OrgKey, NumberKey} = k1
    BY DEF NumberKey
  <2> QED BY <2>1 DEF Executions4
<1>3. /\ Len(UnlinkCallers) = 11 /\ UnlinkCallers[1] = s1 /\ UnlinkCallers[2] = s2 /\ UnlinkCallers[3] = s3
      /\ UnlinkCallers[4] = s4 /\ UnlinkCallers[5] = s5 /\ UnlinkCallers[6] = s6 /\ UnlinkCallers[7] = s7
      /\ UnlinkCallers[8] = s8 /\ UnlinkCallers[9] = s9 /\ UnlinkCallers[10] = s10 /\ UnlinkCallers[11] = s11
  BY DEF UnlinkCallers
<1>4. c0 \ {<<"tool_executions", x7>>} = {}
  OBVIOUS
<1>5. r0 \ {x8} = r1
  <2>1. Org # Within("workflow_step_run_id", "workflow_step_runs", "cascade") /\ Within("run_id", "agent_runs",
      "cascade") # Within("workflow_step_run_id", "workflow_step_runs", "cascade")
    BY ColOf
  <2> QED BY <2>1
<1>6. k0 \ {x9} = k1
  <2>1. OrgKey # {"workflow_step_run_id"}
    BY DEF OrgKey
  <2>2. {"run_id", "step_number"} # {"workflow_step_run_id"}
    OBVIOUS
  <2> QED BY <2>1, <2>2
<1>7. m0 \cup {"run_id"} = m1 /\ o0 \ {"run_id"} = o1
  OBVIOUS
<1>8. m1 \ x11 = m1 /\ o1 \ x11 = {}
  OBVIOUS
<1>9. {y \in k1 : y \cap x11 = {}} = k1
  <2>1. OrgKey \cap {"workflow_step_run_id"} = {}
    BY DEF OrgKey
  <2>2. {"run_id", "step_number"} \cap {"workflow_step_run_id"} = {}
    OBVIOUS
  <2> QED BY <2>1, <2>2
<1>10. {y \in r1 : Clears(y) \cap x11 = {}} = r1
  <2>1. Clears(Org) \cap {"workflow_step_run_id"} = {}
    BY ClearsOf
  <2>2. Clears(Within("run_id", "agent_runs", "cascade")) \cap {"workflow_step_run_id"} = {}
    BY ClearsOf
  <2> QED BY <2>1, <2>2
<1>11. \A z : /\ OnTable("tool_executions", z, s1) = z /\ OnTable("tool_executions", z, s3) = z
              /\ OnTable("tool_executions", z, s4) = z /\ OnTable("tool_executions", z, s5) = z
              /\ OnTable("tool_executions", z, s6) = z
  BY Elsewhere
<1> HIDE DEF m0, o0, k0, r0, c0, r1, k1, m1, o1, x7, x8, x9, x11, s1, s2, s3, s4, s5, s6, s7, s8, s9, s10, s11
<1>12. OnTable("tool_executions", Shape(m0, o0, k0, r0, c0), s2) = Shape(m0, o0, k0, r0, c0)
  BY OnRows DEF s2
<1>13. OnTable("tool_executions", Shape(m0, o0, k0, r0, c0), s7) = Shape(m0, o0, k0, r0, {})
  BY <1>4, OnDropCheck DEF s7
<1>14. OnTable("tool_executions", Shape(m0, o0, k0, r0, {}), s8) = Shape(m0, o0, k0, r1, {})
  BY <1>5, OnDropRef DEF s8
<1>15. OnTable("tool_executions", Shape(m0, o0, k0, r1, {}), s9) = Shape(m0, o0, k1, r1, {})
  BY <1>6, OnDropKey DEF s9
<1>16. OnTable("tool_executions", Shape(m0, o0, k1, r1, {}), s10) = Shape(m1, o1, k1, r1, {})
  BY <1>7, OnRequire DEF s10
<1>17. OnTable("tool_executions", Shape(m1, o1, k1, r1, {}), s11) = Shape(m1, {}, k1, r1, {})
  BY <1>8, <1>9, <1>10, OnRemove DEF s11
<1> QED BY <1>1, <1>2, <1>3, <1>12, <1>13, <1>14, <1>15, <1>16, <1>17, <1>11, Leads11

LEMMA RunsPurged == Leads("workflow_runs", UnlinkCallers, Runs5, Runs5)
<1> DEFINE m == {"organization_id", "workflow_id", "user_id"}
           o == {"workflow_version", "current_step", "step_count", "input_data", "output_data",
               "idempotency_key", "request_id", "error_code"}
           k == {{"organization_id", "idempotency_key"}, OrgKey}
           r == {Org, To("user_id", "users", "restrict"), Within("workflow_id", "workflows", "cascade")}
           c == {<<"workflow_runs", RunStatuses>>, <<"workflow_runs", {"step_count_not_negative"}>>,
               <<"workflow_runs", {"workflow_version_positive"}>>}
           s1 == PurgeAll("workflow_runs")
           s2 == PurgeNull("tool_executions", "run_id")
           s3 == DropRef("approvals", Within("workflow_step_run_id", "workflow_step_runs", "cascade"))
           s4 == DropRef("approvals", Within("workflow_run_id", "workflow_runs", "cascade"))
           s5 == DropKey("approvals", {"workflow_step_run_id"})
           s6 == RemoveColumns("approvals", {"workflow_step_run_id", "workflow_run_id"})
           s7 == DropCheck("tool_executions", {"exactly_one_caller"})
           s8 == DropRef("tool_executions", Within("workflow_step_run_id", "workflow_step_runs", "cascade"))
           s9 == DropKey("tool_executions", {"workflow_step_run_id"})
           s10 == Require("tool_executions", "run_id")
           s11 == RemoveColumns("tool_executions", {"workflow_step_run_id"})
<1>1. Runs5 = Shape(m, o, k, r, c)
  <2>1. {IdemKey, OrgKey} = k
    BY DEF IdemKey
  <2> QED BY <2>1 DEF Runs5
<1>2. Runs5 = Shape(m, o, k, r, c)
  <2>1. {IdemKey, OrgKey} = k
    BY DEF IdemKey
  <2> QED BY <2>1 DEF Runs5
<1>3. /\ Len(UnlinkCallers) = 11 /\ UnlinkCallers[1] = s1 /\ UnlinkCallers[2] = s2 /\ UnlinkCallers[3] = s3
      /\ UnlinkCallers[4] = s4 /\ UnlinkCallers[5] = s5 /\ UnlinkCallers[6] = s6 /\ UnlinkCallers[7] = s7
      /\ UnlinkCallers[8] = s8 /\ UnlinkCallers[9] = s9 /\ UnlinkCallers[10] = s10 /\ UnlinkCallers[11] = s11
  BY DEF UnlinkCallers
<1>4. \A z : /\ OnTable("workflow_runs", z, s2) = z /\ OnTable("workflow_runs", z, s3) = z
             /\ OnTable("workflow_runs", z, s4) = z /\ OnTable("workflow_runs", z, s5) = z
             /\ OnTable("workflow_runs", z, s6) = z /\ OnTable("workflow_runs", z, s7) = z
             /\ OnTable("workflow_runs", z, s8) = z /\ OnTable("workflow_runs", z, s9) = z
             /\ OnTable("workflow_runs", z, s10) = z /\ OnTable("workflow_runs", z, s11) = z
  BY Elsewhere
<1> HIDE DEF m, o, k, r, c, s1, s2, s3, s4, s5, s6, s7, s8, s9, s10, s11
<1>5. OnTable("workflow_runs", Shape(m, o, k, r, c), s1) = Shape(m, o, k, r, c)
  BY OnRows DEF s1
<1> QED BY <1>1, <1>2, <1>3, <1>5, <1>4, Leads11

LEMMA StepRunsDown == Leads("workflow_step_runs", RestoreStepRuns, StepRuns5, StepRuns2)
<1> DEFINE m0 == {"workflow_run_id", "organization_id", "step_key", "step_type", "position"}
           o0 == {"workflow_step_id", "agent_run_id", "error_code"}
           k0 == {{"workflow_run_id", "step_key"}, {"workflow_run_id", "position"}, OrgKey}
           r0 == {To("workflow_step_id", "workflow_steps", "cascade"), Org, Within("workflow_run_id",
               "workflow_runs", "cascade"), Within("agent_run_id", "agent_runs", "null")}
           c0 == {<<"workflow_step_runs", StepStatuses>>, <<"workflow_step_runs", {"position_positive"}>>}
           c1 == {<<"workflow_step_runs", StepStatuses>>}
           k1 == {{"workflow_run_id", "step_key"}, {"workflow_run_id", "position"}}
           k2 == {{"workflow_run_id", "step_key"}}
           r1 == {To("workflow_step_id", "workflow_steps", "cascade"), Org, Within("workflow_run_id",
               "workflow_runs", "cascade")}
           r2 == {To("workflow_step_id", "workflow_steps", "cascade"), Org}
           r3 == {To("workflow_step_id", "workflow_steps", "cascade")}
           c2 == {<<"workflow_step_runs", OldStepStatuses>>}
           m1 == {"workflow_run_id", "organization_id", "step_key", "step_type", "position", "workflow_step_id"}
           o1 == {"agent_run_id", "error_code"}
           m2 == {"workflow_run_id", "workflow_step_id"}
           r4 == {To("workflow_step_id", "workflow_steps", "cascade"), To("workflow_run_id", "workflow_runs",
               "cascade")}
           x1 == {"position_positive"}
           x2 == OrgKey
           x3 == {"workflow_run_id", "position"}
           x4 == {"workflow_run_id", "step_key"}
           x5 == Within("agent_run_id", "agent_runs", "null")
           x6 == Within("workflow_run_id", "workflow_runs", "cascade")
           x7 == Org
           x8 == StepStatuses
           x9 == OldStepStatuses
           x11 == {"error_code", "agent_run_id", "position", "step_type", "step_key", "organization_id"}
           x12 == To("workflow_run_id", "workflow_runs", "cascade")
           s1 == DropCheck("workflow_step_runs", x1)
           s2 == DropKey("workflow_step_runs", x2)
           s3 == DropKey("workflow_step_runs", x3)
           s4 == DropKey("workflow_step_runs", x4)
           s5 == DropRef("workflow_step_runs", x5)
           s6 == DropRef("workflow_step_runs", x6)
           s7 == DropRef("workflow_step_runs", x7)
           s8 == DropCheck("workflow_step_runs", x8)
           s9 == Check("workflow_step_runs", x9)
           s10 == Require("workflow_step_runs", "workflow_step_id")
           s11 == RemoveColumns("workflow_step_runs", x11)
           s12 == Ref("workflow_step_runs", x12)
<1>1. StepRuns5 = Shape(m0, o0, k0, r0, c0)
  <2>1. {StepKey, PlaceKey, OrgKey} = k0
    BY DEF StepKey, PlaceKey
  <2> QED BY <2>1 DEF StepRuns5
<1>2. StepRuns2 = Shape(m2, {}, {}, r4, c2)
  <2>1. {To("workflow_run_id", "workflow_runs", "cascade"), To("workflow_step_id", "workflow_steps",
      "cascade")} = r4
    OBVIOUS
  <2> QED BY <2>1 DEF StepRuns2
<1>3. RestoreStepRuns = (<<s1, s2, s3, s4, s5, s6, s7>> \o <<s8, s9>>) \o <<s10, s11, s12>>
  BY DEF RestoreStepRuns, Widen
<1>4. c0 \ {<<"workflow_step_runs", x1>>} = c1
  <2>1. StepStatuses # {"position_positive"}
    BY StatusesApart
  <2> QED BY <2>1
<1>5. k0 \ {x2} = k1
  <2>1. {"workflow_run_id", "step_key"} # OrgKey
    BY DEF OrgKey
  <2>2. {"workflow_run_id", "position"} # OrgKey
    BY DEF OrgKey
  <2> QED BY <2>1, <2>2
<1>6. k1 \ {x3} = k2
  <2>1. {"workflow_run_id", "step_key"} # {"workflow_run_id", "position"}
    OBVIOUS
  <2> QED BY <2>1
<1>7. k2 \ {x4} = {}
  OBVIOUS
<1>8. r0 \ {x5} = r1
  <2>1. To("workflow_step_id", "workflow_steps", "cascade") # Within("agent_run_id", "agent_runs",
      "null") /\ Org # Within("agent_run_id", "agent_runs", "null") /\ Within("workflow_run_id",
      "workflow_runs", "cascade") # Within("agent_run_id", "agent_runs", "null")
    BY ColOf
  <2> QED BY <2>1
<1>9. r1 \ {x6} = r2
  <2>1. To("workflow_step_id", "workflow_steps", "cascade") # Within("workflow_run_id", "workflow_runs",
      "cascade") /\ Org # Within("workflow_run_id", "workflow_runs", "cascade")
    BY ColOf
  <2> QED BY <2>1
<1>10. r2 \ {x7} = r3
  <2>1. To("workflow_step_id", "workflow_steps", "cascade") # Org
    BY ColOf
  <2> QED BY <2>1
<1>11. c1 \ {<<"workflow_step_runs", x8>>} = {}
  OBVIOUS
<1>12. {} \cup {<<"workflow_step_runs", x9>>} = c2
  OBVIOUS
<1>13. m0 \cup {"workflow_step_id"} = m1 /\ o0 \ {"workflow_step_id"} = o1
  OBVIOUS
<1>14. m1 \ x11 = m2 /\ o1 \ x11 = {}
  OBVIOUS
<1>15. {y \in {} : y \cap x11 = {}} = {}
  OBVIOUS
<1>16. {y \in r3 : Clears(y) \cap x11 = {}} = r3
  <2>1. Clears(To("workflow_step_id", "workflow_steps", "cascade")) \cap {"error_code", "agent_run_id",
      "position", "step_type", "step_key", "organization_id"} = {}
    BY ClearsOf
  <2> QED BY <2>1
<1>17. r3 \cup {x12} = r4
  OBVIOUS
<1> HIDE DEF m0, o0, k0, r0, c0, c1, k1, k2, r1, r2, r3, c2, m1, o1, m2, r4, x1, x2, x3, x4, x5, x6, x7, x8,
    x9, x11, x12, s1, s2, s3, s4, s5, s6, s7, s8, s9, s10, s11, s12
<1>18. OnTable("workflow_step_runs", Shape(m0, o0, k0, r0, c0), s1) = Shape(m0, o0, k0, r0, c1)
  BY <1>4, OnDropCheck DEF s1
<1>19. OnTable("workflow_step_runs", Shape(m0, o0, k0, r0, c1), s2) = Shape(m0, o0, k1, r0, c1)
  BY <1>5, OnDropKey DEF s2
<1>20. OnTable("workflow_step_runs", Shape(m0, o0, k1, r0, c1), s3) = Shape(m0, o0, k2, r0, c1)
  BY <1>6, OnDropKey DEF s3
<1>21. OnTable("workflow_step_runs", Shape(m0, o0, k2, r0, c1), s4) = Shape(m0, o0, {}, r0, c1)
  BY <1>7, OnDropKey DEF s4
<1>22. OnTable("workflow_step_runs", Shape(m0, o0, {}, r0, c1), s5) = Shape(m0, o0, {}, r1, c1)
  BY <1>8, OnDropRef DEF s5
<1>23. OnTable("workflow_step_runs", Shape(m0, o0, {}, r1, c1), s6) = Shape(m0, o0, {}, r2, c1)
  BY <1>9, OnDropRef DEF s6
<1>24. OnTable("workflow_step_runs", Shape(m0, o0, {}, r2, c1), s7) = Shape(m0, o0, {}, r3, c1)
  BY <1>10, OnDropRef DEF s7
<1>25. OnTable("workflow_step_runs", Shape(m0, o0, {}, r3, c1), s8) = Shape(m0, o0, {}, r3, {})
  BY <1>11, OnDropCheck DEF s8
<1>26. OnTable("workflow_step_runs", Shape(m0, o0, {}, r3, {}), s9) = Shape(m0, o0, {}, r3, c2)
  BY <1>12, OnCheck DEF s9
<1>27. OnTable("workflow_step_runs", Shape(m0, o0, {}, r3, c2), s10) = Shape(m1, o1, {}, r3, c2)
  BY <1>13, OnRequire DEF s10
<1>28. OnTable("workflow_step_runs", Shape(m1, o1, {}, r3, c2), s11) = Shape(m2, {}, {}, r3, c2)
  BY <1>14, <1>15, <1>16, OnRemove DEF s11
<1>29. OnTable("workflow_step_runs", Shape(m2, {}, {}, r3, c2), s12) = Shape(m2, {}, {}, r4, c2)
  BY <1>17, OnRef DEF s12
<1>30. IsList(<<s1, s2, s3, s4, s5, s6, s7>>) /\ Leads("workflow_step_runs", <<s1, s2, s3, s4, s5, s6, s7>>,
    Shape(m0, o0, k0, r0, c0), Shape(m0, o0, {}, r3, c1))
  <2>1. IsList(<<s1, s2, s3, s4, s5, s6, s7>>)
    BY List7
  <2>2. Leads("workflow_step_runs", <<s1, s2, s3, s4, s5, s6, s7>>, Shape(m0, o0, k0, r0, c0), Shape(m0, o0,
      {}, r3, c1))
    BY <1>18, <1>19, <1>20, <1>21, <1>22, <1>23, <1>24, Leads7
  <2> QED BY <2>1, <2>2
<1>31. IsList(<<s8, s9>>) /\ Leads("workflow_step_runs", <<s8, s9>>, Shape(m0, o0, {}, r3, c1), Shape(m0, o0,
    {}, r3, c2))
  <2>1. IsList(<<s8, s9>>)
    BY List2
  <2>2. Leads("workflow_step_runs", <<s8, s9>>, Shape(m0, o0, {}, r3, c1), Shape(m0, o0, {}, r3, c2))
    BY <1>25, <1>26, Leads2
  <2> QED BY <2>1, <2>2
<1>32. IsList(<<s10, s11, s12>>) /\ Leads("workflow_step_runs", <<s10, s11, s12>>, Shape(m0, o0, {}, r3, c2),
    Shape(m2, {}, {}, r4, c2))
  <2>1. IsList(<<s10, s11, s12>>)
    BY List3
  <2>2. Leads("workflow_step_runs", <<s10, s11, s12>>, Shape(m0, o0, {}, r3, c2), Shape(m2, {}, {}, r4, c2))
    BY <1>27, <1>28, <1>29, Leads3
  <2> QED BY <2>1, <2>2
<1>33. IsList(<<s1, s2, s3, s4, s5, s6, s7>> \o <<s8, s9>>) /\ Leads("workflow_step_runs", <<s1, s2, s3, s4,
    s5, s6, s7>> \o <<s8, s9>>, Shape(m0, o0, k0, r0, c0), Shape(m0, o0, {}, r3, c2))
  BY <1>30, <1>31, LeadsOn, ConcatOps
<1>34. Leads("workflow_step_runs", (<<s1, s2, s3, s4, s5, s6, s7>> \o <<s8, s9>>) \o <<s10, s11, s12>>,
    Shape(m0, o0, k0, r0, c0), Shape(m2, {}, {}, r4, c2))
  BY <1>33, <1>32, LeadsOn
<1> QED BY <1>1, <1>2, <1>3, <1>34

LEMMA RunsDown == Leads("workflow_runs", RestoreRuns, Runs5, Runs2)
<1> DEFINE m0 == {"organization_id", "workflow_id", "user_id"}
           o0 == {"workflow_version", "current_step", "step_count", "input_data", "output_data",
               "idempotency_key", "request_id", "error_code"}
           k0 == {{"organization_id", "idempotency_key"}, OrgKey}
           r0 == {Org, To("user_id", "users", "restrict"), Within("workflow_id", "workflows", "cascade")}
           c0 == {<<"workflow_runs", RunStatuses>>, <<"workflow_runs", {"step_count_not_negative"}>>,
               <<"workflow_runs", {"workflow_version_positive"}>>}
           c1 == {<<"workflow_runs", RunStatuses>>, <<"workflow_runs", {"step_count_not_negative"}>>}
           c2 == {<<"workflow_runs", RunStatuses>>}
           k1 == {{"organization_id", "idempotency_key"}}
           r1 == {Org, To("user_id", "users", "restrict")}
           r2 == {Org}
           c3 == {<<"workflow_runs", OldRunStatuses>>}
           m1 == {"organization_id", "workflow_id"}
           r3 == {Org, To("workflow_id", "workflows", "cascade")}
           x1 == {"workflow_version_positive"}
           x2 == {"step_count_not_negative"}
           x3 == OrgKey
           x4 == {"organization_id", "idempotency_key"}
           x5 == Within("workflow_id", "workflows", "cascade")
           x6 == To("user_id", "users", "restrict")
           x7 == RunStatuses
           x8 == OldRunStatuses
           x9 == {"error_code", "request_id", "idempotency_key", "output_data", "input_data", "step_count",
               "current_step", "user_id", "workflow_version"}
           x10 == To("workflow_id", "workflows", "cascade")
           s1 == DropCheck("workflow_runs", x1)
           s2 == DropCheck("workflow_runs", x2)
           s3 == DropKey("workflow_runs", x3)
           s4 == DropKey("workflow_runs", x4)
           s5 == DropRef("workflow_runs", x5)
           s6 == DropRef("workflow_runs", x6)
           s7 == DropCheck("workflow_runs", x7)
           s8 == Check("workflow_runs", x8)
           s9 == RemoveColumns("workflow_runs", x9)
           s10 == Ref("workflow_runs", x10)
<1>1. Runs5 = Shape(m0, o0, k0, r0, c0)
  <2>1. {IdemKey, OrgKey} = k0
    BY DEF IdemKey
  <2> QED BY <2>1 DEF Runs5
<1>2. Runs2 = Shape(m1, {}, {}, r3, c3)
  BY DEF Runs2
<1>3. RestoreRuns = (<<s1, s2, s3, s4, s5, s6>> \o <<s7, s8>>) \o <<s9, s10>>
  BY DEF RestoreRuns, Widen
<1>4. c0 \ {<<"workflow_runs", x1>>} = c1
  <2>1. RunStatuses # {"workflow_version_positive"} /\ {"step_count_not_negative"} # {"workflow_version_positive"}
    BY StatusesApart
  <2> QED BY <2>1
<1>5. c1 \ {<<"workflow_runs", x2>>} = c2
  <2>1. RunStatuses # {"step_count_not_negative"}
    BY StatusesApart
  <2> QED BY <2>1
<1>6. k0 \ {x3} = k1
  <2>1. {"organization_id", "idempotency_key"} # OrgKey
    BY DEF OrgKey
  <2> QED BY <2>1
<1>7. k1 \ {x4} = {}
  OBVIOUS
<1>8. r0 \ {x5} = r1
  <2>1. Org # Within("workflow_id", "workflows", "cascade") /\ To("user_id", "users",
      "restrict") # Within("workflow_id", "workflows", "cascade")
    BY ColOf
  <2> QED BY <2>1
<1>9. r1 \ {x6} = r2
  <2>1. Org # To("user_id", "users", "restrict")
    BY ColOf
  <2> QED BY <2>1
<1>10. c2 \ {<<"workflow_runs", x7>>} = {}
  OBVIOUS
<1>11. {} \cup {<<"workflow_runs", x8>>} = c3
  OBVIOUS
<1>12. m0 \ x9 = m1 /\ o0 \ x9 = {}
  OBVIOUS
<1>13. {y \in {} : y \cap x9 = {}} = {}
  OBVIOUS
<1>14. {y \in r2 : Clears(y) \cap x9 = {}} = r2
  <2>1. Clears(Org) \cap {"error_code", "request_id", "idempotency_key", "output_data", "input_data",
      "step_count", "current_step", "user_id", "workflow_version"} = {}
    BY ClearsOf
  <2> QED BY <2>1
<1>15. r2 \cup {x10} = r3
  OBVIOUS
<1> HIDE DEF m0, o0, k0, r0, c0, c1, c2, k1, r1, r2, c3, m1, r3, x1, x2, x3, x4, x5, x6, x7, x8, x9, x10, s1,
    s2, s3, s4, s5, s6, s7, s8, s9, s10
<1>16. OnTable("workflow_runs", Shape(m0, o0, k0, r0, c0), s1) = Shape(m0, o0, k0, r0, c1)
  BY <1>4, OnDropCheck DEF s1
<1>17. OnTable("workflow_runs", Shape(m0, o0, k0, r0, c1), s2) = Shape(m0, o0, k0, r0, c2)
  BY <1>5, OnDropCheck DEF s2
<1>18. OnTable("workflow_runs", Shape(m0, o0, k0, r0, c2), s3) = Shape(m0, o0, k1, r0, c2)
  BY <1>6, OnDropKey DEF s3
<1>19. OnTable("workflow_runs", Shape(m0, o0, k1, r0, c2), s4) = Shape(m0, o0, {}, r0, c2)
  BY <1>7, OnDropKey DEF s4
<1>20. OnTable("workflow_runs", Shape(m0, o0, {}, r0, c2), s5) = Shape(m0, o0, {}, r1, c2)
  BY <1>8, OnDropRef DEF s5
<1>21. OnTable("workflow_runs", Shape(m0, o0, {}, r1, c2), s6) = Shape(m0, o0, {}, r2, c2)
  BY <1>9, OnDropRef DEF s6
<1>22. OnTable("workflow_runs", Shape(m0, o0, {}, r2, c2), s7) = Shape(m0, o0, {}, r2, {})
  BY <1>10, OnDropCheck DEF s7
<1>23. OnTable("workflow_runs", Shape(m0, o0, {}, r2, {}), s8) = Shape(m0, o0, {}, r2, c3)
  BY <1>11, OnCheck DEF s8
<1>24. OnTable("workflow_runs", Shape(m0, o0, {}, r2, c3), s9) = Shape(m1, {}, {}, r2, c3)
  BY <1>12, <1>13, <1>14, OnRemove DEF s9
<1>25. OnTable("workflow_runs", Shape(m1, {}, {}, r2, c3), s10) = Shape(m1, {}, {}, r3, c3)
  BY <1>15, OnRef DEF s10
<1>26. IsList(<<s1, s2, s3, s4, s5, s6>>) /\ Leads("workflow_runs", <<s1, s2, s3, s4, s5, s6>>, Shape(m0, o0,
    k0, r0, c0), Shape(m0, o0, {}, r2, c2))
  <2>1. IsList(<<s1, s2, s3, s4, s5, s6>>)
    BY List6
  <2>2. Leads("workflow_runs", <<s1, s2, s3, s4, s5, s6>>, Shape(m0, o0, k0, r0, c0), Shape(m0, o0, {}, r2, c2))
    BY <1>16, <1>17, <1>18, <1>19, <1>20, <1>21, Leads6
  <2> QED BY <2>1, <2>2
<1>27. IsList(<<s7, s8>>) /\ Leads("workflow_runs", <<s7, s8>>, Shape(m0, o0, {}, r2, c2), Shape(m0, o0, {},
    r2, c3))
  <2>1. IsList(<<s7, s8>>)
    BY List2
  <2>2. Leads("workflow_runs", <<s7, s8>>, Shape(m0, o0, {}, r2, c2), Shape(m0, o0, {}, r2, c3))
    BY <1>22, <1>23, Leads2
  <2> QED BY <2>1, <2>2
<1>28. IsList(<<s9, s10>>) /\ Leads("workflow_runs", <<s9, s10>>, Shape(m0, o0, {}, r2, c3), Shape(m1, {}, {},
    r3, c3))
  <2>1. IsList(<<s9, s10>>)
    BY List2
  <2>2. Leads("workflow_runs", <<s9, s10>>, Shape(m0, o0, {}, r2, c3), Shape(m1, {}, {}, r3, c3))
    BY <1>24, <1>25, Leads2
  <2> QED BY <2>1, <2>2
<1>29. IsList(<<s1, s2, s3, s4, s5, s6>> \o <<s7, s8>>) /\ Leads("workflow_runs", <<s1, s2, s3, s4, s5,
    s6>> \o <<s7, s8>>, Shape(m0, o0, k0, r0, c0), Shape(m0, o0, {}, r2, c3))
  BY <1>26, <1>27, LeadsOn, ConcatOps
<1>30. Leads("workflow_runs", (<<s1, s2, s3, s4, s5, s6>> \o <<s7, s8>>) \o <<s9, s10>>, Shape(m0, o0, k0, r0,
    c0), Shape(m1, {}, {}, r3, c3))
  BY <1>29, <1>28, LeadsOn
<1> QED BY <1>1, <1>2, <1>3, <1>30

LEMMA WorkflowsDown == Leads("workflows", RestoreWorkflows, Workflows5, Workflows2)
<1> DEFINE m == {"name", "organization_id"}
           o0 == {"version", "status", "definition"}
           k0 == {{"organization_id", "name", "version"}, OrgKey}
           r == {Org}
           c0 == {<<"workflows", {"version_positive"}>>}
           o1 == {"version", "status", "definition", "enabled"}
           k1 == {{"organization_id", "name", "version"}}
           k2 == {{"organization_id", "name"}}
           o2 == {"enabled"}
           y1 == {"enabled"}
           x2 == {"version_positive"}
           x3 == OrgKey
           x4 == {"organization_id", "name", "version"}
           x6 == {"organization_id", "name"}
           x7 == {"definition", "status", "version"}
           s1 == AddColumns("workflows", {}, y1)
           s2 == DropCheck("workflows", x2)
           s3 == DropKey("workflows", x3)
           s4 == DropKey("workflows", x4)
           s5 == PurgeSuperseded("workflows")
           s6 == UniqueKey("workflows", x6)
           s7 == RemoveColumns("workflows", x7)
<1>1. Workflows5 = Shape(m, o0, k0, r, c0)
  <2>1. {VersionKey, OrgKey} = k0
    BY DEF VersionKey
  <2> QED BY <2>1 DEF Workflows5
<1>2. Workflows2 = Shape(m, o2, k2, r, {})
  <2>1. {NameKey} = k2
    BY DEF NameKey
  <2> QED BY <2>1 DEF Workflows2
<1>3. /\ Len(RestoreWorkflows) = 7 /\ RestoreWorkflows[1] = s1 /\ RestoreWorkflows[2] = s2
      /\ RestoreWorkflows[3] = s3 /\ RestoreWorkflows[4] = s4 /\ RestoreWorkflows[5] = s5
      /\ RestoreWorkflows[6] = s6 /\ RestoreWorkflows[7] = s7
  BY DEF RestoreWorkflows
<1>4. m \cup {} = m /\ o0 \cup y1 = o1
  OBVIOUS
<1>5. c0 \ {<<"workflows", x2>>} = {}
  OBVIOUS
<1>6. k0 \ {x3} = k1
  <2>1. {"organization_id", "name", "version"} # OrgKey
    BY DEF OrgKey
  <2> QED BY <2>1
<1>7. k1 \ {x4} = {}
  OBVIOUS
<1>8. {} \cup {x6} = k2
  OBVIOUS
<1>9. m \ x7 = m /\ o1 \ x7 = o2
  OBVIOUS
<1>10. {y \in k2 : y \cap x7 = {}} = k2
  <2>1. {"organization_id", "name"} \cap {"definition", "status", "version"} = {}
    OBVIOUS
  <2> QED BY <2>1
<1>11. {y \in r : Clears(y) \cap x7 = {}} = r
  <2>1. Clears(Org) \cap {"definition", "status", "version"} = {}
    BY ClearsOf
  <2> QED BY <2>1
<1> HIDE DEF m, o0, k0, r, c0, o1, k1, k2, o2, y1, x2, x3, x4, x6, x7, s1, s2, s3, s4, s5, s6, s7
<1>12. OnTable("workflows", Shape(m, o0, k0, r, c0), s1) = Shape(m, o1, k0, r, c0)
  BY <1>4, OnAdd DEF s1
<1>13. OnTable("workflows", Shape(m, o1, k0, r, c0), s2) = Shape(m, o1, k0, r, {})
  BY <1>5, OnDropCheck DEF s2
<1>14. OnTable("workflows", Shape(m, o1, k0, r, {}), s3) = Shape(m, o1, k1, r, {})
  BY <1>6, OnDropKey DEF s3
<1>15. OnTable("workflows", Shape(m, o1, k1, r, {}), s4) = Shape(m, o1, {}, r, {})
  BY <1>7, OnDropKey DEF s4
<1>16. OnTable("workflows", Shape(m, o1, {}, r, {}), s5) = Shape(m, o1, {}, r, {})
  BY OnRows DEF s5
<1>17. OnTable("workflows", Shape(m, o1, {}, r, {}), s6) = Shape(m, o1, k2, r, {})
  BY <1>8, OnKey DEF s6
<1>18. OnTable("workflows", Shape(m, o1, k2, r, {}), s7) = Shape(m, o2, k2, r, {})
  BY <1>9, <1>10, <1>11, OnRemove DEF s7
<1> QED BY <1>1, <1>2, <1>3, <1>12, <1>13, <1>14, <1>15, <1>16, <1>17, <1>18, Leads7

LEMMA ApprovalsUnrun == Leads("approvals", UndoExecution, Approvals4, Approvals2)
<1> DEFINE m == {"organization_id", "requested_by"}
           o0 == {"agent_id", "tool_id", "conversation_id", "approved_by", "run_id", "tool_execution_id",
               "tool_name"}
           k0 == {{"tool_execution_id"}}
           r0 == {To("agent_id", "agents", "cascade"), To("approved_by", "users", "null"),
               To("conversation_id", "conversations", "cascade"), Org, To("requested_by", "users", "restrict"),
               To("tool_id", "tools", "restrict"), Within("run_id", "agent_runs", "cascade"),
               Within("tool_execution_id", "tool_executions", "cascade")}
           r1 == {To("agent_id", "agents", "cascade"), To("approved_by", "users", "null"),
               To("conversation_id", "conversations", "cascade"), Org, To("requested_by", "users", "restrict"),
               To("tool_id", "tools", "restrict"), Within("run_id", "agent_runs", "cascade")}
           r2 == {To("agent_id", "agents", "cascade"), To("approved_by", "users", "null"),
               To("conversation_id", "conversations", "cascade"), Org, To("requested_by", "users", "restrict"),
               To("tool_id", "tools", "restrict")}
           o1 == {"agent_id", "tool_id", "conversation_id", "approved_by"}
           x1 == Within("tool_execution_id", "tool_executions", "cascade")
           x2 == Within("run_id", "agent_runs", "cascade")
           x3 == {"tool_execution_id"}
           x4 == {"tool_name", "tool_execution_id", "run_id"}
           s1 == DropRef("approvals", x1)
           s2 == DropRef("approvals", x2)
           s3 == DropKey("approvals", x3)
           s4 == RemoveColumns("approvals", x4)
           s5 == Drop("tool_executions")
           s6 == Drop("agent_steps")
           s7 == Drop("agent_runs")
           s8 == RemoveColumns("messages", {"sequence", "tool_metadata"})
           s9 == DropKey("conversations", OrgKey)
           s10 == PurgeNull("conversations", "agent_id")
           s11 == Require("conversations", "agent_id")
<1>1. Approvals4 = Shape(m, o0, k0, r0, {})
  <2>1. Asker = m
    BY DEF Asker
  <2>2. About \cup OfRun = o0
    BY DEF About, OfRun
  <2>3. AskRefs \cup RunRefs = r0
    BY DEF AskRefs, RunRefs
  <2> QED BY <2>1, <2>2, <2>3 DEF Approvals4
<1>2. Approvals2 = Shape(m, o1, {}, r2, {})
  <2>1. Asker = m
    BY DEF Asker
  <2>2. About = o1
    BY DEF About
  <2>3. AskRefs = r2
    BY DEF AskRefs
  <2> QED BY <2>1, <2>2, <2>3 DEF Approvals2
<1>3. /\ Len(UndoExecution) = 11 /\ UndoExecution[1] = s1 /\ UndoExecution[2] = s2 /\ UndoExecution[3] = s3
      /\ UndoExecution[4] = s4 /\ UndoExecution[5] = s5 /\ UndoExecution[6] = s6 /\ UndoExecution[7] = s7
      /\ UndoExecution[8] = s8 /\ UndoExecution[9] = s9 /\ UndoExecution[10] = s10 /\ UndoExecution[11] = s11
  BY DEF UndoExecution
<1>4. r0 \ {x1} = r1
  <2>1. To("agent_id", "agents", "cascade") # Within("tool_execution_id", "tool_executions",
      "cascade") /\ To("approved_by", "users", "null") # Within("tool_execution_id", "tool_executions",
      "cascade") /\ To("conversation_id", "conversations", "cascade") # Within("tool_execution_id",
      "tool_executions", "cascade") /\ Org # Within("tool_execution_id", "tool_executions",
      "cascade") /\ To("requested_by", "users", "restrict") # Within("tool_execution_id", "tool_executions",
      "cascade") /\ To("tool_id", "tools", "restrict") # Within("tool_execution_id", "tool_executions",
      "cascade") /\ Within("run_id", "agent_runs", "cascade") # Within("tool_execution_id", "tool_executions",
      "cascade")
    BY ColOf
  <2> QED BY <2>1
<1>5. r1 \ {x2} = r2
  <2>1. To("agent_id", "agents", "cascade") # Within("run_id", "agent_runs", "cascade") /\ To("approved_by",
      "users", "null") # Within("run_id", "agent_runs", "cascade") /\ To("conversation_id", "conversations",
      "cascade") # Within("run_id", "agent_runs", "cascade") /\ Org # Within("run_id", "agent_runs",
      "cascade") /\ To("requested_by", "users", "restrict") # Within("run_id", "agent_runs",
      "cascade") /\ To("tool_id", "tools", "restrict") # Within("run_id", "agent_runs", "cascade")
    BY ColOf
  <2> QED BY <2>1
<1>6. k0 \ {x3} = {}
  OBVIOUS
<1>7. m \ x4 = m /\ o0 \ x4 = o1
  OBVIOUS
<1>8. {y \in {} : y \cap x4 = {}} = {}
  OBVIOUS
<1>9. {y \in r2 : Clears(y) \cap x4 = {}} = r2
  <2>1. Clears(To("agent_id", "agents", "cascade")) \cap {"tool_name", "tool_execution_id", "run_id"} = {}
    BY ClearsOf
  <2>2. Clears(To("approved_by", "users", "null")) \cap {"tool_name", "tool_execution_id", "run_id"} = {}
    BY ClearsOf
  <2>3. Clears(To("conversation_id", "conversations", "cascade")) \cap {"tool_name", "tool_execution_id",
      "run_id"} = {}
    BY ClearsOf
  <2>4. Clears(Org) \cap {"tool_name", "tool_execution_id", "run_id"} = {}
    BY ClearsOf
  <2>5. Clears(To("requested_by", "users", "restrict")) \cap {"tool_name", "tool_execution_id", "run_id"} = {}
    BY ClearsOf
  <2>6. Clears(To("tool_id", "tools", "restrict")) \cap {"tool_name", "tool_execution_id", "run_id"} = {}
    BY ClearsOf
  <2> QED BY <2>1, <2>2, <2>3, <2>4, <2>5, <2>6
<1>10. \A z : /\ OnTable("approvals", z, s5) = z /\ OnTable("approvals", z, s6) = z
              /\ OnTable("approvals", z, s7) = z /\ OnTable("approvals", z, s8) = z
              /\ OnTable("approvals", z, s9) = z /\ OnTable("approvals", z, s10) = z
              /\ OnTable("approvals", z, s11) = z
  BY Elsewhere
<1> HIDE DEF m, o0, k0, r0, r1, r2, o1, x1, x2, x3, x4, s1, s2, s3, s4, s5, s6, s7, s8, s9, s10, s11
<1>11. OnTable("approvals", Shape(m, o0, k0, r0, {}), s1) = Shape(m, o0, k0, r1, {})
  BY <1>4, OnDropRef DEF s1
<1>12. OnTable("approvals", Shape(m, o0, k0, r1, {}), s2) = Shape(m, o0, k0, r2, {})
  BY <1>5, OnDropRef DEF s2
<1>13. OnTable("approvals", Shape(m, o0, k0, r2, {}), s3) = Shape(m, o0, {}, r2, {})
  BY <1>6, OnDropKey DEF s3
<1>14. OnTable("approvals", Shape(m, o0, {}, r2, {}), s4) = Shape(m, o1, {}, r2, {})
  BY <1>7, <1>8, <1>9, OnRemove DEF s4
<1> QED BY <1>1, <1>2, <1>3, <1>11, <1>12, <1>13, <1>14, <1>10, Leads11

LEMMA MessagesDown == Leads("messages", UndoExecution, Messages4, Messages2)
<1> DEFINE m == {"conversation_id"}
           o0 == {"tool_metadata", "sequence"}
           r == {To("conversation_id", "conversations", "cascade")}
           x8 == {"sequence", "tool_metadata"}
           s1 == DropRef("approvals", Within("tool_execution_id", "tool_executions", "cascade"))
           s2 == DropRef("approvals", Within("run_id", "agent_runs", "cascade"))
           s3 == DropKey("approvals", {"tool_execution_id"})
           s4 == RemoveColumns("approvals", {"tool_name", "tool_execution_id", "run_id"})
           s5 == Drop("tool_executions")
           s6 == Drop("agent_steps")
           s7 == Drop("agent_runs")
           s8 == RemoveColumns("messages", x8)
           s9 == DropKey("conversations", OrgKey)
           s10 == PurgeNull("conversations", "agent_id")
           s11 == Require("conversations", "agent_id")
<1>1. Messages4 = Shape(m, o0, {}, r, {})
  <2>1. TurnRefs = r
    BY DEF TurnRefs
  <2> QED BY <2>1 DEF Messages4
<1>2. Messages2 = Shape(m, {}, {}, r, {})
  <2>1. TurnRefs = r
    BY DEF TurnRefs
  <2> QED BY <2>1 DEF Messages2
<1>3. /\ Len(UndoExecution) = 11 /\ UndoExecution[1] = s1 /\ UndoExecution[2] = s2 /\ UndoExecution[3] = s3
      /\ UndoExecution[4] = s4 /\ UndoExecution[5] = s5 /\ UndoExecution[6] = s6 /\ UndoExecution[7] = s7
      /\ UndoExecution[8] = s8 /\ UndoExecution[9] = s9 /\ UndoExecution[10] = s10 /\ UndoExecution[11] = s11
  BY DEF UndoExecution
<1>4. m \ x8 = m /\ o0 \ x8 = {}
  OBVIOUS
<1>5. {y \in {} : y \cap x8 = {}} = {}
  OBVIOUS
<1>6. {y \in r : Clears(y) \cap x8 = {}} = r
  <2>1. Clears(To("conversation_id", "conversations", "cascade")) \cap {"sequence", "tool_metadata"} = {}
    BY ClearsOf
  <2> QED BY <2>1
<1>7. \A z : /\ OnTable("messages", z, s1) = z /\ OnTable("messages", z, s2) = z
             /\ OnTable("messages", z, s3) = z /\ OnTable("messages", z, s4) = z
             /\ OnTable("messages", z, s5) = z /\ OnTable("messages", z, s6) = z
             /\ OnTable("messages", z, s7) = z /\ OnTable("messages", z, s9) = z
             /\ OnTable("messages", z, s10) = z /\ OnTable("messages", z, s11) = z
  BY Elsewhere
<1> HIDE DEF m, o0, r, x8, s1, s2, s3, s4, s5, s6, s7, s8, s9, s10, s11
<1>8. OnTable("messages", Shape(m, o0, {}, r, {}), s8) = Shape(m, {}, {}, r, {})
  BY <1>4, <1>5, <1>6, OnRemove DEF s8
<1> QED BY <1>1, <1>2, <1>3, <1>8, <1>7, Leads11

LEMMA TalksDown == Leads("conversations", UndoExecution, Conversations4, Conversations2)
<1> DEFINE m0 == {"organization_id", "user_id"}
           o0 == {"agent_id"}
           k0 == {OrgKey}
           r == {To("agent_id", "agents", "cascade"), Org, To("user_id", "users", "restrict")}
           m1 == {"organization_id", "user_id", "agent_id"}
           x9 == OrgKey
           s1 == DropRef("approvals", Within("tool_execution_id", "tool_executions", "cascade"))
           s2 == DropRef("approvals", Within("run_id", "agent_runs", "cascade"))
           s3 == DropKey("approvals", {"tool_execution_id"})
           s4 == RemoveColumns("approvals", {"tool_name", "tool_execution_id", "run_id"})
           s5 == Drop("tool_executions")
           s6 == Drop("agent_steps")
           s7 == Drop("agent_runs")
           s8 == RemoveColumns("messages", {"sequence", "tool_metadata"})
           s9 == DropKey("conversations", x9)
           s10 == PurgeNull("conversations", "agent_id")
           s11 == Require("conversations", "agent_id")
<1>1. Conversations4 = Shape(m0, o0, k0, r, {})
  <2>1. TalkRefs = r
    BY DEF TalkRefs
  <2> QED BY <2>1 DEF Conversations4
<1>2. Conversations2 = Shape(m1, {}, {}, r, {})
  <2>1. {"agent_id", "organization_id", "user_id"} = m1
    OBVIOUS
  <2>2. TalkRefs = r
    BY DEF TalkRefs
  <2> QED BY <2>1, <2>2 DEF Conversations2
<1>3. /\ Len(UndoExecution) = 11 /\ UndoExecution[1] = s1 /\ UndoExecution[2] = s2 /\ UndoExecution[3] = s3
      /\ UndoExecution[4] = s4 /\ UndoExecution[5] = s5 /\ UndoExecution[6] = s6 /\ UndoExecution[7] = s7
      /\ UndoExecution[8] = s8 /\ UndoExecution[9] = s9 /\ UndoExecution[10] = s10 /\ UndoExecution[11] = s11
  BY DEF UndoExecution
<1>4. k0 \ {x9} = {}
  OBVIOUS
<1>5. m0 \cup {"agent_id"} = m1 /\ o0 \ {"agent_id"} = {}
  OBVIOUS
<1>6. \A z : /\ OnTable("conversations", z, s1) = z /\ OnTable("conversations", z, s2) = z
             /\ OnTable("conversations", z, s3) = z /\ OnTable("conversations", z, s4) = z
             /\ OnTable("conversations", z, s5) = z /\ OnTable("conversations", z, s6) = z
             /\ OnTable("conversations", z, s7) = z /\ OnTable("conversations", z, s8) = z
  BY Elsewhere
<1> HIDE DEF m0, o0, k0, r, m1, x9, s1, s2, s3, s4, s5, s6, s7, s8, s9, s10, s11
<1>7. OnTable("conversations", Shape(m0, o0, k0, r, {}), s9) = Shape(m0, o0, {}, r, {})
  BY <1>4, OnDropKey DEF s9
<1>8. OnTable("conversations", Shape(m0, o0, {}, r, {}), s10) = Shape(m0, o0, {}, r, {})
  BY OnRows DEF s10
<1>9. OnTable("conversations", Shape(m0, o0, {}, r, {}), s11) = Shape(m1, {}, {}, r, {})
  BY <1>5, OnRequire DEF s11
<1> QED BY <1>1, <1>2, <1>3, <1>7, <1>8, <1>9, <1>6, Leads11

LEMMA WidenTables == \A t, x, y : IsList(Widen(t, x, y)) /\ \A o \in Ops(Widen(t, x, y)) : o.t = t
BY List2 DEF Widen, DropCheck, Check

\* The lists around a widened check, all about one table.
LEMMA ReshapedTables ==
    /\ \A o \in Ops(ReshapeRuns) : o.t = "workflow_runs"
    /\ \A o \in Ops(ReshapeStepRuns) : o.t = "workflow_step_runs"
<1>1. \A o \in Ops(ReshapeRuns) : o.t = "workflow_runs"
  <2> DEFINE a == <<DropRef("workflow_runs", To("workflow_id", "workflows", "cascade")),
                    AddColumns("workflow_runs", {"user_id"},
                        {"workflow_version", "current_step", "step_count", "input_data", "output_data",
                         "idempotency_key", "request_id", "error_code"})>>
             w == Widen("workflow_runs", OldRunStatuses, RunStatuses)
             b == <<Ref("workflow_runs", To("user_id", "users", "restrict")),
                    Ref("workflow_runs", Within("workflow_id", "workflows", "cascade")),
                    UniqueKey("workflow_runs", {"organization_id", "idempotency_key"}),
                    UniqueKey("workflow_runs", OrgKey),
                    Check("workflow_runs", {"step_count_not_negative"}),
                    Check("workflow_runs", {"workflow_version_positive"})>>
  <2>1. IsList(a) /\ \A o \in Ops(a) : o.t = "workflow_runs"
    BY List2 DEF DropRef, AddColumns
  <2>2. IsList(w) /\ \A o \in Ops(w) : o.t = "workflow_runs"
    BY WidenTables
  <2>3. IsList(b) /\ \A o \in Ops(b) : o.t = "workflow_runs"
    BY List6 DEF Ref, UniqueKey, Check
  <2>4. ReshapeRuns = (a \o w) \o b
    BY DEF ReshapeRuns
  <2> HIDE DEF a, w, b
  <2>5. IsList(a \o w) /\ Ops(a \o w) = Ops(a) \cup Ops(w)
    BY <2>1, <2>2, ConcatOps
  <2>6. Ops((a \o w) \o b) = Ops(a \o w) \cup Ops(b)
    BY <2>3, <2>5, ConcatOps
  <2> QED BY <2>1, <2>2, <2>3, <2>4, <2>5, <2>6
<1>2. \A o \in Ops(ReshapeStepRuns) : o.t = "workflow_step_runs"
  <2> DEFINE a == <<DropRef("workflow_step_runs", To("workflow_run_id", "workflow_runs", "cascade")),
                    AddColumns("workflow_step_runs", {"organization_id", "step_key", "step_type", "position"},
                        {"agent_run_id", "error_code"}),
                    Relax("workflow_step_runs", "workflow_step_id")>>
             w == Widen("workflow_step_runs", OldStepStatuses, StepStatuses)
             b == <<Ref("workflow_step_runs", Org),
                    Ref("workflow_step_runs", Within("workflow_run_id", "workflow_runs", "cascade")),
                    Ref("workflow_step_runs", Within("agent_run_id", "agent_runs", "null")),
                    UniqueKey("workflow_step_runs", {"workflow_run_id", "step_key"}),
                    UniqueKey("workflow_step_runs", {"workflow_run_id", "position"}),
                    UniqueKey("workflow_step_runs", OrgKey),
                    Check("workflow_step_runs", {"position_positive"})>>
  <2>1. IsList(a) /\ \A o \in Ops(a) : o.t = "workflow_step_runs"
    BY List3 DEF DropRef, AddColumns, Relax
  <2>2. IsList(w) /\ \A o \in Ops(w) : o.t = "workflow_step_runs"
    BY WidenTables
  <2>3. IsList(b) /\ \A o \in Ops(b) : o.t = "workflow_step_runs"
    BY List7 DEF Ref, UniqueKey, Check
  <2>4. ReshapeStepRuns = (a \o w) \o b
    BY DEF ReshapeStepRuns
  <2> HIDE DEF a, w, b
  <2>5. IsList(a \o w) /\ Ops(a \o w) = Ops(a) \cup Ops(w)
    BY <2>1, <2>2, ConcatOps
  <2>6. Ops((a \o w) \o b) = Ops(a \o w) \cup Ops(b)
    BY <2>3, <2>5, ConcatOps
  <2> QED BY <2>1, <2>2, <2>3, <2>4, <2>5, <2>6
<1> QED BY <1>1, <1>2

LEMMA RestoredTables ==
    /\ \A o \in Ops(RestoreRuns) : o.t = "workflow_runs"
    /\ \A o \in Ops(RestoreStepRuns) : o.t = "workflow_step_runs"
<1>1. \A o \in Ops(RestoreRuns) : o.t = "workflow_runs"
  <2> DEFINE a == <<DropCheck("workflow_runs", {"workflow_version_positive"}),
                    DropCheck("workflow_runs", {"step_count_not_negative"}),
                    DropKey("workflow_runs", OrgKey),
                    DropKey("workflow_runs", {"organization_id", "idempotency_key"}),
                    DropRef("workflow_runs", Within("workflow_id", "workflows", "cascade")),
                    DropRef("workflow_runs", To("user_id", "users", "restrict"))>>
             w == Widen("workflow_runs", RunStatuses, OldRunStatuses)
             b == <<RemoveColumns("workflow_runs",
                        {"error_code", "request_id", "idempotency_key", "output_data", "input_data",
                         "step_count", "current_step", "user_id", "workflow_version"}),
                    Ref("workflow_runs", To("workflow_id", "workflows", "cascade"))>>
  <2>1. IsList(a) /\ \A o \in Ops(a) : o.t = "workflow_runs"
    BY List6 DEF DropCheck, DropKey, DropRef
  <2>2. IsList(w) /\ \A o \in Ops(w) : o.t = "workflow_runs"
    BY WidenTables
  <2>3. IsList(b) /\ \A o \in Ops(b) : o.t = "workflow_runs"
    BY List2 DEF RemoveColumns, Ref
  <2>4. RestoreRuns = (a \o w) \o b
    BY DEF RestoreRuns
  <2> HIDE DEF a, w, b
  <2>5. IsList(a \o w) /\ Ops(a \o w) = Ops(a) \cup Ops(w)
    BY <2>1, <2>2, ConcatOps
  <2>6. Ops((a \o w) \o b) = Ops(a \o w) \cup Ops(b)
    BY <2>3, <2>5, ConcatOps
  <2> QED BY <2>1, <2>2, <2>3, <2>4, <2>5, <2>6
<1>2. \A o \in Ops(RestoreStepRuns) : o.t = "workflow_step_runs"
  <2> DEFINE a == <<DropCheck("workflow_step_runs", {"position_positive"}),
                    DropKey("workflow_step_runs", OrgKey),
                    DropKey("workflow_step_runs", {"workflow_run_id", "position"}),
                    DropKey("workflow_step_runs", {"workflow_run_id", "step_key"}),
                    DropRef("workflow_step_runs", Within("agent_run_id", "agent_runs", "null")),
                    DropRef("workflow_step_runs", Within("workflow_run_id", "workflow_runs", "cascade")),
                    DropRef("workflow_step_runs", Org)>>
             w == Widen("workflow_step_runs", StepStatuses, OldStepStatuses)
             b == <<Require("workflow_step_runs", "workflow_step_id"),
                    RemoveColumns("workflow_step_runs",
                        {"error_code", "agent_run_id", "position", "step_type", "step_key", "organization_id"}),
                    Ref("workflow_step_runs", To("workflow_run_id", "workflow_runs", "cascade"))>>
  <2>1. IsList(a) /\ \A o \in Ops(a) : o.t = "workflow_step_runs"
    BY List7 DEF DropCheck, DropKey, DropRef
  <2>2. IsList(w) /\ \A o \in Ops(w) : o.t = "workflow_step_runs"
    BY WidenTables
  <2>3. IsList(b) /\ \A o \in Ops(b) : o.t = "workflow_step_runs"
    BY List3 DEF Require, RemoveColumns, Ref
  <2>4. RestoreStepRuns = (a \o w) \o b
    BY DEF RestoreStepRuns
  <2> HIDE DEF a, w, b
  <2>5. IsList(a \o w) /\ Ops(a \o w) = Ops(a) \cup Ops(w)
    BY <2>1, <2>2, ConcatOps
  <2>6. Ops((a \o w) \o b) = Ops(a \o w) \cup Ops(b)
    BY <2>3, <2>5, ConcatOps
  <2> QED BY <2>1, <2>2, <2>3, <2>4, <2>5, <2>6
<1> QED BY <1>1, <1>2

LEMMA At4Is ==
    /\ DOMAIN At4 = {"conversations", "messages", "approvals", "agent_runs", "agent_steps", "tool_executions"}
    /\ At4["conversations"] = Conversations4 /\ At4["messages"] = Messages4 /\ At4["approvals"] = Approvals4
    /\ At4["agent_runs"] = MadeBy(RunTables[4]) /\ At4["agent_steps"] = MadeBy(ExecutionTables[1])
    /\ At4["tool_executions"] = Executions4
BY DEF At4

LEMMA At5Is ==
    /\ DOMAIN At5 = {"workflows", "workflow_runs", "workflow_step_runs", "tool_executions", "approvals"}
    /\ At5["workflows"] = Workflows5 /\ At5["workflow_runs"] = Runs5 /\ At5["workflow_step_runs"] = StepRuns5
    /\ At5["tool_executions"] = Executions5 /\ At5["approvals"] = Approvals5
BY DEF At5

\* What each table looked like before the revision that changes it.
LEMMA Before4 ==
    /\ Stage3("conversations") = Conversations2 /\ Stage3("messages") = Messages2
    /\ Stage3("approvals") = Approvals2
    /\ \A t \in {"agent_runs", "agent_steps", "tool_executions"} : Stage3(t) = Absent
    /\ \A t \in DOMAIN At4 : Stage4(t) = At4[t]
    /\ \A t : t \notin DOMAIN At4 => Stage4(t) = Stage3(t)
BY At2Is, At3Is DEF Stage2, Stage3, Stage4

LEMMA Before5 ==
    /\ Stage4("workflows") = Workflows2 /\ Stage4("workflow_runs") = Runs2
    /\ Stage4("workflow_step_runs") = StepRuns2 /\ Stage4("tool_executions") = Executions4
    /\ Stage4("approvals") = Approvals4
    /\ \A t \in DOMAIN At5 : Stage5(t) = At5[t]
    /\ \A t : t \notin DOMAIN At5 => Stage5(t) = Stage4(t)
BY At2Is, At3Is, At4Is DEF Stage2, Stage3, Stage4, Stage5

LEMMA NewRunTables ==
    /\ Leads("agent_runs", RunTables, Absent, MadeBy(RunTables[4]))
    /\ Leads("agent_steps", ExecutionTables, Absent, MadeBy(ExecutionTables[1]))
    /\ Leads("tool_executions", ExecutionTables, Absent, Executions4)
<1>1. Leads("agent_runs", RunTables, Absent, MadeBy(RunTables[4]))
  <2> DEFINE a == RunTables[1]
             b == RunTables[2]
             c == RunTables[3]
             d == RunTables[4]
  <2>1. RunTables = <<a, b, c, d>>
    BY DEF RunTables
  <2>2. /\ d.op = "table" /\ d.t = "agent_runs" /\ a.t = "conversations" /\ b.t = "conversations"
        /\ c.t = "messages"
    BY DEF RunTables, Relax, UniqueKey, AddColumns, Table
  <2> HIDE DEF a, b, c, d
  <2>3. Ops(RunTables) = {a, b, c, d} /\ IsList(RunTables)
    BY <2>1, List4
  <2>4. Leads("agent_runs", RunTables, Absent, MadeBy(d))
    BY <2>2, <2>3, LeadsToTables
  <2> QED BY <2>4 DEF d
<1>2. /\ Leads("agent_steps", ExecutionTables, Absent, MadeBy(ExecutionTables[1]))
      /\ Leads("tool_executions", ExecutionTables, Absent, MadeBy(ExecutionTables[2]))
  <2> DEFINE a == ExecutionTables[1]
             b == ExecutionTables[2]
             c == ExecutionTables[3]
             d == ExecutionTables[4]
             e == ExecutionTables[5]
             f == ExecutionTables[6]
  <2>1. ExecutionTables = <<a, b, c, d, e, f>>
    BY DEF ExecutionTables
  <2>2. /\ a.op = "table" /\ a.t = "agent_steps" /\ b.op = "table" /\ b.t = "tool_executions"
        /\ c.t = "approvals" /\ d.t = "approvals" /\ e.t = "approvals" /\ f.t = "approvals"
    BY DEF ExecutionTables, Table, AddColumns, UniqueKey, Ref
  <2> HIDE DEF a, b, c, d, e, f
  <2>3. Ops(ExecutionTables) = {a, b, c, d, e, f} /\ IsList(ExecutionTables)
    BY <2>1, List6
  <2>4. Leads("agent_steps", ExecutionTables, Absent, MadeBy(a))
    BY <2>2, <2>3, LeadsToTables
  <2>5. Leads("tool_executions", ExecutionTables, Absent, MadeBy(b))
    BY <2>2, <2>3, LeadsToTables
  <2> QED BY <2>4, <2>5 DEF a, b
<1> QED BY <1>1, <1>2, BornShapes

LEMMA UpTo4 == \A t : Leads(t, Up[4], Stage3(t), Stage4(t))
<1> TAKE t
<1> DEFINE x == Stage3(t)
           y == Stage4(t)
<1>1. ASSUME NEW a, NEW b, NEW c, Leads(t, RunTables, a, b), Leads(t, ExecutionTables, b, c)
      PROVE  Leads(t, Up[4], a, c)
  <2>1. Up[4] = RunTables \o ExecutionTables
    BY DEF Up
  <2> QED BY <1>1, <2>1, RunTablesOK, ExecutionTablesOK, LeadsOn
<1>2. \A z : /\ t \notin {"conversations", "messages", "agent_runs"} => Leads(t, RunTables, z, z)
             /\ t \notin {"agent_steps", "tool_executions", "approvals"} => Leads(t, ExecutionTables, z, z)
  BY TablesOf, RunTablesOK, ExecutionTablesOK, LeadsPast
<1>3. CASE t \in {"conversations", "messages", "agent_runs"}
  <2>1. Leads(t, RunTables, x, y)
    BY <1>3, At4Is, Before4, TalksUp, MessagesUp, NewRunTables
  <2> QED BY <1>1, <1>2, <1>3, <2>1
<1>4. CASE t \in {"agent_steps", "tool_executions", "approvals"}
  <2>1. Leads(t, ExecutionTables, x, y)
    BY <1>4, At4Is, Before4, ApprovalsRun, NewRunTables
  <2> QED BY <1>1, <1>2, <1>4, <2>1
<1>5. CASE t \notin DOMAIN At4
  <2>1. x = y
    BY <1>5, Before4
  <2>2. Leads(t, RunTables, x, x) /\ Leads(t, ExecutionTables, x, x)
    BY <1>2, <1>5, At4Is
  <2> QED BY <1>1, <2>1, <2>2
<1> QED BY <1>3, <1>4, <1>5, At4Is

LEMMA UpTo5 == \A t : Leads(t, Up[5], Stage4(t), Stage5(t))
<1> TAKE t
<1> DEFINE x == Stage4(t)
           y == Stage5(t)
<1>1. ASSUME NEW a, NEW b, NEW c, NEW d, NEW e, Leads(t, VersionWorkflows, a, b), Leads(t, ReshapeRuns, b, c),
             Leads(t, ReshapeStepRuns, c, d), Leads(t, LinkCallers, d, e)
      PROVE  Leads(t, Up[5], a, e)
  <2>1. Up[5] = ((VersionWorkflows \o ReshapeRuns) \o ReshapeStepRuns) \o LinkCallers
    BY DEF Up
  <2>2. IsList(VersionWorkflows) /\ IsList(ReshapeRuns) /\ IsList(ReshapeStepRuns) /\ IsList(LinkCallers)
    BY VersionWorkflowsOK, ReshapeRunsOK, ReshapeStepRunsOK, LinkCallersOK
  <2> DEFINE p == VersionWorkflows \o ReshapeRuns
             q == p \o ReshapeStepRuns
  <2>3. IsList(p) /\ Leads(t, p, a, c)
    BY <1>1, <2>2, ConcatOps, LeadsOn
  <2> HIDE DEF p
  <2>4. IsList(q) /\ Leads(t, q, a, d)
    BY <1>1, <2>2, <2>3, ConcatOps, LeadsOn
  <2> HIDE DEF q
  <2>5. Leads(t, q \o LinkCallers, a, e)
    BY <1>1, <2>2, <2>4, LeadsOn
  <2> QED BY <2>1, <2>5 DEF p, q
<1>2. \A z : /\ t \notin {"workflows", "workflow_runs", "workflow_step_runs"} => Leads(t, VersionWorkflows, z, z)
             /\ t # "workflow_runs" => Leads(t, ReshapeRuns, z, z)
             /\ t # "workflow_step_runs" => Leads(t, ReshapeStepRuns, z, z)
             /\ t \notin {"tool_executions", "approvals"} => Leads(t, LinkCallers, z, z)
  <2>1. \A z : t \notin {"workflows", "workflow_runs", "workflow_step_runs"} => Leads(t, VersionWorkflows, z, z)
    BY TablesOf, VersionWorkflowsOK, LeadsPast
  <2>2. \A z : t # "workflow_runs" => Leads(t, ReshapeRuns, z, z)
    BY ReshapedTables, ReshapeRunsOK, LeadsPast
  <2>3. \A z : t # "workflow_step_runs" => Leads(t, ReshapeStepRuns, z, z)
    BY ReshapedTables, ReshapeStepRunsOK, LeadsPast
  <2>4. \A z : t \notin {"tool_executions", "approvals"} => Leads(t, LinkCallers, z, z)
    BY TablesOf, LinkCallersOK, LeadsPast
  <2> QED BY <2>1, <2>2, <2>3, <2>4
<1>3. CASE t = "workflows"
  <2>1. Leads(t, VersionWorkflows, x, y)
    BY <1>3, At5Is, Before5, WorkflowsUp
  <2> QED BY <1>1, <1>2, <1>3, <2>1
<1>4. CASE t = "workflow_runs"
  <2>1. Leads(t, VersionWorkflows, x, x) /\ Leads(t, ReshapeRuns, x, y)
    BY <1>4, At5Is, Before5, RunsEmpty, RunsUp
  <2> QED BY <1>1, <1>2, <1>4, <2>1
<1>5. CASE t = "workflow_step_runs"
  <2>1. Leads(t, VersionWorkflows, x, x) /\ Leads(t, ReshapeStepRuns, x, y)
    BY <1>5, At5Is, Before5, StepRunsEmpty, StepRunsUp
  <2> QED BY <1>1, <1>2, <1>5, <2>1
<1>6. CASE t \in {"tool_executions", "approvals"}
  <2>1. Leads(t, LinkCallers, x, y)
    BY <1>6, At5Is, Before5, CallersUp, ApprovalsFlow
  <2> QED BY <1>1, <1>2, <1>6, <2>1
<1>7. CASE t \notin DOMAIN At5
  <2>1. x = y
    BY <1>7, Before5
  <2> QED BY <1>1, <1>2, <1>7, <2>1, At5Is
<1> QED BY <1>3, <1>4, <1>5, <1>6, <1>7, At5Is

LEMMA UpTo6 == \A t : Leads(t, Up[6], Stage5(t), Stage6(t))
<1> TAKE t
<1>1. Up[6] = Reviewed
  BY DEF Up
<1>2. CASE t = "approvals"
  BY <1>1, <1>2, At5Is, Before5, ApprovalsReview DEF Stage6
<1>3. CASE t # "approvals"
  BY <1>1, <1>3, TablesOf, ReviewedOK, LeadsPast DEF Stage6
<1> QED BY <1>2, <1>3

LEMMA Before7 == Stage6("generation_usage") = Absent
BY At2Is, At3Is, At4Is, At5Is DEF Stage2, Stage3, Stage4, Stage5, Stage6

LEMMA UpTo7 == \A t : Leads(t, Up[7], Stage6(t), Stage7(t))
<1> TAKE t
<1>1. Up[7] = Usage
  BY DEF Up
<1>2. CASE t = "generation_usage"
  BY <1>1, <1>2, Before7, UsageLeads DEF Stage7
<1>3. CASE t # "generation_usage"
  BY <1>1, <1>3, TablesOf, UsageOK, LeadsPast DEF Stage7
<1> QED BY <1>2, <1>3

\* Each revision takes every table from its shape before to its shape after.
LEMMA UpLeads == \A k \in 1 .. 7 : \A t : Leads(t, Up[k], Stage(k - 1, t), Stage(k, t))
<1> TAKE k \in 1 .. 7
<1> TAKE t
<1>1. Stage(0, t) = Absent /\ Stage(1, t) = Absent /\ Stage(2, t) = Stage2(t) /\ Stage(3, t) = Stage3(t)
      /\ Stage(4, t) = Stage4(t) /\ Stage(5, t) = Stage5(t) /\ Stage(6, t) = Stage6(t) /\ Stage(7, t) = Stage7(t)
  BY DEF Stage
<1>2. Leads(t, Up[1], Absent, Absent)
  <2>1. Up[1] = <<>>
    BY DEF Up
  <2> QED BY <2>1, List0, LeadsPast
<1>3. k = 1 \/ k = 2 \/ k = 3 \/ k = 4 \/ k = 5 \/ k = 6 \/ k = 7
  OBVIOUS
<1>4. /\ 1 - 1 = 0 /\ 2 - 1 = 1 /\ 3 - 1 = 2 /\ 4 - 1 = 3 /\ 5 - 1 = 4 /\ 6 - 1 = 5 /\ 7 - 1 = 6
  OBVIOUS
<1> QED BY <1>1, <1>2, <1>3, <1>4, UpTo2, UpTo3, UpTo4, UpTo5, UpTo6, UpTo7

-----------------------------------------------------------------------------
(* The way down.                                                           *)
LEMMA AwayInitial == \A t, x : t \in DOMAIN At2 => Leads(t, UndoInitial, x, Absent)
<1> TAKE t, x
<1> HAVE t \in DOMAIN At2
<1>1. /\ IsList(UndoInitial) /\ \A o \in Ops(UndoInitial) : o.op = "drop" /\ o.t \in DOMAIN At2
      /\ \A u \in DOMAIN At2 : Drop(u) \in Ops(UndoInitial)
  BY List15, At2Is DEF UndoInitial, Drop
<1>2. Drop(t) \in Ops(UndoInitial) /\ Drop(t).t = t
  BY <1>1 DEF Drop
<1> QED BY <1>1, <1>2, LeadsAway

LEMMA DownTo1 == \A t : Leads(t, Down[2], Stage2(t), Absent)
<1> TAKE t
<1>1. Down[2] = UndoInitial
  BY DEF Down
<1>2. CASE t \in DOMAIN At2
  BY <1>1, <1>2, AwayInitial
<1>3. CASE t \notin DOMAIN At2
  <2>1. \A o \in Ops(UndoInitial) : o.t \in DOMAIN At2
    BY List15, At2Is DEF UndoInitial, Drop
  <2>2. Leads(t, UndoInitial, Absent, Absent)
    BY <1>3, <2>1, UndoInitialOK, LeadsPast
  <2> QED BY <1>1, <1>3, <2>2 DEF Stage2
<1> QED BY <1>2, <1>3

LEMMA DownTo2 == \A t : Leads(t, Down[3], Stage3(t), Stage2(t))
<1> TAKE t
<1>1. Down[3] = UndoBusiness
  BY DEF Down
<1>2. /\ \A o \in Ops(UndoBusiness) : o.op = "drop" /\ o.t \in DOMAIN At3
      /\ \A u \in DOMAIN At3 : Drop(u) \in Ops(UndoBusiness) /\ Drop(u).t = u
  BY List4, At3Is DEF UndoBusiness, Drop
<1>3. CASE t \in DOMAIN At3
  <2>1. Stage2(t) = Absent
    BY <1>3, At2Is, At3Is DEF Stage2
  <2>2. Drop(t) \in Ops(UndoBusiness) /\ Drop(t).t = t
    BY <1>2, <1>3
  <2>3. Leads(t, UndoBusiness, Stage3(t), Absent)
    BY <1>2, <2>2, UndoBusinessOK, LeadsAway
  <2> QED BY <1>1, <2>1, <2>3
<1>4. CASE t \notin DOMAIN At3
  <2>1. Leads(t, UndoBusiness, Stage2(t), Stage2(t))
    BY <1>2, <1>4, UndoBusinessOK, LeadsPast
  <2> QED BY <1>1, <1>4, <2>1 DEF Stage3
<1> QED BY <1>3, <1>4

LEMMA DownTo3 == \A t : Leads(t, Down[4], Stage4(t), Stage3(t))
<1> TAKE t
<1>1. Down[4] = UndoExecution
  BY DEF Down
<1> DEFINE gone == {"agent_runs", "agent_steps", "tool_executions"}
<1>2. /\ \A o \in Ops(UndoExecution) : o.t \in DOMAIN At4 /\ (o.t \in gone => o.op = "drop")
      /\ \A u \in gone : Drop(u) \in Ops(UndoExecution) /\ Drop(u).t = u
  BY List11, At4Is DEF UndoExecution, Drop, DropRef, DropKey, RemoveColumns, PurgeNull, Require
<1>3. CASE t \in gone
  <2>1. Drop(t) \in Ops(UndoExecution) /\ Drop(t).t = t
    BY <1>2, <1>3
  <2>2. Leads(t, UndoExecution, Stage4(t), Absent)
    BY <1>2, <1>3, <2>1, UndoExecutionOK, LeadsAway
  <2> QED BY <1>1, <1>3, <2>2, Before4
<1>4. CASE t \in {"conversations", "messages", "approvals"}
  BY <1>1, <1>4, At4Is, Before4, TalksDown, MessagesDown, ApprovalsUnrun
<1>5. CASE t \notin DOMAIN At4
  <2>1. Leads(t, UndoExecution, Stage3(t), Stage3(t))
    BY <1>2, <1>5, UndoExecutionOK, LeadsPast
  <2> QED BY <1>1, <1>5, <2>1, Before4
<1> QED BY <1>3, <1>4, <1>5, At4Is

LEMMA DownTo4 == \A t : Leads(t, Down[5], Stage5(t), Stage4(t))
<1> TAKE t
<1> DEFINE x == Stage5(t)
           y == Stage4(t)
<1>1. ASSUME NEW a, NEW b, NEW c, NEW d, NEW e, Leads(t, UnlinkCallers, a, b), Leads(t, RestoreStepRuns, b, c),
             Leads(t, RestoreRuns, c, d), Leads(t, RestoreWorkflows, d, e)
      PROVE  Leads(t, Down[5], a, e)
  <2>1. Down[5] = ((UnlinkCallers \o RestoreStepRuns) \o RestoreRuns) \o RestoreWorkflows
    BY DEF Down
  <2>2. IsList(UnlinkCallers) /\ IsList(RestoreStepRuns) /\ IsList(RestoreRuns) /\ IsList(RestoreWorkflows)
    BY UnlinkCallersOK, RestoreStepRunsOK, RestoreRunsOK, RestoreWorkflowsOK
  <2> DEFINE p == UnlinkCallers \o RestoreStepRuns
             q == p \o RestoreRuns
  <2>3. IsList(p) /\ Leads(t, p, a, c)
    BY <1>1, <2>2, ConcatOps, LeadsOn
  <2> HIDE DEF p
  <2>4. IsList(q) /\ Leads(t, q, a, d)
    BY <1>1, <2>2, <2>3, ConcatOps, LeadsOn
  <2> HIDE DEF q
  <2>5. Leads(t, q \o RestoreWorkflows, a, e)
    BY <1>1, <2>2, <2>4, LeadsOn
  <2> QED BY <2>1, <2>5 DEF p, q
<1>2. \A z : /\ t \notin {"workflow_runs", "tool_executions", "approvals"} => Leads(t, UnlinkCallers, z, z)
             /\ t # "workflow_runs" => Leads(t, RestoreRuns, z, z)
             /\ t # "workflow_step_runs" => Leads(t, RestoreStepRuns, z, z)
             /\ t # "workflows" => Leads(t, RestoreWorkflows, z, z)
  <2>1. \A o \in Ops(UnlinkCallers) : o.t \in {"workflow_runs", "tool_executions", "approvals"}
    BY List11 DEF UnlinkCallers, PurgeAll, PurgeNull, DropRef, DropKey, RemoveColumns, DropCheck, Require
  <2>2. \A o \in Ops(RestoreWorkflows) : o.t = "workflows"
    BY List7 DEF RestoreWorkflows, AddColumns, DropCheck, DropKey, PurgeSuperseded, UniqueKey, RemoveColumns
  <2>3. \A z : t \notin {"workflow_runs", "tool_executions", "approvals"} => Leads(t, UnlinkCallers, z, z)
    BY <2>1, UnlinkCallersOK, LeadsPast
  <2>4. \A z : t # "workflow_runs" => Leads(t, RestoreRuns, z, z)
    BY RestoredTables, RestoreRunsOK, LeadsPast
  <2>5. \A z : t # "workflow_step_runs" => Leads(t, RestoreStepRuns, z, z)
    BY RestoredTables, RestoreStepRunsOK, LeadsPast
  <2>6. \A z : t # "workflows" => Leads(t, RestoreWorkflows, z, z)
    BY <2>2, RestoreWorkflowsOK, LeadsPast
  <2> QED BY <2>3, <2>4, <2>5, <2>6
<1>3. CASE t \in {"tool_executions", "approvals"}
  <2>1. Leads(t, UnlinkCallers, x, y)
    BY <1>3, At5Is, Before5, CallersDown, ApprovalsUnflow
  <2> QED BY <1>1, <1>2, <1>3, <2>1
<1>4. CASE t = "workflow_step_runs"
  <2>1. Leads(t, RestoreStepRuns, x, y)
    BY <1>4, At5Is, Before5, StepRunsDown
  <2> QED BY <1>1, <1>2, <1>4, <2>1
<1>5. CASE t = "workflow_runs"
  <2>1. Leads(t, UnlinkCallers, x, x) /\ Leads(t, RestoreRuns, x, y)
    BY <1>5, At5Is, Before5, RunsPurged, RunsDown
  <2> QED BY <1>1, <1>2, <1>5, <2>1
<1>6. CASE t = "workflows"
  <2>1. Leads(t, RestoreWorkflows, x, y)
    BY <1>6, At5Is, Before5, WorkflowsDown
  <2> QED BY <1>1, <1>2, <1>6, <2>1
<1>7. CASE t \notin DOMAIN At5
  <2>1. x = y
    BY <1>7, Before5
  <2> QED BY <1>1, <1>2, <1>7, <2>1, At5Is
<1> QED BY <1>3, <1>4, <1>5, <1>6, <1>7, At5Is

LEMMA DownTo5 == \A t : Leads(t, Down[6], Stage6(t), Stage5(t))
<1> TAKE t
<1>1. Down[6] = UndoReviewed
  BY DEF Down
<1>2. CASE t = "approvals"
  BY <1>1, <1>2, At5Is, Before5, ApprovalsUnreview DEF Stage6
<1>3. CASE t # "approvals"
  <2>1. \A o \in Ops(UndoReviewed) : o.t = "approvals"
    BY List1 DEF UndoReviewed, RemoveColumns
  <2> QED BY <1>1, <1>3, <2>1, ReviewedOK, LeadsPast DEF Stage6
<1> QED BY <1>2, <1>3

LEMMA DownTo6 == \A t : Leads(t, Down[7], Stage7(t), Stage6(t))
<1> TAKE t
<1>1. Down[7] = UndoUsage /\ Ops(UndoUsage) = {Drop("generation_usage")}
  BY List1 DEF Down, UndoUsage
<1>2. Drop("generation_usage").t = "generation_usage" /\ Drop("generation_usage").op = "drop"
  BY DEF Drop
<1>3. CASE t = "generation_usage"
  <2>1. Leads(t, UndoUsage, Stage7(t), Absent)
    BY <1>1, <1>2, <1>3, UsageOK, LeadsAway
  <2> QED BY <1>1, <1>3, <2>1, Before7
<1>4. CASE t # "generation_usage"
  BY <1>1, <1>2, <1>4, UsageOK, LeadsPast DEF Stage7
<1> QED BY <1>3, <1>4

\* And undoing it takes every table back.
LEMMA DownLeads == \A k \in 1 .. 7 : \A t : Leads(t, Down[k], Stage(k, t), Stage(k - 1, t))
<1> TAKE k \in 1 .. 7
<1> TAKE t
<1>1. Stage(0, t) = Absent /\ Stage(1, t) = Absent /\ Stage(2, t) = Stage2(t) /\ Stage(3, t) = Stage3(t)
      /\ Stage(4, t) = Stage4(t) /\ Stage(5, t) = Stage5(t) /\ Stage(6, t) = Stage6(t) /\ Stage(7, t) = Stage7(t)
  BY DEF Stage
<1>2. Leads(t, Down[1], Absent, Absent)
  <2>1. Down[1] = <<>>
    BY DEF Down
  <2> QED BY <2>1, List0, LeadsPast
<1>3. k = 1 \/ k = 2 \/ k = 3 \/ k = 4 \/ k = 5 \/ k = 6 \/ k = 7
  OBVIOUS
<1>4. /\ 1 - 1 = 0 /\ 2 - 1 = 1 /\ 3 - 1 = 2 /\ 4 - 1 = 3 /\ 5 - 1 = 4 /\ 6 - 1 = 5 /\ 7 - 1 = 6
  OBVIOUS
<1> QED BY <1>1, <1>2, <1>3, <1>4, DownTo1, DownTo2, DownTo3, DownTo4, DownTo5, DownTo6

-----------------------------------------------------------------------------
(* A schema and its revision.                                              *)
AtStage(d, k) ==
    /\ d.tables = [t \in DOMAIN d.tables |-> d.tables[t]]
    /\ \A t : ShapeIn(d, t) = Stage(k, t)

LEMMA LinksIn ==
    ASSUME NEW d, NEW e, \A t : ShapeIn(d, t) = ShapeIn(e, t)
    PROVE  Links(d) \subseteq Links(e)
<1> SUFFICES ASSUME NEW l \in Links(d) PROVE l \in Links(e)
  OBVIOUS
<1>1. {m.ref : m \in {x \in Links(d) : x.from = l.from}} = {m.ref : m \in {x \in Links(e) : x.from = l.from}}
  <2>1. ShapeIn(d, l.from).refs = ShapeIn(e, l.from).refs
    OBVIOUS
  <2> QED BY <2>1 DEF ShapeIn
<1>2. l.ref \in {m.ref : m \in {x \in Links(d) : x.from = l.from}}
  OBVIOUS
<1>3. PICK m \in Links(e) : m.from = l.from /\ m.ref = l.ref
  BY <1>1, <1>2
<1>4. l = [from |-> l.from, ref |-> l.ref] /\ m = [from |-> m.from, ref |-> m.ref]
  BY <1>3 DEF Links
<1> QED BY <1>3, <1>4

\* A schema is its tables.
LEMMA StagedAlike ==
    ASSUME NEW d, NEW e, NEW k, AtStage(d, k), AtStage(e, k)
    PROVE  Alike(d, e)
<1>1. \A t : ShapeIn(d, t) = ShapeIn(e, t)
  BY DEF AtStage
<1>2. /\ \A t : {d.tables[u] : u \in {t} \cap DOMAIN d.tables} = {e.tables[u] : u \in {t} \cap DOMAIN e.tables}
      /\ \A t : {l.ref : l \in {x \in Links(d) : x.from = t}} = {l.ref : l \in {x \in Links(e) : x.from = t}}
      /\ \A t : {c \in d.checks : c[1] = t} = {c \in e.checks : c[1] = t}
  BY <1>1 DEF ShapeIn
<1>3. d.tables = e.tables
  <2>1. \A t : t \in DOMAIN d.tables <=> t \in DOMAIN e.tables
    <3> TAKE t
    <3>1. t \in DOMAIN d.tables => d.tables[t] \in {e.tables[u] : u \in {t} \cap DOMAIN e.tables}
      BY <1>2, ZenonT(60)
    <3>2. t \in DOMAIN e.tables => e.tables[t] \in {d.tables[u] : u \in {t} \cap DOMAIN d.tables}
      BY <1>2, ZenonT(60)
    <3> QED BY <3>1, <3>2
  <2>2. \A t \in DOMAIN d.tables : d.tables[t] = e.tables[t]
    <3> TAKE t \in DOMAIN d.tables
    <3>1. d.tables[t] \in {e.tables[u] : u \in {t} \cap DOMAIN e.tables}
      BY <1>2
    <3> QED BY <3>1
  <2>3. DOMAIN d.tables = DOMAIN e.tables
    BY <2>1
  <2> QED BY <2>2, <2>3 DEF AtStage
<1>4. Links(d) = Links(e)
  <2>1. Links(d) \subseteq Links(e)
    BY <1>1, LinksIn
  <2>2. Links(e) \subseteq Links(d)
    BY <1>1, LinksIn
  <2> QED BY <2>1, <2>2
<1>5. d.checks = e.checks
  <2>1. \A c : c \in d.checks <=> c \in e.checks
    <3> TAKE c
    <3>1. {x \in d.checks : x[1] = c[1]} = {x \in e.checks : x[1] = c[1]}
      BY <1>2
    <3> QED BY <3>1
  <2> QED BY <2>1
<1> QED BY <1>3, <1>4, <1>5 DEF Alike

LEMMA AlikeStaged ==
    ASSUME NEW d, NEW e, NEW k, AtStage(d, k), Alike(d, e)
    PROVE  AtStage(e, k)
<1>1. \A t : ShapeIn(d, t) = ShapeIn(e, t)
  BY DEF Alike, ShapeIn
<1> QED BY <1>1 DEF AtStage, Alike

LEMMA NothingIs == AtStage(Nothing, 0)
<1>1. DOMAIN Nothing.tables = {} /\ Nothing.refs = {} /\ Nothing.checks = {}
  BY DEF Nothing
<1>2. Links(Nothing) = {}
  BY <1>1 DEF Links
<1>3. \A t : ShapeIn(Nothing, t) = Absent
  BY <1>1, <1>2 DEF ShapeIn, Absent
<1>4. \A t : Stage(0, t) = Absent
  BY DEF Stage
<1>5. Nothing.tables = [t \in DOMAIN Nothing.tables |-> Nothing.tables[t]]
  BY DEF Nothing
<1> QED BY <1>3, <1>4, <1>5 DEF AtStage

\* A migration that is accepted takes a schema to the next revision or the one before.
LEMMA RunStages ==
    ASSUME NEW d, NEW rs, NEW ops, IsList(ops), Run(d, rs, ops).ok, NEW j, NEW k, AtStage(d, j),
           \A t : Leads(t, ops, Stage(j, t), Stage(k, t))
    PROVE  AtStage(Run(d, rs, ops).d, k)
<1>1. \A t : ShapeIn(Run(d, rs, ops).d, t) = Stage(k, t)
  <2> TAKE t
  <2>1. ShapeIn(d, t) = Stage(j, t) /\ Leads(t, ops, Stage(j, t), Stage(k, t))
    BY DEF AtStage
  <2> QED BY <2>1, RunLeads
<1> DEFINE n == Len(ops)
<1>2. n \in Nat
  BY LenProperties DEF IsList
<1>3. PICK a : Accepted(a, From(d, rs), ops, n) /\ Run(d, rs, ops) = a[n]
  BY <1>2, AcceptedStepByStep
<1>4. a[n].d.tables = [t \in DOMAIN a[n].d.tables |-> a[n].d.tables[t]]
  <2>1. CASE n = 0
    <3>1. a[n] = From(d, rs)
      BY <1>3, <2>1 DEF Accepted
    <3>2. a[n].d = d
      BY <3>1 DEF From
    <3> QED BY <3>2 DEF AtStage
  <2>2. CASE n # 0
    <3>1. n \in 1 .. n
      BY <1>2, <2>2
    <3>2. a[n].d = Alter(a[n - 1].d, ops[n])
      BY <1>3, <3>1, StepIs
    <3>3. \A o, e : Alter(e, o).tables = [t \in DOMAIN Alter(e, o).tables |-> Alter(e, o).tables[t]]
      BY DEF Alter
    <3> QED BY <3>2, <3>3
  <2> QED BY <2>1, <2>2
<1> QED BY <1>1, <1>3, <1>4 DEF AtStage

\* What a migration does, up to the numbers of the references.
LEMMA MigrateTo ==
    ASSUME SchemaInv, NEW ops, IsList(ops), \A o \in Ops(ops) : OpOK(o), NEW to, Migrate(ops, to)
    PROVE  \/ UNCHANGED <<rev, db>>
           \/ rev' = to /\ Run(db, rows, ops).ok /\ Alike(Run(db, rows, ops).d, db')
<1> DEFINE done == Run(db, rows, ops)
<1>1. CASE ~ done.ok
  BY <1>1 DEF Migrate
<1>2. CASE done.ok
  <2>1. rev' = to /\ db' = Renumbered(done.d)
    BY <1>2 DEF Migrate
  <2>2. PICK a : /\ done = a[Len(ops)]
                 /\ \A i \in 0 .. Len(ops) : Base(a[i].d, a[i].rows) /\ Remain(rows, a[i].rows)
    BY <1>2, MigrationKeeps DEF SchemaInv
  <2>3. Len(ops) \in 0 .. Len(ops)
    BY LenProperties DEF IsList
  <2> HIDE DEF done
  <2>4. Base(done.d, done.rows)
    BY <2>2, <2>3
  <2>5. Links(Renumbered(done.d)) = Links(done.d) /\ Renumbered(done.d).tables = done.d.tables
    BY <2>4, RenumberedKeeps
  <2>6. Renumbered(done.d).checks = done.d.checks
    BY DEF Renumbered
  <2> QED BY <1>2, <2>1, <2>5, <2>6 DEF Alike, done
<1> QED BY <1>1, <1>2

(* The schema is that of its revision, and so was each of a fresh database.*)
Placed ==
    /\ AtStage(db, rev)
    /\ \A j \in 0 .. 7 : j <= rev => AtStage(FreshSchema[j + 1], j)

LEMMA PlacedKept ==
    ASSUME SchemaInv, Placed, [SchemaNext]_schemaVars
    PROVE  Placed'
<1>1. CASE UNCHANGED <<rev, db>>
  BY <1>1 DEF Placed
<1>2. CASE Upgrade
  <2> DEFINE k == rev + 1
             ops == Up[k]
  <2>1. rev \in 0 .. 7 /\ rev < 7 /\ Migrate(ops, k)
    BY <1>2, Revisions DEF SchemaInv, Upgrade
  <2>2. k \in 1 .. 7 /\ k - 1 = rev /\ k \in 0 .. 7
    BY <2>1
  <2>3. IsList(ops) /\ (\A o \in Ops(ops) : OpOK(o) /\ UpOp(o)) /\ \A t : Leads(t, ops, Stage(rev, t), Stage(k, t))
    BY <2>2, Revisions, UpLeads
  <2>4. FreshSchema[k + 1] = Run(FreshSchema[k], NoRows, ops).d
    BY <2>2, FreshIs
  <2>5. AtStage(db, rev) /\ AtStage(FreshSchema[k], rev)
    BY <2>1 DEF Placed
  <2> HIDE DEF ops
  <2>6. CASE rev' = k /\ Run(db, rows, ops).ok /\ Alike(Run(db, rows, ops).d, db')
    <3>1. AtStage(Run(db, rows, ops).d, k)
      BY <2>3, <2>5, <2>6, RunStages
    <3>2. AtStage(db', k)
      BY <2>6, <3>1, AlikeStaged
    <3>3. Alike(db, FreshSchema[k])
      BY <2>5, StagedAlike
    <3>4. \A o \in Ops(ops) : o.op \notin {"purge", "superseded"}
      BY <2>3 DEF UpOp
    <3>5. Run(FreshSchema[k], NoRows, ops).ok
      BY <2>3, <2>6, <3>3, <3>4, Rehearsed
    <3>6. AtStage(FreshSchema[k + 1], k)
      BY <2>3, <2>4, <2>5, <3>5, RunStages
    <3>7. \A j \in 0 .. 7 : j <= k => j <= rev \/ j = k
      BY <2>1
    <3> QED BY <2>6, <3>2, <3>6, <3>7 DEF Placed
  <2>7. Migrate(ops, k) /\ IsList(ops) /\ \A o \in Ops(ops) : OpOK(o)
    BY <2>1, <2>3 DEF ops
  <2>8. UNCHANGED <<rev, db>> \/ (rev' = k /\ Run(db, rows, ops).ok /\ Alike(Run(db, rows, ops).d, db'))
    BY <2>7, MigrateTo
  <2> QED BY <1>1, <2>6, <2>8
<1>3. CASE Downgrade
  <2> DEFINE k == rev - 1
             ops == Down[rev]
  <2>1. rev \in 1 .. 7 /\ Migrate(ops, k)
    BY <1>3 DEF SchemaInv, Downgrade
  <2>2. IsList(ops) /\ (\A o \in Ops(ops) : OpOK(o)) /\ \A t : Leads(t, ops, Stage(rev, t), Stage(k, t))
    BY <2>1, Revisions, DownLeads
  <2> HIDE DEF ops
  <2>3. CASE rev' = k /\ Run(db, rows, ops).ok /\ Alike(Run(db, rows, ops).d, db')
    <3>1. AtStage(Run(db, rows, ops).d, k)
      BY <2>2, <2>3, RunStages DEF Placed
    <3>2. AtStage(db', k)
      BY <2>3, <3>1, AlikeStaged
    <3>3. \A j \in 0 .. 7 : j <= k => j <= rev
      BY <2>1
    <3> QED BY <2>3, <3>2, <3>3 DEF Placed
  <2>4. Migrate(ops, k) /\ IsList(ops) /\ \A o \in Ops(ops) : OpOK(o)
    BY <2>1, <2>2 DEF ops
  <2>5. UNCHANGED <<rev, db>> \/ (rev' = k /\ Run(db, rows, ops).ok /\ Alike(Run(db, rows, ops).d, db'))
    BY <2>4, MigrateTo
  <2> QED BY <1>1, <2>3, <2>5
<1>4. ASSUME NEW p \in DOMAIN Written, Use(p) PROVE Placed'
  BY <1>1, <1>4, UseIs
<1>5. ASSUME NEW t, NEW noted, Delete(t, noted) PROVE Placed'
  BY <1>1, <1>5, DeleteIs
<1>6. CASE UNCHANGED schemaVars
  BY <1>1, <1>6 DEF schemaVars
<1> QED BY <1>2, <1>3, <1>4, <1>5, <1>6 DEF SchemaNext

\* alembic/versions: whichever upgrades and downgrades ran or were refused, over whatever rows, each
\* table has the columns, keys, references and checks that its revision says, and no table more.
THEOREM PlacedHolds == SchemaSpec => []Placed
<1>1. SchemaInit => Placed
  <2> SUFFICES ASSUME SchemaInit PROVE Placed
    OBVIOUS
  <2>1. db = Nothing /\ rev = 0 /\ FreshSchema[1] = Nothing
    BY FreshIs DEF SchemaInit
  <2>2. \A j \in 0 .. 7 : j <= 0 => j = 0
    OBVIOUS
  <2> QED BY <2>1, <2>2, NothingIs DEF Placed
<1>2. SchemaInv /\ Placed /\ [SchemaNext]_schemaVars => Placed'
  BY PlacedKept
<1> QED BY <1>1, <1>2, SchemaHolds, PTL DEF SchemaSpec

\* Each downgrade() undoes its upgrade(): a database that was migrated up and down has the schema
\* that a fresh one has at the same revision.
LEMMA FreshHolds == SchemaSpec => []AsFresh
<1>1. SchemaInv /\ Placed => AsFresh
  <2> SUFFICES ASSUME SchemaInv, Placed PROVE AsFresh
    OBVIOUS
  <2>1. rev \in 0 .. 7 /\ rev <= rev
    BY DEF SchemaInv
  <2>2. AtStage(db, rev) /\ AtStage(FreshSchema[rev + 1], rev)
    BY <2>1 DEF Placed
  <2>3. Alike(db, FreshSchema[rev + 1])
    BY <2>2, StagedAlike
  <2> QED BY <2>3 DEF Alike, AsFresh
<1> QED BY <1>1, SchemaHolds, PlacedHolds, PTL

-----------------------------------------------------------------------------
(* The last revision and the models.                                       *)
LastTables == {"organizations", "organization_members", "users", "agents", "tools", "agent_tools",
               "conversations", "messages", "agent_runs", "agent_steps", "tool_executions", "approvals",
               "workflows", "workflow_steps", "workflow_runs", "workflow_step_runs", "customers", "shipments",
               "shipment_charges", "invoices", "documents", "audit_events", "generation_usage"}

LEMMA AtLast ==
    /\ Stage7("organizations") = MadeBy(Platform[1]) /\ Stage7("tools") = MadeBy(Platform[2])
    /\ Stage7("users") = MadeBy(Platform[3]) /\ Stage7("agents") = MadeBy(Platform[4])
    /\ Stage7("audit_events") = MadeBy(Records[1]) /\ Stage7("documents") = MadeBy(Records[2])
    /\ Stage7("organization_members") = MadeBy(Records[3])
    /\ Stage7("agent_tools") = MadeBy(Chats[2]) /\ Stage7("workflow_steps") = MadeBy(Flows[3])
    /\ Stage7("customers") = MadeBy(Customers[1]) /\ Stage7("shipments") = MadeBy(Customers[2])
    /\ Stage7("invoices") = MadeBy(Bills[1]) /\ Stage7("shipment_charges") = MadeBy(Charges[1])
    /\ Stage7("conversations") = Conversations4 /\ Stage7("messages") = Messages4
    /\ Stage7("agent_runs") = MadeBy(RunTables[4]) /\ Stage7("agent_steps") = MadeBy(ExecutionTables[1])
    /\ Stage7("workflows") = Workflows5 /\ Stage7("workflow_runs") = Runs5
    /\ Stage7("workflow_step_runs") = StepRuns5 /\ Stage7("tool_executions") = Executions5
    /\ Stage7("approvals") = Approvals6 /\ Stage7("generation_usage") = MadeBy(Usage[1])
    /\ \A t : t \notin LastTables => Stage7(t) = Absent
<1>1. /\ \A t \in LastTables : t \notin DOMAIN At3 /\ t \notin DOMAIN At4 /\ t \notin DOMAIN At5
              /\ t # "approvals" /\ t # "generation_usage" => Stage7(t) = Stage2(t)
      /\ \A t \in DOMAIN At3 : t \notin DOMAIN At4 /\ t \notin DOMAIN At5
              /\ t # "approvals" /\ t # "generation_usage" => Stage7(t) = At3[t]
      /\ \A t \in DOMAIN At4 : t \notin DOMAIN At5
              /\ t # "approvals" /\ t # "generation_usage" => Stage7(t) = At4[t]
      /\ \A t \in DOMAIN At5 : t # "approvals" /\ t # "generation_usage" => Stage7(t) = At5[t]
      /\ Stage7("approvals") = Approvals6 /\ Stage7("generation_usage") = MadeBy(Usage[1])
  BY DEF Stage3, Stage4, Stage5, Stage6, Stage7
<1>2. /\ Stage7("organizations") = MadeBy(Platform[1]) /\ Stage7("tools") = MadeBy(Platform[2])
      /\ Stage7("users") = MadeBy(Platform[3]) /\ Stage7("agents") = MadeBy(Platform[4])
      /\ Stage7("audit_events") = MadeBy(Records[1]) /\ Stage7("documents") = MadeBy(Records[2])
      /\ Stage7("organization_members") = MadeBy(Records[3])
      /\ Stage7("agent_tools") = MadeBy(Chats[2]) /\ Stage7("workflow_steps") = MadeBy(Flows[3])
  BY <1>1, At2Is, At3Is, At4Is, At5Is DEF Stage2, LastTables
<1>3. /\ Stage7("customers") = MadeBy(Customers[1]) /\ Stage7("shipments") = MadeBy(Customers[2])
      /\ Stage7("invoices") = MadeBy(Bills[1]) /\ Stage7("shipment_charges") = MadeBy(Charges[1])
  BY <1>1, At3Is, At4Is, At5Is
<1>4. /\ Stage7("conversations") = Conversations4 /\ Stage7("messages") = Messages4
      /\ Stage7("agent_runs") = MadeBy(RunTables[4]) /\ Stage7("agent_steps") = MadeBy(ExecutionTables[1])
  BY <1>1, At4Is, At5Is
<1>5. /\ Stage7("workflows") = Workflows5 /\ Stage7("workflow_runs") = Runs5
      /\ Stage7("workflow_step_runs") = StepRuns5 /\ Stage7("tool_executions") = Executions5
  BY <1>1, At5Is
<1>6. \A t : t \notin LastTables => Stage7(t) = Absent
  BY At2Is, At3Is, At4Is, At5Is DEF Stage2, Stage3, Stage4, Stage5, Stage6, Stage7, LastTables
<1> QED BY <1>1, <1>2, <1>3, <1>4, <1>5, <1>6

\* A model declares what the last revision has.
Matches(m) ==
    /\ Stage7(m.t).tab = {[must |-> m.must, opt |-> m.opt, keys |-> m.keys]}
    /\ Stage7(m.t).refs = ToSet(m.refs)

LEMMA ShapeMatches ==
    ASSUME NEW t, NEW p, NEW o, NEW k, NEW r, NEW must, NEW refs, NEW c,
           Stage7(t) = Shape(must, o, k, refs, c),
           must = (p \cup {r[i].col : i \in DOMAIN r}) \ o, refs = {r[i] : i \in DOMAIN r}
    PROVE  Matches(Table(t, p, o, k, r))
<1> DEFINE m == Table(t, p, o, k, r)
<1>1. m.t = t /\ m.must = must /\ m.opt = o /\ m.keys = k /\ m.refs = r
  BY DEF Table
<1>2. ToSet(r) = refs
  BY DEF ToSet
<1>3. Shape(must, o, k, refs, c).tab = {[must |-> must, opt |-> o, keys |-> k]}
      /\ Shape(must, o, k, refs, c).refs = refs
  BY DEF Shape
<1> HIDE DEF m
<1> QED BY <1>1, <1>2, <1>3 DEF Matches, m

\* A table that is as it was created, with its references in any order.
LEMMA MadeMatches ==
    ASSUME NEW t, NEW p, NEW o, NEW k, NEW r, NEW s, Stage7(t) = MadeBy(Table(t, p, o, k, s)),
           {r[i].col : i \in DOMAIN r} = {s[i].col : i \in DOMAIN s},
           {r[i] : i \in DOMAIN r} = {s[i] : i \in DOMAIN s}
    PROVE  Matches(Table(t, p, o, k, r))
<1> DEFINE must == (p \cup {s[i].col : i \in DOMAIN s}) \ o
           refs == {s[i] : i \in DOMAIN s}
<1>1. Stage7(t) = Shape(must, o, k, refs, {})
  BY MadeTable
<1>2. must = (p \cup {r[i].col : i \in DOMAIN r}) \ o /\ refs = {r[i] : i \in DOMAIN r}
  OBVIOUS
<1> HIDE DEF must, refs
<1> QED BY <1>1, <1>2, ShapeMatches

LEMMA TenantModelsMatch ==
    \A m \in TenantModels : Matches(m)
<1>1. Matches(Table("organizations", {"slug"}, {}, {{"slug"}},
              <<>>))
  <2>1. Platform[1] = Table("organizations", {"slug"}, {}, {{"slug"}},
                <<>>)
    BY DEF Platform
  <2> QED BY <2>1, AtLast, MadeMatches
<1>2. Matches(Table("organization_members", {}, {}, {{"organization_id", "user_id"}},
              <<Org, To("user_id", "users", "cascade")>>))
  <2>1. Records[3] = Table("organization_members", {}, {}, {{"organization_id", "user_id"}},
                <<Org, To("user_id", "users", "cascade")>>)
    BY DEF Records
  <2> QED BY <2>1, AtLast, MadeMatches
<1> QED BY <1>1, <1>2 DEF TenantModels

LEMMA UserModelMatch ==
    Matches(UserModel)
<1>1. Matches(Table("users", {"email"}, {}, {{"email"}},
              <<>>))
  <2>1. Platform[3] = Table("users", {"email"}, {}, {{"email"}},
                <<>>)
    BY DEF Platform
  <2> QED BY <2>1, AtLast, MadeMatches
<1> QED BY <1>1 DEF UserModel

LEMMA AgentModelsMatch ==
    \A m \in AgentModels : Matches(m)
<1>1. Matches(Table("agents", {"name"}, {}, {{"organization_id", "name"}},
              <<Org>>))
  <2>1. Platform[4] = Table("agents", {"name"}, {}, {{"organization_id", "name"}},
                <<Org>>)
    BY DEF Platform
  <2> QED BY <2>1, AtLast, MadeMatches
<1>2. Matches(Table("tools", {"name"}, {}, {{"name"}},
              <<>>))
  <2>1. Platform[2] = Table("tools", {"name"}, {}, {{"name"}},
                <<>>)
    BY DEF Platform
  <2> QED BY <2>1, AtLast, MadeMatches
<1>3. Matches(Table("agent_tools", {}, {}, {{"agent_id", "tool_id"}},
              <<To("agent_id", "agents", "cascade"), To("tool_id", "tools", "cascade")>>))
  <2>1. Chats[2] = Table("agent_tools", {}, {}, {{"agent_id", "tool_id"}},
                <<To("agent_id", "agents", "cascade"), To("tool_id", "tools", "cascade")>>)
    BY DEF Chats
  <2> QED BY <2>1, AtLast, MadeMatches
<1> QED BY <1>1, <1>2, <1>3 DEF AgentModels

LEMMA ChatModelsMatch ==
    \A m \in ChatModels : Matches(m)
<1>1. Matches(Table("conversations", {}, {"agent_id"}, {OrgKey},
              <<Org, To("user_id", "users", "restrict"), To("agent_id", "agents", "cascade")>>))
  <2> DEFINE r == <<Org, To("user_id", "users", "restrict"), To("agent_id", "agents", "cascade")>>
             k == {OrgKey}
             o == {"agent_id"}
             must == {"organization_id", "user_id"}
             refs == TalkRefs
  <2>1. /\ {r[i].col : i \in DOMAIN r} = {"organization_id", "user_id", "agent_id"}
        /\ {r[i] : i \in DOMAIN r} = {Org, To("user_id", "users", "restrict"),
              To("agent_id", "agents", "cascade")}
    BY RefsOf, ColOf
  <2>2. must = ({} \cup {"organization_id", "user_id", "agent_id"}) \ o
    BY DEF TalkRefs
  <2>3. refs = {Org, To("user_id", "users", "restrict"), To("agent_id", "agents", "cascade")}
    BY DEF TalkRefs
  <2>4. o = {"agent_id"} /\ k = {OrgKey}
    BY DEF TalkRefs
  <2>5. Stage7("conversations") = Shape(must, o, k, refs, {})
    BY <2>4, AtLast DEF Conversations4
  <2>6. must = ({} \cup {r[i].col : i \in DOMAIN r}) \ o /\ refs = {r[i] : i \in DOMAIN r}
    BY <2>1, <2>2, <2>3
  <2> HIDE DEF r, k, o, must, refs
  <2>7. Matches(Table("conversations", {}, o, k, r))
    BY <2>5, <2>6, ShapeMatches
  <2> QED BY <2>7 DEF r, k, o
<1>2. Matches(Table("messages", {}, {"sequence", "tool_metadata"}, {},
              <<To("conversation_id", "conversations", "cascade")>>))
  <2> DEFINE r == <<To("conversation_id", "conversations", "cascade")>>
             k == {}
             o == {"sequence", "tool_metadata"}
             must == {"conversation_id"}
             refs == TurnRefs
  <2>1. /\ {r[i].col : i \in DOMAIN r} = {"conversation_id"}
        /\ {r[i] : i \in DOMAIN r} = {To("conversation_id", "conversations", "cascade")}
    BY RefsOf, ColOf
  <2>2. must = ({} \cup {"conversation_id"}) \ o
    BY DEF TurnRefs
  <2>3. refs = {To("conversation_id", "conversations", "cascade")}
    BY DEF TurnRefs
  <2>4. o = {"tool_metadata", "sequence"} /\ k = {}
    BY DEF TurnRefs
  <2>5. Stage7("messages") = Shape(must, o, k, refs, {})
    BY <2>4, AtLast DEF Messages4
  <2>6. must = ({} \cup {r[i].col : i \in DOMAIN r}) \ o /\ refs = {r[i] : i \in DOMAIN r}
    BY <2>1, <2>2, <2>3
  <2> HIDE DEF r, k, o, must, refs
  <2>7. Matches(Table("messages", {}, o, k, r))
    BY <2>5, <2>6, ShapeMatches
  <2> QED BY <2>7 DEF r, k, o
<1> QED BY <1>1, <1>2 DEF ChatModels

LEMMA RunModelsMatch ==
    \A m \in RunModels : Matches(m)
<1>1. Matches(Table("agent_runs", {"agent_id"}, {"conversation_id", "idempotency_key"}, {OrgKey,
      {"organization_id", "idempotency_key"}},
              <<Org, To("user_id", "users", "restrict"),
                    Within("conversation_id", "conversations", "cascade")>>))
  <2>1. RunTables[4] = Table("agent_runs", {"agent_id"}, {"conversation_id", "idempotency_key"}, {OrgKey,
        {"organization_id", "idempotency_key"}},
                <<Within("conversation_id", "conversations", "cascade"), Org,
                      To("user_id", "users", "restrict")>>)
    BY DEF RunTables
  <2>2. {"organization_id", "user_id", "conversation_id"} = {"conversation_id", "organization_id", "user_id"}
    OBVIOUS
  <2>3. {Org, To("user_id", "users", "restrict"), Within("conversation_id", "conversations", "cascade")}
         = {Within("conversation_id", "conversations", "cascade"), Org, To("user_id", "users", "restrict")}
    OBVIOUS
  <2> QED BY <2>1, <2>2, <2>3, AtLast, MadeMatches, RefsOf, ColOf
<1>2. Matches(Table("agent_steps", {"step_number"}, {}, {{"run_id", "step_number"}},
              <<Org, Within("run_id", "agent_runs", "cascade")>>))
  <2>1. ExecutionTables[1] = Table("agent_steps", {"step_number"}, {}, {{"run_id", "step_number"}},
                <<Org, Within("run_id", "agent_runs", "cascade")>>)
    BY DEF ExecutionTables
  <2> QED BY <2>1, AtLast, MadeMatches
<1> QED BY <1>1, <1>2 DEF RunModels

LEMMA ExecutionModelMatch ==
    Matches(ExecutionModel)
<1>1. Matches(Table("tool_executions", {"step_number"}, {"run_id", "workflow_step_run_id"}, {OrgKey,
      {"run_id", "step_number"}, {"workflow_step_run_id"}},
              <<Org, Within("run_id", "agent_runs", "cascade"),
                    Within("workflow_step_run_id", "workflow_step_runs", "cascade")>>))
  <2> DEFINE r == <<Org, Within("run_id", "agent_runs", "cascade"),
                    Within("workflow_step_run_id", "workflow_step_runs", "cascade")>>
             k == {OrgKey, {"run_id", "step_number"}, {"workflow_step_run_id"}}
             o == {"run_id", "workflow_step_run_id"}
             must == {"step_number", "organization_id"}
             refs == {Org, Within("run_id", "agent_runs", "cascade"),
                     Within("workflow_step_run_id", "workflow_step_runs", "cascade")}
  <2>1. /\ {r[i].col : i \in DOMAIN r} = {"organization_id", "run_id", "workflow_step_run_id"}
        /\ {r[i] : i \in DOMAIN r} = {Org, Within("run_id", "agent_runs", "cascade"),
              Within("workflow_step_run_id", "workflow_step_runs", "cascade")}
    BY RefsOf, ColOf
  <2>2. must = ({"step_number"} \cup {"organization_id", "run_id", "workflow_step_run_id"}) \ o
    BY DEF NumberKey
  <2>3. refs = {Org, Within("run_id", "agent_runs", "cascade"),
        Within("workflow_step_run_id", "workflow_step_runs", "cascade")}
    BY DEF NumberKey
  <2>4. o = {"run_id", "workflow_step_run_id"} /\ k = {OrgKey, NumberKey, {"workflow_step_run_id"}}
    BY DEF NumberKey
  <2>5. Stage7("tool_executions") = Shape(must, o, k, refs, {<<"tool_executions", {"exactly_one_caller"}>>})
    BY <2>4, AtLast DEF Executions5
  <2>6. must = ({"step_number"} \cup {r[i].col : i \in DOMAIN r}) \ o /\ refs = {r[i] : i \in DOMAIN r}
    BY <2>1, <2>2, <2>3
  <2> HIDE DEF r, k, o, must, refs
  <2>7. Matches(Table("tool_executions", {"step_number"}, o, k, r))
    BY <2>5, <2>6, ShapeMatches
  <2> QED BY <2>7 DEF r, k, o
<1> QED BY <1>1 DEF ExecutionModel

LEMMA ApprovalModelMatch ==
    Matches(ApprovalModel)
<1>1. Matches(Table("approvals", {}, {"agent_id", "tool_id", "conversation_id", "approved_by", "run_id",
      "tool_execution_id", "tool_name", "workflow_run_id", "workflow_step_run_id", "summary",
      "summary_fields", "decision_reason"}, {{"tool_execution_id"}, {"workflow_step_run_id"}},
              <<Org, To("requested_by", "users", "restrict"), To("agent_id", "agents", "cascade"),
                    To("tool_id", "tools", "restrict"), To("conversation_id", "conversations", "cascade"),
                    To("approved_by", "users", "null"), Within("run_id", "agent_runs", "cascade"),
                    Within("tool_execution_id", "tool_executions", "cascade"),
                    Within("workflow_run_id", "workflow_runs", "cascade"),
                    Within("workflow_step_run_id", "workflow_step_runs", "cascade")>>))
  <2> DEFINE r == <<Org, To("requested_by", "users", "restrict"), To("agent_id", "agents", "cascade"),
                    To("tool_id", "tools", "restrict"), To("conversation_id", "conversations", "cascade"),
                    To("approved_by", "users", "null"), Within("run_id", "agent_runs", "cascade"),
                    Within("tool_execution_id", "tool_executions", "cascade"),
                    Within("workflow_run_id", "workflow_runs", "cascade"),
                    Within("workflow_step_run_id", "workflow_step_runs", "cascade")>>
             k == {{"tool_execution_id"}, {"workflow_step_run_id"}}
             o == {"agent_id", "tool_id", "conversation_id", "approved_by", "run_id", "tool_execution_id",
                     "tool_name", "workflow_run_id", "workflow_step_run_id", "summary", "summary_fields",
                     "decision_reason"}
             must == Asker
             refs == AskRefs \cup RunRefs \cup FlowRefs
  <2>1. /\ {r[i].col : i \in DOMAIN r} = {"organization_id", "requested_by", "agent_id", "tool_id",
              "conversation_id", "approved_by", "run_id", "tool_execution_id", "workflow_run_id",
              "workflow_step_run_id"}
        /\ {r[i] : i \in DOMAIN r} = {Org, To("requested_by", "users", "restrict"),
              To("agent_id", "agents", "cascade"), To("tool_id", "tools", "restrict"),
              To("conversation_id", "conversations", "cascade"), To("approved_by", "users", "null"),
              Within("run_id", "agent_runs", "cascade"),
              Within("tool_execution_id", "tool_executions", "cascade"),
              Within("workflow_run_id", "workflow_runs", "cascade"),
              Within("workflow_step_run_id", "workflow_step_runs", "cascade")}
    BY RefsOf, ColOf
  <2>2. must = ({} \cup {"organization_id", "requested_by", "agent_id", "tool_id", "conversation_id",
        "approved_by", "run_id", "tool_execution_id", "workflow_run_id", "workflow_step_run_id"}) \ o
    BY DEF Asker, About, OfRun, OfFlow, OfReview, AskRefs, RunRefs, FlowRefs
  <2>3. refs = {Org, To("requested_by", "users", "restrict"), To("agent_id", "agents", "cascade"),
        To("tool_id", "tools", "restrict"), To("conversation_id", "conversations", "cascade"),
        To("approved_by", "users", "null"), Within("run_id", "agent_runs", "cascade"),
        Within("tool_execution_id", "tool_executions", "cascade"),
        Within("workflow_run_id", "workflow_runs", "cascade"),
        Within("workflow_step_run_id", "workflow_step_runs", "cascade")}
    BY DEF Asker, About, OfRun, OfFlow, OfReview, AskRefs, RunRefs, FlowRefs
  <2>4. o = About \cup OfRun \cup OfFlow \cup OfReview /\ k = {{"tool_execution_id"},
        {"workflow_step_run_id"}}
    BY DEF Asker, About, OfRun, OfFlow, OfReview, AskRefs, RunRefs, FlowRefs
  <2>5. Stage7("approvals") = Shape(must, o, k, refs, {})
    BY <2>4, AtLast DEF Approvals6
  <2>6. must = ({} \cup {r[i].col : i \in DOMAIN r}) \ o /\ refs = {r[i] : i \in DOMAIN r}
    BY <2>1, <2>2, <2>3
  <2> HIDE DEF r, k, o, must, refs
  <2>7. Matches(Table("approvals", {}, o, k, r))
    BY <2>5, <2>6, ShapeMatches
  <2> QED BY <2>7 DEF r, k, o
<1> QED BY <1>1 DEF ApprovalModel

LEMMA WorkflowModelsMatch ==
    \A m \in WorkflowModels : Matches(m)
<1>1. Matches(Table("workflows", {"name"}, {"version", "status", "definition"}, {OrgKey, {"organization_id",
      "name", "version"}},
              <<Org>>))
  <2> DEFINE r == <<Org>>
             k == {OrgKey, {"organization_id", "name", "version"}}
             o == {"version", "status", "definition"}
             must == {"name", "organization_id"}
             refs == {Org}
  <2>1. /\ {r[i].col : i \in DOMAIN r} = {"organization_id"}
        /\ {r[i] : i \in DOMAIN r} = {Org}
    BY RefsOf, ColOf
  <2>2. must = ({"name"} \cup {"organization_id"}) \ o
    BY DEF VersionKey
  <2>3. refs = {Org}
    BY DEF VersionKey
  <2>4. o = {"version", "status", "definition"} /\ k = {VersionKey, OrgKey}
    BY DEF VersionKey
  <2>5. Stage7("workflows") = Shape(must, o, k, refs, {<<"workflows", {"version_positive"}>>})
    BY <2>4, AtLast DEF Workflows5
  <2>6. must = ({"name"} \cup {r[i].col : i \in DOMAIN r}) \ o /\ refs = {r[i] : i \in DOMAIN r}
    BY <2>1, <2>2, <2>3
  <2> HIDE DEF r, k, o, must, refs
  <2>7. Matches(Table("workflows", {"name"}, o, k, r))
    BY <2>5, <2>6, ShapeMatches
  <2> QED BY <2>7 DEF r, k, o
<1>2. Matches(Table("workflow_steps", {"step_order"}, {}, {{"workflow_id", "step_order"}},
              <<To("workflow_id", "workflows", "cascade")>>))
  <2>1. Flows[3] = Table("workflow_steps", {"step_order"}, {}, {{"workflow_id", "step_order"}},
                <<To("workflow_id", "workflows", "cascade")>>)
    BY DEF Flows
  <2> QED BY <2>1, AtLast, MadeMatches
<1> QED BY <1>1, <1>2 DEF WorkflowModels

LEMMA WorkflowRunModelMatch ==
    Matches(WorkflowRunModel)
<1>1. Matches(Table("workflow_runs", {}, {"workflow_version", "current_step", "step_count", "input_data",
      "output_data", "idempotency_key", "request_id", "error_code"}, {OrgKey, {"organization_id",
      "idempotency_key"}},
              <<Org, To("user_id", "users", "restrict"), Within("workflow_id", "workflows", "cascade")>>))
  <2> DEFINE r == <<Org, To("user_id", "users", "restrict"), Within("workflow_id", "workflows", "cascade")>>
             k == {OrgKey, {"organization_id", "idempotency_key"}}
             o == {"workflow_version", "current_step", "step_count", "input_data", "output_data",
                     "idempotency_key", "request_id", "error_code"}
             must == {"organization_id", "workflow_id", "user_id"}
             refs == {Org, To("user_id", "users", "restrict"), Within("workflow_id", "workflows", "cascade")}
  <2>1. /\ {r[i].col : i \in DOMAIN r} = {"organization_id", "user_id", "workflow_id"}
        /\ {r[i] : i \in DOMAIN r} = {Org, To("user_id", "users", "restrict"),
              Within("workflow_id", "workflows", "cascade")}
    BY RefsOf, ColOf
  <2>2. must = ({} \cup {"organization_id", "user_id", "workflow_id"}) \ o
    BY DEF IdemKey
  <2>3. refs = {Org, To("user_id", "users", "restrict"), Within("workflow_id", "workflows", "cascade")}
    BY DEF IdemKey
  <2>4. o = {"workflow_version", "current_step", "step_count", "input_data", "output_data", "idempotency_key",
        "request_id", "error_code"} /\ k = {IdemKey, OrgKey}
    BY DEF IdemKey
  <2>5. Stage7("workflow_runs") = Shape(must, o, k, refs, {<<"workflow_runs", RunStatuses>>,
        <<"workflow_runs", {"step_count_not_negative"}>>, <<"workflow_runs", {"workflow_version_positive"}>>})
    BY <2>4, AtLast DEF Runs5
  <2>6. must = ({} \cup {r[i].col : i \in DOMAIN r}) \ o /\ refs = {r[i] : i \in DOMAIN r}
    BY <2>1, <2>2, <2>3
  <2> HIDE DEF r, k, o, must, refs
  <2>7. Matches(Table("workflow_runs", {}, o, k, r))
    BY <2>5, <2>6, ShapeMatches
  <2> QED BY <2>7 DEF r, k, o
<1> QED BY <1>1 DEF WorkflowRunModel

LEMMA StepRunModelMatch ==
    Matches(StepRunModel)
<1>1. Matches(Table("workflow_step_runs", {"step_key", "step_type", "position"}, {"workflow_step_id",
      "agent_run_id", "error_code"}, {OrgKey, {"workflow_run_id", "step_key"}, {"workflow_run_id",
      "position"}},
              <<Org, To("workflow_step_id", "workflow_steps", "cascade"),
                    Within("workflow_run_id", "workflow_runs", "cascade"),
                    Within("agent_run_id", "agent_runs", "null")>>))
  <2> DEFINE r == <<Org, To("workflow_step_id", "workflow_steps", "cascade"),
                    Within("workflow_run_id", "workflow_runs", "cascade"),
                    Within("agent_run_id", "agent_runs", "null")>>
             k == {OrgKey, {"workflow_run_id", "step_key"}, {"workflow_run_id", "position"}}
             o == {"workflow_step_id", "agent_run_id", "error_code"}
             must == {"workflow_run_id", "organization_id", "step_key", "step_type", "position"}
             refs == {To("workflow_step_id", "workflow_steps", "cascade"), Org,
                     Within("workflow_run_id", "workflow_runs", "cascade"),
                     Within("agent_run_id", "agent_runs", "null")}
  <2>1. /\ {r[i].col : i \in DOMAIN r} = {"organization_id", "workflow_step_id", "workflow_run_id",
              "agent_run_id"}
        /\ {r[i] : i \in DOMAIN r} = {Org, To("workflow_step_id", "workflow_steps", "cascade"),
              Within("workflow_run_id", "workflow_runs", "cascade"),
              Within("agent_run_id", "agent_runs", "null")}
    BY RefsOf, ColOf
  <2>2. must = ({"step_key", "step_type", "position"} \cup {"organization_id", "workflow_step_id",
        "workflow_run_id", "agent_run_id"}) \ o
    BY DEF StepKey, PlaceKey
  <2>3. refs = {Org, To("workflow_step_id", "workflow_steps", "cascade"),
        Within("workflow_run_id", "workflow_runs", "cascade"), Within("agent_run_id", "agent_runs", "null")}
    BY DEF StepKey, PlaceKey
  <2>4. o = {"workflow_step_id", "agent_run_id", "error_code"} /\ k = {StepKey, PlaceKey, OrgKey}
    BY DEF StepKey, PlaceKey
  <2>5. Stage7("workflow_step_runs") = Shape(must, o, k, refs, {<<"workflow_step_runs", StepStatuses>>,
        <<"workflow_step_runs", {"position_positive"}>>})
    BY <2>4, AtLast DEF StepRuns5
  <2>6. must = ({"step_key", "step_type",
        "position"} \cup {r[i].col : i \in DOMAIN r}) \ o /\ refs = {r[i] : i \in DOMAIN r}
    BY <2>1, <2>2, <2>3
  <2> HIDE DEF r, k, o, must, refs
  <2>7. Matches(Table("workflow_step_runs", {"step_key", "step_type", "position"}, o, k, r))
    BY <2>5, <2>6, ShapeMatches
  <2> QED BY <2>7 DEF r, k, o
<1> QED BY <1>1 DEF StepRunModel

LEMMA BusinessModelsMatch ==
    \A m \in BusinessModels : Matches(m)
<1>1. Matches(Table("customers", {"reference"}, {}, {OrgKey, {"organization_id", "reference"}},
              <<Org>>))
  <2>1. Customers[1] = Table("customers", {"reference"}, {}, {OrgKey, {"organization_id", "reference"}},
                <<Org>>)
    BY DEF Customers
  <2> QED BY <2>1, AtLast, MadeMatches
<1>2. Matches(Table("shipments", {"reference"}, {}, {OrgKey, {"organization_id", "reference"}},
              <<Org, Within("customer_id", "customers", "cascade")>>))
  <2>1. Customers[2] = Table("shipments", {"reference"}, {}, {OrgKey, {"organization_id", "reference"}},
                <<Within("customer_id", "customers", "cascade"), Org>>)
    BY DEF Customers
  <2>2. {"organization_id", "customer_id"} = {"customer_id", "organization_id"}
    OBVIOUS
  <2>3. {Org, Within("customer_id", "customers", "cascade")}
         = {Within("customer_id", "customers", "cascade"), Org}
    OBVIOUS
  <2> QED BY <2>1, <2>2, <2>3, AtLast, MadeMatches, RefsOf, ColOf
<1> QED BY <1>1, <1>2 DEF BusinessModels

LEMMA BillingModelsMatch ==
    \A m \in BillingModels : Matches(m)
<1>1. Matches(Table("shipment_charges", {}, {}, {},
              <<Org, Within("shipment_id", "shipments", "cascade")>>))
  <2>1. Charges[1] = Table("shipment_charges", {}, {}, {},
                <<Org, Within("shipment_id", "shipments", "cascade")>>)
    BY DEF Charges
  <2> QED BY <2>1, AtLast, MadeMatches
<1>2. Matches(Table("invoices", {"number"}, {"shipment_id"}, {{"organization_id", "number"}},
              <<Org, Within("customer_id", "customers", "cascade"),
                    Within("shipment_id", "shipments", "cascade")>>))
  <2>1. Bills[1] = Table("invoices", {"number"}, {"shipment_id"}, {{"organization_id", "number"}},
                <<Within("customer_id", "customers", "cascade"), Org,
                      Within("shipment_id", "shipments", "cascade")>>)
    BY DEF Bills
  <2>2. {"organization_id", "customer_id", "shipment_id"} = {"customer_id", "organization_id", "shipment_id"}
    OBVIOUS
  <2>3. {Org, Within("customer_id", "customers", "cascade"), Within("shipment_id", "shipments", "cascade")}
         = {Within("customer_id", "customers", "cascade"), Org, Within("shipment_id", "shipments", "cascade")}
    OBVIOUS
  <2> QED BY <2>1, <2>2, <2>3, AtLast, MadeMatches, RefsOf, ColOf
<1> QED BY <1>1, <1>2 DEF BillingModels

LEMMA DocumentModelMatch ==
    Matches(DocumentModel)
<1>1. Matches(Table("documents", {"storage_key"}, {"uploaded_by"}, {{"storage_key"}},
              <<Org, To("uploaded_by", "users", "null")>>))
  <2>1. Records[2] = Table("documents", {"storage_key"}, {"uploaded_by"}, {{"storage_key"}},
                <<Org, To("uploaded_by", "users", "null")>>)
    BY DEF Records
  <2> QED BY <2>1, AtLast, MadeMatches
<1> QED BY <1>1 DEF DocumentModel

LEMMA AuditModelMatch ==
    Matches(AuditModel)
<1>1. Matches(Table("audit_events", {}, {"user_id", "resource_id"}, {},
              <<Org, To("user_id", "users", "null")>>))
  <2>1. Records[1] = Table("audit_events", {}, {"user_id", "resource_id"}, {},
                <<Org, To("user_id", "users", "null")>>)
    BY DEF Records
  <2> QED BY <2>1, AtLast, MadeMatches
<1> QED BY <1>1 DEF AuditModel

LEMMA GenerationModelMatch ==
    Matches(GenerationModel)
<1>1. Matches(Table("generation_usage", {}, {}, {OrgKey},
              <<Org, To("user_id", "users", "restrict")>>))
  <2>1. Usage[1] = Table("generation_usage", {}, {}, {OrgKey},
                <<Org, To("user_id", "users", "restrict")>>)
    BY DEF Usage
  <2> QED BY <2>1, AtLast, MadeMatches
<1> QED BY <1>1 DEF GenerationModel

LEMMA DeclaredMatch == \A m \in Declared : Matches(m)
BY TenantModelsMatch, UserModelMatch, AgentModelsMatch, ChatModelsMatch, RunModelsMatch, ExecutionModelMatch,
   ApprovalModelMatch, WorkflowModelsMatch, WorkflowRunModelMatch, StepRunModelMatch, BusinessModelsMatch,
   BillingModelsMatch, DocumentModelMatch, AuditModelMatch, GenerationModelMatch DEF Declared

LEMMA DeclaredTables == {m.t : m \in Declared} = LastTables
<1>1. \A t, p, o, k, r : Table(t, p, o, k, r).t = t
  BY DEF Table
<1>2. {m.t : m \in TenantModels} = {"organizations", "organization_members"}
  BY <1>1 DEF TenantModels
<1>3. {m.t : m \in AgentModels} = {"agents", "tools", "agent_tools"}
  BY <1>1 DEF AgentModels
<1>4. {m.t : m \in ChatModels} = {"conversations", "messages"}
  BY <1>1 DEF ChatModels
<1>5. {m.t : m \in RunModels} = {"agent_runs", "agent_steps"}
  BY <1>1 DEF RunModels
<1>6. {m.t : m \in WorkflowModels} = {"workflows", "workflow_steps"}
  BY <1>1 DEF WorkflowModels
<1>7. {m.t : m \in BusinessModels} = {"customers", "shipments"}
  BY <1>1 DEF BusinessModels
<1>8. {m.t : m \in BillingModels} = {"shipment_charges", "invoices"}
  BY <1>1 DEF BillingModels
<1>9. /\ UserModel.t = "users" /\ ExecutionModel.t = "tool_executions" /\ ApprovalModel.t = "approvals"
      /\ WorkflowRunModel.t = "workflow_runs" /\ StepRunModel.t = "workflow_step_runs"
      /\ DocumentModel.t = "documents" /\ AuditModel.t = "audit_events"
      /\ GenerationModel.t = "generation_usage"
  BY <1>1 DEF UserModel, ExecutionModel, ApprovalModel, WorkflowRunModel, StepRunModel, DocumentModel,
              AuditModel, GenerationModel
<1>10. {m.t : m \in Declared} =
          {m.t : m \in TenantModels} \cup {m.t : m \in AgentModels} \cup {m.t : m \in ChatModels}
          \cup {m.t : m \in RunModels} \cup {m.t : m \in WorkflowModels} \cup {m.t : m \in BusinessModels}
          \cup {m.t : m \in BillingModels}
          \cup {UserModel.t, ExecutionModel.t, ApprovalModel.t, WorkflowRunModel.t, StepRunModel.t,
                DocumentModel.t, AuditModel.t, GenerationModel.t}
  BY DEF Declared
<1> QED BY <1>2, <1>3, <1>4, <1>5, <1>6, <1>7, <1>8, <1>9, <1>10, Zenon DEF LastTables

\* The last revision is what app/models declares: every table with its columns, keys and references,
\* and no other, however the database was migrated up and down to get there and whatever it held.
LEMMA LatestHolds == SchemaSpec => [](rev = Latest => AsDeclared)
<1>1. SchemaInv /\ Placed => (rev = Latest => AsDeclared)
  <2> SUFFICES ASSUME SchemaInv, Placed, rev = Latest
               PROVE  /\ DOMAIN db.tables = {m.t : m \in Declared}
                      /\ \A m \in Declared :
                            /\ db.tables[m.t] = [must |-> m.must, opt |-> m.opt, keys |-> m.keys]
                            /\ {f.ref : f \in {g \in Links(db) : g.from = m.t}} = ToSet(m.refs)
    BY DEF AsDeclared
  <2>1. \A t : ShapeIn(db, t) = Stage7(t)
    <3>1. rev = 7 /\ \A t : Stage(7, t) = Stage7(t)
      BY Revisions DEF Stage
    <3> QED BY <3>1 DEF Placed, AtStage
  <2>2. \A t : /\ {db.tables[u] : u \in {t} \cap DOMAIN db.tables} = Stage7(t).tab
               /\ {f.ref : f \in {g \in Links(db) : g.from = t}} = Stage7(t).refs
    <3> TAKE t
    <3>1. ShapeIn(db, t).tab = Stage7(t).tab /\ ShapeIn(db, t).refs = Stage7(t).refs
      BY <2>1
    <3> QED BY <3>1 DEF ShapeIn
  <2>3. ASSUME NEW m \in Declared
        PROVE  /\ m.t \in DOMAIN db.tables
               /\ db.tables[m.t] = [must |-> m.must, opt |-> m.opt, keys |-> m.keys]
               /\ {f.ref : f \in {g \in Links(db) : g.from = m.t}} = ToSet(m.refs)
    <3>1. Matches(m)
      BY DeclaredMatch
    <3>2. {db.tables[u] : u \in {m.t} \cap DOMAIN db.tables}
             = {[must |-> m.must, opt |-> m.opt, keys |-> m.keys]}
      BY <2>2, <3>1 DEF Matches
    <3>3. {f.ref : f \in {g \in Links(db) : g.from = m.t}} = ToSet(m.refs)
      BY <2>2, <3>1, Zenon DEF Matches
    <3> DEFINE rec == [must |-> m.must, opt |-> m.opt, keys |-> m.keys]
    <3> HIDE DEF rec
    <3>4. {db.tables[u] : u \in {m.t} \cap DOMAIN db.tables} = {rec}
      BY <3>2 DEF rec
    <3>5. m.t \in DOMAIN db.tables /\ db.tables[m.t] = rec
      BY <3>4
    <3> QED BY <3>3, <3>5 DEF rec
  <2>4. \A t \in DOMAIN db.tables : t \in LastTables
    <3> TAKE t \in DOMAIN db.tables
    <3>1. db.tables[t] \in {db.tables[u] : u \in {t} \cap DOMAIN db.tables}
      OBVIOUS
    <3>2. Stage7(t).tab # {}
      BY <2>2, <3>1
    <3> QED BY <3>2, AtLast DEF Absent
  <2>5. DOMAIN db.tables = {m.t : m \in Declared}
    <3>1. {m.t : m \in Declared} \subseteq DOMAIN db.tables
      BY <2>3
    <3> QED BY <2>4, <3>1, DeclaredTables
  <2> QED BY <2>3, <2>5
<1> QED BY <1>1, SchemaHolds, PlacedHolds, PTL

\* However often a database was migrated up and down, and whatever it held (alembic/env.py over
\* alembic/versions), its schema is the one a fresh database has at that revision, and at the
\* last one it is what app/models declares.
THEOREM RoundTripHolds == SchemaSpec => []RoundTrip
<1>1. AsFresh /\ (rev = Latest => AsDeclared) => RoundTrip
  BY DEF RoundTrip
<1> QED BY <1>1, FreshHolds, LatestHolds, PTL
=============================================================================
