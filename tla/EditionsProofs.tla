---------------------------- MODULE EditionsProofs ----------------------------
(***************************************************************************)
(* Theorems about Editions, for every document, any number of requests and *)
(* any limits: the check of a document accepts exactly the graphs that     *)
(* end, however large, and what is active or was started has passed it.    *)
(***************************************************************************)
EXTENDS Editions, Loops

-----------------------------------------------------------------------------
(* What can be reached.                                                    *)

\* A document that parsed: a finite graph, with an entry.
GraphOK(d) ==
    /\ IsFiniteSet(Steps(d))
    /\ d.entry \in Steps(d)
    /\ d.next \in [Steps(d) -> SUBSET Steps(d)]

\* Steps that no transition leaves.
Closed(d, C) == C \in SUBSET Steps(d) /\ \A s \in C : d.next[s] \in SUBSET C

Surveyed(d)   == {w \in Surveys(d) : w.pending = {}}
Seen(d)       == [w \in Surveys(d) |-> w.seen]
Visited(d)    == [w \in Surveys(d) |-> Visit(d, w)]
Unseen(d)     == [w \in Surveys(d) |-> 2 * Cardinality(Steps(d) \ w.seen)
                                         + (IF w.pending \cap w.seen = {} THEN 0 ELSE 1)]
FirstSurvey(d) == [seen |-> {}, pending |-> {d.entry}]

\* One visit: the step is seen, and what it leads to and was not seen is pending.
LEMMA VisitIs ==
    ASSUME NEW d, GraphOK(d), NEW w \in Surveys(d) \ Surveyed(d)
    PROVE  \E s \in w.pending :
              /\ s \in Steps(d) /\ Visit(d, w) \in Surveys(d)
              /\ Visit(d, w).seen = w.seen \cup {s}
              /\ Visit(d, w).pending = (w.pending \cup d.next[s]) \ (w.seen \cup {s})
<1> DEFINE s == CHOOSE x \in w.pending : TRUE
<1>1. w.pending # {} /\ w.pending \in SUBSET Steps(d) /\ w.seen \in SUBSET Steps(d)
  BY DEF Surveyed, Surveys
<1>2. s \in w.pending
  BY <1>1
<1>3. Visit(d, w) = [seen |-> w.seen \cup {s}, pending |-> (w.pending \cup d.next[s]) \ (w.seen \cup {s})]
  BY DEF Visit
<1> HIDE DEF s
<1>4. s \in Steps(d) /\ d.next[s] \in SUBSET Steps(d)
  BY <1>1, <1>2 DEF GraphOK
<1> QED BY <1>1, <1>2, <1>3, <1>4 DEF Surveys

LEMMA VisitTurns ==
    ASSUME NEW d, GraphOK(d)
    PROVE  WindsDown(Surveys(d), Surveyed(d), Visited(d), Unseen(d))
<1>1. ASSUME NEW w \in Surveys(d) PROVE Unseen(d)[w] \in Nat
  <2>1. IsFiniteSet(Steps(d) \ w.seen)
    BY FS_Subset DEF GraphOK
  <2>2. Cardinality(Steps(d) \ w.seen) \in Nat
    BY <2>1, FS_CardinalityType
  <2> QED BY <2>2 DEF Unseen
<1>2. ASSUME NEW w \in Surveys(d) \ Surveyed(d)
      PROVE  Visited(d)[w] \in Surveys(d) /\ Unseen(d)[Visited(d)[w]] < Unseen(d)[w]
  <2> DEFINE v == Visit(d, w)
  <2>1. PICK s \in w.pending : /\ s \in Steps(d) /\ v \in Surveys(d) /\ v.seen = w.seen \cup {s}
                               /\ v.pending = (w.pending \cup d.next[s]) \ (w.seen \cup {s})
    BY VisitIs
  <2>2. Visited(d)[w] = v
    BY DEF Visited
  <2> HIDE DEF v
  <2>3. v.pending \cap v.seen = {}
    BY <2>1
  <2> DEFINE left == Cardinality(Steps(d) \ w.seen)
             more == Cardinality(Steps(d) \ v.seen)
  <2>4. w.seen \in SUBSET Steps(d)
    BY DEF Surveys
  <2>5. /\ left \in Nat /\ more \in Nat /\ (s \in w.seen => more = left)
        /\ (s \notin w.seen => more = left - 1)
    <3> DEFINE S == Steps(d)
               A == w.seen
    <3>1. /\ Cardinality(S \ A) \in Nat /\ Cardinality(S \ (A \cup {s})) \in Nat
          /\ s \in A => S \ (A \cup {s}) = S \ A
          /\ s \notin A => Cardinality(S \ (A \cup {s})) = Cardinality(S \ A) - 1
      <4>1. IsFiniteSet(S) /\ A \in SUBSET S /\ s \in S
        BY <2>1, <2>4 DEF GraphOK
      <4> HIDE DEF S, A
      <4> QED BY <4>1, Unvisited
    <3>2. v.seen = A \cup {s}
      BY <2>1
    <3> QED BY <3>1, <3>2
  <2>6. Unseen(d)[v] = 2 * more
    <3>1. Unseen(d)[v] = 2 * more + (IF v.pending \cap v.seen = {} THEN 0 ELSE 1)
      BY <2>1 DEF Unseen
    <3> HIDE DEF more
    <3> QED BY <2>3, <2>5, <3>1
  <2>7. Unseen(d)[w] = 2 * left + (IF w.pending \cap w.seen = {} THEN 0 ELSE 1)
    BY DEF Unseen
  <2>8. s \in w.seen => w.pending \cap w.seen # {}
    BY <2>1
  <2> HIDE DEF left, more
  <2> QED BY <2>1, <2>2, <2>5, <2>6, <2>7, <2>8
<1> QED BY <1>1, <1>2 DEF WindsDown

LEMMA ReachableIsLoop ==
    ASSUME NEW d, GraphOK(d)
    PROVE  \E g : /\ Loop(g, Surveys(d), Surveyed(d), Seen(d), Visited(d))
                  /\ Reachable(d) = g[FirstSurvey(d)]
<1> DEFINE Unfolds(g) == g = [w \in Surveys(d) |-> IF w.pending = {} THEN w.seen ELSE g[Visit(d, w)]]
           from       == CHOOSE g : Unfolds(g)
<1>1. ASSUME NEW g PROVE Unfolds(g) <=> Loop(g, Surveys(d), Surveyed(d), Seen(d), Visited(d))
  <2>1. ASSUME NEW w \in Surveys(d)
        PROVE  (IF w.pending = {} THEN w.seen ELSE g[Visit(d, w)])
                 = (IF w \in Surveyed(d) THEN Seen(d)[w] ELSE g[Visited(d)[w]])
    BY DEF Surveyed, Seen, Visited
  <2>2. [w \in Surveys(d) |-> IF w.pending = {} THEN w.seen ELSE g[Visit(d, w)]]
          = [w \in Surveys(d) |-> IF w \in Surveyed(d) THEN Seen(d)[w] ELSE g[Visited(d)[w]]]
    BY <2>1
  <2> QED BY <2>2 DEF Loop
<1>2. \E g : Loop(g, Surveys(d), Surveyed(d), Seen(d), Visited(d))
  BY VisitTurns, LoopComputes
<1>3. Reachable(d) = from[FirstSurvey(d)]
  BY DEF Reachable, FirstSurvey
<1> HIDE DEF Unfolds
<1>4. Unfolds(from)
  BY <1>1, <1>2
<1> QED BY <1>1, <1>3, <1>4

\* Whatever the steps are among that the entry is among and no transition leaves, what is
\* reached is among them, and it is such a set itself.
LEMMA ReachableIsLeast ==
    ASSUME NEW d, GraphOK(d), NEW C, Closed(d, C), d.entry \in C
    PROVE  d.entry \in Reachable(d) /\ Closed(d, Reachable(d)) /\ Reachable(d) \in SUBSET C
<1> DEFINE I == {w \in Surveys(d) : /\ d.entry \in w.seen \cup w.pending
                                    /\ \A s \in w.seen : d.next[s] \in SUBSET (w.seen \cup w.pending)
                                    /\ w.seen \cup w.pending \in SUBSET C}
<1>1. ASSUME NEW w \in I \ Surveyed(d) PROVE Visited(d)[w] \in I
  <2> DEFINE v == Visit(d, w)
  <2>1. PICK s \in w.pending : /\ s \in Steps(d) /\ v \in Surveys(d) /\ v.seen = w.seen \cup {s}
                               /\ v.pending = (w.pending \cup d.next[s]) \ (w.seen \cup {s})
    BY VisitIs
  <2>2. Visited(d)[w] = v
    BY DEF Visited
  <2> HIDE DEF v
  <2>3. v.seen \cup v.pending = w.seen \cup w.pending \cup d.next[s]
    BY <2>1
  <2>4. d.next[s] \in SUBSET C
    BY <2>1 DEF Closed
  <2>5. \A t \in v.seen : d.next[t] \in SUBSET (v.seen \cup v.pending)
    BY <2>1, <2>3
  <2>6. d.entry \in v.seen \cup v.pending
    BY <2>3
  <2>7. v.seen \cup v.pending \in SUBSET C
    BY <2>3, <2>4
  <2> QED BY <2>1, <2>2, <2>5, <2>6, <2>7
<1>2. FirstSurvey(d) \in I
  <2>1. FirstSurvey(d) \in Surveys(d)
    BY DEF FirstSurvey, Surveys, GraphOK
  <2> QED BY <2>1 DEF FirstSurvey
<1>3. PICK g : /\ Loop(g, Surveys(d), Surveyed(d), Seen(d), Visited(d))
               /\ Reachable(d) = g[FirstSurvey(d)]
  BY ReachableIsLoop
<1>4. I \in SUBSET Surveys(d)
  OBVIOUS
<1>5. \E v \in I \cap Surveyed(d) : Reachable(d) = Seen(d)[v]
  <2> HIDE DEF I
  <2> QED BY <1>1, <1>2, <1>3, <1>4, VisitTurns, LoopKeeps
<1>6. PICK v \in I \cap Surveyed(d) : Reachable(d) = Seen(d)[v]
  BY <1>5
<1>7. Reachable(d) = v.seen /\ v.pending = {} /\ v.seen \in SUBSET Steps(d)
  BY <1>6 DEF Seen, Surveyed, Surveys
<1> QED BY <1>6, <1>7 DEF Closed

-----------------------------------------------------------------------------
(* The depth-first walk.                                                   *)

WalkOver(d)  == {w \in Walks(d) : w.path = <<>> \/ ClosesCycle(w)}
Verdict(d)   == [w \in Walks(d) |-> ClosesCycle(w)]
Explored(d)  == [w \in Walks(d) |-> Explore(w)]
Ways(d, w)   == {e \in Steps(d) \X Steps(d) : e[2] \in w.remaining[e[1]]}
Unwalked(d)  == [w \in Walks(d) |-> 2 * Cardinality(Ways(d, w)) + Len(w.path)]
FirstWalk(d) == [path |-> <<d.entry>>, remaining |-> d.next, finished |-> {}]

\* A turn finishes the current step, or takes one of its transitions: to a step that is
\* finished, or on to one that is not.
Finishes(w, v) ==
    LET c == Current(w)
    IN /\ w.remaining[c] = {}
       /\ v.path = Front(w.path) /\ v.remaining = w.remaining
       /\ v.finished = w.finished \cup {c}

Takes(w, v, t) ==
    LET c == Current(w)
    IN /\ t \in w.remaining[c] /\ t \notin OnPath(w)
       /\ v.remaining = [w.remaining EXCEPT ![c] = @ \ {t}]
       /\ v.finished = w.finished
       /\ v.path = IF t \in w.finished THEN w.path ELSE Append(w.path, t)

LEMMA ExploreIs ==
    ASSUME NEW d, NEW w \in Walks(d) \ WalkOver(d)
    PROVE  /\ Explore(w) \in Walks(d) /\ Current(w) \in Steps(d) /\ w.path # <<>>
           /\ Finishes(w, Explore(w)) \/ \E t \in Steps(d) : Takes(w, Explore(w), t)
<1> DEFINE c == Current(w)
           t == Target(w)
           v == Explore(w)
<1>1. /\ w.path \in Seq(Steps(d)) /\ w.remaining \in [Steps(d) -> SUBSET Steps(d)]
      /\ w.finished \in SUBSET Steps(d)
      /\ w = [path |-> w.path, remaining |-> w.remaining, finished |-> w.finished]
  BY DEF Walks
<1>2. w.path # <<>> /\ ~ClosesCycle(w)
  BY DEF WalkOver
<1>3. c \in Steps(d)
  BY <1>1, <1>2, FrontIs DEF Current
<1>4. CASE w.remaining[c] = {}
  <2>1. v = [w EXCEPT !.path = Front(w.path), !.finished = w.finished \cup {c}]
    BY <1>4 DEF Explore
  <2>2. Front(w.path) \in Seq(Steps(d))
    BY <1>1, <1>2, FrontIs
  <2> HIDE DEF c, v
  <2>3. v = [path |-> Front(w.path), remaining |-> w.remaining, finished |-> w.finished \cup {c}]
    BY <1>1, <2>1
  <2>4. v \in Walks(d)
    BY <1>1, <1>3, <2>2, <2>3 DEF Walks
  <2>5. Finishes(w, v)
    BY <1>4, <2>3 DEF Finishes, c
  <2> QED BY <1>2, <1>3, <2>4, <2>5 DEF c, v
<1>5. CASE w.remaining[c] # {}
  <2>1. t \in w.remaining[c]
    BY <1>5 DEF Target
  <2>2. t \notin OnPath(w)
    BY <1>2, <1>5 DEF ClosesCycle
  <2> DEFINE p == IF t \in w.finished THEN w.path ELSE Append(w.path, t)
             r == [w.remaining EXCEPT ![c] = @ \ {t}]
  <2>3. v = [w EXCEPT !.remaining[c] = @ \ {t}, !.path = p]
    BY <1>5 DEF Explore
  <2> HIDE DEF t, c
  <2>4. t \in Steps(d)
    BY <1>1, <1>3, <2>1
  <2>5. p \in Seq(Steps(d))
    BY <1>1, <2>4, AppendIs
  <2>6. r \in [Steps(d) -> SUBSET Steps(d)]
    BY <1>1, <1>3
  <2> HIDE DEF p, v
  <2>7. v = [path |-> p, remaining |-> r, finished |-> w.finished]
    BY <1>1, <2>3
  <2> HIDE DEF r
  <2>8. v \in Walks(d)
    BY <1>1, <2>5, <2>6, <2>7 DEF Walks
  <2>9. Takes(w, v, t)
    BY <2>1, <2>2, <2>7 DEF Takes, c, p, r
  <2> QED BY <1>2, <1>3, <2>4, <2>8, <2>9 DEF c, v
<1> QED BY <1>4, <1>5

LEMMA ExploreTurns ==
    ASSUME NEW d, IsFiniteSet(Steps(d))
    PROVE  WindsDown(Walks(d), WalkOver(d), Explored(d), Unwalked(d))
<1>1. ASSUME NEW w \in Walks(d)
      PROVE  /\ IsFiniteSet(Ways(d, w)) /\ Cardinality(Ways(d, w)) \in Nat /\ Len(w.path) \in Nat
             /\ Unwalked(d)[w] = 2 * Cardinality(Ways(d, w)) + Len(w.path)
  <2>1. IsFiniteSet(Steps(d) \X Steps(d))
    BY FS_Product
  <2>2. Ways(d, w) \in SUBSET (Steps(d) \X Steps(d))
    BY DEF Ways
  <2>3. IsFiniteSet(Ways(d, w)) /\ Cardinality(Ways(d, w)) \in Nat
    BY <2>1, <2>2, FS_Subset, FS_CardinalityType
  <2>4. Len(w.path) \in Nat
    BY DEF Walks
  <2> QED BY <2>3, <2>4 DEF Unwalked
<1>2. ASSUME NEW w \in Walks(d) \ WalkOver(d)
      PROVE  Explored(d)[w] \in Walks(d) /\ Unwalked(d)[Explored(d)[w]] < Unwalked(d)[w]
  <2> DEFINE v == Explore(w)
             c == Current(w)
  <2>1. /\ v \in Walks(d) /\ c \in Steps(d) /\ w.path # <<>>
        /\ Finishes(w, v) \/ \E t \in Steps(d) : Takes(w, v, t)
    BY ExploreIs
  <2>2. Explored(d)[w] = v
    BY DEF Explored
  <2> HIDE DEF v
  <2>3. /\ w.path \in Seq(Steps(d)) /\ w.remaining \in [Steps(d) -> SUBSET Steps(d)]
    BY DEF Walks
  <2>4. CASE Finishes(w, v)
    <3>1. v.path = Front(w.path) /\ v.remaining = w.remaining
      BY <2>4 DEF Finishes
    <3>2. Ways(d, v) = Ways(d, w)
      BY <3>1 DEF Ways
    <3>3. Len(v.path) = Len(w.path) - 1
      BY <2>1, <2>3, <3>1, FrontIs
    <3>4. Unwalked(d)[v] = 2 * Cardinality(Ways(d, v)) + Len(v.path)
      BY <1>1, <2>1
    <3>5. Unwalked(d)[w] = 2 * Cardinality(Ways(d, w)) + Len(w.path)
          /\ Cardinality(Ways(d, w)) \in Nat /\ Len(w.path) \in Nat
      BY <1>1
    <3> QED BY <2>1, <2>2, <3>2, <3>3, <3>4, <3>5
  <2>5. ASSUME NEW t \in Steps(d), Takes(w, v, t)
        PROVE  Unwalked(d)[v] < Unwalked(d)[w]
    <3>1. /\ t \in w.remaining[c] /\ v.remaining = [w.remaining EXCEPT ![c] = @ \ {t}]
          /\ v.path = IF t \in w.finished THEN w.path ELSE Append(w.path, t)
      BY <2>5 DEF Takes
    <3> HIDE DEF c
    <3>2. Ways(d, v) = Ways(d, w) \ {<<c, t>>} /\ <<c, t>> \in Ways(d, w)
      BY <2>1, <2>3, <3>1 DEF Ways
    <3>3. Cardinality(Ways(d, v)) = Cardinality(Ways(d, w)) - 1
      BY <1>1, <3>2, FS_RemoveElement
    <3>4. Len(v.path) <= Len(w.path) + 1
      <4>1. Len(w.path) \in Nat /\ Len(Append(w.path, t)) = Len(w.path) + 1
        BY <2>3, AppendIs
      <4> QED BY <3>1, <4>1
    <3>5. Unwalked(d)[v] = 2 * Cardinality(Ways(d, v)) + Len(v.path) /\ Len(v.path) \in Nat
      BY <1>1, <2>1
    <3>6. Unwalked(d)[w] = 2 * Cardinality(Ways(d, w)) + Len(w.path)
          /\ Cardinality(Ways(d, w)) \in Nat /\ Len(w.path) \in Nat
      BY <1>1
    <3> QED BY <3>3, <3>4, <3>5, <3>6
  <2> QED BY <2>1, <2>2, <2>4, <2>5
<1>3. \A w \in Walks(d) : Unwalked(d)[w] \in Nat
  BY <1>1
<1> QED BY <1>2, <1>3 DEF WindsDown

LEMMA FindsCycleIsLoop ==
    ASSUME NEW d, IsFiniteSet(Steps(d))
    PROVE  \E g : /\ Loop(g, Walks(d), WalkOver(d), Verdict(d), Explored(d))
                  /\ FindsCycle(d) = g[FirstWalk(d)]
<1> DEFINE Unfolds(g) == g = [w \in Walks(d) |->
                               IF w.path = <<>> \/ ClosesCycle(w) THEN ClosesCycle(w) ELSE g[Explore(w)]]
           finds      == CHOOSE g : Unfolds(g)
<1>1. ASSUME NEW g PROVE Unfolds(g) <=> Loop(g, Walks(d), WalkOver(d), Verdict(d), Explored(d))
  <2>1. ASSUME NEW w \in Walks(d)
        PROVE  (IF w.path = <<>> \/ ClosesCycle(w) THEN ClosesCycle(w) ELSE g[Explore(w)])
                 = (IF w \in WalkOver(d) THEN Verdict(d)[w] ELSE g[Explored(d)[w]])
    BY DEF WalkOver, Verdict, Explored
  <2>2. [w \in Walks(d) |-> IF w.path = <<>> \/ ClosesCycle(w) THEN ClosesCycle(w) ELSE g[Explore(w)]]
          = [w \in Walks(d) |-> IF w \in WalkOver(d) THEN Verdict(d)[w] ELSE g[Explored(d)[w]]]
    BY <2>1
  <2> QED BY <2>2 DEF Loop
<1>2. \E g : Loop(g, Walks(d), WalkOver(d), Verdict(d), Explored(d))
  BY ExploreTurns, LoopComputes
<1>3. FindsCycle(d) = finds[FirstWalk(d)]
  BY DEF FindsCycle, FirstWalk
<1> HIDE DEF Unfolds
<1>4. Unfolds(finds)
  BY <1>1, <1>2
<1> QED BY <1>1, <1>3, <1>4

-----------------------------------------------------------------------------
(* What the walk keeps: what is finished leads nowhere else and can be     *)
(* ranked, and of a step on the path every transition that was taken leads *)
(* to what is finished or on along the path.                               *)
Ranks(d, C, rank) ==
    /\ rank \in [C -> 1 .. Cardinality(C)]
    /\ \A s \in C : \A t \in d.next[s] : rank[t] < rank[s]

Ranked(d, C) == \E rank : Ranks(d, C, rank)

Onward(p, i) == IF i < Len(p) THEN {p[i + 1]} ELSE {}

PathOK(d, w) ==
    LET p == w.path
    IN /\ \A i \in 1 .. Len(p) :
             /\ d.next[p[i]] \ w.remaining[p[i]] \in SUBSET (w.finished \cup Onward(p, i))
             /\ p[i] \notin w.finished
             /\ Onward(p, i) \in SUBSET d.next[p[i]]
       /\ \A i, j \in 1 .. Len(p) : p[i] = p[j] => i = j

WalkOK(d, w) ==
    /\ Closed(d, w.finished) /\ Ranked(d, w.finished)
    /\ PathOK(d, w)
    /\ \A s \in Steps(d) \ (OnPath(w) \cup w.finished) : w.remaining[s] = d.next[s]
    /\ \A s \in Steps(d) : w.remaining[s] \in SUBSET d.next[s]
    /\ d.entry \in OnPath(w) \cup w.finished

LEMMA RankRises ==
    ASSUME NEW d, GraphOK(d), NEW C, Closed(d, C), Ranked(d, C),
           NEW c \in Steps(d) \ C, d.next[c] \in SUBSET C
    PROVE  Closed(d, C \cup {c}) /\ Ranked(d, C \cup {c})
<1> DEFINE D == C \cup {c}
<1>1. IsFiniteSet(C) /\ Cardinality(C) \in Nat /\ Cardinality(D) = Cardinality(C) + 1
  <2>1. IsFiniteSet(C)
    BY FS_Subset DEF Closed, GraphOK
  <2> QED BY <2>1, FS_CardinalityType, FS_AddElement
<1>2. PICK rank : Ranks(d, C, rank)
  BY DEF Ranked
<1> DEFINE n    == Cardinality(C)
           more == [s \in D |-> IF s = c THEN n + 1 ELSE rank[s]]
<1>3. n \in Nat /\ Cardinality(D) = n + 1 /\ rank \in [C -> 1 .. n]
  BY <1>1, <1>2 DEF Ranks
<1> HIDE DEF n
<1>4. more \in [D -> 1 .. n + 1]
  <2>1. \A s \in D : more[s] \in 1 .. n + 1
    BY <1>3
  <2> QED BY <2>1
<1>5. ASSUME NEW s \in D, NEW t \in d.next[s] PROVE more[t] < more[s]
  <2>1. CASE s = c
    <3>1. t \in C /\ t # c /\ rank[t] \in 1 .. n
      BY <1>3, <1>5, <2>1
    <3>2. more[t] = rank[t] /\ more[s] = n + 1
      BY <2>1, <3>1
    <3> QED BY <1>3, <3>1, <3>2
  <2>2. CASE s # c
    <3>1. s \in C /\ t \in C /\ t # c
      BY <1>5, <2>2 DEF Closed
    <3>2. rank[t] < rank[s]
      BY <1>2, <1>5, <3>1 DEF Ranks
    <3> QED BY <2>2, <3>1, <3>2
  <2> QED BY <2>1, <2>2
<1>6. Closed(d, D)
  BY DEF Closed
<1> HIDE DEF more
<1>7. Ranks(d, D, more)
  BY <1>3, <1>4, <1>5 DEF Ranks
<1> QED BY <1>6, <1>7 DEF Ranked

LEMMA FinishKeeps ==
    ASSUME NEW d, GraphOK(d), NEW w \in Walks(d), WalkOK(d, w), w.path # <<>>,
           NEW v \in Walks(d), Finishes(w, v)
    PROVE  WalkOK(d, v)
<1> DEFINE p == w.path
           q == v.path
           n == Len(p)
           c == p[n]
           r == w.remaining
           f == w.finished
<1>1. /\ Len(q) = n - 1 /\ n \in Nat /\ n > 0 /\ \A i \in 1 .. n - 1 : q[i] = p[i]
      /\ Current(w) = c /\ c \in Steps(d) /\ p \in Seq(Steps(d)) /\ q \in Seq(Steps(d))
  BY FrontIs, SMTT(40) DEF Walks, Finishes, Current
<1>2. r[c] = {} /\ v.remaining = r /\ v.finished = f \cup {c}
  BY <1>1 DEF Finishes
<1>3. /\ \A i \in 1 .. n : /\ d.next[p[i]] \ r[p[i]] \in SUBSET (f \cup Onward(p, i))
                           /\ p[i] \notin f /\ Onward(p, i) \in SUBSET d.next[p[i]]
      /\ \A i, j \in 1 .. n : p[i] = p[j] => i = j
  BY DEF WalkOK, PathOK
<1>4. OnPath(w) = {p[i] : i \in 1 .. n} /\ OnPath(v) = {q[i] : i \in 1 .. n - 1}
  BY <1>1, SMTT(40) DEF OnPath
<1> HIDE DEF p, q, n, c, r, f
<1>5. n \in 1 .. n /\ Onward(p, n) = {} /\ \A i \in 1 .. n - 1 : i \in 1 .. n /\ i # n
  BY <1>1 DEF Onward, n
<1>6. d.next[c] \in SUBSET f /\ c \notin f
  <2>1. d.next[c] \ r[c] \in SUBSET (f \cup {}) /\ c \notin f
    BY <1>3, <1>5 DEF c
  <2> QED BY <1>2, <2>1
<1>7. Closed(d, f \cup {c}) /\ Ranked(d, f \cup {c})
  <2>1. Closed(d, f) /\ Ranked(d, f)
    BY DEF WalkOK, f
  <2> QED BY <1>1, <1>6, <2>1, RankRises
<1>8. \A i \in 1 .. n - 1 : Onward(p, i) \in SUBSET (Onward(q, i) \cup {c}) /\ Onward(q, i) \in SUBSET Onward(p, i)
  <2> TAKE i \in 1 .. n - 1
  <2>1. Onward(p, i) = {p[i + 1]}
    BY <1>1 DEF Onward, n
  <2>2. CASE i = n - 1
    <3>1. i + 1 = n /\ Onward(q, i) = {}
      BY <1>1, <2>2 DEF Onward
    <3> QED BY <2>1, <3>1 DEF c
  <2>3. CASE i # n - 1
    <3>1. i + 1 \in 1 .. n - 1 /\ i < Len(q)
      BY <1>1, <2>3
    <3>2. Onward(q, i) = {q[i + 1]} /\ q[i + 1] = p[i + 1]
      BY <1>1, <3>1 DEF Onward
    <3> QED BY <2>1, <3>2
  <2> QED BY <2>2, <2>3
<1>9. PathOK(d, v)
  <2>1. ASSUME NEW i \in 1 .. n - 1
        PROVE  /\ d.next[q[i]] \ r[q[i]] \in SUBSET (f \cup {c} \cup Onward(q, i))
               /\ q[i] \notin f \cup {c} /\ Onward(q, i) \in SUBSET d.next[q[i]]
    <3>1. q[i] = p[i] /\ i \in 1 .. n /\ i # n
      BY <1>1, <1>5
    <3>2. p[i] # c
      BY <1>3, <1>5, <3>1 DEF c
    <3> QED BY <1>3, <1>8, <3>1, <3>2
  <2>2. \A i, j \in 1 .. n - 1 : q[i] = q[j] => i = j
    BY <1>1, <1>3, <1>5
  <2> QED BY <1>1, <1>2, <2>1, <2>2 DEF PathOK, q
<1>10. OnPath(w) = OnPath(v) \cup {c}
  <2>1. OnPath(v) = {p[i] : i \in 1 .. n - 1}
    BY <1>1, <1>4
  <2>2. \A i \in 1 .. n : i \in 1 .. n - 1 \/ i = n
    BY <1>1
  <2> QED BY <1>4, <1>5, <2>1, <2>2 DEF c
<1>11. OnPath(v) \cup v.finished = OnPath(w) \cup f
  BY <1>2, <1>10
<1> QED BY <1>2, <1>7, <1>9, <1>11 DEF WalkOK, f, r

LEMMA TakeKeeps ==
    ASSUME NEW d, GraphOK(d), NEW w \in Walks(d), WalkOK(d, w), w.path # <<>>,
           NEW v \in Walks(d), NEW t \in Steps(d), Takes(w, v, t)
    PROVE  WalkOK(d, v)
<1> DEFINE p == w.path
           n == Len(p)
           c == p[n]
           r == w.remaining
           f == w.finished
<1>1. /\ n \in Nat /\ n > 0 /\ Current(w) = c /\ c \in Steps(d) /\ p \in Seq(Steps(d))
      /\ r \in [Steps(d) -> SUBSET Steps(d)]
  BY FrontIs, ZenonT(60) DEF Walks, Current
<1>2. /\ t \in r[c] /\ t \notin OnPath(w) /\ v.remaining = [r EXCEPT ![c] = @ \ {t}] /\ v.finished = f
      /\ v.path = IF t \in f THEN p ELSE Append(p, t)
  BY <1>1 DEF Takes
<1>3. /\ \A i \in 1 .. n : /\ d.next[p[i]] \ r[p[i]] \in SUBSET (f \cup Onward(p, i))
                           /\ p[i] \notin f /\ Onward(p, i) \in SUBSET d.next[p[i]]
      /\ \A i, j \in 1 .. n : p[i] = p[j] => i = j
      /\ \A s \in Steps(d) \ (OnPath(w) \cup f) : r[s] = d.next[s]
      /\ \A s \in Steps(d) : r[s] \in SUBSET d.next[s]
      /\ Closed(d, f) /\ Ranked(d, f) /\ d.entry \in OnPath(w) \cup f
  BY DEF WalkOK, PathOK
<1>4. OnPath(w) = {p[i] : i \in 1 .. n}
  BY <1>1 DEF OnPath
<1> DEFINE s2 == v.remaining
<1> HIDE DEF p, n, c, r, f, s2
<1>5. n \in 1 .. n /\ Onward(p, n) = {} /\ c \in OnPath(w)
  BY <1>1, <1>4 DEF Onward, n, c
<1>6. s2[c] = r[c] \ {t} /\ \A s \in Steps(d) \ {c} : s2[s] = r[s]
  BY <1>1, <1>2 DEF s2
<1>7. \A s \in Steps(d) : s2[s] \in SUBSET d.next[s]
  BY <1>1, <1>3, <1>6
<1>8. d.next[c] \ s2[c] \in SUBSET (f \cup {t}) /\ t \in d.next[c]
  <2>1. d.next[c] \ r[c] \in SUBSET f
    BY <1>3, <1>5 DEF c
  <2> QED BY <1>1, <1>2, <1>3, <1>6, <2>1
<1>9. \A i \in 1 .. n : p[i] \in Steps(d) /\ (p[i] = c => i = n)
  <2>1. \A i \in 1 .. n : p[i] \in Steps(d)
    BY <1>1 DEF n
  <2> QED BY <1>3, <1>5, <2>1 DEF c
<1>10. \A s \in Steps(d) \ OnPath(w) : s # c
  BY <1>5
<1>11. CASE t \in f
  <2>1. v.path = p /\ OnPath(v) = OnPath(w)
    BY <1>2, <1>11 DEF OnPath, p
  <2>2. \A i \in 1 .. n : d.next[p[i]] \ s2[p[i]] \in SUBSET (f \cup Onward(p, i))
    <3> TAKE i \in 1 .. n
    <3>1. CASE i = n
      BY <1>5, <1>8, <1>11, <3>1 DEF c
    <3>2. CASE i # n
      BY <1>3, <1>6, <1>9, <3>2
    <3> QED BY <3>1, <3>2
  <2>3. PathOK(d, v)
    BY <1>2, <1>3, <2>1, <2>2 DEF PathOK, n, s2
  <2>4. \A s \in Steps(d) \ (OnPath(v) \cup f) : s2[s] = d.next[s]
    BY <1>3, <1>6, <1>10, <2>1
  <2> QED BY <1>2, <1>3, <1>7, <2>1, <2>3, <2>4 DEF WalkOK, s2
<1>12. CASE t \notin f
  <2> DEFINE q == v.path
  <2>1. /\ q \in Seq(Steps(d)) /\ Len(q) = n + 1 /\ \A i \in 1 .. n : q[i] = p[i]
        /\ q[n + 1] = t
    BY <1>1, <1>2, <1>12, AppendIs DEF n
  <2>2. OnPath(v) = {q[i] : i \in 1 .. n + 1}
    BY <2>1 DEF OnPath
  <2> HIDE DEF q
  <2>3. \A i \in 1 .. n + 1 : i \in 1 .. n \/ i = n + 1
    BY <1>1
  <2>4. \A i \in 1 .. n : i \in 1 .. n + 1
    BY <1>1
  <2>5. OnPath(v) = OnPath(w) \cup {t}
    <3>1. n + 1 \in 1 .. n + 1
      BY <1>1
    <3> QED BY <1>4, <2>1, <2>2, <2>3, <2>4, <3>1
  <2>6. \A i \in 1 .. n : Onward(q, i) = IF i = n THEN {t} ELSE Onward(p, i)
    <3> TAKE i \in 1 .. n
    <3>1. Onward(q, i) = {q[i + 1]}
      BY <1>1, <2>1 DEF Onward
    <3>2. CASE i = n
      BY <2>1, <3>1, <3>2
    <3>3. CASE i # n
      <4>1. i + 1 \in 1 .. n /\ i < Len(p)
        BY <1>1, <3>3 DEF n
      <4> QED BY <2>1, <3>1, <3>3, <4>1 DEF Onward
    <3> QED BY <3>2, <3>3
  <2>7. Onward(q, n + 1) = {}
    BY <1>1, <2>1 DEF Onward
  <2>8. t # c /\ s2[t] = d.next[t]
    BY <1>2, <1>3, <1>5, <1>6, <1>12
  <2>9. ASSUME NEW i \in 1 .. n + 1
        PROVE  /\ d.next[q[i]] \ s2[q[i]] \in SUBSET (f \cup Onward(q, i))
               /\ q[i] \notin f /\ Onward(q, i) \in SUBSET d.next[q[i]]
    <3>1. CASE i = n + 1
      BY <1>12, <2>1, <2>7, <2>8, <3>1
    <3>2. CASE i = n
      <4>1. q[i] = c /\ Onward(q, i) = {t} /\ c \notin f
        BY <1>3, <1>5, <2>1, <2>6, <3>2 DEF c
      <4> QED BY <1>8, <4>1
    <3>3. CASE i # n /\ i # n + 1
      <4>1. i \in 1 .. n /\ q[i] = p[i] /\ Onward(q, i) = Onward(p, i)
        BY <2>1, <2>3, <2>6, <3>3
      <4>2. s2[p[i]] = r[p[i]]
        BY <1>6, <1>9, <3>3, <4>1
      <4> QED BY <1>3, <4>1, <4>2
    <3> QED BY <3>1, <3>2, <3>3
  <2>10. ASSUME NEW i \in 1 .. n + 1, NEW j \in 1 .. n + 1, q[i] = q[j] PROVE i = j
    <3>1. \A k \in 1 .. n : q[k] # t
      BY <1>2, <1>4, <2>1
    <3>2. CASE i = n + 1
      BY <2>1, <2>3, <2>10, <3>1, <3>2
    <3>3. CASE j = n + 1
      BY <2>1, <2>3, <2>10, <3>1, <3>3
    <3>4. CASE i # n + 1 /\ j # n + 1
      <4>1. i \in 1 .. n /\ j \in 1 .. n
        BY <2>3, <3>4
      <4> QED BY <1>3, <2>1, <2>10, <4>1
    <3> QED BY <3>2, <3>3, <3>4
  <2>11. PathOK(d, v)
    BY <1>2, <2>1, <2>9, <2>10 DEF PathOK, q, s2
  <2>12. \A s \in Steps(d) \ (OnPath(v) \cup f) : s2[s] = d.next[s]
    BY <1>3, <1>6, <1>10, <2>5
  <2> QED BY <1>2, <1>3, <1>7, <2>5, <2>11, <2>12 DEF WalkOK, s2
<1> QED BY <1>11, <1>12

LEMMA WalkEnds ==
    ASSUME NEW d, GraphOK(d)
    PROVE  \E v \in WalkOver(d) : WalkOK(d, v) /\ FindsCycle(d) = Verdict(d)[v]
<1> DEFINE I == {w \in Walks(d) : WalkOK(d, w)}
<1>1. FirstWalk(d) \in I
  <2> DEFINE w == FirstWalk(d)
  <2>1. /\ w.path = <<d.entry>> /\ w.remaining = d.next /\ w.finished = {}
        /\ w.path \in Seq(Steps(d)) /\ Len(w.path) = 1 /\ w.path[1] = d.entry
    BY DEF FirstWalk, GraphOK
  <2>2. w \in Walks(d)
    BY <2>1 DEF Walks, FirstWalk, GraphOK
  <2> HIDE DEF w
  <2>3. OnPath(w) = {d.entry}
    BY <2>1 DEF OnPath
  <2>4. PathOK(d, w)
    <3>1. \A i \in 1 .. Len(w.path) : i = 1
      BY <2>1
    <3>2. Onward(w.path, 1) = {}
      BY <2>1 DEF Onward
    <3> QED BY <2>1, <3>1, <3>2 DEF PathOK
  <2>5. Closed(d, {})
    BY DEF Closed
  <2>6. Ranked(d, {})
    <3> DEFINE none == [s \in {} |-> 0]
    <3>1. none \in [{} -> 1 .. Cardinality({})]
      OBVIOUS
    <3>2. Ranks(d, {}, none)
      BY <3>1 DEF Ranks
    <3> QED BY <3>2 DEF Ranked
  <2>7. WalkOK(d, w)
    BY <2>1, <2>3, <2>4, <2>5, <2>6 DEF WalkOK
  <2> QED BY <2>2, <2>7 DEF w
<1>2. ASSUME NEW w \in I \ WalkOver(d) PROVE Explored(d)[w] \in I
  <2>1. w \in Walks(d) \ WalkOver(d) /\ WalkOK(d, w) /\ Explored(d)[w] = Explore(w)
    BY DEF Explored
  <2>2. /\ Explore(w) \in Walks(d) /\ w.path # <<>>
        /\ Finishes(w, Explore(w)) \/ \E t \in Steps(d) : Takes(w, Explore(w), t)
    BY <2>1, ExploreIs
  <2>3. WalkOK(d, Explore(w))
    BY <2>1, <2>2, FinishKeeps, TakeKeeps
  <2> QED BY <2>1, <2>2, <2>3
<1>3. PICK g : Loop(g, Walks(d), WalkOver(d), Verdict(d), Explored(d)) /\ FindsCycle(d) = g[FirstWalk(d)]
  BY FindsCycleIsLoop DEF GraphOK
<1>4. I \in SUBSET Walks(d)
  OBVIOUS
<1>5. WindsDown(Walks(d), WalkOver(d), Explored(d), Unwalked(d))
  BY ExploreTurns DEF GraphOK
<1>6. \E v \in I \cap WalkOver(d) : FindsCycle(d) = Verdict(d)[v]
  <2> HIDE DEF I
  <2>1. \E v \in I \cap WalkOver(d) : g[FirstWalk(d)] = Verdict(d)[v]
    BY <1>1, <1>2, <1>3, <1>4, <1>5, LoopKeeps
  <2> QED BY <1>3, <2>1, Zenon
<1>7. PICK v \in I \cap WalkOver(d) : FindsCycle(d) = Verdict(d)[v]
  BY <1>6
<1>8. v \in WalkOver(d) /\ WalkOK(d, v)
  OBVIOUS
<1> QED BY <1>7, <1>8, Zenon

LEMMA VerdictIs ==
    ASSUME NEW d, NEW v \in WalkOver(d), FindsCycle(d) = Verdict(d)[v]
    PROVE  /\ FindsCycle(d) => ClosesCycle(v)
           /\ ~FindsCycle(d) => v.path = <<>>
<1>1. v \in Walks(d) /\ (v.path = <<>> \/ ClosesCycle(v))
  BY DEF WalkOver
<1>2. Verdict(d)[v] = ClosesCycle(v)
  BY <1>1, Zenon DEF Verdict
<1>3. FindsCycle(d) = ClosesCycle(v)
  BY <1>2, Zenon
<1> QED BY <1>1, <1>3, Zenon

\* The walk decides: it finds a cycle in a graph whose steps can be reached if, and only if,
\* they cannot be ranked.
LEMMA NoCycleRanks ==
    ASSUME NEW d, GraphOK(d), Steps(d) = Reachable(d), ~FindsCycle(d)
    PROVE  Ranked(d, Steps(d))
<1>1. PICK v \in WalkOver(d) : WalkOK(d, v) /\ FindsCycle(d) = Verdict(d)[v]
  BY WalkEnds, Zenon
<1>2. v.path = <<>>
  BY <1>1, VerdictIs, Zenon
<1>3. OnPath(v) = {}
  BY <1>2 DEF OnPath
<1>4. Closed(d, v.finished) /\ Ranked(d, v.finished) /\ d.entry \in v.finished
  BY <1>1, <1>3 DEF WalkOK
<1>5. Reachable(d) \in SUBSET v.finished
  BY <1>4, ReachableIsLeast
<1>6. v.finished = Steps(d)
  BY <1>4, <1>5 DEF Closed
<1> QED BY <1>4, <1>6

LEMMA CycleUnranks ==
    ASSUME NEW d, GraphOK(d), FindsCycle(d)
    PROVE  ~Ranked(d, Steps(d))
<1>1. PICK v \in WalkOver(d) : WalkOK(d, v) /\ FindsCycle(d) = Verdict(d)[v]
  BY WalkEnds, Zenon
<1>2. ClosesCycle(v)
  BY <1>1, VerdictIs, Zenon
<1> DEFINE p == v.path
           n == Len(p)
           t == Target(v)
<1>3. v \in Walks(d) /\ p \in Seq(Steps(d)) /\ p # <<>> /\ v.remaining \in [Steps(d) -> SUBSET Steps(d)]
  <2>1. v \in Walks(d) /\ p \in Seq(Steps(d)) /\ v.remaining \in [Steps(d) -> SUBSET Steps(d)]
    BY DEF WalkOver, Walks
  <2>2. p # <<>>
    BY <1>2 DEF ClosesCycle
  <2> QED BY <2>1, <2>2
<1>4. n \in Nat /\ n > 0 /\ Current(v) = p[n] /\ p[n] \in Steps(d) /\ \A i \in 1 .. n : p[i] \in Steps(d)
  <2>1. p[n] \in Steps(d) /\ n > 0 /\ n \in Nat /\ Current(v) = p[n]
    <3> HIDE DEF p
    <3>1. Last(p) = p[Len(p)] /\ Last(p) \in Steps(d) /\ Len(p) \in Nat /\ Len(p) > 0
      BY <1>3, FrontIs
    <3> QED BY <3>1 DEF Current, p
  <2>2. \A i \in 1 .. n : p[i] \in Steps(d)
    BY <1>3
  <2> QED BY <2>1, <2>2
<1>5. t \in v.remaining[p[n]] /\ t \in OnPath(v)
  BY <1>2, <1>4 DEF ClosesCycle, Target
<1>6. t \in d.next[p[n]]
  BY <1>1, <1>4, <1>5 DEF WalkOK
<1>7. PICK k \in 1 .. n : t = p[k]
  BY <1>3, <1>5 DEF OnPath
<1>8. \A i \in 1 .. n : Onward(p, i) \in SUBSET d.next[p[i]]
  BY <1>1 DEF WalkOK, PathOK
<1> HIDE DEF p, n, t
<1>9. \A i \in 1 .. n : i < n => p[i + 1] \in d.next[p[i]]
  BY <1>8 DEF Onward, n
<1>10. ASSUME NEW rank, Ranks(d, Steps(d), rank) PROVE FALSE
  <2>1. \A s \in Steps(d) : rank[s] \in Nat /\ \A u \in d.next[s] : rank[u] < rank[s]
    <3>1. Cardinality(Steps(d)) \in Nat
      BY FS_CardinalityType DEF GraphOK
    <3> QED BY <1>10, <3>1 DEF Ranks
  <2> DEFINE Bad == {i \in Nat : i >= k /\ i <= n /\ rank[p[i]] > rank[p[k]]}
  <2>2. Bad = {}
    <3> SUFFICES ASSUME Bad # {} PROVE FALSE
      OBVIOUS
    <3>1. PICK i \in Bad : \A j \in Bad : ~ (j < i)
      <4>1. Bad \in SUBSET Nat
        OBVIOUS
      <4> HIDE DEF Bad
      <4> QED BY <4>1, SmallestNumber
    <3>2. i \in Nat /\ i >= k /\ i <= n /\ rank[p[i]] > rank[p[k]] /\ rank[p[k]] \in Nat /\ k \in Nat
      BY <1>4, <2>1
    <3>3. i # k
      BY <3>2
    <3> DEFINE j == i - 1
    <3>4. j \in Nat /\ j >= k /\ j < n /\ j < i /\ j + 1 = i /\ j \in 1 .. n /\ i \in 1 .. n
      BY <1>4, <3>2, <3>3
    <3> HIDE DEF j
    <3>5. p[i] \in d.next[p[j]]
      BY <1>9, <3>4
    <3>6. rank[p[i]] < rank[p[j]] /\ rank[p[i]] \in Nat /\ rank[p[j]] \in Nat
      BY <1>4, <2>1, <3>4, <3>5
    <3>7. rank[p[j]] > rank[p[k]]
      BY <3>2, <3>6
    <3>8. j \in Bad
      BY <3>4, <3>7
    <3> QED BY <3>1, <3>4, <3>8
  <2>3. rank[p[n]] \in Nat /\ rank[p[k]] \in Nat /\ rank[p[k]] < rank[p[n]] /\ k <= n
    BY <1>4, <1>6, <1>7, <2>1
  <2>4. n \in Bad
    BY <1>4, <2>3
  <2> QED BY <2>2, <2>4
<1> QED BY <1>10 DEF Ranked

\* Led-to steps of a ranked graph are reached, one of them ends the run; and what is
\* reached is led to.
LEMMA RankedIsReached ==
    ASSUME NEW d, GraphOK(d), Ranked(d, Steps(d)),
           \A s \in Steps(d) \ {d.entry} : \E t \in Steps(d) : s \in d.next[t]
    PROVE  Reachable(d) = Steps(d) /\ HasTerminalPath(d, Reachable(d))
<1> DEFINE R == Reachable(d)
           n == Cardinality(Steps(d))
<1>1. Closed(d, Steps(d)) /\ d.entry \in Steps(d)
  BY DEF Closed, GraphOK
<1>2. d.entry \in R /\ Closed(d, R) /\ R \in SUBSET Steps(d)
  BY <1>1, ReachableIsLeast
<1>3. n \in Nat
  BY FS_CardinalityType DEF GraphOK
<1>4. PICK rank : Ranks(d, Steps(d), rank)
  BY DEF Ranked
<1> HIDE DEF R
<1>5. \A s \in Steps(d) : rank[s] \in Nat /\ rank[s] <= n /\ \A t \in d.next[s] : t \in Steps(d) /\ rank[t] < rank[s]
  BY <1>3, <1>4 DEF Ranks, GraphOK
<1> HIDE DEF n
<1>6. R = Steps(d)
  <2> SUFFICES ASSUME Steps(d) \ R # {} PROVE FALSE
    BY <1>2
  <2> DEFINE B == {m \in Nat : \E s \in Steps(d) \ R : m = n - rank[s]}
  <2>1. \A s \in Steps(d) : n - rank[s] \in Nat
    BY <1>3, <1>5
  <2>2. B # {}
    BY <2>1
  <2>3. PICK m \in B : \A l \in B : ~ (l < m)
    <3>1. B \in SUBSET Nat
      OBVIOUS
    <3> HIDE DEF B
    <3> QED BY <2>2, <3>1, SmallestNumber
  <2>4. PICK s \in Steps(d) \ R : m = n - rank[s]
    OBVIOUS
  <2>5. PICK t \in Steps(d) : s \in d.next[t]
    BY <1>2, <2>4
  <2>6. t \notin R
    BY <1>2, <2>4, <2>5 DEF Closed
  <2>7. rank[s] < rank[t] /\ rank[s] \in Nat /\ rank[t] \in Nat
    BY <1>5, <2>4, <2>5
  <2>8. n - rank[t] \in B /\ n - rank[t] < m
    BY <1>3, <2>1, <2>4, <2>6, <2>7
  <2> QED BY <2>3, <2>8
<1>7. \E s \in Steps(d) : d.next[s] = {}
  <2> DEFINE B == {m \in Nat : \E s \in Steps(d) : m = rank[s]}
  <2>1. B # {}
    BY <1>1, <1>5
  <2>2. PICK m \in B : \A l \in B : ~ (l < m)
    <3>1. B \in SUBSET Nat
      OBVIOUS
    <3> HIDE DEF B
    <3> QED BY <2>1, <3>1, SmallestNumber
  <2>3. PICK s \in Steps(d) : m = rank[s]
    OBVIOUS
  <2>4. \A t \in d.next[s] : FALSE
    BY <1>5, <2>2, <2>3
  <2> QED BY <2>3, <2>4
<1> QED BY <1>6, <1>7 DEF HasTerminalPath, R

LEMMA ReachedIsLedTo ==
    ASSUME NEW d, GraphOK(d), Steps(d) = Reachable(d), NEW s \in Steps(d) \ {d.entry}
    PROVE  \E t \in Steps(d) : s \in d.next[t]
<1> DEFINE C == {d.entry} \cup {u \in Steps(d) : \E t \in Steps(d) : u \in d.next[t]}
<1>1. C \in SUBSET Steps(d) /\ d.entry \in C
  BY DEF GraphOK
<1>2. Closed(d, C)
  BY <1>1 DEF Closed, GraphOK
<1>3. Reachable(d) \in SUBSET C
  BY <1>1, <1>2, ReachableIsLeast
<1> QED BY <1>3

\* What _graph_problems and _reference_problems let through, of any size, ends: every
\* transition can be ranked to lead down, no step is left out, and none reads itself or what
\* is not there.
THEOREM CheckIsSound ==
    ASSUME NEW d, GraphOK(d), ~BadGraph(d), ~BadReference(d)
    PROVE  Ends(d)
<1>1. Steps(d) = Reachable(d) /\ ~FindsCycle(d)
  BY DEF BadGraph
<1>2. \E rank : Ranks(d, Steps(d), rank)
  BY <1>1, NoCycleRanks DEF Ranked
<1>3. \A s \in Steps(d) \ {d.entry} : \E t \in Steps(d) : s \in d.next[t]
  BY <1>1, ReachedIsLedTo
<1>4. \A s \in Steps(d) : d.reads[s] \subseteq (Steps(d) \ {s}) \cup {"input"}
  BY DEF BadReference
<1>5. \E rank \in [Steps(d) -> 1 .. Cardinality(Steps(d))] :
          \A s \in Steps(d) : \A t \in d.next[s] : rank[t] < rank[s]
  BY <1>2 DEF Ranks
<1> QED BY <1>3, <1>4, <1>5 DEF Ends

\* And nothing that ends is refused by the two checks. (Reads of the run's own input are
\* written "input" in the model, so no step may bear that name; the code keeps the two apart.)
THEOREM CheckIsExact ==
    ASSUME NEW d, GraphOK(d), "input" \notin Steps(d)
    PROVE  Ends(d) <=> ~(BadGraph(d) \/ BadReference(d))
<1>1. ASSUME ~(BadGraph(d) \/ BadReference(d)) PROVE Ends(d)
  BY <1>1, CheckIsSound
<1>2. ASSUME Ends(d) PROVE ~(BadGraph(d) \/ BadReference(d))
  <2>1. Ranked(d, Steps(d))
    BY <1>2 DEF Ends, Ranked, Ranks
  <2>2. \A s \in Steps(d) \ {d.entry} : \E t \in Steps(d) : s \in d.next[t]
    BY <1>2 DEF Ends
  <2>3. \A s \in Steps(d) : d.reads[s] \subseteq (Steps(d) \ {s}) \cup {"input"}
    BY <1>2 DEF Ends
  <2>4. Reachable(d) = Steps(d) /\ HasTerminalPath(d, Reachable(d))
    BY <2>1, <2>2, RankedIsReached
  <2>5. ~FindsCycle(d)
    BY <2>1, CycleUnranks
  <2>6. ~BadGraph(d)
    BY <2>4, <2>5 DEF BadGraph
  <2>7. ~BadReference(d)
    BY <2>3 DEF BadReference
  <2> QED BY <2>6, <2>7
<1> QED BY <1>1, <1>2

-----------------------------------------------------------------------------
(* What is stored, and what the requests in flight know of it.             *)

\* The documents offered: the parser has built their tables of transitions.
DraftsAssumption ==
    \A d \in FirstDrafts \cup LaterDrafts :
        IsFiniteSet(Steps(d)) /\ d.next = [s \in Steps(d) |-> d.next[s]]

Drafts   == {d \in FirstDrafts \cup LaterDrafts : Parsed(d)}
EditionStatuses == {"draft", "active", "inactive"}
EditionRows     == [version : Nat, doc : Drafts, status : EditionStatuses]

Inserts       == [pc : {"insert"}, doc : Drafts, version : Nat]
Activations   == [pc : {"retire"}, id : Nat, seen : EditionStatuses]
Commits       == [pc : {"lock", "commit"}, id : Nat, seen : EditionStatuses, others : SUBSET Nat,
                  late : SUBSET Nat]
Deactivations == [pc : {"deactivate"}, id : Nat, seen : EditionStatuses]
Starts        == [pc : {"run"}, id : Nat]
EditRequests      == {NoEdit} \cup Inserts \cup Activations \cup Commits \cup Deactivations \cup Starts

\* An activation goes on, and a run is created, only where the check has passed; a version
\* is the number of the edition, and one taken to insert is at most the next.
RequestOK(e, s) ==
    /\ e.pc = "insert" => e.version \in 1 .. Len(s) + 1
    /\ e.pc \in {"retire", "lock", "commit", "deactivate", "run"} => e.id \in 1 .. Len(s)
    /\ e.pc \in {"retire", "lock", "commit", "run"} => Validated(s[e.id].doc)
    /\ e.pc \in {"lock", "commit"} => e.others \in SUBSET (1 .. Len(s))

EditionsOK(s, begun) ==
    /\ s \in Seq(EditionRows) /\ Len(s) <= MaxEditions /\ begun \in SUBSET (1 .. Len(s))
    /\ \A i \in 1 .. Len(s) : s[i].version = i
    /\ \A i \in 1 .. Len(s) : s[i].status = "active" \/ i \in begun => Validated(s[i].doc)

EditionsInv ==
    /\ EditionsOK(stored, started)
    /\ edit \in [Editors -> EditRequests]
    /\ \A p \in Editors : RequestOK(edit[p], stored)

\* Editions are only added, and no document changes.
Extends(s, t) == Len(s) <= Len(t) /\ \A i \in 1 .. Len(s) : t[i].doc = s[i].doc

LEMMA DraftIsGraph ==
    ASSUME DraftsAssumption, NEW d \in Drafts
    PROVE  GraphOK(d)
<1>1. /\ d \in FirstDrafts \cup LaterDrafts /\ d.entry \in Steps(d)
      /\ \A s \in Steps(d) : d.next[s] \in SUBSET Steps(d)
  BY DEF Drafts, Parsed
<1>2. IsFiniteSet(Steps(d)) /\ d.next = [s \in Steps(d) |-> d.next[s]]
  BY <1>1 DEF DraftsAssumption
<1> QED BY <1>1, <1>2 DEF GraphOK

LEMMA ValidatedEnds ==
    ASSUME DraftsAssumption, NEW d \in Drafts, Validated(d)
    PROVE  Ends(d)
<1>1. ~BadGraph(d) /\ ~BadReference(d)
  BY DEF Validated
<1> QED BY <1>1, DraftIsGraph, CheckIsSound

\* The next version is the number of the next edition.
LEMMA NextVersionIs ==
    ASSUME stored \in Seq(EditionRows), \A i \in Ids : stored[i].version = i
    PROVE  NextVersion = Len(stored) + 1
<1> DEFINE n == Len(stored)
           V == {stored[i].version : i \in Ids}
           Top(v) == v \in V /\ \A i \in Ids : stored[i].version <= v
<1>1. n \in Nat /\ Ids = 1 .. n
  BY DEF Ids
<1>2. CASE stored = <<>>
  BY <1>2 DEF NextVersion
<1>3. CASE stored # <<>>
  <2>1. n > 0 /\ n \in Ids
    BY <1>1, <1>3
  <2>2. V = Ids
    BY <1>1
  <2>3. Top(n)
    BY <1>1, <2>1
  <2>4. \A v : Top(v) => v = n
    BY <1>1, <2>1, <2>2
  <2> DEFINE m == CHOOSE v \in V : \A i \in Ids : stored[i].version <= v
  <2>5. m = n
    <3> HIDE DEF V
    <3> QED BY <2>3, <2>4
  <2>6. NextVersion = 1 + m
    BY <1>3 DEF NextVersion
  <2> HIDE DEF m
  <2> QED BY <1>1, <2>5, <2>6
<1> QED BY <1>2, <1>3

LEMMA RequestStays ==
    ASSUME NEW e \in EditRequests, NEW s \in Seq(EditionRows), NEW t \in Seq(EditionRows), RequestOK(e, s), Extends(s, t)
    PROVE  RequestOK(e, t)
<1>1. Len(s) \in Nat /\ Len(t) \in Nat /\ Len(s) <= Len(t)
  BY DEF Extends
<1>2. \A i \in 1 .. Len(s) : i \in 1 .. Len(t) /\ t[i].doc = s[i].doc
  BY <1>1 DEF Extends
<1>3. \A i \in 1 .. Len(s) + 1 : i \in 1 .. Len(t) + 1
  BY <1>1
<1> QED BY <1>2, <1>3 DEF RequestOK

LEMMA IdleIsOK ==
    ASSUME NEW s
    PROVE  NoEdit \in EditRequests /\ RequestOK(NoEdit, s)
BY DEF NoEdit, EditRequests, RequestOK

\* A step that gives one request something sound to know and only adds editions keeps all
\* the requests.
LEMMA RequestsStay ==
    ASSUME EditionsInv, NEW p \in Editors, NEW e \in EditRequests, edit' = [edit EXCEPT ![p] = e],
           stored' \in Seq(EditionRows), Extends(stored, stored'), RequestOK(e, stored')
    PROVE  edit' \in [Editors -> EditRequests] /\ \A q \in Editors : RequestOK(edit'[q], stored')
<1>1. edit \in [Editors -> EditRequests] /\ stored \in Seq(EditionRows) /\ \A q \in Editors : RequestOK(edit[q], stored)
  BY DEF EditionsInv, EditionsOK
<1>2. ASSUME NEW q \in Editors PROVE RequestOK(edit'[q], stored')
  <2>1. CASE q = p
    BY <1>1, <2>1
  <2>2. CASE q # p
    <3>1. edit'[q] = edit[q] /\ edit[q] \in EditRequests
      BY <1>1, <2>2
    <3> QED BY <1>1, <3>1, RequestStays
  <2> QED BY <2>1, <2>2
<1> QED BY <1>1, <1>2

LEMMA EditionsBegin == DraftsAssumption /\ MaxEditions \in Nat \ {0} /\ EditionsInit => EditionsInv
<1> SUFFICES ASSUME DraftsAssumption, MaxEditions \in Nat \ {0}, EditionsInit PROVE EditionsInv
  OBVIOUS
<1>1. PICK d \in FirstDrafts : Parsed(d) /\ stored = <<[version |-> 1, doc |-> d, status |-> "draft"]>>
  BY DEF EditionsInit
<1>2. edit = [p \in Editors |-> NoEdit] /\ started = {}
  BY DEF EditionsInit
<1> DEFINE row == [version |-> 1, doc |-> d, status |-> "draft"]
<1>3. row \in EditionRows /\ row.version = 1 /\ row.status = "draft"
  BY <1>1 DEF EditionRows, Drafts, EditionStatuses
<1> HIDE DEF row
<1>4. stored \in Seq(EditionRows) /\ Len(stored) = 1 /\ stored[1] = row
  BY <1>1, <1>3 DEF row
<1>5. \A i \in 1 .. Len(stored) : i = 1
  BY <1>4
<1>6. EditionsOK(stored, started)
  BY <1>2, <1>3, <1>4, <1>5 DEF EditionsOK
<1>7. edit \in [Editors -> EditRequests] /\ \A p \in Editors : RequestOK(edit[p], stored)
  BY <1>2, IdleIsOK
<1> QED BY <1>6, <1>7 DEF EditionsInv

\* A request that is over changes no other.
LEMMA DoneKeeps ==
    ASSUME EditionsInv, NEW p \in Editors, Done(p), stored' \in Seq(EditionRows), Extends(stored, stored')
    PROVE  edit' \in [Editors -> EditRequests] /\ \A q \in Editors : RequestOK(edit'[q], stored')
<1>1. NoEdit \in EditRequests /\ RequestOK(NoEdit, stored') /\ edit' = [edit EXCEPT ![p] = NoEdit]
  BY IdleIsOK DEF Done
<1> QED BY <1>1, RequestsStay

LEMMA SameExtends ==
    ASSUME EditionsInv, stored' = stored
    PROVE  stored' \in Seq(EditionRows) /\ Extends(stored, stored')
<1>1. stored \in Seq(EditionRows)
  BY DEF EditionsInv, EditionsOK
<1>2. Len(stored) \in Nat
  BY <1>1
<1> QED BY <1>1, <1>2 DEF Extends

\* A step of one request that stores nothing.
LEMMA ReadKeeps ==
    ASSUME EditionsInv, NEW p \in Editors, NEW e \in EditRequests, edit' = [edit EXCEPT ![p] = e],
           RequestOK(e, stored), UNCHANGED <<stored, started>>
    PROVE  EditionsInv'
<1>1. stored' \in Seq(EditionRows) /\ Extends(stored, stored') /\ RequestOK(e, stored')
  BY SameExtends
<1>2. edit' \in [Editors -> EditRequests] /\ \A q \in Editors : RequestOK(edit'[q], stored')
  BY <1>1, RequestsStay
<1>3. EditionsOK(stored', started')
  BY DEF EditionsInv
<1> QED BY <1>2, <1>3 DEF EditionsInv

\* What is known of a request by the step it is at.
LEMMA RequestIs ==
    ASSUME EditionsInv, NEW p \in Editors
    PROVE  /\ edit[p] \in EditRequests /\ RequestOK(edit[p], stored)
           /\ edit[p].pc = "insert" => edit[p] \in Inserts
           /\ edit[p].pc = "retire" => edit[p] \in Activations
           /\ edit[p].pc \in {"lock", "commit"} => edit[p] \in Commits
           /\ edit[p].pc = "deactivate" => edit[p] \in Deactivations
           /\ edit[p].pc = "run" => edit[p] \in Starts
<1>1. edit[p] \in EditRequests /\ RequestOK(edit[p], stored)
  BY DEF EditionsInv
<1> QED BY <1>1 DEF EditRequests, NoEdit, Inserts, Activations, Commits, Deactivations, Starts

LEMMA CreateKeeps ==
    ASSUME EditionsInv, NEW p \in Editors, NEW d \in LaterDrafts, Create(p, d)
    PROVE  EditionsInv'
<1> DEFINE e == [pc |-> "insert", doc |-> d, version |-> NextVersion]
<1>1. /\ Parsed(d) /\ edit' = [edit EXCEPT ![p] = e]
      /\ UNCHANGED <<stored, started>>
  BY DEF Create
<1>2. stored \in Seq(EditionRows) /\ \A i \in Ids : stored[i].version = i
  BY DEF EditionsInv, EditionsOK, Ids
<1>3. NextVersion = Len(stored) + 1 /\ Len(stored) \in Nat
  BY <1>2, NextVersionIs
<1>4. d \in Drafts
  BY <1>1 DEF Drafts
<1>5. e \in EditRequests
  BY <1>3, <1>4 DEF EditRequests, Inserts
<1>6. RequestOK(e, stored)
  BY <1>3 DEF RequestOK
<1> HIDE DEF e
<1> QED BY <1>1, <1>5, <1>6, ReadKeeps

LEMMA InsertDraftKeeps ==
    ASSUME MaxEditions \in Nat, EditionsInv, NEW p \in Editors, InsertDraft(p)
    PROVE  EditionsInv'
<1> DEFINE e   == edit[p]
           n   == Len(stored)
           row == [version |-> e.version, doc |-> e.doc, status |-> "draft"]
<1>1. /\ e \in Inserts /\ n < MaxEditions /\ Done(p) /\ started' = started
      /\ stored' = IF \E i \in Ids : stored[i].version = e.version THEN stored ELSE Append(stored, row)
  BY RequestIs DEF InsertDraft
<1>2. /\ stored \in Seq(EditionRows) /\ \A i \in 1 .. n : stored[i].version = i
      /\ n <= MaxEditions /\ started \in SUBSET (1 .. n)
      /\ \A i \in 1 .. n : stored[i].status = "active" \/ i \in started => Validated(stored[i].doc)
  BY DEF EditionsInv, EditionsOK
<1>3. e.version \in 1 .. n + 1
  BY <1>1, RequestIs DEF RequestOK, Inserts
<1>4. CASE \E i \in Ids : stored[i].version = e.version
  <2>1. stored' = stored
    BY <1>1, <1>4
  <2>2. edit' \in [Editors -> EditRequests] /\ \A q \in Editors : RequestOK(edit'[q], stored')
    BY <1>1, <2>1, SameExtends, DoneKeeps
  <2>3. EditionsOK(stored', started')
    BY <1>1, <2>1 DEF EditionsInv
  <2> QED BY <2>2, <2>3 DEF EditionsInv
<1>5. CASE ~ \E i \in Ids : stored[i].version = e.version
  <2>1. row \in EditionRows /\ row.version = e.version /\ row.status = "draft"
    BY <1>1, <1>3 DEF Inserts, EditionRows, EditionStatuses
  <2>2. stored' = Append(stored, row)
    BY <1>1, <1>5
  <2>3. n \in Nat /\ e.version = n + 1
    BY <1>2, <1>3, <1>5 DEF Ids
  <2> HIDE DEF row, e
  <2>4. /\ stored' \in Seq(EditionRows) /\ Len(stored') = n + 1 /\ stored'[n + 1] = row
        /\ \A i \in 1 .. n : stored'[i] = stored[i]
    BY <1>2, <2>1, <2>2
  <2> DEFINE t == stored'
  <2> HIDE DEF t, n
  <2>5. \A i \in 1 .. n + 1 : i \in 1 .. n \/ i = n + 1
    BY <2>3
  <2>6. \A i \in 1 .. n : i \in 1 .. n + 1 /\ i # n + 1
    BY <2>3
  <2>7. \A i \in 1 .. Len(t) : t[i].version = i
    BY <1>2, <2>1, <2>3, <2>4, <2>5 DEF t
  <2>8. \A i \in 1 .. Len(t) : t[i].status = "active" \/ i \in started => Validated(t[i].doc)
    <3> TAKE i \in 1 .. Len(t)
    <3>1. i \in 1 .. n \/ i = n + 1
      BY <2>4, <2>5 DEF t
    <3>2. CASE i \in 1 .. n
      BY <1>2, <2>4, <3>2 DEF t
    <3>3. CASE i = n + 1
      <4>1. t[i].status = "draft" /\ i \notin started
        BY <1>2, <2>1, <2>4, <2>6, <3>3 DEF t
      <4> QED BY <4>1
    <3> QED BY <3>1, <3>2, <3>3
  <2>9. Len(t) <= MaxEditions /\ started \in SUBSET (1 .. Len(t))
    <3>1. Len(t) <= MaxEditions
      BY <1>1, <2>3, <2>4 DEF t, n
    <3>2. started \in SUBSET (1 .. Len(t))
      BY <1>2, <2>4, <2>6 DEF t
    <3> QED BY <3>1, <3>2
  <2>10. EditionsOK(stored', started')
    BY <1>1, <2>4, <2>7, <2>8, <2>9 DEF EditionsOK, t
  <2>11. Extends(stored, stored')
    BY <2>3, <2>4 DEF Extends, n
  <2>12. edit' \in [Editors -> EditRequests] /\ \A q \in Editors : RequestOK(edit'[q], stored')
    BY <1>1, <2>4, <2>11, DoneKeeps
  <2> QED BY <2>10, <2>12 DEF EditionsInv
<1> QED BY <1>4, <1>5

LEMMA ActivateKeeps ==
    ASSUME EditionsInv, NEW p \in Editors, NEW i \in Ids, Activate(p, i)
    PROVE  EditionsInv'
<1> DEFINE e == [pc |-> "retire", id |-> i, seen |-> stored[i].status]
<1>1. /\ Validated(stored[i].doc) /\ edit' = [edit EXCEPT ![p] = e]
      /\ UNCHANGED <<stored, started>>
  BY DEF Activate
<1>2. stored \in Seq(EditionRows) /\ i \in 1 .. Len(stored)
  BY DEF EditionsInv, EditionsOK, Ids
<1>3. i \in Nat /\ stored[i] \in EditionRows
  BY <1>2
<1>4. e \in EditRequests
  BY <1>3 DEF EditRequests, Activations, EditionRows
<1>5. RequestOK(e, stored)
  BY <1>1, <1>2 DEF RequestOK
<1> HIDE DEF e
<1> QED BY <1>1, <1>4, <1>5, ReadKeeps

LEMMA DeactivateKeeps ==
    ASSUME EditionsInv, NEW p \in Editors, NEW i \in Ids, Deactivate(p, i)
    PROVE  EditionsInv'
<1> DEFINE e == [pc |-> "deactivate", id |-> i, seen |-> stored[i].status]
<1>1. edit' = [edit EXCEPT ![p] = e] /\ UNCHANGED <<stored, started>>
  BY DEF Deactivate
<1>2. stored \in Seq(EditionRows) /\ i \in 1 .. Len(stored)
  BY DEF EditionsInv, EditionsOK, Ids
<1>3. i \in Nat /\ stored[i] \in EditionRows
  BY <1>2
<1>4. e \in EditRequests
  BY <1>3 DEF EditRequests, Deactivations, EditionRows
<1>5. RequestOK(e, stored)
  BY <1>1, <1>2 DEF RequestOK
<1> HIDE DEF e
<1> QED BY <1>1, <1>4, <1>5, ReadKeeps

\* An edition is active when its start is read, so that it was checked; and no other
\* document ever takes its place before the run is created.
LEMMA StartKeeps ==
    ASSUME EditionsInv, NEW p \in Editors, NEW i \in Ids, StartOn(p, i)
    PROVE  EditionsInv'
<1> DEFINE e == [pc |-> "run", id |-> i]
<1>1. /\ stored[i].status = "active" /\ edit' = [edit EXCEPT ![p] = e]
      /\ UNCHANGED <<stored, started>>
  BY DEF StartOn
<1>2. stored \in Seq(EditionRows) /\ i \in 1 .. Len(stored) /\ Validated(stored[i].doc)
  BY <1>1 DEF EditionsInv, EditionsOK, Ids
<1>3. i \in Nat
  BY <1>2
<1>4. e \in EditRequests
  BY <1>3 DEF EditRequests, Starts
<1>5. RequestOK(e, stored)
  BY <1>1, <1>2 DEF RequestOK
<1> HIDE DEF e
<1> QED BY <1>1, <1>4, <1>5, ReadKeeps

LEMMA DeactivateOthersKeeps ==
    ASSUME EditionsInv, NEW p \in Editors, DeactivateOthers(p)
    PROVE  EditionsInv'
<1> DEFINE others == {i \in Ids : i # edit[p].id /\ stored[i].status = "active"}
           e == [pc |-> "lock", id |-> edit[p].id, seen |-> edit[p].seen, late |-> {}, others |-> others]
<1>1. edit[p].pc = "retire" /\ edit' = [edit EXCEPT ![p] = e] /\ UNCHANGED <<stored, started>>
  BY DEF DeactivateOthers
<1>2. edit[p] \in Activations /\ RequestOK(edit[p], stored)
  BY <1>1, RequestIs
<1>3. stored \in Seq(EditionRows) /\ Len(stored) \in Nat
  BY DEF EditionsInv, EditionsOK
<1>4. others \in SUBSET (1 .. Len(stored)) /\ others \in SUBSET Nat
  BY <1>3 DEF Ids
<1> HIDE DEF others
<1>5. e \in EditRequests
  BY <1>2, <1>4 DEF EditRequests, Activations, Commits
<1>6. RequestOK(e, stored)
  BY <1>1, <1>2, <1>4 DEF RequestOK
<1> HIDE DEF e
<1> QED BY <1>1, <1>5, <1>6, ReadKeeps

\* Locking changes where a request is and what it will retire.
LEMMA LockingIs ==
    ASSUME EditionsInv, NEW p \in Editors, LockOthers(p)
    PROVE  edit' = [edit EXCEPT ![p] = [edit[p] EXCEPT
                       !.pc = "commit", !.others = {i \in edit[p].others : stored[i].status = "active"}]]
<1>1. edit' = [edit EXCEPT ![p].pc = "commit",
                           ![p].others = {i \in @ : stored[i].status = "active"}]
  BY DEF LockOthers
<1>2. edit \in [Editors -> EditRequests] /\ edit[p] \in Commits
  BY RequestIs DEF EditionsInv, LockOthers
<1> QED BY <1>1, <1>2 DEF Commits

LEMMA LockOthersKeeps ==
    ASSUME EditionsInv, NEW p \in Editors, LockOthers(p)
    PROVE  EditionsInv'
<1> DEFINE others == {i \in edit[p].others : stored[i].status = "active"}
           e == [edit[p] EXCEPT !.pc = "commit", !.others = others]
<1>1. edit[p].pc = "lock" /\ UNCHANGED <<stored, started>>
  BY DEF LockOthers
<1>2. edit[p] \in Commits /\ RequestOK(edit[p], stored)
  BY <1>1, RequestIs
<1>6. edit' = [edit EXCEPT ![p] = e]
  BY LockingIs
<1>3. others \in SUBSET (1 .. Len(stored)) /\ others \in SUBSET Nat
  BY <1>1, <1>2 DEF RequestOK, Commits
<1> HIDE DEF others
<1>4. e \in EditRequests
  BY <1>2, <1>3 DEF EditRequests, Commits
<1>5. RequestOK(e, stored)
  BY <1>2, <1>3 DEF RequestOK, Commits
<1> HIDE DEF e
<1> QED BY <1>1, <1>4, <1>5, <1>6, ReadKeeps

LEMMA AbortEditKeeps ==
    ASSUME EditionsInv, NEW p \in Editors, AbortEdit(p)
    PROVE  EditionsInv'
<1>1. NoEdit \in EditRequests /\ RequestOK(NoEdit, stored)
  BY IdleIsOK
<1> QED BY <1>1, ReadKeeps DEF AbortEdit, Done

LEMMA CreateRunKeeps ==
    ASSUME EditionsInv, NEW p \in Editors, CreateRun(p)
    PROVE  EditionsInv'
<1>1. /\ edit[p].pc = "run" /\ started' = started \cup {edit[p].id} /\ stored' = stored /\ Done(p)
  BY DEF CreateRun
<1>2. edit[p].id \in 1 .. Len(stored) /\ Validated(stored[edit[p].id].doc)
  BY <1>1, RequestIs DEF RequestOK
<1>3. edit' \in [Editors -> EditRequests] /\ \A q \in Editors : RequestOK(edit'[q], stored')
  BY <1>1, SameExtends, DoneKeeps
<1>4. EditionsOK(stored, started \cup {edit[p].id})
  BY <1>2 DEF EditionsInv, EditionsOK
<1> QED BY <1>1, <1>3, <1>4 DEF EditionsInv

\* EditionStatuses are written, and only that of a checked edition is made "active".
LEMMA EditKeeps ==
    ASSUME EditionsInv, started' = started, NEW status,
           edit' \in [Editors -> EditRequests],
           \A q \in Editors : RequestOK(edit[q], stored') => RequestOK(edit'[q], stored'),
           \A i \in Ids : /\ status[i] \in EditionStatuses
                          /\ status[i] = "active" => stored[i].status = "active" \/ Validated(stored[i].doc),
           stored' = [i \in Ids |-> [version |-> stored[i].version, doc |-> stored[i].doc, status |-> status[i]]]
    PROVE  EditionsInv'
<1> DEFINE n == Len(stored)
           t == [i \in 1 .. n |-> [version |-> stored[i].version, doc |-> stored[i].doc, status |-> status[i]]]
<1>1. /\ stored \in Seq(EditionRows) /\ n \in Nat /\ \A i \in 1 .. n : stored[i].version = i
      /\ n <= MaxEditions /\ started \in SUBSET (1 .. n)
      /\ \A i \in 1 .. n : stored[i].status = "active" \/ i \in started => Validated(stored[i].doc)
  BY DEF EditionsInv, EditionsOK
<1>2. stored' = t /\ Ids = 1 .. n
  BY DEF Ids
<1>3. \A i \in 1 .. n : stored[i] \in EditionRows
  BY <1>1
<1>4. \A i \in 1 .. n : [version |-> stored[i].version, doc |-> stored[i].doc, status |-> status[i]] \in EditionRows
  BY <1>2, <1>3 DEF EditionRows
<1>5. /\ t \in Seq(EditionRows) /\ Len(t) = n
      /\ \A i \in 1 .. n : /\ t[i].version = stored[i].version /\ t[i].doc = stored[i].doc
                            /\ t[i].status = status[i]
  BY <1>1, <1>4
<1> HIDE DEF t, n
<1>6. Extends(stored, stored')
  BY <1>1, <1>2, <1>5 DEF Extends, n
<1>7. \A q \in Editors : RequestOK(edit'[q], stored')
  <2>1. stored' \in Seq(EditionRows)
    BY <1>2, <1>5
  <2>2. \A q \in Editors : edit[q] \in EditRequests /\ RequestOK(edit[q], stored)
    BY DEF EditionsInv
  <2> QED BY <1>1, <1>6, <2>1, <2>2, RequestStays
<1>8. \A i \in 1 .. n : t[i].status = "active" \/ i \in started => Validated(t[i].doc)
  BY <1>1, <1>2, <1>5
<1>9. EditionsOK(t, started)
  BY <1>1, <1>5, <1>8 DEF EditionsOK
<1> QED BY <1>2, <1>7, <1>9 DEF EditionsInv

\* A row with another status.
LEMMA Restatus ==
    ASSUME NEW r \in EditionRows, NEW x
    PROVE  /\ [r EXCEPT !.status = x] = [version |-> r.version, doc |-> r.doc, status |-> x]
           /\ r = [version |-> r.version, doc |-> r.doc, status |-> r.status]
           /\ r.status \in EditionStatuses
BY DEF EditionRows

\* A commit tells the other activations that began before it, and nothing else of them changes.
LEMMA CommitTells ==
    ASSUME EditionsInv, NEW p \in Editors, CommitActivation(p)
    PROVE  /\ edit' \in [Editors -> EditRequests] /\ edit'[p] = NoEdit
           /\ \A q \in Editors : RequestOK(edit[q], stored') => RequestOK(edit'[q], stored')
           /\ \A q \in Editors \ {p} : edit[q].pc \notin {"lock", "commit"} => edit'[q] = edit[q]
           /\ \A q \in Editors \ {p} : edit[q].pc \in {"lock", "commit"} =>
                 /\ edit'[q].pc = edit[q].pc /\ edit'[q].id = edit[q].id
                 /\ edit'[q].others = edit[q].others
                 /\ edit[q].late \in SUBSET edit'[q].late
                 /\ edit[p].seen # "active" /\ edit[q].id # edit[p].id => edit[p].id \in edit'[q].late
<1> DEFINE e == edit[p]
           After(q) == IF q = p THEN NoEdit
                       ELSE IF e.seen # "active" THEN Overtaken(q, e.id) ELSE edit[q]
<1>1. e.pc = "commit" /\ edit' = [q \in Editors |-> After(q)]
  BY DEF CommitActivation
<1>2. e.id \in Nat
  BY <1>1, RequestIs DEF Commits
<1>3. After(p) = NoEdit /\ NoEdit \in EditRequests /\ RequestOK(NoEdit, stored')
  BY IdleIsOK
<1>4. ASSUME NEW q \in Editors \ {p}
      PROVE  /\ After(q) \in EditRequests /\ (RequestOK(edit[q], stored') => RequestOK(After(q), stored'))
             /\ edit[q].pc \notin {"lock", "commit"} => After(q) = edit[q]
             /\ edit[q].pc \in {"lock", "commit"} =>
                   /\ After(q).pc = edit[q].pc /\ After(q).id = edit[q].id
                   /\ After(q).others = edit[q].others
                   /\ edit[q].late \in SUBSET After(q).late
                   /\ e.seen # "active" /\ edit[q].id # e.id => e.id \in After(q).late
  <2>1. edit[q] \in EditRequests
    BY RequestIs
  <2>2. CASE e.seen = "active" \/ edit[q].pc \notin {"lock", "commit"} \/ edit[q].id = e.id
    <3>1. After(q) = edit[q]
      BY <2>2 DEF Overtaken
    <3> QED BY <2>1, <2>2, <3>1
  <2>3. CASE e.seen # "active" /\ edit[q].pc \in {"lock", "commit"} /\ edit[q].id # e.id
    <3>1. After(q) = [edit[q] EXCEPT !.late = edit[q].late \cup {e.id}]
      BY <2>3 DEF Overtaken
    <3>2. edit[q] \in Commits
      BY <2>3, RequestIs
    <3> DEFINE a == After(q)
               i == e.id
    <3> HIDE DEF a, i
    <3>3. /\ a \in Commits /\ a.pc = edit[q].pc /\ a.id = edit[q].id /\ a.seen = edit[q].seen
          /\ a.others = edit[q].others /\ a.late = edit[q].late \cup {i}
      <4>1. a = [edit[q] EXCEPT !.late = edit[q].late \cup {i}] /\ i \in Nat
        BY <1>2, <3>1 DEF a, i
      <4> QED BY <3>2, <4>1 DEF Commits
    <3>4. RequestOK(edit[q], stored') => RequestOK(a, stored')
      BY <2>3, <3>3 DEF RequestOK
    <3>5. a \in EditRequests
      BY <3>3 DEF EditRequests
    <3> QED BY <2>3, <3>3, <3>4, <3>5 DEF a, i
  <2> QED BY <2>2, <2>3
<1> HIDE DEF After
<1>5. edit' \in [Editors -> EditRequests] /\ \A q \in Editors : edit'[q] = After(q)
  BY <1>1, <1>3, <1>4
<1> QED BY <1>3, <1>4, <1>5

LEMMA CommitKeeps ==
    ASSUME EditionsInv, NEW p \in Editors, CommitActivation(p)
    PROVE  EditionsInv'
<1> DEFINE e == edit[p]
           up(i)   == i = e.id /\ e.seen # "active"
           down(i) == i \in e.others
           status == [i \in Ids |-> IF up(i) THEN "active" ELSE IF down(i) THEN "inactive" ELSE stored[i].status]
<1>1. /\ e.pc = "commit" /\ started' = started
      /\ stored' = [i \in Ids |-> IF up(i) THEN [stored[i] EXCEPT !.status = "active"]
                                  ELSE IF down(i) THEN [stored[i] EXCEPT !.status = "inactive"]
                                  ELSE stored[i]]
  BY DEF CommitActivation
<1>2. Validated(stored[e.id].doc)
  BY <1>1, RequestIs DEF RequestOK
<1>3. \A i \in Ids : stored[i] \in EditionRows
  BY DEF EditionsInv, EditionsOK, Ids
<1>4. \A i \in Ids : up(i) => Validated(stored[i].doc)
  BY <1>2
<1> HIDE DEF up, down
<1>5. \A i \in Ids : /\ status[i] \in EditionStatuses
                     /\ status[i] = "active" => stored[i].status = "active" \/ Validated(stored[i].doc)
  BY <1>3, <1>4, Restatus DEF EditionStatuses
<1>6. \A i \in Ids : (IF up(i) THEN [stored[i] EXCEPT !.status = "active"]
                      ELSE IF down(i) THEN [stored[i] EXCEPT !.status = "inactive"]
                      ELSE stored[i])
                     = [version |-> stored[i].version, doc |-> stored[i].doc, status |-> status[i]]
  BY <1>3, Restatus
<1> HIDE DEF status
<1>7. stored' = [i \in Ids |-> [version |-> stored[i].version, doc |-> stored[i].doc, status |-> status[i]]]
  BY <1>1, <1>6
<1> QED BY <1>1, <1>5, <1>7, CommitTells, EditKeeps

LEMMA CommitDeactivationKeeps ==
    ASSUME EditionsInv, NEW p \in Editors, CommitDeactivation(p)
    PROVE  EditionsInv'
<1> DEFINE e == edit[p]
           off(i) == i = e.id /\ e.seen # "inactive"
           status == [i \in Ids |-> IF off(i) THEN "inactive" ELSE stored[i].status]
<1>1. /\ e.pc = "deactivate" /\ Done(p) /\ started' = started
      /\ stored' = IF e.seen = "inactive" THEN stored ELSE [stored EXCEPT ![e.id].status = "inactive"]
  BY DEF CommitDeactivation
<1>2. stored \in Seq(EditionRows) /\ Ids = 1 .. Len(stored)
  BY DEF EditionsInv, EditionsOK, Ids
<1>3. (\A i \in Ids : stored[i] \in EditionRows) /\ stored = [i \in Ids |-> stored[i]]
  BY <1>2
<1>4. \A i \in Ids : /\ status[i] \in EditionStatuses
                     /\ status[i] = "active" => stored[i].status = "active" \/ Validated(stored[i].doc)
  BY <1>3, Restatus DEF EditionStatuses
<1>5. stored' = [i \in Ids |-> IF off(i) THEN [stored[i] EXCEPT !.status = "inactive"] ELSE stored[i]]
  BY <1>1, <1>3
<1> HIDE DEF off
<1>6. \A i \in Ids : (IF off(i) THEN [stored[i] EXCEPT !.status = "inactive"] ELSE stored[i])
                     = [version |-> stored[i].version, doc |-> stored[i].doc, status |-> status[i]]
  BY <1>3, Restatus
<1> HIDE DEF status
<1>7. stored' = [i \in Ids |-> [version |-> stored[i].version, doc |-> stored[i].doc, status |-> status[i]]]
  BY <1>5, <1>6
<1>8. /\ edit' \in [Editors -> EditRequests]
      /\ \A q \in Editors : RequestOK(edit[q], stored') => RequestOK(edit'[q], stored')
  <2>1. NoEdit \in EditRequests /\ RequestOK(NoEdit, stored')
    BY IdleIsOK
  <2>2. edit' = [edit EXCEPT ![p] = NoEdit] /\ edit \in [Editors -> EditRequests]
    BY <1>1 DEF Done, EditionsInv
  <2> QED BY <2>1, <2>2
<1> QED BY <1>1, <1>4, <1>7, <1>8, EditKeeps

LEMMA EditionsStep ==
    ASSUME MaxEditions \in Nat, EditionsInv, [EditionsNext]_editionVars
    PROVE  EditionsInv'
<1>1. CASE UNCHANGED editionVars
  BY <1>1 DEF editionVars, EditionsInv
<1>2. ASSUME NEW p \in Editors, NEW d \in LaterDrafts, Create(p, d) PROVE EditionsInv'
  BY <1>2, CreateKeeps
<1>3. ASSUME NEW p \in Editors, NEW i \in Ids, Activate(p, i) \/ Deactivate(p, i) \/ StartOn(p, i)
      PROVE  EditionsInv'
  BY <1>3, ActivateKeeps, DeactivateKeeps, StartKeeps
<1>4. ASSUME NEW p \in Editors, InsertDraft(p) PROVE EditionsInv'
  BY <1>4, InsertDraftKeeps
<1>5. ASSUME NEW p \in Editors, DeactivateOthers(p) PROVE EditionsInv'
  BY <1>5, DeactivateOthersKeeps
<1>6. ASSUME NEW p \in Editors, LockOthers(p) PROVE EditionsInv'
  BY <1>6, LockOthersKeeps
<1>7. ASSUME NEW p \in Editors, CommitActivation(p) PROVE EditionsInv'
  BY <1>7, CommitKeeps
<1>8. ASSUME NEW p \in Editors, CommitDeactivation(p) PROVE EditionsInv'
  BY <1>8, CommitDeactivationKeeps
<1>9. ASSUME NEW p \in Editors, CreateRun(p) PROVE EditionsInv'
  BY <1>9, CreateRunKeeps
<1>10. ASSUME NEW p \in Editors, AbortEdit(p) PROVE EditionsInv'
  BY <1>10, AbortEditKeeps
<1> QED BY <1>1, <1>2, <1>3, <1>4, <1>5, <1>6, <1>7, <1>8, <1>9, <1>10 DEF EditionsNext

LEMMA EditionsAlways ==
    ASSUME DraftsAssumption, MaxEditions \in Nat \ {0}
    PROVE  EditionsSpec => []EditionsInv
<1>1. EditionsInit => EditionsInv
  BY EditionsBegin
<1>2. EditionsInv /\ [EditionsNext]_editionVars => EditionsInv'
  BY EditionsStep
<1> QED BY <1>1, <1>2, PTL DEF EditionsSpec

\* Whatever the requests do, no more editions are stored than may be, no version is
\* higher than their number may get, and only what is stored is started (WorkflowRepository.next_version and
\* create, WorkflowService.start).
THEOREM EditionsStayNumbered ==
    ASSUME DraftsAssumption, MaxEditions \in Nat \ {0}
    PROVE  EditionsSpec => []EditionsTypeOK
<1>1. EditionsInv => EditionsTypeOK
  <2> SUFFICES ASSUME EditionsInv PROVE EditionsTypeOK
    OBVIOUS
  <2>1. /\ stored \in Seq(EditionRows) /\ Len(stored) \in Nat /\ Len(stored) <= MaxEditions
        /\ Ids = 1 .. Len(stored) /\ started \in SUBSET Ids
        /\ \A i \in 1 .. Len(stored) : stored[i].version = i
    BY DEF EditionsInv, EditionsOK, Ids
  <2>2. \A i \in Ids : stored[i] \in EditionRows /\ stored[i].version = i /\ i \in 1 .. MaxEditions
    BY <2>1
  <2>3. \A p \in Editors : edit[p].pc \in {"idle", "insert", "retire", "lock", "commit", "deactivate", "run"}
    BY DEF EditionsInv, EditRequests, NoEdit, Inserts, Activations, Commits, Deactivations, Starts
  <2> QED BY <2>1, <2>2, <2>3 DEF EditionsTypeOK, EditionRows, EditionStatuses
<1> QED BY <1>1, EditionsAlways, PTL

\* However editions are drafted, checked, activated and retired side by side
\* (WorkflowService.create, activate, deactivate and start), the version a run records names
\* one document, and a run on what is active or was started ends.
THEOREM EditionsAreSound ==
    ASSUME DraftsAssumption, MaxEditions \in Nat \ {0}
    PROVE  EditionsSpec => []RunsAreOnOneSoundEdition
<1>1. EditionsInv => RunsAreOnOneSoundEdition
  <2> SUFFICES ASSUME EditionsInv PROVE RunsAreOnOneSoundEdition
    OBVIOUS
  <2>1. /\ stored \in Seq(EditionRows) /\ Ids = 1 .. Len(stored)
        /\ \A i \in Ids : stored[i].version = i
        /\ \A i \in Ids : stored[i].status = "active" \/ i \in started => Validated(stored[i].doc)
    BY DEF EditionsInv, EditionsOK, Ids
  <2>2. \A i \in Ids : stored[i].doc \in Drafts
    <3>1. \A i \in Ids : stored[i] \in EditionRows
      BY <2>1
    <3> QED BY <3>1 DEF EditionRows
  <2>3. \A i \in Ids : stored[i].status = "active" \/ i \in started => Ends(stored[i].doc)
    BY <2>1, <2>2, ValidatedEnds
  <2>4. \A i, j \in Ids : stored[i].version = stored[j].version => i = j
    BY <2>1
  <2> QED BY <2>3, <2>4 DEF RunsAreOnOneSoundEdition
<1> QED BY <1>1, EditionsAlways, PTL

\* What else is active beside an edition being activated, once the statement that retires
\* the others has begun: it was found by that statement, or was activated since.
OthersKnown ==
    \A p \in Editors : edit[p].pc \in {"lock", "commit"} =>
        \A i \in Ids : i # edit[p].id /\ stored[i].status = "active" => i \in edit[p].others \cup edit[p].late

\* A step of one request that makes no edition active.
LEMMA OthersStayKnown ==
    ASSUME EditionsInv, OthersKnown, NEW p \in Editors, NEW e, edit' = [edit EXCEPT ![p] = e],
           \A i \in Ids' : stored'[i].status = "active" => i \in Ids /\ stored[i].status = "active",
           e.pc \in {"lock", "commit"} =>
               \A i \in Ids : i # e.id /\ stored[i].status = "active" => i \in e.others \cup e.late
    PROVE  OthersKnown'
<1> SUFFICES ASSUME NEW q \in Editors, edit'[q].pc \in {"lock", "commit"},
                    NEW i \in Ids', i # edit'[q].id, stored'[i].status = "active"
             PROVE  i \in edit'[q].others \cup edit'[q].late
  BY DEF OthersKnown
<1>1. i \in Ids /\ stored[i].status = "active"
  OBVIOUS
<1>2. edit'[q] = IF q = p THEN e ELSE edit[q]
  BY DEF EditionsInv
<1>3. CASE q = p
  BY <1>1, <1>2, <1>3
<1>4. CASE q # p
  BY <1>1, <1>2, <1>4 DEF OthersKnown
<1> QED BY <1>3, <1>4

\* A request at another step knows nothing of the others.
LEMMA ReadsKeepKnown ==
    ASSUME EditionsInv, OthersKnown, NEW p \in Editors, NEW e, edit' = [edit EXCEPT ![p] = e],
           e.pc \notin {"lock", "commit"}, stored' = stored
    PROVE  OthersKnown'
<1>1. \A i \in Ids' : stored'[i].status = "active" => i \in Ids /\ stored[i].status = "active"
  BY DEF Ids
<1> QED BY <1>1, OthersStayKnown

LEMMA IdleReadsKeepKnown ==
    ASSUME EditionsInv, OthersKnown, NEW p \in Editors,
           \/ \E d \in LaterDrafts : Create(p, d)
           \/ \E i \in Ids : Activate(p, i) \/ Deactivate(p, i) \/ StartOn(p, i)
           \/ CreateRun(p) \/ AbortEdit(p)
    PROVE  OthersKnown'
<1>1. ASSUME NEW d \in LaterDrafts, Create(p, d) PROVE OthersKnown'
  <2>1. /\ edit' = [edit EXCEPT ![p] = [pc |-> "insert", doc |-> d, version |-> NextVersion]]
        /\ stored' = stored
    BY <1>1 DEF Create
  <2> QED BY <2>1, ReadsKeepKnown
<1>2. ASSUME NEW i \in Ids, Activate(p, i) PROVE OthersKnown'
  <2>1. /\ edit' = [edit EXCEPT ![p] = [pc |-> "retire", id |-> i, seen |-> stored[i].status]]
        /\ stored' = stored
    BY <1>2 DEF Activate
  <2> QED BY <2>1, ReadsKeepKnown
<1>3. ASSUME NEW i \in Ids, Deactivate(p, i) PROVE OthersKnown'
  <2>1. /\ edit' = [edit EXCEPT ![p] = [pc |-> "deactivate", id |-> i, seen |-> stored[i].status]]
        /\ stored' = stored
    BY <1>3 DEF Deactivate
  <2> QED BY <2>1, ReadsKeepKnown
<1>4. ASSUME NEW i \in Ids, StartOn(p, i) PROVE OthersKnown'
  <2>1. edit' = [edit EXCEPT ![p] = [pc |-> "run", id |-> i]] /\ stored' = stored
    BY <1>4 DEF StartOn
  <2> QED BY <2>1, ReadsKeepKnown
<1>5. ASSUME CreateRun(p) \/ AbortEdit(p) PROVE OthersKnown'
  <2>1. edit' = [edit EXCEPT ![p] = NoEdit] /\ stored' = stored
    BY <1>5 DEF CreateRun, AbortEdit, Done
  <2>2. NoEdit.pc = "idle"
    BY DEF NoEdit
  <2> QED BY <2>1, <2>2, ReadsKeepKnown
<1> QED BY <1>1, <1>2, <1>3, <1>4, <1>5

LEMMA InsertKeepsKnown ==
    ASSUME EditionsInv, OthersKnown, NEW p \in Editors, InsertDraft(p)
    PROVE  OthersKnown'
<1> DEFINE row == [version |-> edit[p].version, doc |-> edit[p].doc, status |-> "draft"]
<1>1. /\ edit' = [edit EXCEPT ![p] = NoEdit] /\ NoEdit.pc = "idle"
      /\ stored' = stored \/ stored' = Append(stored, row)
  BY DEF InsertDraft, Done, NoEdit
<1>2. CASE stored' = stored
  BY <1>1, <1>2, ReadsKeepKnown
<1>3. CASE stored' = Append(stored, row)
  <2>1. row.status = "draft"
    OBVIOUS
  <2> HIDE DEF row
  <2>2. stored \in Seq(EditionRows) /\ Len(stored) \in Nat
    BY DEF EditionsInv, EditionsOK
  <2>3. Len(stored') = Len(stored) + 1 /\ stored'[Len(stored) + 1] = row
        /\ \A i \in 1 .. Len(stored) : stored'[i] = stored[i]
    BY <1>3, <2>2
  <2>4. \A i \in Ids' : i \in Ids \/ i = Len(stored) + 1
    BY <2>2, <2>3 DEF Ids
  <2>5. \A i \in Ids' : stored'[i].status = "active" => i \in Ids /\ stored[i].status = "active"
    BY <2>1, <2>3, <2>4 DEF Ids
  <2> QED BY <1>1, <2>5, OthersStayKnown
<1> QED BY <1>1, <1>2, <1>3

LEMMA RetireKnows ==
    ASSUME EditionsInv, OthersKnown, NEW p \in Editors, DeactivateOthers(p) \/ LockOthers(p)
    PROVE  OthersKnown'
<1>1. \A i \in Ids' : stored'[i].status = "active" => i \in Ids /\ stored[i].status = "active"
  BY DEF DeactivateOthers, LockOthers, Ids
<1>2. CASE DeactivateOthers(p)
  <2> DEFINE e == [pc |-> "lock", id |-> edit[p].id, seen |-> edit[p].seen, late |-> {},
                   others |-> {i \in Ids : i # edit[p].id /\ stored[i].status = "active"}]
  <2>1. edit' = [edit EXCEPT ![p] = e]
    BY <1>2 DEF DeactivateOthers
  <2>2. \A i \in Ids : i # e.id /\ stored[i].status = "active" => i \in e.others \cup e.late
    OBVIOUS
  <2> HIDE DEF e
  <2> QED BY <1>1, <2>1, <2>2, OthersStayKnown
<1>3. CASE LockOthers(p)
  <2> DEFINE e == [edit[p] EXCEPT !.pc = "commit",
                                  !.others = {i \in edit[p].others : stored[i].status = "active"}]
  <2>1. edit' = [edit EXCEPT ![p] = e]
    BY <1>3, LockingIs
  <2>2. edit[p].pc = "lock" /\ edit[p] \in Commits
    BY <1>3, RequestIs DEF LockOthers
  <2>3. /\ e.id = edit[p].id /\ e.late = edit[p].late
        /\ e.others = {i \in edit[p].others : stored[i].status = "active"}
    BY <2>2 DEF Commits
  <2> HIDE DEF e
  <2>4. \A i \in Ids : i # e.id /\ stored[i].status = "active" => i \in e.others \cup e.late
    BY <2>2, <2>3 DEF OthersKnown
  <2> QED BY <1>1, <2>1, <2>4, OthersStayKnown
<1> QED BY <1>2, <1>3

\* What a commit leaves active: what it activates, and what was active and is not retired.
LEMMA CommitLeaves ==
    ASSUME EditionsInv, NEW p \in Editors, CommitActivation(p)
    PROVE  /\ Ids' = Ids
           /\ \A i \in Ids : stored'[i].status = "active" =>
                 \/ i = edit[p].id /\ edit[p].seen # "active"
                 \/ stored[i].status = "active" /\ i \notin edit[p].others
<1> DEFINE e == edit[p]
           up(i)   == i = e.id /\ e.seen # "active"
           down(i) == i \in e.others
<1>1. stored' = [i \in Ids |-> IF up(i) THEN [stored[i] EXCEPT !.status = "active"]
                               ELSE IF down(i) THEN [stored[i] EXCEPT !.status = "inactive"]
                               ELSE stored[i]]
  BY DEF CommitActivation
<1> HIDE DEF up, down
<1>2. stored \in Seq(EditionRows) /\ Len(stored) \in Nat /\ Ids = 1 .. Len(stored)
  BY DEF EditionsInv, EditionsOK, Ids
<1>3. ASSUME NEW i \in Ids, stored'[i].status = "active" PROVE up(i) \/ (stored[i].status = "active" /\ ~down(i))
  <2>1. stored[i] \in EditionRows
    BY <1>2
  <2>2. [stored[i] EXCEPT !.status = "inactive"].status = "inactive"
    BY <2>1 DEF EditionRows
  <2> QED BY <1>1, <1>3, <2>2
<1>4. Ids' = Ids
  <2>1. DOMAIN stored' = 1 .. Len(stored)
    BY <1>1, <1>2
  <2>2. stored' \in Seq(EditionRows)
    BY CommitKeeps DEF EditionsInv, EditionsOK
  <2>3. DOMAIN stored' = 1 .. Len(stored') /\ Len(stored') \in Nat
    BY <2>2
  <2> QED BY <1>2, <2>1, <2>3 DEF Ids
<1> QED BY <1>3, <1>4 DEF up, down

LEMMA CommitKnows ==
    ASSUME EditionsInv, OthersKnown, NEW p \in Editors, CommitActivation(p)
    PROVE  OthersKnown'
<1> SUFFICES ASSUME NEW q \in Editors, edit'[q].pc \in {"lock", "commit"},
                    NEW i \in Ids', i # edit'[q].id, stored'[i].status = "active"
             PROVE  i \in edit'[q].others \cup edit'[q].late
  BY DEF OthersKnown
<1>1. q # p
  BY CommitTells DEF NoEdit
<1>2. /\ edit[q].pc \in {"lock", "commit"} /\ edit'[q].id = edit[q].id
      /\ edit'[q].others = edit[q].others /\ edit[q].late \in SUBSET edit'[q].late
      /\ edit[p].seen # "active" /\ edit[q].id # edit[p].id => edit[p].id \in edit'[q].late
  BY <1>1, CommitTells
<1>3. i \in Ids /\ ((i = edit[p].id /\ edit[p].seen # "active") \/ stored[i].status = "active")
  BY CommitLeaves
<1> QED BY <1>2, <1>3 DEF OthersKnown

LEMMA RetiringKeepsKnown ==
    ASSUME EditionsInv, OthersKnown, NEW p \in Editors, CommitDeactivation(p)
    PROVE  OthersKnown'
<1> DEFINE i == edit[p].id
<1>1. /\ edit' = [edit EXCEPT ![p] = NoEdit] /\ NoEdit.pc = "idle"
      /\ stored' = stored \/ stored' = [stored EXCEPT ![i].status = "inactive"]
  BY DEF CommitDeactivation, Done, NoEdit
<1>2. CASE stored' = stored
  BY <1>1, <1>2, ReadsKeepKnown
<1>3. CASE stored' = [stored EXCEPT ![i].status = "inactive"]
  <2> HIDE DEF i
  <2>1. stored \in Seq(EditionRows) /\ Len(stored) \in Nat
    BY DEF EditionsInv, EditionsOK
  <2>2. Len(stored') = Len(stored)
    BY <1>3, <2>1
  <2>3. \A j \in Ids : stored[j] \in EditionRows
    BY <2>1 DEF Ids
  <2>4. \A j \in Ids : stored'[j] = IF j = i THEN [stored[j] EXCEPT !.status = "inactive"] ELSE stored[j]
    BY <1>3, <2>1 DEF Ids
  <2>5. \A j \in Ids : [stored[j] EXCEPT !.status = "inactive"].status = "inactive"
    BY <2>3 DEF EditionRows
  <2>6. \A j \in Ids' : stored'[j].status = "active" => j \in Ids /\ stored[j].status = "active"
    BY <2>2, <2>4, <2>5 DEF Ids
  <2> QED BY <1>1, <2>6, OthersStayKnown
<1> QED BY <1>1, <1>2, <1>3

LEMMA KnownStep ==
    ASSUME EditionsInv, OthersKnown, [EditionsNext]_editionVars
    PROVE  OthersKnown'
<1>1. CASE UNCHANGED editionVars
  BY <1>1 DEF editionVars, OthersKnown, Ids
<1>2. ASSUME NEW p \in Editors,
             \/ \E d \in LaterDrafts : Create(p, d)
             \/ \E i \in Ids : Activate(p, i) \/ Deactivate(p, i) \/ StartOn(p, i)
             \/ CreateRun(p) \/ AbortEdit(p)
      PROVE  OthersKnown'
  BY <1>2, IdleReadsKeepKnown
<1>3. ASSUME NEW p \in Editors, InsertDraft(p) PROVE OthersKnown'
  BY <1>3, InsertKeepsKnown
<1>4. ASSUME NEW p \in Editors, DeactivateOthers(p) \/ LockOthers(p) PROVE OthersKnown'
  BY <1>4, RetireKnows
<1>5. ASSUME NEW p \in Editors, CommitActivation(p) PROVE OthersKnown'
  BY <1>5, CommitKnows
<1>6. ASSUME NEW p \in Editors, CommitDeactivation(p) PROVE OthersKnown'
  BY <1>6, RetiringKeepsKnown
<1> QED BY <1>1, <1>2, <1>3, <1>4, <1>5, <1>6 DEF EditionsNext

\* However many requests activate and retire editions side by side (WorkflowService.activate
\* over WorkflowRepository.deactivate_other_versions), an edition is left active beside the
\* one a commit activates only if it was itself activated after that statement began.
THEOREM OthersGoUnlessUnseen ==
    ASSUME DraftsAssumption, MaxEditions \in Nat \ {0}
    PROVE  EditionsSpec => OthersStayOnlyUnseen
<1> DEFINE OthersGone == \A p \in Editors : CommitActivation(p) =>
                            \A i \in Ids : i # edit[p].id /\ stored'[i].status = "active" => i \in edit[p].late
<1>1. EditionsInit => OthersKnown
  BY DEF EditionsInit, OthersKnown, NoEdit
<1>2. EditionsInv /\ OthersKnown /\ [EditionsNext]_editionVars => OthersKnown'
  BY KnownStep
<1>3. EditionsInv /\ OthersKnown => OthersGone
  <2> SUFFICES ASSUME EditionsInv, OthersKnown, NEW p \in Editors, CommitActivation(p),
                      NEW i \in Ids, i # edit[p].id, stored'[i].status = "active"
               PROVE  i \in edit[p].late
    OBVIOUS
  <2>1. stored[i].status = "active" /\ i \notin edit[p].others
    BY CommitLeaves
  <2>2. edit[p].pc = "commit"
    BY DEF CommitActivation
  <2> QED BY <2>1, <2>2 DEF OthersKnown
<1> HIDE DEF OthersGone
<1>4. EditionsSpec => [][OthersGone]_editionVars
  BY <1>1, <1>2, <1>3, EditionsAlways, PTL DEF EditionsSpec
<1> QED BY <1>4 DEF OthersStayOnlyUnseen, OthersGone
=============================================================================
