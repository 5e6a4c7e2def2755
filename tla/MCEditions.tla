----------------------------- MODULE MCEditions -----------------------------
(* Small instances of Editions: the documents that are offered.            *)
EXTENDS Editions, TLC

\* Graphs over three steps whose entry leads to both others, up to the names of those: one
\* leads on in two ways at most, the other in one, and in none if the first does not lead on. And
\* documents that leave a step unreached, lead from the entry back to it, read themselves, read
\* what is not there, name what is not installed or are too large. Later editions have one step.
Document(next) == [entry |-> "a", next |-> next, reads |-> [s \in DOMAIN next |-> {"input"}],
                   names |-> {"tool"}, bytes |-> 1]
Pair     == Document([s \in {"a", "b"} |-> IF s = "a" THEN {"b"} ELSE {}])
Branches(ways) == {w \in SUBSET {"a", "b", "c"} : Cardinality(w) <= ways}
Graphs   == {Document("a" :> {"b", "c"} @@ "b" :> two @@ "c" :> one) :
                two \in Branches(2) \ {{}}, one \in Branches(1)}
Fork     == Document("a" :> {"b", "c"} @@ "b" :> {} @@ "c" :> {})
AnyDraft == Graphs \cup {Fork, [Pair EXCEPT !.next["a"] = {}], [Pair EXCEPT !.next["a"] = {"a", "b"}],
                         [Pair EXCEPT !.reads["b"] = {"b"}], [Pair EXCEPT !.reads["b"] = {"c"}],
                         [Pair EXCEPT !.reads["b"] = {"a"}], [Pair EXCEPT !.names = {"other"}],
                         [Pair EXCEPT !.bytes = MaxBytes + 1]}
OneStep  == {Document([s \in {"a"} |-> {}])}
=============================================================================
