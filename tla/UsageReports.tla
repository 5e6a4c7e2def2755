------------------------------ MODULE UsageReports ------------------------------
(***************************************************************************)
(* The usage report of an organization: its model calls, which two tables  *)
(* record (repositories/usage.py), and what they cost by the price book of *)
(* the deployment (observability/pricing.py, services/usage.py).           *)
(*                                                                         *)
(* A row is [table, of, model, tokens]. Prices are per token and whole, so *)
(* nothing is left to round; a book is a set of prices, each in force from *)
(* a moment on.                                                            *)
(***************************************************************************)
EXTENDS Integers, FiniteSets, Functions

CONSTANT
    Collation         \* the place of a model's name in the database's order

(* _calls: the union of the two tables keeps calls that look alike apart.  *)
Calls(rows) == {row \in rows : row.table \in {"agent_steps", "generation_usage"}}

Using(rows, model) == {row \in Calls(rows) : row.model = model}

CallsOf(rows, model) == Cardinality(Using(rows, model))

(* The order of the groups: the most calls first, then by name.            *)
ComesBefore(rows, m, n) ==
    \/ CallsOf(rows, m) > CallsOf(rows, n)
    \/ CallsOf(rows, m) = CallsOf(rows, n) /\ Collation[m] < Collation[n]

(* model_usage: the first groups, no more than MAX_GROUPS.                 *)
Groups(rows) == {row.model : row \in Calls(rows)}

Kept(rows, most) ==
    {m \in Groups(rows) : Cardinality({n \in Groups(rows) : ComesBefore(rows, n, m)}) < most}

ModelUsage(rows, most) ==
    [m \in Kept(rows, most) |->
        [calls  |-> CallsOf(rows, m),
         input  |-> SumFunction([row \in Using(rows, m) |-> row.tokens.input]),
         output |-> SumFunction([row \in Using(rows, m) |-> row.tokens.output])]]

(* The most recent price whose date has passed; {} when there is none.     *)
PriceFor(book, model, at) ==
    LET candidates == {p \in book : p.model = model /\ p.from <= at}
    IN {p \in candidates : \A q \in candidates : q.from <= p.from}

(* estimate: what a model's calls cost; {} when it has no price.           *)
Charge(price, input, output) == input * price.input + output * price.output

Estimate(book, model, used, at) ==
    {[amount |-> Charge(p, used.input, used.output), currency |-> p.currency] :
        p \in PriceFor(book, model, at)}

(* total: figures in two currencies are not added up, and the report fails.*)
Total(costs) ==
    [refused |-> Cardinality({costs[m].currency : m \in DOMAIN costs}) > 1,
     amount  |-> SumFunction([m \in DOMAIN costs |-> costs[m].amount])]

(* estimate: the cost of the models that have a price, and how many calls *)
(* it covers and how many it does not, of those it is given.               *)
Report(book, used, at) ==
    LET cost(m)  == Estimate(book, m, used[m], at)
        priced   == {m \in DOMAIN used : cost(m) # {}}
        calls(s) == SumFunction([m \in s |-> used[m].calls])
    IN [cost     |-> Total([m \in priced |-> CHOOSE c \in cost(m) : TRUE]),
        priced   |-> calls(priced),
        unpriced |-> calls(DOMAIN used \ priced)]
=============================================================================
