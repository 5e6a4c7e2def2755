---------------------------- MODULE MCModelCalls ----------------------------
(* Small instances of ModelCalls: what a provider may ask for, and price books. *)
EXTENDS ModelCalls, TLC

\* A provider asks for a wait that is past, one the policy allows and one it does not.
HintsAsked == {-1, 1, 3}

\* A duration of nothing, and of one retry.
TwoBuckets == {0, 1}

\* Two models in one currency, one at a price that changes; and two in two currencies.
Price(model, from, input, output, currency) ==
    [model |-> model, from |-> from, input |-> input, output |-> output, currency |-> currency]
PriceBooks ==
    LET first == Price("released", 0, 1, 3, "EUR")
    IN {{first, Price("released", 1, 2, 5, "EUR"), Price("allowed", 0, 1, 1, "EUR")},
        {first, Price("allowed", 1, 1, 1, "USD")}}

\* The names of the models, in alphabetical order.
ByName == [allowed |-> 1, released |-> 2, unknown |-> 3]
=============================================================================
