-------------------------------- MODULE Metrics --------------------------------
(***************************************************************************)
(* The registry behind /metrics (observability/metrics.py) and the         *)
(* instruments through which a model call is measured                      *)
(* (observability/instruments.py).                                         *)
(*                                                                         *)
(* A metric holds series, one for each tuple of labels, and no more than   *)
(* its ceiling: past it everything new is counted under one overflow       *)
(* series. The metrics of one event have different labels, so they reach   *)
(* their ceilings at different moments.                                    *)
(***************************************************************************)
EXTENDS Integers, FiniteSets

CONSTANTS
    MaxSeries,        \* MAX_SERIES_PER_METRIC
    OtherLabel,       \* OVERFLOW
    Buckets           \* the upper bounds of a histogram's buckets

(* _key: a value outside its declared set is an overflow; {} declares none. *)
Key(allowed, labels) ==
    [i \in DOMAIN labels |->
        IF allowed[i] = {} \/ labels[i] \in allowed[i] THEN labels[i] ELSE OtherLabel]

(* One slot is reserved for the overflow series.                           *)
Ceiling == MaxSeries - 1

Slot(series, key) ==
    IF key \notin DOMAIN series /\ Cardinality(DOMAIN series) >= Ceiling
    THEN [i \in DOMAIN key |-> OtherLabel] ELSE key

Extended(series, key, none) ==
    [k \in DOMAIN series \cup {key} |-> IF k \in DOMAIN series THEN series[k] ELSE none]

Increment(series, allowed, labels, amount) ==
    LET slot == Slot(series, Key(allowed, labels))
    IN [Extended(series, slot, 0) EXCEPT ![slot] = @ + amount]

(* A bucket counts every observation up to its bound.                      *)
Unobserved == [counts |-> [b \in Buckets |-> 0], total |-> 0, observations |-> 0]

Observe(series, allowed, labels, value) ==
    LET slot == Slot(series, Key(allowed, labels)) IN
    [Extended(series, slot, Unobserved) EXCEPT ![slot] =
        [counts       |-> [b \in Buckets |-> IF value <= b THEN @.counts[b] + 1 ELSE @.counts[b]],
         total        |-> @.total + value,
         observations |-> @.observations + 1]]

-----------------------------------------------------------------------------
(* The labels a model call is measured by, and the values they may have.   *)
Operations == {"generate", "generate_structured"}
CallLabels     == << {}, Operations, {"success", "failed"} >>
DurationLabels == << {}, Operations >>
TokenLabels    == << {}, {"input", "output"} >>
RetryLabels    == << >>
ErrorLabels    == << {}, {"http", "agent", "llm", "tool", "workflow", "approval"} >>

Unmeasured == [calls |-> <<>>, durations |-> <<>>, tokens |-> <<>>, retries |-> <<>>, errors |-> <<>>]

(* A direction nothing was reported for gets no series.                    *)
CountTokens(series, model, direction, n) ==
    IF n = 0 THEN series ELSE Increment(series, TokenLabels, <<model, direction>>, n)

RecordLlmCall(m, model, operation, outcome, time, tokens) ==
    [m EXCEPT !.calls     = Increment(@, CallLabels, <<model, operation, outcome>>, 1),
              !.durations = Observe(@, DurationLabels, <<model, operation>>, time),
              !.tokens    = CountTokens(CountTokens(@, model, "input", tokens.input),
                                        model, "output", tokens.output)]

(* The error that caused a retry is left out of its labels.                *)
RecordLlmRetry(m)           == [m EXCEPT !.retries = Increment(@, RetryLabels, <<>>, 1)]
RecordError(m, code, layer) == [m EXCEPT !.errors = Increment(@, ErrorLabels, <<code, layer>>, 1)]
=============================================================================
