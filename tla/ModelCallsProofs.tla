--------------------------- MODULE ModelCallsProofs ---------------------------
(***************************************************************************)
(* Theorems about ModelCalls, for any number of calls and any policy of    *)
(* retries: metrics stay within their ceiling, the ledger is true, a call  *)
(* is tried and held no more than the policy says, the metrics account for *)
(* every call, and a usage report for every row of the ledger.             *)
(*                                                                         *)
(* The last two are about sums over sets of any size. SumFunction is a     *)
(* fold; what it computes is shown by a smallest counterexample.           *)
(***************************************************************************)
EXTENDS ModelCalls, FiniteSetTheorems, TLAPS

Overflow(places) == [i \in places |-> OtherLabel]

\* Up to the ceiling a metric holds any series; the one beyond it is the overflow.
Bounded(series, places) ==
    /\ IsFiniteSet(DOMAIN series)
    /\ \/ Cardinality(DOMAIN series) <= Ceiling
       \/ Cardinality(DOMAIN series) = MaxSeries /\ Overflow(places) \in DOMAIN series

LEMMA KeyKeepsPlaces ==
    ASSUME NEW allowed, NEW labels
    PROVE  DOMAIN Key(allowed, labels) = DOMAIN labels
BY DEF Key

\* One more series: the slot is known, or there is room for it, or it is the overflow.
LEMMA SlotStaysBounded ==
    ASSUME MaxSeries \in Nat \ {0}, NEW series, NEW key, Bounded(series, DOMAIN key)
    PROVE  LET all == DOMAIN series \cup {Slot(series, key)}
           IN /\ IsFiniteSet(all)
              /\ \/ Cardinality(all) <= Ceiling
                 \/ Cardinality(all) = MaxSeries /\ Overflow(DOMAIN key) \in all
<1> DEFINE slot == Slot(series, key)
           held == DOMAIN series
           all  == held \cup {slot}
<1>1. IsFiniteSet(held) /\ Cardinality(held) \in Nat
  BY FS_CardinalityType DEF Bounded
<1>2. /\ IsFiniteSet(all)
      /\ Cardinality(all) = IF slot \in held THEN Cardinality(held) ELSE Cardinality(held) + 1
  BY <1>1, FS_AddElement
<1>3. CASE slot \in held
  <2>1. all = held
    BY <1>3
  <2> QED BY <2>1, <1>1 DEF Bounded
<1>4. CASE slot \notin held /\ Cardinality(held) < Ceiling
  BY <1>1, <1>2, <1>4 DEF Ceiling
<1>5. CASE slot \notin held /\ ~(Cardinality(held) < Ceiling)
  <2>1. slot = Overflow(DOMAIN key)
    BY <1>1, <1>5 DEF Slot, Overflow, Ceiling
  <2>2. Cardinality(held) = Ceiling
    BY <1>1, <1>5, <2>1 DEF Bounded, Ceiling
  <2> QED BY <1>1, <1>2, <1>5, <2>1, <2>2 DEF Ceiling
<1> QED BY <1>3, <1>4, <1>5

LEMMA ExtendedDomain ==
    ASSUME NEW series, NEW key, NEW none, NEW value
    PROVE  DOMAIN [Extended(series, key, none) EXCEPT ![key] = value] = DOMAIN series \cup {key}
BY DEF Extended

LEMMA IncrementStaysBounded ==
    ASSUME MaxSeries \in Nat \ {0}, NEW series, NEW allowed, NEW labels, NEW amount,
           Bounded(series, DOMAIN labels)
    PROVE  Bounded(Increment(series, allowed, labels, amount), DOMAIN labels)
<1> DEFINE key == Key(allowed, labels)
<1>1. DOMAIN key = DOMAIN labels
  BY KeyKeepsPlaces
<1>2. DOMAIN Increment(series, allowed, labels, amount) = DOMAIN series \cup {Slot(series, key)}
  BY ExtendedDomain DEF Increment
<1> QED BY <1>1, <1>2, SlotStaysBounded DEF Bounded

LEMMA ObserveStaysBounded ==
    ASSUME MaxSeries \in Nat \ {0}, NEW series, NEW allowed, NEW labels, NEW value,
           Bounded(series, DOMAIN labels)
    PROVE  Bounded(Observe(series, allowed, labels, value), DOMAIN labels)
<1> DEFINE key == Key(allowed, labels)
<1>1. DOMAIN key = DOMAIN labels
  BY KeyKeepsPlaces
<1>2. DOMAIN Observe(series, allowed, labels, value) = DOMAIN series \cup {Slot(series, key)}
  BY ExtendedDomain DEF Observe
<1> QED BY <1>1, <1>2, SlotStaysBounded DEF Bounded

-----------------------------------------------------------------------------
(* The five metrics of a model call, each within its ceiling.              *)
MeasuresWithin(m) ==
    /\ DOMAIN m = {"calls", "durations", "tokens", "retries", "errors"}
    /\ Bounded(m.calls, 1 .. 3)
    /\ Bounded(m.durations, 1 .. 2)
    /\ Bounded(m.tokens, 1 .. 2)
    /\ Bounded(m.retries, DOMAIN <<>>)
    /\ Bounded(m.errors, 1 .. 2)

LEMMA CountTokensStaysBounded ==
    ASSUME MaxSeries \in Nat \ {0}, NEW series, NEW model, NEW direction, NEW n, Bounded(series, 1 .. 2)
    PROVE  Bounded(CountTokens(series, model, direction, n), 1 .. 2)
<1>1. DOMAIN <<model, direction>> = 1 .. 2
  OBVIOUS
<1>2. Bounded(Increment(series, TokenLabels, <<model, direction>>, n), 1 .. 2)
  BY <1>1, IncrementStaysBounded
<1> QED BY <1>2 DEF CountTokens

LEMMA CallStaysWithin ==
    ASSUME MaxSeries \in Nat \ {0}, NEW m, MeasuresWithin(m), NEW model, NEW op, NEW outcome, NEW time, NEW tokens
    PROVE  MeasuresWithin(RecordLlmCall(m, model, op, outcome, time, tokens))
<1> DEFINE calls     == Increment(m.calls, CallLabels, <<model, op, outcome>>, 1)
           durations == Observe(m.durations, DurationLabels, <<model, op>>, time)
           reads     == CountTokens(m.tokens, model, "input", tokens.input)
           counted   == CountTokens(reads, model, "output", tokens.output)
<1>1. DOMAIN <<model, op, outcome>> = 1 .. 3 /\ DOMAIN <<model, op>> = 1 .. 2
  OBVIOUS
<1>2. Bounded(calls, 1 .. 3)
  BY <1>1, IncrementStaysBounded DEF MeasuresWithin
<1>3. Bounded(durations, 1 .. 2)
  BY <1>1, ObserveStaysBounded DEF MeasuresWithin
<1>4. Bounded(reads, 1 .. 2)
  BY CountTokensStaysBounded DEF MeasuresWithin
<1>5. Bounded(counted, 1 .. 2)
  BY <1>4, CountTokensStaysBounded
<1>6. RecordLlmCall(m, model, op, outcome, time, tokens)
        = [m EXCEPT !.calls = calls, !.durations = durations, !.tokens = counted]
  BY DEF RecordLlmCall
<1> HIDE DEF calls, durations, reads, counted
<1> QED BY <1>2, <1>3, <1>5, <1>6 DEF MeasuresWithin

LEMMA RetryStaysWithin ==
    ASSUME MaxSeries \in Nat \ {0}, NEW m, MeasuresWithin(m)
    PROVE  MeasuresWithin(RecordLlmRetry(m))
<1> DEFINE retries == Increment(m.retries, RetryLabels, <<>>, 1)
<1>1. Bounded(retries, DOMAIN <<>>)
  BY IncrementStaysBounded DEF MeasuresWithin
<1>2. RecordLlmRetry(m) = [m EXCEPT !.retries = retries]
  BY DEF RecordLlmRetry
<1> HIDE DEF retries
<1> QED BY <1>1, <1>2 DEF MeasuresWithin

LEMMA ErrorStaysWithin ==
    ASSUME MaxSeries \in Nat \ {0}, NEW m, MeasuresWithin(m), NEW code, NEW layer
    PROVE  MeasuresWithin(RecordError(m, code, layer))
<1> DEFINE errors == Increment(m.errors, ErrorLabels, <<code, layer>>, 1)
<1>1. DOMAIN <<code, layer>> = 1 .. 2
  OBVIOUS
<1>2. Bounded(errors, 1 .. 2)
  BY <1>1, IncrementStaysBounded DEF MeasuresWithin
<1>3. RecordError(m, code, layer) = [m EXCEPT !.errors = errors]
  BY DEF RecordError
<1> HIDE DEF errors
<1> QED BY <1>2, <1>3 DEF MeasuresWithin

LEMMA NothingIsWithin ==
    ASSUME MaxSeries \in Nat \ {0}
    PROVE  MeasuresWithin(Unmeasured)
<1>1. \A places : Bounded(<<>>, places)
  <2>1. DOMAIN <<>> = {}
    OBVIOUS
  <2>2. IsFiniteSet({}) /\ Cardinality({}) = 0
    BY FS_EmptySet, SMTT(40)
  <2> QED BY <2>1, <2>2 DEF Bounded, Ceiling
<1> QED BY <1>1 DEF MeasuresWithin, Unmeasured

LEMMA StepStaysWithin ==
    ASSUME MaxSeries \in Nat \ {0}, MeasuresWithin(measured), [ModelCallsNext]_callVars
    PROVE  MeasuresWithin(measured')
<1>1. CASE measured' = measured
  BY <1>1
<1>2. ASSUME NEW g \in Generations, NEW n, Answered(g, n)
      PROVE  MeasuresWithin(measured')
  BY <1>2, CallStaysWithin DEF Answered, LogSuccess
<1>3. ASSUME NEW g \in Generations, NEW fault, NEW hint, Failed(g, fault, hint)
      PROVE  MeasuresWithin(measured')
  <2> DEFINE error == Translate(vendor, fault)
  <2>1. measured' = LogFailure(gen[g], error) \/ measured' = LogRetry(gen[g])
    BY <1>3 DEF Failed
  <2>2. MeasuresWithin(LogFailure(gen[g], error))
    BY CallStaysWithin, ErrorStaysWithin DEF LogFailure
  <2>3. MeasuresWithin(LogRetry(gen[g]))
    BY RetryStaysWithin DEF LogRetry
  <2> QED BY <2>1, <2>2, <2>3
<1> QED BY <1>1, <1>2, <1>3, ZenonT(60) DEF ModelCallsNext, callVars, Generate, GenerateStructured, Retry, Send, Record,
                                RecordStep, CommitCall

(* However many calls are made, and whatever their labels, a metric holds  *)
(* no more series than it may: observability/metrics.py reserves a slot    *)
(* for the overflow series so that it does.                                *)
THEOREM SeriesStayBounded ==
    ASSUME MaxSeries \in Nat \ {0}
    PROVE  ModelCallsSpec => []MetricsBounded
<1>1. ModelCallsInit => MeasuresWithin(measured)
  BY NothingIsWithin DEF ModelCallsInit
<1>2. MeasuresWithin(measured) /\ [ModelCallsNext]_callVars => MeasuresWithin(measured)'
  BY StepStaysWithin
<1>3. MeasuresWithin(measured) => MetricsBounded
  <2>1. \A series, places : Bounded(series, places) => Cardinality(DOMAIN series) <= MaxSeries
    BY FS_CardinalityType DEF Bounded, Ceiling
  <2> QED BY <2>1 DEF MeasuresWithin, MetricsBounded
<1> QED BY <1>1, <1>2, <1>3, PTL DEF ModelCallsSpec

-----------------------------------------------------------------------------
(* What makes the rows true: a row belongs to a call that is over, and a   *)
(* call that is over does nothing more.                                    *)
LedgerInv ==
    /\ DOMAIN gen = Generations
    /\ \A g \in Generations : DOMAIN gen[g] = DOMAIN Fresh
    /\ \A row \in usage : row.of \in Generations /\ gen[row.of].pc = "over"
    /\ RowsAreTrue

\* What a step of one call owes: it writes no row, or its own when it ends well.
LEMMA StepOfCall ==
    ASSUME LedgerInv, NEW g \in Generations, gen[g].pc # "over",
           DOMAIN gen' = Generations, DOMAIN gen'[g] = DOMAIN Fresh,
           \A h \in Generations \ {g} : gen'[h] = gen[h],
           \/ usage' = usage
           \/ \E row : /\ usage' = usage \cup {row} /\ row.of = g
                       /\ gen'[g].pc = "over" /\ gen'[g].status = 200 /\ gen'[g].tokens = row.tokens
    PROVE  LedgerInv'
<1>1. DOMAIN gen' = Generations /\ \A h \in Generations : DOMAIN gen'[h] = DOMAIN Fresh
  BY DEF LedgerInv
<1>2. \A row \in usage : row.of \in Generations /\ gen'[row.of] = gen[row.of] /\ row.of # g
  BY DEF LedgerInv
<1>3. \A row \in usage' : row.of \in Generations /\ gen'[row.of].pc = "over"
  BY <1>2 DEF LedgerInv
<1>4. \A row \in usage' : gen'[row.of].status = 200 /\ gen'[row.of].tokens = row.tokens
  BY <1>2 DEF LedgerInv, RowsAreTrue
<1>5. \A a, b \in usage' : a.of = b.of => a = b
  BY <1>2 DEF LedgerInv, RowsAreTrue
<1> QED BY <1>1, <1>3, <1>4, <1>5 DEF LedgerInv, RowsAreTrue, Fresh

\* A call whose fields change keeps the others', and every other call.
LEMMA OverIsOneCall ==
    ASSUME LedgerInv, NEW g \in Generations, NEW status, gen' = Over(g, status)
    PROVE  /\ DOMAIN gen' = Generations /\ DOMAIN gen'[g] = DOMAIN Fresh
           /\ \A h \in Generations \ {g} : gen'[h] = gen[h]
           /\ gen'[g].pc = "over" /\ gen'[g].status = status /\ gen'[g].tokens = gen[g].tokens
BY DEF LedgerInv, Over, Fresh

LEMMA CallsKeepLedger ==
    ASSUME LedgerInv, NEW g \in Generations,
           \/ \E model : Generate(g, model)
           \/ GenerateStructured(g)
           \/ \E n : Answered(g, n)
           \/ Retry(g) \/ Send(g)
           \/ \E there : Record(g, there)
    PROVE  LedgerInv'
<1>1. /\ gen[g].pc # "over" /\ usage' = usage
      /\ DOMAIN gen' = Generations /\ DOMAIN gen'[g] = DOMAIN Fresh
      /\ \A h \in Generations \ {g} : gen'[h] = gen[h]
  <2>1. CASE \E model : Generate(g, model)
    <3>1. PICK model : Generate(g, model)
      BY <2>1
    <3>2. gen[g].pc # "over" /\ usage' = usage
      BY <3>1 DEF Generate
    <3>3. \/ gen' = [gen EXCEPT ![g].pc = "call", ![g].model = model, ![g].attempt = 1]
          \/ \E status : gen' = Over(g, status)
      BY <3>1, ZenonT(60) DEF Generate
    <3>4. CASE \E status : gen' = Over(g, status)
      BY <3>2, <3>4, OverIsOneCall
    <3>5. CASE gen' = [gen EXCEPT ![g].pc = "call", ![g].model = model, ![g].attempt = 1]
      BY <3>2, <3>5 DEF LedgerInv, Fresh
    <3> QED BY <3>3, <3>4, <3>5
  <2>2. CASE GenerateStructured(g)
    BY <2>2 DEF GenerateStructured, Over, LedgerInv, Fresh
  <2>3. CASE \E n : Answered(g, n)
    BY <2>3 DEF Answered, LedgerInv, Fresh
  <2>4. CASE Retry(g) \/ Send(g)
    BY <2>4 DEF Retry, Send, LedgerInv, Fresh
  <2>5. CASE \E there : Record(g, there)
    BY <2>5 DEF Record, Over, LedgerInv, Fresh
  <2> QED BY <2>1, <2>2, <2>3, <2>4, <2>5
<1> QED BY <1>1, StepOfCall

LEMMA FailureKeepsLedger ==
    ASSUME LedgerInv, NEW g \in Generations, NEW fault, NEW hint, Failed(g, fault, hint)
    PROVE  LedgerInv'
<1> DEFINE status == StatusOf[Translate(vendor, fault)]
<1>1. gen[g].pc # "over" /\ usage' = usage
  BY DEF Failed
<1>2. \/ gen' = Over(g, status)
      \/ \E d : gen' = [gen EXCEPT ![g].pc = "wait", ![g].waited = @ + d]
  BY DEF Failed
<1>3. CASE gen' = Over(g, status)
  BY <1>1, <1>3, OverIsOneCall, StepOfCall
<1>4. CASE \E d : gen' = [gen EXCEPT ![g].pc = "wait", ![g].waited = @ + d]
  <2>1. /\ DOMAIN gen' = Generations /\ DOMAIN gen'[g] = DOMAIN Fresh
        /\ \A h \in Generations \ {g} : gen'[h] = gen[h]
    BY <1>4 DEF LedgerInv, Fresh
  <2> QED BY <1>1, <2>1, StepOfCall
<1> QED BY <1>2, <1>3, <1>4

\* The two steps that write: the row is of the call, and the call ends well.
LEMMA RowsKeepLedger ==
    ASSUME LedgerInv, NEW g \in Generations, NEW there \in BOOLEAN,
           RecordStep(g, there) \/ CommitCall(g, there)
    PROVE  LedgerInv'
<1>1. gen[g].pc # "over"
  BY DEF RecordStep, CommitCall
<1>2. CASE there
  <2>1. PICK table : usage' = usage \cup {RowOf(g, table)}
    BY <1>2 DEF RecordStep, CommitCall
  <2>2. gen' = Over(g, 200)
    BY <1>2 DEF RecordStep, CommitCall
  <2>3. RowOf(g, table).of = g /\ RowOf(g, table).tokens = gen[g].tokens
    BY DEF RowOf
  <2>4. \E row : /\ usage' = usage \cup {row} /\ row.of = g
                 /\ gen'[g].pc = "over" /\ gen'[g].status = 200 /\ gen'[g].tokens = row.tokens
    BY <2>1, <2>2, <2>3, OverIsOneCall
  <2> QED BY <1>1, <2>2, <2>4, OverIsOneCall, StepOfCall
<1>3. CASE ~there
  <2>1. usage' = usage /\ \E status : gen' = Over(g, status)
    BY <1>3 DEF RecordStep, CommitCall
  <2> QED BY <1>1, <2>1, OverIsOneCall, StepOfCall
<1> QED BY <1>2, <1>3

LEMMA LedgerStep ==
    ASSUME LedgerInv, [ModelCallsNext]_callVars
    PROVE  LedgerInv'
<1>1. CASE UNCHANGED callVars
  BY <1>1 DEF callVars, LedgerInv, RowsAreTrue, Fresh
<1>2. CASE ModelCallsNext
  <2>1. PICK g \in Generations :
           \/ \E model : Generate(g, model)
           \/ GenerateStructured(g)
           \/ \E n : Answered(g, n)
           \/ \E fault, hint : Failed(g, fault, hint)
           \/ Retry(g) \/ Send(g)
           \/ \E there \in BOOLEAN : Record(g, there) \/ RecordStep(g, there) \/ CommitCall(g, there)
    BY <1>2, Zenon DEF ModelCallsNext
  <2> QED BY <2>1, CallsKeepLedger, FailureKeepsLedger, RowsKeepLedger
<1> QED BY <1>1, <1>2

(* However calls interleave, fail and are retried, a row of the ledger is  *)
(* of a call whose caller was answered 200, with the tokens of its answer, *)
(* and no call has two: services/ai.py and the journal of agents record an *)
(* answer once, and a caller told of a failure is charged nothing.         *)
THEOREM LedgerIsTrue == ModelCallsSpec => []RowsAreTrue
<1>1. ModelCallsInit => LedgerInv
  BY DEF ModelCallsInit, LedgerInv, RowsAreTrue
<1>2. LedgerInv /\ [ModelCallsNext]_callVars => LedgerInv'
  BY LedgerStep
<1>3. LedgerInv => RowsAreTrue
  BY DEF LedgerInv
<1> QED BY <1>1, <1>2, <1>3, PTL DEF ModelCallsSpec

-----------------------------------------------------------------------------
(* What the types and the sums rest on: where each call has got to.        *)
Stages   == {"idle", "call", "wait", "record", "commit", "over"}
Models   == {"default", "allowed"}
Tries    == 0 .. MaxAttempts
Waits    == 0 .. MaxRetries * MaxDelay
Counts   == [input : Nat, output : Nat]
Served   == {"", "released", "allowed", "unknown"}
Statuses == {0, 200, 422, 429, 500, 502, 503, 504}

CallRecords == [pc : Stages, op : Operations, model : Models, attempt : Tries,
                waited : Waits, tokens : Counts, served : Served, status : Statuses]

\* Every wait was the policy's and is paid for by an attempt; a call is counted once it
\* has ended, and nothing is spent before.
CallOK(c) ==
    /\ c.pc = "idle" => c.attempt = 0 /\ c.waited = 0
    /\ c.pc \in {"idle", "call", "wait"} => c.tokens = Unspent /\ c.status = 0
    /\ c.pc = "call" => c.attempt >= 1 /\ c.waited <= (c.attempt - 1) * MaxDelay
    /\ c.pc = "wait" => c.attempt \in 1 .. MaxRetries /\ c.waited <= c.attempt * MaxDelay
    /\ c.pc \in {"record", "commit"} => c.attempt >= 1
    /\ c.pc = "record" => c.status = 0
    /\ c.pc = "commit" => c.status \in {0, 200}
    /\ c.pc = "over" /\ c.attempt = 0 => c.tokens = Unspent

CallsInv == gen \in [Generations -> CallRecords] /\ \A g \in Generations : CallOK(gen[g])

LEMMA TimesGrows ==
    ASSUME NEW a \in Nat, NEW b \in Nat, NEW m \in Nat, a <= b
    PROVE  /\ a * m \in Nat /\ b * m \in Nat /\ a * m <= b * m
           /\ (a + 1) * m = a * m + m
<1>1. PICK k \in Nat : b = a + k
  <2>1. b - a \in Nat /\ b = a + (b - a)
    OBVIOUS
  <2> QED BY <2>1
<1>2. b * m = a * m + k * m /\ a * m \in Nat /\ k * m \in Nat
  BY <1>1
<1>3. (a + 1) * m = a * m + m
  OBVIOUS
<1> QED BY <1>2, <1>3

\* What a call is refused with, what a provider failed with, and what the record ends with.
RefusedWith == {422, 500}
FailedWith  == {429, 500, 502, 504}
EndedWith   == {200, 503}

LEMMA FailuresHaveAStatus ==
    ASSUME NEW v, NEW fault
    PROVE  StatusOf[Translate(v, fault)] \in FailedWith
<1>1. Translate(v, fault) \in {"authentication", "configuration", "rate_limit", "timeout",
                               "provider", "invalid_response"}
  BY DEF Translate, OpenAIError, AnthropicError
<1> QED BY <1>1 DEF StatusOf, FailedWith

LEMMA TokensAreCounts ==
    ASSUME NEW v, NEW n \in Reported
    PROVE  Tokens(v, n) \in Counts
<1>1. n.input \in Int /\ n.output \in Int
  BY DEF Reported
<1> QED BY <1>1 DEF Tokens, OpenAITokens, AnthropicTokens, Clamped, Counts

\* A wait is never longer than the policy's longest, whatever the provider asks for.
LEMMA DelaysAreBounded ==
    ASSUME BaseDelay \in Nat, MaxDelay \in Nat, MaxRetries \in Nat, Hints \subseteq Int,
           NEW attempt \in Nat, NEW error, NEW fault, NEW hint \in Hints \cup {NoHint},
           NEW d \in DelayBeforeRetry(attempt, error, fault, hint)
    PROVE  d \in 0 .. MaxDelay /\ attempt <= MaxRetries
<1>1. attempt < MaxAttempts
  BY DEF DelayBeforeRetry, MaxAttempts
<1>2. attempt <= MaxRetries
  BY <1>1 DEF MaxAttempts
<1>3. BackoffCeiling(attempt) \in Int /\ BackoffCeiling(attempt) <= MaxDelay
  <2>1. 2 ^ (attempt - 1) \in Int
    OBVIOUS
  <2>2. BaseDelay * 2 ^ (attempt - 1) \in Int
    BY <2>1
  <2> QED BY <2>2 DEF BackoffCeiling
<1>4. CASE error = "rate_limit" /\ hint # NoHint
  <2>1. hint \in Int /\ ~ (hint > MaxDelay) /\ d = IF hint < 0 THEN 0 ELSE hint
    BY <1>4 DEF DelayBeforeRetry
  <2> QED BY <1>2, <2>1
<1>5. CASE ~ (error = "rate_limit" /\ hint # NoHint)
  <2>1. d \in 0 .. BackoffCeiling(attempt)
    BY <1>5 DEF DelayBeforeRetry
  <2> QED BY <1>2, <1>3, <2>1
<1> QED BY <1>4, <1>5

LEMMA FirstTry ==
    ASSUME MaxRetries \in Nat, MaxDelay \in Nat
    PROVE  0 \in Tries /\ 1 \in Tries /\ 0 \in Waits /\ Unspent \in Counts
<1>1. MaxRetries * MaxDelay \in Nat
  BY TimesGrows
<1> QED BY <1>1 DEF Tries, Waits, MaxAttempts, Counts, Unspent

-----------------------------------------------------------------------------
(* One call changes, and how far it has got afterwards.                    *)
Becomes(g, pc, attempt, waited, tokens, status) ==
    \E d \in CallRecords :
        /\ gen' = [gen EXCEPT ![g] = d]
        /\ d.pc = pc /\ d.attempt = attempt /\ d.waited = waited /\ d.tokens = tokens /\ d.status = status

LEMMA CallIs ==
    ASSUME CallsInv, NEW g \in Generations
    PROVE  gen[g] \in CallRecords /\ CallOK(gen[g])
BY DEF CallsInv

LEMMA CallNumbers ==
    ASSUME MaxRetries \in Nat, MaxDelay \in Nat, NEW c \in CallRecords
    PROVE  c.attempt \in Nat /\ c.waited \in Nat /\ c.tokens.input \in Nat /\ c.tokens.output \in Nat
<1>1. MaxRetries * MaxDelay \in Nat
  BY TimesGrows
<1>2. c.attempt \in Tries /\ c.waited \in Waits /\ c.tokens \in Counts
  BY DEF CallRecords
<1>3. c.attempt \in Nat /\ c.waited \in Nat
  BY <1>1, <1>2 DEF Tries, Waits
<1>4. c.tokens.input \in Nat /\ c.tokens.output \in Nat
  BY <1>2 DEF Counts
<1> QED BY <1>3, <1>4

LEMMA BecomesTyped ==
    ASSUME CallsInv, NEW g \in Generations, NEW pc, NEW attempt, NEW waited, NEW tokens, NEW status,
           Becomes(g, pc, attempt, waited, tokens, status),
           pc # "idle",
           pc \in {"call", "wait"} => tokens = Unspent /\ status = 0,
           pc = "call" => attempt >= 1 /\ waited <= (attempt - 1) * MaxDelay,
           pc = "wait" => attempt \in 1 .. MaxRetries /\ waited <= attempt * MaxDelay,
           pc \in {"record", "commit"} => attempt >= 1,
           pc = "record" => status = 0,
           pc = "commit" => status \in {0, 200},
           pc = "over" /\ attempt = 0 => tokens = Unspent
    PROVE  CallsInv'
<1>1. PICK d \in CallRecords :
        /\ gen' = [gen EXCEPT ![g] = d]
        /\ d.pc = pc /\ d.attempt = attempt /\ d.waited = waited /\ d.tokens = tokens /\ d.status = status
  BY DEF Becomes
<1>2. CallOK(d)
  BY <1>1 DEF CallOK
<1> QED BY <1>1, <1>2 DEF CallsInv

\* A call that ends, and one for structured output that is refused, as one record each.
EndOf(g, status)     == [gen[g] EXCEPT !.pc = "over", !.status = status]
RefusalOf(g, status) == [gen[g] EXCEPT !.pc = "over", !.status = status, !.op = "generate_structured"]

LEMMA OverIs ==
    ASSUME CallsInv, NEW g \in Generations, NEW status
    PROVE  /\ Over(g, status) = [gen EXCEPT ![g] = EndOf(g, status)]
           /\ [Over(g, status) EXCEPT ![g].op = "generate_structured"] = [gen EXCEPT ![g] = RefusalOf(g, status)]
<1>1. Over(g, status) = [gen EXCEPT ![g] = EndOf(g, status)]
  BY DEF Over, CallsInv, CallRecords, EndOf
<1>2. [Over(g, status) EXCEPT ![g].op = "generate_structured"] = [gen EXCEPT ![g] = RefusalOf(g, status)]
  BY DEF Over, CallsInv, CallRecords, RefusalOf
<1> QED BY <1>1, <1>2

\* Every step of a call makes it one of these.
LEMMA RefusalIs ==
    ASSUME MaxRetries \in Nat, MaxDelay \in Nat, CallsInv, NEW g \in Generations, gen[g].pc = "idle",
           NEW status \in RefusedWith,
           gen' = Over(g, status) \/ gen' = [Over(g, status) EXCEPT ![g].op = "generate_structured"]
    PROVE  Becomes(g, "over", 0, 0, Unspent, status)
<1> DEFINE c == gen[g]
           d == EndOf(g, status)
           e == RefusalOf(g, status)
<1>1. c \in CallRecords /\ c.attempt = 0 /\ c.waited = 0 /\ c.tokens = Unspent
  BY CallIs DEF CallOK
<1>2. gen' = [gen EXCEPT ![g] = EndOf(g, status)] \/ gen' = [gen EXCEPT ![g] = RefusalOf(g, status)]
  <2>1. CASE gen' = Over(g, status)
    BY <2>1, OverIs, Zenon
  <2>2. CASE gen' = [Over(g, status) EXCEPT ![g].op = "generate_structured"]
    BY <2>2, OverIs, Zenon
  <2> QED BY <2>1, <2>2
<1>3. "over" \in Stages /\ status \in Statuses /\ "generate_structured" \in Operations
  BY DEF Stages, Statuses, Operations, RefusedWith
<1>4. d \in CallRecords /\ e \in CallRecords
  BY <1>1, <1>3 DEF CallRecords, EndOf, RefusalOf
<1>5. d.pc = "over" /\ d.attempt = 0 /\ d.waited = 0 /\ d.tokens = Unspent /\ d.status = status
  BY <1>1 DEF CallRecords, EndOf, RefusalOf
<1>6. e.pc = "over" /\ e.attempt = 0 /\ e.waited = 0 /\ e.tokens = Unspent /\ e.status = status
  BY <1>1 DEF CallRecords, EndOf, RefusalOf
<1> QED BY <1>2, <1>4, <1>5, <1>6 DEF Becomes

LEMMA BeginningIs ==
    ASSUME MaxRetries \in Nat, MaxDelay \in Nat, CallsInv, NEW g \in Generations, gen[g].pc = "idle",
           \/ \E model \in Models : gen' = [gen EXCEPT ![g].pc = "call", ![g].model = model, ![g].attempt = 1]
           \/ gen' = [gen EXCEPT ![g].pc = "call", ![g].op = "generate_structured", ![g].attempt = 1]
    PROVE  Becomes(g, "call", 1, 0, Unspent, 0)
<1> DEFINE c == gen[g]
           d(model) == [c EXCEPT !.pc = "call", !.model = model, !.attempt = 1]
           e == [c EXCEPT !.pc = "call", !.op = "generate_structured", !.attempt = 1]
<1>1. c \in CallRecords /\ c.waited = 0 /\ c.tokens = Unspent /\ c.status = 0
  BY CallIs DEF CallOK
<1>2. "call" \in Stages /\ 1 \in Tries /\ "generate_structured" \in Operations
  BY FirstTry DEF Stages, Operations
<1>3. CASE \E model \in Models : gen' = [gen EXCEPT ![g].pc = "call", ![g].model = model, ![g].attempt = 1]
  <2>1. PICK model \in Models : gen' = [gen EXCEPT ![g].pc = "call", ![g].model = model, ![g].attempt = 1]
    BY <1>3
  <2>2. gen' = [gen EXCEPT ![g] = d(model)]
    BY <2>1 DEF CallsInv
  <2>3. d(model) \in CallRecords
    BY <1>1, <1>2 DEF CallRecords
  <2>4. /\ d(model).pc = "call" /\ d(model).attempt = 1 /\ d(model).waited = 0
        /\ d(model).tokens = Unspent /\ d(model).status = 0
    BY <1>1 DEF CallRecords
  <2> HIDE DEF d
  <2> QED BY <2>2, <2>3, <2>4 DEF Becomes
<1>4. CASE gen' = [gen EXCEPT ![g].pc = "call", ![g].op = "generate_structured", ![g].attempt = 1]
  <2>2. gen' = [gen EXCEPT ![g] = e]
    BY <1>4 DEF CallsInv
  <2>3. e \in CallRecords
    BY <1>1, <1>2 DEF CallRecords
  <2>4. e.pc = "call" /\ e.attempt = 1 /\ e.waited = 0 /\ e.tokens = Unspent /\ e.status = 0
    BY <1>1 DEF CallRecords
  <2> HIDE DEF e
  <2> QED BY <2>2, <2>3, <2>4 DEF Becomes
<1> QED BY <1>3, <1>4

LEMMA AskingIs ==
    ASSUME MaxRetries \in Nat, MaxDelay \in Nat, CallsInv, NEW g \in Generations,
           (\E model \in {"default", "allowed", "other"} : Generate(g, model)) \/ GenerateStructured(g)
    PROVE  /\ gen[g].pc = "idle" /\ UNCHANGED <<measured, usage>>
           /\ \/ \E status \in RefusedWith : Becomes(g, "over", 0, 0, Unspent, status)
              \/ Becomes(g, "call", 1, 0, Unspent, 0)
<1>1. gen[g].pc = "idle" /\ UNCHANGED <<measured, usage>>
  BY DEF Generate, GenerateStructured
<1>2. \/ \E status \in RefusedWith :
            gen' = Over(g, status) \/ gen' = [Over(g, status) EXCEPT ![g].op = "generate_structured"]
      \/ \E model \in Models : gen' = [gen EXCEPT ![g].pc = "call", ![g].model = model, ![g].attempt = 1]
      \/ gen' = [gen EXCEPT ![g].pc = "call", ![g].op = "generate_structured", ![g].attempt = 1]
  <2>1. CASE \E model \in {"default", "allowed", "other"} : Generate(g, model)
    <3>1. PICK model \in {"default", "allowed", "other"} : Generate(g, model)
      BY <2>1
    <3> DEFINE refused == IF BuildGateway THEN ResolveModel(model) ELSE 500
    <3>2. gen' = IF refused = 0 THEN [gen EXCEPT ![g].pc = "call", ![g].model = model, ![g].attempt = 1]
                 ELSE Over(g, refused)
      BY <3>1 DEF Generate
    <3>3. refused \in RefusedWith \/ (refused = 0 /\ model \in Models)
      BY DEF ResolveModel, Models, RefusedWith
    <3>4. refused \in RefusedWith => refused # 0
      BY DEF RefusedWith
    <3> HIDE DEF refused
    <3> QED BY <3>2, <3>3, <3>4
  <2>2. CASE GenerateStructured(g)
    <3> DEFINE refused == 500
    <3>1. \/ gen' = [Over(g, refused) EXCEPT ![g].op = "generate_structured"]
          \/ gen' = [gen EXCEPT ![g].pc = "call", ![g].op = "generate_structured", ![g].attempt = 1]
      BY <2>2 DEF GenerateStructured
    <3>2. refused \in RefusedWith
      BY DEF RefusedWith
    <3> HIDE DEF refused
    <3> QED BY <3>1, <3>2
  <2> QED BY <2>1, <2>2
<1>3. CASE \E status \in RefusedWith :
            gen' = Over(g, status) \/ gen' = [Over(g, status) EXCEPT ![g].op = "generate_structured"]
  BY <1>1, <1>3, RefusalIs
<1>4. CASE \/ \E model \in Models : gen' = [gen EXCEPT ![g].pc = "call", ![g].model = model, ![g].attempt = 1]
           \/ gen' = [gen EXCEPT ![g].pc = "call", ![g].op = "generate_structured", ![g].attempt = 1]
  BY <1>1, <1>4, BeginningIs
<1> QED BY <1>1, <1>2, <1>3, <1>4

LEMMA AnswerIs ==
    ASSUME CallsInv, NEW g \in Generations, NEW n \in Reported, Answered(g, n)
    PROVE  /\ gen[g].pc = "call" /\ usage' = usage
           /\ Tokens(vendor, n) \in Counts
           /\ Becomes(g, "record", gen[g].attempt, gen[g].waited, Tokens(vendor, n), 0)
           /\ measured' = LogSuccess(gen[g], Tokens(vendor, n))
<1> DEFINE c == gen[g]
           tokens == Tokens(vendor, n)
           name == ServedModel(c.model, n)
           d == [c EXCEPT !.pc = "record", !.tokens = tokens, !.served = name]
<1>1. c.pc = "call" /\ usage' = usage /\ measured' = LogSuccess(gen[g], tokens) /\ tokens \in Counts
  BY TokensAreCounts DEF Answered
<1>2. c \in CallRecords /\ c.status = 0
  BY <1>1, CallIs DEF CallOK
<1>3. gen' = [gen EXCEPT ![g] = d]
  <2>1. gen' = [gen EXCEPT ![g].pc = "record", ![g].tokens = tokens, ![g].served = name]
    BY DEF Answered
  <2> HIDE DEF tokens, name
  <2> QED BY <2>1 DEF CallsInv
<1>4. "record" \in Stages /\ name \in Served
  BY <1>2 DEF Stages, Served, ServedModel, Released, CallRecords, Models
<1> HIDE DEF tokens, name
<1>5. d \in CallRecords
  BY <1>1, <1>2, <1>4 DEF CallRecords
<1>6. d.pc = "record" /\ d.attempt = c.attempt /\ d.waited = c.waited /\ d.tokens = tokens /\ d.status = 0
  BY <1>2 DEF CallRecords
<1> HIDE DEF d
<1>7. Becomes(g, "record", c.attempt, c.waited, tokens, 0)
  BY <1>3, <1>5, <1>6 DEF Becomes
<1> QED BY <1>1, <1>7 DEF tokens

LEMMA GivingUpIs ==
    ASSUME CallsInv, NEW g \in Generations, gen[g].pc = "call", NEW status \in FailedWith,
           gen' = Over(g, status)
    PROVE  Becomes(g, "over", gen[g].attempt, gen[g].waited, Unspent, status)
<1> DEFINE c == gen[g]
           d == EndOf(g, status)
<1>1. c \in CallRecords /\ c.tokens = Unspent
  BY CallIs DEF CallOK
<1>2. gen' = [gen EXCEPT ![g] = EndOf(g, status)]
  BY OverIs, Zenon
<1>3. "over" \in Stages /\ status \in Statuses
  BY DEF Stages, Statuses, FailedWith
<1>4. d \in CallRecords
  BY <1>1, <1>3 DEF CallRecords, EndOf
<1>5. d.pc = "over" /\ d.attempt = c.attempt /\ d.waited = c.waited /\ d.tokens = Unspent /\ d.status = status
  BY <1>1 DEF CallRecords, EndOf
<1> QED BY <1>2, <1>4, <1>5 DEF Becomes

LEMMA WaitingIs ==
    ASSUME MaxRetries \in Nat, BaseDelay \in Nat, MaxDelay \in Nat, Hints \subseteq Int, CallsInv,
           NEW g \in Generations, gen[g].pc = "call",
           NEW error, NEW fault, NEW hint \in Hints \cup {NoHint},
           NEW w \in DelayBeforeRetry(gen[g].attempt, error, fault, hint),
           gen' = [gen EXCEPT ![g].pc = "wait", ![g].waited = @ + w]
    PROVE  /\ gen[g].attempt \in 1 .. MaxRetries
           /\ gen[g].waited + w \in Nat /\ gen[g].waited + w <= gen[g].attempt * MaxDelay
           /\ Becomes(g, "wait", gen[g].attempt, gen[g].waited + w, Unspent, 0)
<1> DEFINE c == gen[g]
           longer == c.waited + w
           d == [c EXCEPT !.pc = "wait", !.waited = longer]
<1>1. c \in CallRecords /\ c.tokens = Unspent /\ c.status = 0 /\ c.attempt >= 1 /\ c.waited <= (c.attempt - 1) * MaxDelay
  BY CallIs DEF CallOK
<1>2. gen' = [gen EXCEPT ![g] = d]
  BY DEF CallsInv
<1>3. MaxRetries * MaxDelay \in Nat
  BY TimesGrows
<1>4. c.attempt \in Nat /\ c.waited \in Nat
  BY <1>1, CallNumbers
<1>5. w \in 0 .. MaxDelay /\ c.attempt <= MaxRetries
  BY <1>4, DelaysAreBounded
<1>6. /\ (c.attempt - 1) * MaxDelay \in Nat
      /\ c.attempt * MaxDelay = (c.attempt - 1) * MaxDelay + MaxDelay
      /\ c.attempt * MaxDelay <= MaxRetries * MaxDelay
  <2> DEFINE b == c.attempt - 1
  <2>1. b \in Nat /\ b + 1 = c.attempt
    BY <1>1, <1>4
  <2> HIDE DEF b
  <2>2. b * MaxDelay \in Nat /\ (b + 1) * MaxDelay = b * MaxDelay + MaxDelay
    BY <2>1, TimesGrows
  <2>3. c.attempt * MaxDelay <= MaxRetries * MaxDelay
    BY <1>4, <1>5, TimesGrows
  <2> QED BY <2>1, <2>2, <2>3 DEF b
<1>7. longer <= c.attempt * MaxDelay /\ longer \in Waits /\ longer \in Nat
  BY <1>1, <1>3, <1>4, <1>5, <1>6 DEF Waits
<1>8. c.attempt \in 1 .. MaxRetries
  BY <1>1, <1>4, <1>5
<1> HIDE DEF longer
<1>9. "wait" \in Stages
  BY DEF Stages
<1>10. d \in CallRecords
  BY <1>1, <1>7, <1>9 DEF CallRecords
<1>11. d.pc = "wait" /\ d.attempt = c.attempt /\ d.waited = longer /\ d.tokens = Unspent /\ d.status = 0
  BY <1>1 DEF CallRecords
<1> HIDE DEF d
<1>12. Becomes(g, "wait", c.attempt, longer, Unspent, 0)
  BY <1>2, <1>10, <1>11 DEF Becomes
<1> QED BY <1>7, <1>8, <1>12 DEF longer

LEMMA FailureIs ==
    ASSUME MaxRetries \in Nat, BaseDelay \in Nat, MaxDelay \in Nat, Hints \subseteq Int, CallsInv,
           NEW g \in Generations, NEW fault, NEW hint \in Hints \cup {NoHint}, Failed(g, fault, hint)
    PROVE  /\ gen[g].pc = "call" /\ usage' = usage
           /\ \/ \E status \in FailedWith :
                    Becomes(g, "over", gen[g].attempt, gen[g].waited, Unspent, status)
                 /\ measured' = LogFailure(gen[g], Translate(vendor, fault))
              \/ /\ gen[g].attempt \in 1 .. MaxRetries
                 /\ \E waited \in Nat : waited <= gen[g].attempt * MaxDelay
                                        /\ Becomes(g, "wait", gen[g].attempt, waited, Unspent, 0)
                 /\ measured' = LogRetry(gen[g])
<1> DEFINE error == Translate(vendor, fault)
<1>1. gen[g].pc = "call" /\ usage' = usage
  BY DEF Failed
<1>2. StatusOf[error] \in FailedWith
  BY FailuresHaveAStatus
<1>3. CASE gen' = Over(g, StatusOf[error]) /\ measured' = LogFailure(gen[g], error)
  BY <1>1, <1>2, <1>3, GivingUpIs
<1>4. CASE /\ \E d \in DelayBeforeRetry(gen[g].attempt, error, fault, hint) :
                 gen' = [gen EXCEPT ![g].pc = "wait", ![g].waited = @ + d]
           /\ measured' = LogRetry(gen[g])
  <2>1. PICK d \in DelayBeforeRetry(gen[g].attempt, error, fault, hint) :
           gen' = [gen EXCEPT ![g].pc = "wait", ![g].waited = @ + d]
    BY <1>4
  <2> HIDE DEF error
  <2>2. /\ gen[g].attempt \in 1 .. MaxRetries
        /\ gen[g].waited + d \in Nat /\ gen[g].waited + d <= gen[g].attempt * MaxDelay
        /\ Becomes(g, "wait", gen[g].attempt, gen[g].waited + d, Unspent, 0)
    BY <1>1, <2>1, WaitingIs
  <2> QED BY <1>1, <1>4, <2>2
<1>5. \/ gen' = Over(g, StatusOf[error]) /\ measured' = LogFailure(gen[g], error)
      \/ /\ \E d \in DelayBeforeRetry(gen[g].attempt, error, fault, hint) :
                 gen' = [gen EXCEPT ![g].pc = "wait", ![g].waited = @ + d]
         /\ measured' = LogRetry(gen[g])
  BY DEF Failed
<1> QED BY <1>3, <1>4, <1>5

LEMMA RetryIs ==
    ASSUME MaxRetries \in Nat, MaxDelay \in Nat, CallsInv, NEW g \in Generations, Retry(g)
    PROVE  /\ gen[g].pc = "wait" /\ UNCHANGED <<measured, usage>>
           /\ gen[g].attempt \in 1 .. MaxRetries
           /\ gen[g].waited <= ((gen[g].attempt + 1) - 1) * MaxDelay
           /\ Becomes(g, "call", gen[g].attempt + 1, gen[g].waited, Unspent, 0)
<1> DEFINE c == gen[g]
           next == c.attempt + 1
           d == [c EXCEPT !.pc = "call", !.attempt = next]
<1>1. c.pc = "wait" /\ UNCHANGED <<measured, usage>>
  BY DEF Retry
<1>2. c \in CallRecords /\ c.tokens = Unspent /\ c.status = 0 /\ c.attempt \in 1 .. MaxRetries /\ c.waited <= c.attempt * MaxDelay
  BY <1>1, CallIs DEF CallOK
<1>3. gen' = [gen EXCEPT ![g] = d]
  BY DEF Retry, CallsInv
<1>4. next \in Tries /\ next - 1 = c.attempt
  BY <1>2 DEF Tries, MaxAttempts
<1>5. c.waited <= (next - 1) * MaxDelay
  <2> HIDE DEF next
  <2> QED BY <1>2, <1>4
<1> HIDE DEF next
<1>6. "call" \in Stages
  BY DEF Stages
<1>7. d \in CallRecords
  BY <1>2, <1>4, <1>6 DEF CallRecords
<1>8. d.pc = "call" /\ d.attempt = next /\ d.waited = c.waited /\ d.tokens = Unspent /\ d.status = 0
  BY <1>2 DEF CallRecords
<1> HIDE DEF d
<1>9. Becomes(g, "call", next, c.waited, Unspent, 0)
  BY <1>3, <1>7, <1>8 DEF Becomes
<1> QED BY <1>1, <1>2, <1>5, <1>9 DEF next

LEMMA SettlingIs ==
    ASSUME CallsInv, NEW g \in Generations, NEW there \in BOOLEAN,
           Send(g) \/ Record(g, there) \/ RecordStep(g, there) \/ CommitCall(g, there)
    PROVE  /\ gen[g].pc \in {"record", "commit"} /\ measured' = measured
           /\ \E pc, status :
                 /\ Becomes(g, pc, gen[g].attempt, gen[g].waited, gen[g].tokens, status)
                 /\ \/ pc = "over" /\ status \in EndedWith
                    \/ pc = "commit" /\ status \in {0, 200}
<1> DEFINE c == gen[g]
<1>1. c.pc \in {"record", "commit"} /\ measured' = measured
  BY DEF Send, Record, RecordStep, CommitCall
<1>2. c \in CallRecords /\ (c.pc = "record" => c.status = 0)
  BY CallIs DEF CallOK
<1>3. "over" \in Stages /\ "commit" \in Stages /\ 0 \in Statuses /\ 200 \in Statuses /\ EndedWith \subseteq Statuses
  BY DEF Stages, Statuses, EndedWith
<1>4. CASE \E status \in EndedWith : gen' = Over(g, status)
  <2>1. PICK status \in EndedWith : gen' = Over(g, status)
    BY <1>4
  <2> DEFINE d == EndOf(g, status)
  <2>2. gen' = [gen EXCEPT ![g] = EndOf(g, status)]
    BY <2>1, OverIs, Zenon
  <2>3. d \in CallRecords
    BY <1>2, <1>3 DEF CallRecords, EndOf
  <2>4. d.pc = "over" /\ d.attempt = c.attempt /\ d.waited = c.waited /\ d.tokens = c.tokens /\ d.status = status
    BY <1>2 DEF CallRecords, EndOf
  <2>5. Becomes(g, "over", c.attempt, c.waited, c.tokens, status)
    BY <2>2, <2>3, <2>4 DEF Becomes
  <2> QED BY <1>1, <2>5
<1>5. CASE c.pc = "record" /\ gen' = [gen EXCEPT ![g].pc = "commit"]
  <2> DEFINE d == [c EXCEPT !.pc = "commit"]
  <2>2. gen' = [gen EXCEPT ![g] = d]
    BY <1>5 DEF CallsInv
  <2>3. d \in CallRecords
    BY <1>2, <1>3 DEF CallRecords
  <2>4. d.pc = "commit" /\ d.attempt = c.attempt /\ d.waited = c.waited /\ d.tokens = c.tokens /\ d.status = 0
    BY <1>2, <1>5 DEF CallRecords
  <2> HIDE DEF d
  <2>5. Becomes(g, "commit", c.attempt, c.waited, c.tokens, 0)
    BY <2>2, <2>3, <2>4 DEF Becomes
  <2> QED BY <1>1, <2>5
<1>6. CASE c.pc = "commit" /\ gen' = [gen EXCEPT ![g].status = 200]
  <2> DEFINE d == [c EXCEPT !.status = 200]
  <2>2. gen' = [gen EXCEPT ![g] = d]
    BY <1>6 DEF CallsInv
  <2>3. d \in CallRecords
    BY <1>2, <1>3 DEF CallRecords
  <2>4. d.pc = "commit" /\ d.attempt = c.attempt /\ d.waited = c.waited /\ d.tokens = c.tokens /\ d.status = 200
    BY <1>2, <1>6 DEF CallRecords
  <2> HIDE DEF d
  <2>5. Becomes(g, "commit", c.attempt, c.waited, c.tokens, 200)
    BY <2>2, <2>3, <2>4 DEF Becomes
  <2> QED BY <1>1, <2>5
<1>7. \/ \E status \in EndedWith : gen' = Over(g, status)
      \/ c.pc = "record" /\ gen' = [gen EXCEPT ![g].pc = "commit"]
      \/ c.pc = "commit" /\ gen' = [gen EXCEPT ![g].status = 200]
  <2>1. CASE Send(g)
    BY <2>1 DEF Send
  <2>2. CASE Record(g, there)
    <3> DEFINE away == 503
    <3>1. (c.pc = "record" /\ gen' = [gen EXCEPT ![g].pc = "commit"]) \/ gen' = Over(g, away)
      BY <2>2 DEF Record
    <3>2. away \in EndedWith
      BY DEF EndedWith
    <3> HIDE DEF away
    <3> QED BY <3>1, <3>2
  <2>3. CASE RecordStep(g, there) \/ CommitCall(g, there)
    <3>1. PICK status : gen' = Over(g, status) /\ status \in {200, 503}
      BY <2>3 DEF RecordStep, CommitCall
    <3>2. status \in EndedWith
      BY <3>1 DEF EndedWith
    <3> QED BY <3>1, <3>2
  <2> QED BY <2>1, <2>2, <2>3
<1> QED BY <1>4, <1>5, <1>6, <1>7

-----------------------------------------------------------------------------
LEMMA CallsStep ==
    ASSUME MaxRetries \in Nat, BaseDelay \in Nat, MaxDelay \in Nat, Hints \subseteq Int,
           CallsInv, [ModelCallsNext]_callVars
    PROVE  CallsInv'
<1>1. CASE UNCHANGED callVars
  BY <1>1 DEF callVars, CallsInv
<1>2. ASSUME NEW g \in Generations,
             (\E model \in {"default", "allowed", "other"} : Generate(g, model)) \/ GenerateStructured(g)
      PROVE  CallsInv'
  <2>1. CASE \E status \in RefusedWith : Becomes(g, "over", 0, 0, Unspent, status)
    BY <2>1, BecomesTyped
  <2>2. CASE Becomes(g, "call", 1, 0, Unspent, 0)
    <3>1. 0 <= (1 - 1) * MaxDelay /\ 1 >= 1
      OBVIOUS
    <3> QED BY <2>2, <3>1, BecomesTyped
  <2> QED BY <1>2, <2>1, <2>2, AskingIs
<1>3. ASSUME NEW g \in Generations, NEW n \in Reported, Answered(g, n)
      PROVE  CallsInv'
  <2>1. gen[g].attempt >= 1
    BY <1>3, AnswerIs, CallIs DEF CallOK
  <2> QED BY <1>3, <2>1, AnswerIs, BecomesTyped
<1>4. ASSUME NEW g \in Generations, NEW fault, NEW hint \in Hints \cup {NoHint}, Failed(g, fault, hint)
      PROVE  CallsInv'
  <2>1. CASE \E status \in FailedWith :
                Becomes(g, "over", gen[g].attempt, gen[g].waited, Unspent, status)
    BY <2>1, BecomesTyped
  <2>2. CASE /\ gen[g].attempt \in 1 .. MaxRetries
             /\ \E waited \in Nat : waited <= gen[g].attempt * MaxDelay
                                    /\ Becomes(g, "wait", gen[g].attempt, waited, Unspent, 0)
    BY <2>2, BecomesTyped
  <2> QED BY <1>4, <2>1, <2>2, FailureIs
<1>5. ASSUME NEW g \in Generations, Retry(g)
      PROVE  CallsInv'
  <2>1. gen[g].attempt + 1 >= 1
    BY <1>5, RetryIs
  <2> QED BY <1>5, <2>1, RetryIs, BecomesTyped
<1>6. ASSUME NEW g \in Generations, NEW there \in BOOLEAN,
             Send(g) \/ Record(g, there) \/ RecordStep(g, there) \/ CommitCall(g, there)
      PROVE  CallsInv'
  <2>1. gen[g].attempt >= 1 /\ gen[g].attempt # 0
    <3>1. gen[g].attempt >= 1
      BY <1>6, SettlingIs, CallIs DEF CallOK
    <3>2. gen[g].attempt \in Nat
      BY CallIs, CallNumbers
    <3> QED BY <3>1, <3>2
  <2>2. PICK pc, status :
                 /\ Becomes(g, pc, gen[g].attempt, gen[g].waited, gen[g].tokens, status)
                 /\ \/ pc = "over" /\ status \in EndedWith
                    \/ pc = "commit" /\ status \in {0, 200}
    BY <1>6, SettlingIs
  <2> QED BY <2>1, <2>2, BecomesTyped
<1>7. CASE ModelCallsNext
  <2>1. PICK g \in Generations :
          \/ \E model \in {"default", "allowed", "other"} : Generate(g, model)
          \/ GenerateStructured(g)
          \/ \E n \in Reported : Answered(g, n)
          \/ \E fault, hint : hint \in Hints \cup {NoHint} /\ Failed(g, fault, hint)
          \/ Retry(g)
          \/ \E there \in BOOLEAN : Send(g) \/ Record(g, there) \/ RecordStep(g, there) \/ CommitCall(g, there)
    BY <1>7 DEF ModelCallsNext
  <2> QED BY <2>1, <1>2, <1>3, <1>4, <1>5, <1>6
<1> QED BY <1>1, <1>7

(* Every call is tried, and its caller held, no more than the policy says, *)
(* whatever a provider asks for (RetryPolicy, LLMGateway._delay_before_    *)
(* retry, ai/gateway.py), and everything stays well typed.                 *)
THEOREM CallsStayBounded ==
    ASSUME MaxSeries \in Nat \ {0}, MaxRetries \in Nat, BaseDelay \in Nat, MaxDelay \in Nat,
           Hints \subseteq Int
    PROVE  ModelCallsSpec => []ModelCallsTypeOK
<1> DEFINE I == CallsInv /\ gateway \in BOOLEAN
<1>1. ModelCallsInit => I
  <2> SUFFICES ASSUME ModelCallsInit PROVE I
    OBVIOUS
  <2>1. Fresh \in CallRecords /\ CallOK(Fresh)
    BY FirstTry DEF Fresh, CallRecords, CallOK, Operations, Stages, Models, Served, Statuses
  <2> QED BY <2>1 DEF ModelCallsInit, CallsInv
<1>2. I /\ [ModelCallsNext]_callVars => I'
  <2> SUFFICES ASSUME I, [ModelCallsNext]_callVars PROVE I'
    OBVIOUS
  <2>1. CallsInv'
    BY CallsStep
  <2>2. gateway' \in BOOLEAN
    <3>1. BuildGateway \in BOOLEAN
      BY DEF BuildGateway
    <3>2. gateway' = gateway \/ gateway' = BuildGateway
      <4>1. CASE UNCHANGED callVars
        BY <4>1 DEF callVars
      <4>2. CASE ModelCallsNext
        <5>1. PICK g \in Generations :
                \/ \E model : Generate(g, model)
                \/ GenerateStructured(g)
                \/ \E n : Answered(g, n)
                \/ \E fault, hint : Failed(g, fault, hint)
                \/ Retry(g) \/ Send(g)
                \/ \E there : Record(g, there) \/ RecordStep(g, there) \/ CommitCall(g, there)
          BY <4>2, Zenon DEF ModelCallsNext
        <5>2. CASE (\E model : Generate(g, model)) \/ GenerateStructured(g)
          BY <5>2 DEF Generate, GenerateStructured
        <5>3. CASE (\E n : Answered(g, n)) \/ \E fault, hint : Failed(g, fault, hint)
          BY <5>3 DEF Answered, Failed
        <5>4. CASE Retry(g) \/ Send(g) \/ \E there : Record(g, there) \/ RecordStep(g, there) \/ CommitCall(g, there)
          BY <5>4 DEF Retry, Send, Record, RecordStep, CommitCall
        <5> QED BY <5>1, <5>2, <5>3, <5>4
      <4> QED BY <4>1, <4>2
    <3> QED BY <3>1, <3>2
  <2> QED BY <2>1, <2>2
<1>3. I /\ MetricsBounded => ModelCallsTypeOK
  BY DEF CallsInv, ModelCallsTypeOK, CallRecords, Stages, Models, Tries, Waits, Counts, Served, Statuses
<1> QED BY <1>1, <1>2, <1>3, SeriesStayBounded, PTL DEF ModelCallsSpec

-----------------------------------------------------------------------------
(* Sums over finite functions.  SumFunction is a fold, defined by recursion *)
(* over sets; that the recursion defines a function, and what it computes,  *)
(* is shown by a smallest counterexample.                                   *)

LEMMA SmallestSet ==
    ASSUME NEW S, IsFiniteSet(S), NEW B \in SUBSET (SUBSET S), B # {}
    PROVE  \E s \in B : \A t \in B : ~ (Cardinality(t) < Cardinality(s))
<1> DEFINE sizes == {Cardinality(s) : s \in B}
<1>1. \A s \in B : Cardinality(s) \in Nat
  BY FS_Subset, FS_CardinalityType
<1>2. sizes \subseteq Nat /\ sizes # {}
  BY <1>1
<1>3. PICK n \in sizes : \A k \in sizes : ~ (<<k, n>> \in OpToRel(<, Nat))
  <2> HIDE DEF sizes
  <2> QED
    BY <1>2, NatLessThanWellFounded, WFMin, Zenon
<1>4. \A k \in sizes : ~ (k < n)
  BY <1>2, <1>3 DEF OpToRel
<1>5. PICK s \in B : Cardinality(s) = n
  OBVIOUS
<1> QED
  BY <1>4, <1>5

\* The function that SumFunction recurs with: the sums over the subsets of a domain.
Picked(s) == CHOOSE x \in s : TRUE
AddsOn(f, g, D) == g = [s \in D |-> IF s = {} THEN 0 ELSE f[Picked(s)] + g[s \ {Picked(s)}]]
SumsOf(f)     == CHOOSE g : AddsOn(f, g, SUBSET DOMAIN f)
SumOver(f, s) == SumsOf(f)[s]

LEMMA SumIsOverAll ==
    ASSUME NEW f
    PROVE  SumFunction(f) = SumOver(f, DOMAIN f)
BY DEF SumFunction, SumFunctionOnSet, FoldFunctionOnSet, MapThenFoldSet, SumOver, SumsOf, AddsOn, Picked

LEMMA PickedIsIn ==
    ASSUME NEW s, s # {}
    PROVE  Picked(s) \in s
BY DEF Picked

LEMMA OneLess ==
    ASSUME NEW S, IsFiniteSet(S), NEW s \in SUBSET S, NEW x \in s
    PROVE  /\ IsFiniteSet(s) /\ Cardinality(s) \in Nat /\ Cardinality(s) > 0
           /\ s \ {x} \in SUBSET S /\ Cardinality(s \ {x}) = Cardinality(s) - 1
<1>1. IsFiniteSet(s) /\ Cardinality(s) \in Nat
  BY FS_Subset, FS_CardinalityType
<1>2. IsFiniteSet(s \ {x}) /\ Cardinality(s \ {x}) = Cardinality(s) - 1
  BY <1>1, FS_RemoveElement
<1>3. Cardinality(s \ {x}) \in Nat
  BY <1>2, FS_CardinalityType
<1> QED
  BY <1>1, <1>2, <1>3

\* There are such sums over the subsets of n members at most, for every n.
LEMMA SumsExist ==
    ASSUME NEW f, IsFiniteSet(DOMAIN f)
    PROVE  AddsOn(f, SumsOf(f), SUBSET DOMAIN f)
<1> DEFINE S       == DOMAIN f
           Upto(n) == {s \in SUBSET S : Cardinality(s) <= n}
           Bad     == {n \in Nat : ~ \E g : AddsOn(f, g, Upto(n))}
<1>1. Bad = {}
  <2> SUFFICES ASSUME Bad # {} PROVE FALSE
    OBVIOUS
  <2>1. PICK n \in Bad : \A k \in Bad : ~ (<<k, n>> \in OpToRel(<, Nat))
    <3>1. Bad \subseteq Nat
      OBVIOUS
    <3> HIDE DEF Bad
    <3> QED
      BY <3>1, NatLessThanWellFounded, WFMin, Zenon
  <2>2. n \in Nat /\ \A k \in Nat : k < n => \E g : AddsOn(f, g, Upto(k))
    <3> HIDE DEF Upto
    <3> QED
      BY <2>1 DEF OpToRel
  <2>3. CASE n = 0
    <3> DEFINE g == [s \in Upto(0) |-> 0]
    <3>1. \A s \in Upto(0) : s = {}
      <4> SUFFICES ASSUME NEW s \in Upto(0), s # {} PROVE FALSE
        OBVIOUS
      <4>1. Picked(s) \in s /\ s \in SUBSET S /\ Cardinality(s) <= 0
        BY PickedIsIn
      <4>2. Cardinality(s) \in Nat /\ Cardinality(s) > 0
        <5> HIDE DEF S, Upto
        <5> QED
          BY <4>1, OneLess DEF S
      <4> QED
        BY <4>1, <4>2
    <3>2. AddsOn(f, g, Upto(0))
      <4> HIDE DEF Upto
      <4> QED
        BY <3>1 DEF AddsOn
    <3> QED
      BY <2>1, <2>3, <3>2
  <2>4. CASE n > 0
    <3>1. n - 1 \in Nat /\ n - 1 < n
      BY <2>2, <2>4
    <3>2. PICK g : AddsOn(f, g, Upto(n - 1))
      BY <2>2, <3>1
    <3> DEFINE h == [s \in Upto(n) |-> IF s = {} THEN 0 ELSE f[Picked(s)] + g[s \ {Picked(s)}]]
    <3>3. ASSUME NEW s \in Upto(n), s # {}
          PROVE  s \ {Picked(s)} \in Upto(n - 1)
      <4>1. Picked(s) \in s /\ s \in SUBSET S /\ Cardinality(s) <= n
        BY <3>3, PickedIsIn
      <4> QED
        BY <2>2, <4>1, OneLess
    <3>4. \A s \in Upto(n - 1) : s \in Upto(n)
      <4>1. \A s \in SUBSET S : Cardinality(s) \in Nat
        BY FS_Subset, FS_CardinalityType
      <4> QED
        BY <2>2, <4>1
    <3>5. \A s \in Upto(n - 1) : g[s] = IF s = {} THEN 0 ELSE f[Picked(s)] + g[s \ {Picked(s)}]
      <4> HIDE DEF Upto
      <4> QED
        BY <3>2 DEF AddsOn
    <3>6. \A s \in Upto(n - 1) : h[s] = g[s]
      <4> HIDE DEF Upto
      <4> QED
        BY <3>4, <3>5
    <3>7. AddsOn(f, h, Upto(n))
      <4>1. \A s \in Upto(n) : h[s] = IF s = {} THEN 0 ELSE f[Picked(s)] + h[s \ {Picked(s)}]
        <5> HIDE DEF Upto
        <5> QED
          BY <3>3, <3>6
      <4>2. h = [s \in Upto(n) |-> h[s]]
        <5> HIDE DEF Upto
        <5> QED
          OBVIOUS
      <4> HIDE DEF Upto, h
      <4> QED
        BY <4>1, <4>2 DEF AddsOn
    <3> HIDE DEF Upto, h
    <3> QED
      BY <2>1, <3>7
  <2> QED
    BY <2>2, <2>3, <2>4
<1>2. Cardinality(S) \in Nat
  BY FS_CardinalityType
<1>3. PICK g : AddsOn(f, g, Upto(Cardinality(S)))
  BY <1>1, <1>2
<1>4. Upto(Cardinality(S)) = SUBSET S
  BY FS_Subset
<1>5. AddsOn(f, g, SUBSET DOMAIN f)
  BY <1>3, <1>4
<1> QED
  BY <1>5 DEF SumsOf

LEMMA SumOfNothing ==
    ASSUME NEW f, IsFiniteSet(DOMAIN f)
    PROVE  SumOver(f, {}) = 0
<1>1. AddsOn(f, SumsOf(f), SUBSET DOMAIN f)
  BY SumsExist
<1> QED
  BY <1>1 DEF AddsOn, SumOver

LEMMA SumPicks ==
    ASSUME NEW f, IsFiniteSet(DOMAIN f), NEW s \in SUBSET DOMAIN f, s # {}
    PROVE  SumOver(f, s) = f[Picked(s)] + SumOver(f, s \ {Picked(s)})
<1>1. AddsOn(f, SumsOf(f), SUBSET DOMAIN f)
  BY SumsExist
<1> QED
  BY <1>1 DEF AddsOn, SumOver

LEMMA SumIsInt ==
    ASSUME NEW f, IsFiniteSet(DOMAIN f), \A x \in DOMAIN f : f[x] \in Int,
           NEW s \in SUBSET DOMAIN f
    PROVE  SumOver(f, s) \in Int
<1> DEFINE Bad == {t \in SUBSET DOMAIN f : SumOver(f, t) \notin Int}
<1> SUFFICES ASSUME Bad # {} PROVE FALSE
  OBVIOUS
<1>1. PICK t \in Bad : \A u \in Bad : ~ (Cardinality(u) < Cardinality(t))
  <2>1. Bad \in SUBSET (SUBSET DOMAIN f)
    OBVIOUS
  <2> HIDE DEF Bad
  <2> QED
    BY <2>1, SmallestSet
<1>2. t \in SUBSET DOMAIN f /\ SumOver(f, t) \notin Int
  OBVIOUS
<1>3. t # {}
  BY <1>2, SumOfNothing
<1>4. Picked(t) \in t
  BY <1>3, PickedIsIn
<1>5. t \ {Picked(t)} \in SUBSET DOMAIN f /\ Cardinality(t \ {Picked(t)}) < Cardinality(t)
  BY <1>2, <1>4, OneLess
<1>6. SumOver(f, t \ {Picked(t)}) \in Int
  BY <1>1, <1>5
<1>7. SumOver(f, t) = f[Picked(t)] + SumOver(f, t \ {Picked(t)})
  BY <1>2, <1>3, SumPicks
<1> QED
  BY <1>2, <1>4, <1>6, <1>7

\* Any member may be taken out first.
LEMMA SumTakesOut ==
    ASSUME NEW f, IsFiniteSet(DOMAIN f), \A x \in DOMAIN f : f[x] \in Int,
           NEW s \in SUBSET DOMAIN f, NEW x \in s
    PROVE  SumOver(f, s) = f[x] + SumOver(f, s \ {x})
<1> DEFINE Bad == {t \in SUBSET DOMAIN f : \E y \in t : SumOver(f, t) # f[y] + SumOver(f, t \ {y})}
<1> SUFFICES ASSUME Bad # {} PROVE FALSE
  OBVIOUS
<1>1. PICK t \in Bad : \A u \in Bad : ~ (Cardinality(u) < Cardinality(t))
  <2>1. Bad \in SUBSET (SUBSET DOMAIN f)
    OBVIOUS
  <2> HIDE DEF Bad
  <2> QED
    BY <2>1, SmallestSet
<1>2. PICK y \in t : SumOver(f, t) # f[y] + SumOver(f, t \ {y})
  OBVIOUS
<1>3. t \in SUBSET DOMAIN f /\ t # {}
  BY <1>2
<1> DEFINE z == Picked(t)
<1>4. z \in t /\ SumOver(f, t) = f[z] + SumOver(f, t \ {z})
  BY <1>3, PickedIsIn, SumPicks
<1>5. y # z
  BY <1>2, <1>4
<1> HIDE DEF z
<1>6. t \ {z} \in SUBSET DOMAIN f /\ Cardinality(t \ {z}) < Cardinality(t)
  BY <1>3, <1>4, OneLess
<1>7. t \ {y} \in SUBSET DOMAIN f /\ Cardinality(t \ {y}) < Cardinality(t)
  BY <1>2, <1>3, OneLess
<1>8. SumOver(f, t \ {z}) = f[y] + SumOver(f, (t \ {z}) \ {y})
  BY <1>1, <1>2, <1>5, <1>6
<1>9. SumOver(f, t \ {y}) = f[z] + SumOver(f, (t \ {y}) \ {z})
  BY <1>1, <1>4, <1>5, <1>7
<1>10. (t \ {z}) \ {y} = (t \ {y}) \ {z} /\ (t \ {z}) \ {y} \in SUBSET DOMAIN f
  BY <1>3
<1>11. SumOver(f, (t \ {z}) \ {y}) \in Int /\ f[y] \in Int /\ f[z] \in Int
  BY <1>2, <1>3, <1>4, <1>10, SumIsInt
<1> QED
  BY <1>2, <1>4, <1>8, <1>9, <1>10, <1>11

\* A sum depends on no more than what is summed.
LEMMA SumDepends ==
    ASSUME NEW f, NEW g, IsFiniteSet(DOMAIN f), IsFiniteSet(DOMAIN g),
           NEW s \in SUBSET DOMAIN f, s \in SUBSET DOMAIN g, \A x \in s : f[x] = g[x]
    PROVE  SumOver(f, s) = SumOver(g, s)
<1> DEFINE Bad == {t \in SUBSET s : SumOver(f, t) # SumOver(g, t)}
<1> SUFFICES ASSUME Bad # {} PROVE FALSE
  OBVIOUS
<1>1. PICK t \in Bad : \A u \in Bad : ~ (Cardinality(u) < Cardinality(t))
  <2>1. Bad \in SUBSET (SUBSET s) /\ IsFiniteSet(s)
    BY FS_Subset
  <2> HIDE DEF Bad
  <2> QED
    BY <2>1, SmallestSet
<1>2. t \in SUBSET s /\ SumOver(f, t) # SumOver(g, t)
  OBVIOUS
<1>3. t # {}
  BY <1>2, SumOfNothing
<1> DEFINE z == Picked(t)
<1>4. z \in t /\ SumOver(f, t) = f[z] + SumOver(f, t \ {z}) /\ SumOver(g, t) = g[z] + SumOver(g, t \ {z})
  BY <1>2, <1>3, PickedIsIn, SumPicks
<1> HIDE DEF z
<1>5. t \ {z} \in SUBSET s /\ Cardinality(t \ {z}) < Cardinality(t)
  <2>1. IsFiniteSet(s)
    BY FS_Subset
  <2> QED
    BY <1>2, <1>4, <2>1, OneLess
<1>6. SumOver(f, t \ {z}) = SumOver(g, t \ {z})
  BY <1>1, <1>5
<1> QED
  BY <1>2, <1>4, <1>6

-----------------------------------------------------------------------------
(* What the sums of the model need.                                        *)

LEMMA SumType ==
    ASSUME NEW f, IsFiniteSet(DOMAIN f), \A x \in DOMAIN f : f[x] \in Int
    PROVE  SumFunction(f) \in Int
BY SumIsInt, SumIsOverAll

LEMMA SumOfEmpty ==
    ASSUME NEW f, DOMAIN f = {}
    PROVE  SumFunction(f) = 0
BY FS_EmptySet, SumOfNothing, SumIsOverAll

\* One member changes.
LEMMA SumChanges ==
    ASSUME NEW S, IsFiniteSet(S), NEW f, NEW g, DOMAIN f = S, DOMAIN g = S,
           \A y \in S : f[y] \in Int /\ g[y] \in Int,
           NEW x \in S, \A y \in S \ {x} : g[y] = f[y]
    PROVE  SumFunction(g) = SumFunction(f) + g[x] - f[x]
<1>1. SumOver(f, S) = f[x] + SumOver(f, S \ {x})
  BY SumTakesOut
<1>2. SumOver(g, S) = g[x] + SumOver(g, S \ {x})
  BY SumTakesOut
<1>3. SumOver(g, S \ {x}) = SumOver(f, S \ {x})
  BY SumDepends
<1>4. SumOver(f, S \ {x}) \in Int
  BY SumIsInt
<1> QED
  BY <1>1, <1>2, <1>3, <1>4, SumIsOverAll

\* One member joins.
LEMMA SumExtends ==
    ASSUME NEW f, NEW g, NEW x, IsFiniteSet(DOMAIN f), x \notin DOMAIN f, DOMAIN g = DOMAIN f \cup {x},
           \A y \in DOMAIN g : g[y] \in Int, \A y \in DOMAIN f : f[y] = g[y]
    PROVE  SumFunction(g) = SumFunction(f) + g[x]
<1> DEFINE S == DOMAIN f
<1>1. IsFiniteSet(DOMAIN g)
  BY FS_AddElement
<1>2. (S \cup {x}) \ {x} = S
  OBVIOUS
<1>3. SumOver(g, DOMAIN g) = g[x] + SumOver(g, (S \cup {x}) \ {x})
  <2>1. x \in DOMAIN g /\ DOMAIN g \in SUBSET DOMAIN g
    OBVIOUS
  <2> QED
    BY <1>1, <2>1, SumTakesOut
<1>4. SumOver(g, S) = SumOver(f, S)
  BY <1>1, SumDepends
<1>5. SumOver(f, S) \in Int
  BY SumIsInt
<1> QED
  BY <1>2, <1>3, <1>4, <1>5, SumIsOverAll

(* More of sums: over a part, over two parts, by groups, and of several.   *)

LEMMA SumOfPart ==
    ASSUME NEW f, NEW g, IsFiniteSet(DOMAIN f), NEW s \in SUBSET DOMAIN f, DOMAIN g = s,
           \A x \in s : g[x] = f[x]
    PROVE  SumFunction(g) = SumOver(f, s)
<1>1. IsFiniteSet(s)
  BY FS_Subset
<1>2. SumOver(g, s) = SumOver(f, s)
  BY <1>1, SumDepends
<1> QED BY <1>2, SumIsOverAll

LEMMA SumOfParts ==
    ASSUME NEW f, IsFiniteSet(DOMAIN f), \A x \in DOMAIN f : f[x] \in Int,
           NEW a \in SUBSET DOMAIN f, NEW b \in SUBSET DOMAIN f, a \cap b = {}
    PROVE  SumOver(f, a \cup b) = SumOver(f, a) + SumOver(f, b)
<1> DEFINE Bad == {t \in SUBSET a : SumOver(f, t \cup b) # SumOver(f, t) + SumOver(f, b)}
<1>1. Bad = {}
  <2> SUFFICES ASSUME Bad # {} PROVE FALSE
    OBVIOUS
  <2>1. IsFiniteSet(a)
    BY FS_Subset
  <2>2. PICK t \in Bad : \A u \in Bad : ~ (Cardinality(u) < Cardinality(t))
    <3>1. Bad \in SUBSET (SUBSET a)
      OBVIOUS
    <3> HIDE DEF Bad
    <3> QED BY <2>1, <3>1, SmallestSet
  <2>3. t \in SUBSET a /\ SumOver(f, t \cup b) # SumOver(f, t) + SumOver(f, b)
    OBVIOUS
  <2>4. SumOver(f, b) \in Int
    BY SumIsInt
  <2>5. t # {}
    <3> SUFFICES ASSUME t = {} PROVE FALSE
      OBVIOUS
    <3>1. t \cup b = b
      OBVIOUS
    <3> QED BY <2>3, <2>4, <3>1, SumOfNothing
  <2> DEFINE x == Picked(t)
             r == t \ {x}
  <2>6. x \in t
    BY <2>5, PickedIsIn
  <2> HIDE DEF x
  <2>7. SumOver(f, t) = f[x] + SumOver(f, r)
    BY <2>3, <2>6, SumTakesOut
  <2>8. r \in SUBSET a /\ Cardinality(r) < Cardinality(t)
    BY <2>1, <2>3, <2>6, OneLess
  <2>9. SumOver(f, r \cup b) = SumOver(f, r) + SumOver(f, b)
    BY <2>2, <2>8
  <2>10. t \cup b \in SUBSET DOMAIN f /\ x \in t \cup b /\ (t \cup b) \ {x} = r \cup b
    BY <2>3, <2>6
  <2>11. SumOver(f, t \cup b) = f[x] + SumOver(f, r \cup b)
    BY <2>10, SumTakesOut
  <2>12. f[x] \in Int /\ SumOver(f, r) \in Int
    BY <2>3, <2>6, <2>8, SumIsInt
  <2> QED BY <2>3, <2>4, <2>7, <2>9, <2>11, <2>12
<1> QED BY <1>1

\* What is not negative adds up to no less when there is more of it.
LEMMA SumsAreNat ==
    ASSUME NEW f, IsFiniteSet(DOMAIN f), \A x \in DOMAIN f : f[x] \in Nat, NEW s \in SUBSET DOMAIN f
    PROVE  SumOver(f, s) \in Nat
<1> DEFINE Bad == {t \in SUBSET DOMAIN f : SumOver(f, t) \notin Nat}
<1> SUFFICES ASSUME Bad # {} PROVE FALSE
  OBVIOUS
<1>1. PICK t \in Bad : \A u \in Bad : ~ (Cardinality(u) < Cardinality(t))
  <2>1. Bad \in SUBSET (SUBSET DOMAIN f)
    OBVIOUS
  <2> HIDE DEF Bad
  <2> QED BY <2>1, SmallestSet
<1>2. t \in SUBSET DOMAIN f /\ SumOver(f, t) \notin Nat
  OBVIOUS
<1>3. t # {}
  BY <1>2, SumOfNothing
<1>4. Picked(t) \in t
  BY <1>3, PickedIsIn
<1>5. t \ {Picked(t)} \in SUBSET DOMAIN f /\ Cardinality(t \ {Picked(t)}) < Cardinality(t)
  BY <1>2, <1>4, OneLess
<1>6. SumOver(f, t \ {Picked(t)}) \in Nat
  BY <1>1, <1>5
<1>7. SumOver(f, t) = f[Picked(t)] + SumOver(f, t \ {Picked(t)})
  BY <1>2, <1>3, SumPicks
<1> QED BY <1>2, <1>4, <1>6, <1>7

LEMMA SumOfPartIsLess ==
    ASSUME NEW f, IsFiniteSet(DOMAIN f), \A x \in DOMAIN f : f[x] \in Nat, NEW s \in SUBSET DOMAIN f
    PROVE  SumOver(f, s) <= SumFunction(f)
<1> DEFINE rest == DOMAIN f \ s
<1>1. s \cup rest = DOMAIN f /\ s \cap rest = {}
  OBVIOUS
<1>2. SumOver(f, s \cup rest) = SumOver(f, s) + SumOver(f, rest)
  BY <1>1, SumOfParts
<1>3. SumOver(f, s) \in Nat /\ SumOver(f, rest) \in Nat
  BY SumsAreNat
<1> QED BY <1>1, <1>2, <1>3, SumIsOverAll

\* Each is a part of another, and no two of the same.
LEMMA SumOfOwned ==
    ASSUME NEW f, NEW p, IsFiniteSet(DOMAIN f), IsFiniteSet(DOMAIN p),
           \A u \in DOMAIN f : f[u] \in Nat, \A x \in DOMAIN p : p[x] \in Nat,
           \A u \in DOMAIN f : u.of \in DOMAIN p /\ f[u] = p[u.of],
           \A a, b \in DOMAIN f : a.of = b.of => a = b
    PROVE  SumFunction(f) <= SumFunction(p)
<1> DEFINE owners(t) == {u.of : u \in t}
           U   == DOMAIN f
           Bad == {t \in SUBSET U : SumOver(f, t) # SumOver(p, owners(t))}
<1>1. Bad = {}
  <2> SUFFICES ASSUME Bad # {} PROVE FALSE
    OBVIOUS
  <2>1. PICK t \in Bad : \A u \in Bad : ~ (Cardinality(u) < Cardinality(t))
    <3>1. Bad \in SUBSET (SUBSET U)
      OBVIOUS
    <3> HIDE DEF Bad
    <3> QED BY <3>1, SmallestSet
  <2>2. t \in SUBSET U /\ SumOver(f, t) # SumOver(p, owners(t))
    OBVIOUS
  <2>3. t # {}
    <3> SUFFICES ASSUME t = {} PROVE FALSE
      OBVIOUS
    <3>1. owners(t) = {}
      OBVIOUS
    <3> QED BY <2>2, <3>1, SumOfNothing
  <2> DEFINE x == Picked(t)
             r == t \ {x}
  <2>4. x \in t /\ SumOver(f, t) = f[x] + SumOver(f, r)
    BY <2>2, <2>3, PickedIsIn, SumPicks
  <2> HIDE DEF x
  <2>5. r \in SUBSET U /\ Cardinality(r) < Cardinality(t)
    BY <2>2, <2>4, OneLess
  <2>6. SumOver(f, r) = SumOver(p, owners(r))
    BY <2>1, <2>5
  <2>7. owners(t) \in SUBSET DOMAIN p /\ x.of \in owners(t) /\ owners(t) \ {x.of} = owners(r)
    BY <2>2, <2>4
  <2>8. SumOver(p, owners(t)) = p[x.of] + SumOver(p, owners(r))
    <3> DEFINE all == owners(t)
               one == x.of
               few == owners(r)
    <3>1. all \in SUBSET DOMAIN p /\ one \in all /\ all \ {one} = few
      BY <2>7
    <3>2. \A y \in DOMAIN p : p[y] \in Int
      OBVIOUS
    <3> HIDE DEF all, one, few
    <3>3. SumOver(p, all) = p[one] + SumOver(p, all \ {one})
      BY <3>1, <3>2, SumTakesOut
    <3>4. SumOver(p, all) = p[one] + SumOver(p, few)
      BY <3>1, <3>3
    <3> QED BY <3>4 DEF all, one, few
  <2>9. f[x] = p[x.of]
    BY <2>2, <2>4
  <2> QED BY <2>2, <2>4, <2>6, <2>8, <2>9
<1>2. SumFunction(f) = SumOver(p, owners(U))
  BY <1>1, SumIsOverAll
<1>3. owners(U) \in SUBSET DOMAIN p
  OBVIOUS
<1> HIDE DEF owners
<1> QED BY <1>2, <1>3, SumOfPartIsLess

\* A count is a sum of ones.
LEMMA CountIsSum ==
    ASSUME NEW f, IsFiniteSet(DOMAIN f), \A x \in DOMAIN f : f[x] = 1, NEW s \in SUBSET DOMAIN f
    PROVE  SumOver(f, s) = Cardinality(s)
<1> DEFINE Bad == {t \in SUBSET DOMAIN f : SumOver(f, t) # Cardinality(t)}
<1> SUFFICES ASSUME Bad # {} PROVE FALSE
  OBVIOUS
<1>1. PICK t \in Bad : \A u \in Bad : ~ (Cardinality(u) < Cardinality(t))
  <2>1. Bad \in SUBSET (SUBSET DOMAIN f)
    OBVIOUS
  <2> HIDE DEF Bad
  <2> QED BY <2>1, SmallestSet
<1>2. t \in SUBSET DOMAIN f /\ SumOver(f, t) # Cardinality(t)
  OBVIOUS
<1>3. t # {}
  BY <1>2, SumOfNothing, FS_EmptySet
<1>4. Picked(t) \in t
  BY <1>3, PickedIsIn
<1>5. /\ t \ {Picked(t)} \in SUBSET DOMAIN f /\ Cardinality(t) \in Nat
      /\ Cardinality(t \ {Picked(t)}) = Cardinality(t) - 1
  BY <1>2, <1>4, OneLess
<1>6. SumOver(f, t \ {Picked(t)}) = Cardinality(t) - 1
  BY <1>1, <1>5
<1>7. SumOver(f, t) = f[Picked(t)] + SumOver(f, t \ {Picked(t)})
  BY <1>2, <1>3, SumPicks
<1> QED BY <1>2, <1>4, <1>5, <1>6, <1>7

\* The sum by groups is the sum.
LEMMA SumByModels ==
    ASSUME NEW f, IsFiniteSet(DOMAIN f), \A x \in DOMAIN f : f[x] \in Int, NEW T, IsFiniteSet(T)
    PROVE  LET group(m) == {u \in DOMAIN f : u.model = m}
           IN SumFunction([m \in T |-> SumOver(f, group(m))]) = SumOver(f, {u \in DOMAIN f : u.model \in T})
<1> DEFINE group(m) == {u \in DOMAIN f : u.model = m}
           of(s)    == {u \in DOMAIN f : u.model \in s}
           g        == [m \in T |-> SumOver(f, group(m))]
           Bad      == {s \in SUBSET T : SumOver(g, s) # SumOver(f, of(s))}
<1>1. DOMAIN g = T /\ \A m \in T : g[m] = SumOver(f, group(m))
  OBVIOUS
<1> HIDE DEF g
<1>2. Bad = {}
  <2> SUFFICES ASSUME Bad # {} PROVE FALSE
    OBVIOUS
  <2>1. PICK s \in Bad : \A u \in Bad : ~ (Cardinality(u) < Cardinality(s))
    <3>1. Bad \in SUBSET (SUBSET T)
      OBVIOUS
    <3> HIDE DEF Bad
    <3> QED BY <3>1, SmallestSet
  <2>2. s \in SUBSET T /\ SumOver(g, s) # SumOver(f, of(s))
    OBVIOUS
  <2>3. s # {}
    <3> SUFFICES ASSUME s = {} PROVE FALSE
      OBVIOUS
    <3>1. of(s) = {}
      OBVIOUS
    <3>2. SumOver(g, s) = 0
      BY <1>1, SumOfNothing
    <3>3. SumOver(f, of(s)) = 0
      <4> HIDE DEF of
      <4> QED BY <3>1, SumOfNothing
    <3> QED BY <2>2, <3>2, <3>3
  <2> DEFINE m == Picked(s)
             r == s \ {m}
  <2>4. m \in s /\ SumOver(g, s) = g[m] + SumOver(g, r)
    BY <1>1, <2>2, <2>3, PickedIsIn, SumPicks
  <2> HIDE DEF m
  <2>5. r \in SUBSET T /\ Cardinality(r) < Cardinality(s)
    BY <2>2, <2>4, OneLess
  <2>6. SumOver(g, r) = SumOver(f, of(r))
    BY <2>1, <2>5
  <2>7. /\ of(s) = group(m) \cup of(r) /\ group(m) \cap of(r) = {}
        /\ group(m) \in SUBSET DOMAIN f /\ of(r) \in SUBSET DOMAIN f
    BY <2>4
  <2>8. g[m] = SumOver(f, group(m))
    BY <1>1, <2>2, <2>4
  <2>9. SumOver(f, of(s)) = SumOver(f, group(m)) + SumOver(f, of(r))
    <3> DEFINE all == of(s)
               one == group(m)
               few == of(r)
    <3>1. all = one \cup few /\ one \cap few = {} /\ one \in SUBSET DOMAIN f /\ few \in SUBSET DOMAIN f
      BY <2>7
    <3> HIDE DEF all, one, few
    <3>2. SumOver(f, one \cup few) = SumOver(f, one) + SumOver(f, few)
      BY <3>1, SumOfParts
    <3>3. SumOver(f, all) = SumOver(f, one) + SumOver(f, few)
      BY <3>1, <3>2
    <3> QED BY <3>3 DEF all, one, few
  <2> HIDE DEF group, of
  <2> QED BY <2>2, <2>4, <2>6, <2>8, <2>9
<1>3. SumFunction(g) = SumOver(f, of(T))
  <2>1. SumOver(g, T) = SumOver(f, of(T))
    BY <1>2
  <2> QED BY <1>1, <2>1, SumIsOverAll
<1> QED BY <1>3 DEF g

\* A price is charged for many calls as it is for each.
LEMMA ChargeIsLinear ==
    ASSUME NEW S, IsFiniteSet(S), NEW h, NEW f, NEW g, NEW p, p.input \in Int, p.output \in Int,
           DOMAIN f = S, DOMAIN g = S, DOMAIN h = S, \A x \in S : f[x] \in Int, \A x \in S : g[x] \in Int,
           NEW s \in SUBSET S, \A x \in s : h[x] = Charge(p, f[x], g[x])
    PROVE  SumOver(h, s) = Charge(p, SumOver(f, s), SumOver(g, s))
<1> DEFINE a == p.input
           b == p.output
<1>0. a \in Int /\ b \in Int /\ \A x \in s : h[x] = f[x] * a + g[x] * b
  BY DEF Charge
<1> HIDE DEF a, b
<1> DEFINE Bad == {t \in SUBSET s : SumOver(h, t) # SumOver(f, t) * a + SumOver(g, t) * b}
<1>1. Bad = {}
  <2> SUFFICES ASSUME Bad # {} PROVE FALSE
    OBVIOUS
  <2>1. PICK t \in Bad : \A u \in Bad : ~ (Cardinality(u) < Cardinality(t))
    <3>1. Bad \in SUBSET (SUBSET s) /\ IsFiniteSet(s)
      BY FS_Subset
    <3> HIDE DEF Bad
    <3> QED BY <3>1, SmallestSet
  <2>2. t \in SUBSET DOMAIN f /\ t \in SUBSET s /\ SumOver(h, t) # SumOver(f, t) * a + SumOver(g, t) * b
    OBVIOUS
  <2>3. t # {}
    <3> SUFFICES ASSUME t = {} PROVE FALSE
      OBVIOUS
    <3>1. SumOver(h, t) = 0 /\ SumOver(f, t) = 0 /\ SumOver(g, t) = 0
      BY SumOfNothing
    <3> QED BY <1>0, <2>2, <3>1
  <2> DEFINE x == Picked(t)
             r == t \ {x}
  <2>4. x \in t
    BY <2>3, PickedIsIn
  <2>5. /\ SumOver(h, t) = h[x] + SumOver(h, r)
        /\ SumOver(f, t) = f[x] + SumOver(f, r)
        /\ SumOver(g, t) = g[x] + SumOver(g, r)
    BY <2>2, <2>3, SumPicks
  <2> HIDE DEF x
  <2>6. r \in SUBSET s /\ Cardinality(r) < Cardinality(t)
    <3>1. IsFiniteSet(s)
      BY FS_Subset
    <3> QED BY <2>2, <2>4, <3>1, OneLess
  <2>7. SumOver(h, r) = SumOver(f, r) * a + SumOver(g, r) * b
    BY <2>1, <2>6
  <2>8. h[x] = f[x] * a + g[x] * b
    BY <1>0, <2>2, <2>4
  <2>9. f[x] \in Int /\ g[x] \in Int /\ SumOver(f, r) \in Int /\ SumOver(g, r) \in Int
    BY <2>2, <2>4, <2>6, SumIsInt
  <2> DEFINE u == SumOver(f, r)
             v == SumOver(g, r)
             k == f[x]
             l == g[x]
  <2>10. ASSUME NEW i \in Int, NEW j \in Int, NEW c \in Int, NEW d \in Int
         PROVE  (i * a + j * b) + (c * a + d * b) = (i + c) * a + (j + d) * b
    BY <1>0
  <2>11. SumOver(h, t) = (k * a + l * b) + (u * a + v * b)
    BY <2>5, <2>7, <2>8
  <2>12. k \in Int /\ l \in Int /\ u \in Int /\ v \in Int
    BY <2>9
  <2>13. SumOver(f, t) = k + u /\ SumOver(g, t) = l + v
    BY <2>5
  <2> HIDE DEF k, l, u, v
  <2>14. SumOver(h, t) = (k + u) * a + (l + v) * b
    BY <2>10, <2>11, <2>12
  <2> QED BY <2>2, <2>13, <2>14
<1>2. SumOver(h, s) = SumOver(f, s) * a + SumOver(g, s) * b
  BY <1>1
<1> QED BY <1>2 DEF Charge, a, b

LEMMA MoreThanOne ==
    ASSUME NEW S, IsFiniteSet(S)
    PROVE  Cardinality(S) > 1 <=> \E x, y \in S : x # y
<1>1. Cardinality(S) \in Nat
  BY FS_CardinalityType
<1>2. ASSUME Cardinality(S) > 1 PROVE \E x, y \in S : x # y
  <2>1. S # {}
    BY <1>2, FS_EmptySet
  <2>2. PICK x \in S : TRUE
    BY <2>1
  <2>3. IsFiniteSet(S \ {x}) /\ Cardinality(S \ {x}) = Cardinality(S) - 1
    BY FS_RemoveElement
  <2>4. S \ {x} # {}
    <3> SUFFICES ASSUME S \ {x} = {} PROVE FALSE
      OBVIOUS
    <3>1. Cardinality(S \ {x}) = 0
      BY FS_EmptySet
    <3> QED BY <1>1, <1>2, <2>3, <3>1
  <2> QED BY <2>2, <2>4
<1>3. ASSUME NEW x \in S, NEW y \in S, x # y PROVE Cardinality(S) > 1
  <2>1. IsFiniteSet(S \ {x}) /\ Cardinality(S \ {x}) = Cardinality(S) - 1 /\ Cardinality(S \ {x}) \in Nat
    BY FS_RemoveElement, FS_CardinalityType
  <2>2. S \ {x} # {}
    BY <1>3
  <2>3. Cardinality(S \ {x}) # 0
    BY <2>1, <2>2, FS_EmptySet
  <2> QED BY <1>1, <2>1, <2>3
<1> QED BY <1>2, <1>3

-----------------------------------------------------------------------------
(* What a metric adds up to.                                               *)
Counted(series)  == IsFiniteSet(DOMAIN series) /\ \A k \in DOMAIN series : series[k] \in Int
Observed(series) ==
    /\ IsFiniteSet(DOMAIN series)
    /\ \A k \in DOMAIN series : series[k].total \in Int /\ series[k].observations \in Int

Part(series, field) == SumFunction([s \in DOMAIN series |-> series[s][field]])

\* Whichever series an amount is counted under, the metric grows by it.
LEMMA IncrementAdds ==
    ASSUME NEW series, Counted(series), NEW allowed, NEW labels, NEW amount \in Int
    PROVE  LET more == Increment(series, allowed, labels, amount)
           IN Counted(more) /\ SumFunction(more) = SumFunction(series) + amount
<1> DEFINE slot == Slot(series, Key(allowed, labels))
           more == Increment(series, allowed, labels, amount)
           held == DOMAIN series
<1>1. more = [Extended(series, slot, 0) EXCEPT ![slot] = @ + amount]
  BY DEF Increment
<1> HIDE DEF slot, more
<1>2. DOMAIN more = held \cup {slot}
  BY <1>1 DEF Extended
<1>3. \A k \in held \ {slot} : more[k] = series[k]
  BY <1>1 DEF Extended
<1>4. more[slot] = (IF slot \in held THEN series[slot] ELSE 0) + amount
  BY <1>1 DEF Extended
<1>5. IsFiniteSet(held) /\ IsFiniteSet(held \cup {slot})
  BY FS_AddElement DEF Counted
<1>6. Counted(more)
  <2>1. more[slot] \in Int
    BY <1>4 DEF Counted
  <2> QED BY <1>2, <1>3, <1>5, <2>1 DEF Counted
<1>7. CASE slot \in held
  <2>1. DOMAIN more = held
    BY <1>2, <1>7
  <2>2. \A k \in held : series[k] \in Int /\ more[k] \in Int
    BY <1>6, <2>1 DEF Counted
  <2>3. SumFunction(more) = SumFunction(series) + more[slot] - series[slot]
    BY <1>3, <1>5, <1>7, <2>1, <2>2, SumChanges
  <2>4. SumFunction(series) \in Int /\ series[slot] \in Int /\ more[slot] = series[slot] + amount
    BY <1>4, <1>5, <1>7, <2>2, SumType
  <2> QED BY <1>6, <2>3, <2>4 DEF more
<1>8. CASE slot \notin held
  <2>1. \A k \in held : series[k] = more[k]
    BY <1>3, <1>8
  <2>2. \A k \in DOMAIN more : more[k] \in Int
    BY <1>6 DEF Counted
  <2>3. SumFunction(more) = SumFunction(series) + more[slot]
    BY <1>2, <1>5, <1>8, <2>1, <2>2, SumExtends
  <2>4. more[slot] = amount
    BY <1>4, <1>8
  <2> QED BY <1>6, <2>3, <2>4 DEF more
<1> QED BY <1>7, <1>8

\* One observation more, and its value.
LEMMA ObserveAdds ==
    ASSUME NEW series, Observed(series), NEW allowed, NEW labels, NEW value \in Int
    PROVE  LET more == Observe(series, allowed, labels, value)
           IN /\ Observed(more)
              /\ Part(more, "total") = Part(series, "total") + value
              /\ Part(more, "observations") = Part(series, "observations") + 1
<1> DEFINE slot == Slot(series, Key(allowed, labels))
           more == Observe(series, allowed, labels, value)
           held == DOMAIN series
           old  == Extended(series, slot, Unobserved)[slot]
           totals(s)  == [k \in DOMAIN s |-> s[k]["total"]]
           numbers(s) == [k \in DOMAIN s |-> s[k]["observations"]]
<1>1. more = [Extended(series, slot, Unobserved) EXCEPT ![slot] =
                [counts       |-> [b \in Buckets |-> IF value <= b THEN old.counts[b] + 1 ELSE old.counts[b]],
                 total        |-> old.total + value,
                 observations |-> old.observations + 1]]
  BY DEF Observe
<1>2. old = IF slot \in held THEN series[slot] ELSE Unobserved
  BY DEF Extended
<1> HIDE DEF slot, more, old
<1>3. DOMAIN more = held \cup {slot}
  BY <1>1 DEF Extended
<1>4. \A k \in held \ {slot} : more[k] = series[k]
  BY <1>1 DEF Extended
<1>5. more[slot].total = old.total + value /\ more[slot].observations = old.observations + 1
  BY <1>1 DEF Extended
<1>6. slot \notin held => old.total = 0 /\ old.observations = 0
  BY <1>2 DEF Unobserved
<1>7. old.total \in Int /\ old.observations \in Int
  BY <1>2, <1>6 DEF Observed
<1>8. IsFiniteSet(held) /\ IsFiniteSet(held \cup {slot})
  BY FS_AddElement DEF Observed
<1>9. Observed(more)
  <2>1. more[slot].total \in Int /\ more[slot].observations \in Int
    BY <1>5, <1>7
  <2> QED BY <1>3, <1>4, <1>8, <2>1 DEF Observed
<1>10. CASE slot \in held
  <2>1. DOMAIN more = held
    BY <1>3, <1>10
  <2>2. \A k \in held : /\ totals(series)[k] \in Int /\ totals(more)[k] \in Int
                        /\ numbers(series)[k] \in Int /\ numbers(more)[k] \in Int
    BY <1>9, <2>1 DEF Observed
  <2>3. /\ \A k \in held \ {slot} : totals(more)[k] = totals(series)[k] /\ numbers(more)[k] = numbers(series)[k]
        /\ totals(series)[slot] = old.total /\ totals(more)[slot] = old.total + value
        /\ numbers(series)[slot] = old.observations /\ numbers(more)[slot] = old.observations + 1
    BY <1>2, <1>4, <1>5, <1>10, <2>1
  <2>4. DOMAIN totals(series) = held /\ DOMAIN totals(more) = held
        /\ DOMAIN numbers(series) = held /\ DOMAIN numbers(more) = held
    BY <2>1
  <2> HIDE DEF totals, numbers
  <2>5. SumFunction(totals(more)) = SumFunction(totals(series)) + totals(more)[slot] - totals(series)[slot]
    BY <1>8, <1>10, <2>2, <2>3, <2>4, SumChanges
  <2>6. SumFunction(numbers(more)) = SumFunction(numbers(series)) + numbers(more)[slot] - numbers(series)[slot]
    BY <1>8, <1>10, <2>2, <2>3, <2>4, SumChanges
  <2>7. SumFunction(totals(series)) \in Int /\ SumFunction(numbers(series)) \in Int
    BY <1>8, <2>2, <2>4, SumType
  <2>8. /\ SumFunction(totals(more)) = SumFunction(totals(series)) + value
        /\ SumFunction(numbers(more)) = SumFunction(numbers(series)) + 1
    BY <1>7, <2>3, <2>5, <2>6, <2>7
  <2> QED BY <1>9, <2>8 DEF more, totals, numbers, Part
<1>11. CASE slot \notin held
  <2>1. /\ DOMAIN totals(series) = held /\ DOMAIN totals(more) = held \cup {slot}
        /\ DOMAIN numbers(series) = held /\ DOMAIN numbers(more) = held \cup {slot}
    BY <1>3
  <2>2. /\ \A k \in held : totals(series)[k] = totals(more)[k] /\ numbers(series)[k] = numbers(more)[k]
        /\ totals(more)[slot] = value /\ numbers(more)[slot] = 1
    BY <1>3, <1>4, <1>5, <1>6, <1>11
  <2>3. \A k \in held \cup {slot} : totals(more)[k] \in Int /\ numbers(more)[k] \in Int
    BY <1>3, <1>9 DEF Observed
  <2> HIDE DEF totals, numbers
  <2>4. SumFunction(totals(more)) = SumFunction(totals(series)) + totals(more)[slot]
    BY <1>8, <1>11, <2>1, <2>2, <2>3, SumExtends
  <2>5. SumFunction(numbers(more)) = SumFunction(numbers(series)) + numbers(more)[slot]
    BY <1>8, <1>11, <2>1, <2>2, <2>3, SumExtends
  <2>6. /\ SumFunction(totals(more)) = SumFunction(totals(series)) + value
        /\ SumFunction(numbers(more)) = SumFunction(numbers(series)) + 1
    BY <2>2, <2>4, <2>5
  <2> QED BY <1>9, <2>6 DEF more, totals, numbers, Part
<1> QED BY <1>10, <1>11

LEMMA CountTokensAdds ==
    ASSUME NEW series, Counted(series), NEW model, NEW direction, NEW n \in Nat
    PROVE  LET more == CountTokens(series, model, direction, n)
           IN Counted(more) /\ SumFunction(more) = SumFunction(series) + n
<1>1. CASE n = 0
  <2>1. SumFunction(series) \in Int
    BY SumType DEF Counted
  <2> QED BY <1>1, <2>1 DEF CountTokens
<1>2. CASE n # 0
  BY <1>2, IncrementAdds DEF CountTokens
<1> QED BY <1>1, <1>2

(* The five metrics of a model call, as numbers.                           *)
Numbers(m) ==
    /\ DOMAIN m = {"calls", "durations", "tokens", "retries", "errors"}
    /\ Counted(m.calls) /\ Observed(m.durations) /\ Counted(m.tokens)
    /\ Counted(m.retries) /\ Counted(m.errors)

LEMMA CallAdds ==
    ASSUME NEW m, Numbers(m), NEW model, NEW op, NEW outcome, NEW time \in Int, NEW tokens \in Counts
    PROVE  LET n == RecordLlmCall(m, model, op, outcome, time, tokens)
           IN /\ Numbers(n)
              /\ SumFunction(n.calls) = SumFunction(m.calls) + 1
              /\ Part(n.durations, "total") = Part(m.durations, "total") + time
              /\ Part(n.durations, "observations") = Part(m.durations, "observations") + 1
              /\ SumFunction(n.tokens) = SumFunction(m.tokens) + tokens.input + tokens.output
              /\ n.retries = m.retries /\ n.errors = m.errors
<1> DEFINE calls     == Increment(m.calls, CallLabels, <<model, op, outcome>>, 1)
           durations == Observe(m.durations, DurationLabels, <<model, op>>, time)
           reads     == CountTokens(m.tokens, model, "input", tokens.input)
           counted   == CountTokens(reads, model, "output", tokens.output)
           n         == [m EXCEPT !.calls = calls, !.durations = durations, !.tokens = counted]
<1>1. RecordLlmCall(m, model, op, outcome, time, tokens) = n
  BY DEF RecordLlmCall
<1>2. tokens.input \in Nat /\ tokens.output \in Nat
  BY DEF Counts
<1>3. Counted(calls) /\ SumFunction(calls) = SumFunction(m.calls) + 1
  BY IncrementAdds DEF Numbers
<1>4. /\ Observed(durations)
      /\ Part(durations, "total") = Part(m.durations, "total") + time
      /\ Part(durations, "observations") = Part(m.durations, "observations") + 1
  BY ObserveAdds DEF Numbers
<1>5. Counted(reads) /\ SumFunction(reads) = SumFunction(m.tokens) + tokens.input
  BY <1>2, CountTokensAdds DEF Numbers
<1>6. Counted(counted) /\ SumFunction(counted) = SumFunction(reads) + tokens.output
  BY <1>2, <1>5, CountTokensAdds
<1> HIDE DEF calls, durations, reads, counted
<1>7. /\ n.calls = calls /\ n.durations = durations /\ n.tokens = counted
      /\ n.retries = m.retries /\ n.errors = m.errors /\ DOMAIN n = DOMAIN m
  BY DEF Numbers
<1> HIDE DEF n
<1>8. Numbers(n)
  BY <1>3, <1>4, <1>6, <1>7 DEF Numbers
<1>9. SumFunction(counted) = SumFunction(m.tokens) + tokens.input + tokens.output
  BY <1>5, <1>6
<1> QED BY <1>1, <1>3, <1>4, <1>7, <1>8, <1>9

LEMMA RetryAdds ==
    ASSUME NEW m, Numbers(m)
    PROVE  LET n == RecordLlmRetry(m)
           IN /\ Numbers(n)
              /\ SumFunction(n.retries) = SumFunction(m.retries) + 1
              /\ n.calls = m.calls /\ n.durations = m.durations /\ n.tokens = m.tokens /\ n.errors = m.errors
<1> DEFINE retries == Increment(m.retries, RetryLabels, <<>>, 1)
           n       == [m EXCEPT !.retries = retries]
<1>1. RecordLlmRetry(m) = n
  BY DEF RecordLlmRetry
<1>2. Counted(retries) /\ SumFunction(retries) = SumFunction(m.retries) + 1
  BY IncrementAdds DEF Numbers
<1> HIDE DEF retries
<1>3. /\ n.retries = retries /\ n.calls = m.calls /\ n.durations = m.durations
      /\ n.tokens = m.tokens /\ n.errors = m.errors /\ DOMAIN n = DOMAIN m
  BY DEF Numbers
<1> HIDE DEF n
<1>4. Numbers(n)
  BY <1>2, <1>3 DEF Numbers
<1> QED BY <1>1, <1>2, <1>3, <1>4

LEMMA ErrorAdds ==
    ASSUME NEW m, Numbers(m), NEW code, NEW layer
    PROVE  LET n == RecordError(m, code, layer)
           IN /\ Numbers(n)
              /\ SumFunction(n.errors) = SumFunction(m.errors) + 1
              /\ n.calls = m.calls /\ n.durations = m.durations /\ n.tokens = m.tokens /\ n.retries = m.retries
<1> DEFINE errors == Increment(m.errors, ErrorLabels, <<code, layer>>, 1)
           n      == [m EXCEPT !.errors = errors]
<1>1. RecordError(m, code, layer) = n
  BY DEF RecordError
<1>2. Counted(errors) /\ SumFunction(errors) = SumFunction(m.errors) + 1
  BY IncrementAdds DEF Numbers
<1> HIDE DEF errors
<1>3. /\ n.errors = errors /\ n.calls = m.calls /\ n.durations = m.durations
      /\ n.tokens = m.tokens /\ n.retries = m.retries /\ DOMAIN n = DOMAIN m
  BY DEF Numbers
<1> HIDE DEF n
<1>4. Numbers(n)
  BY <1>2, <1>3 DEF Numbers
<1> QED BY <1>1, <1>2, <1>3, <1>4

-----------------------------------------------------------------------------
(* What the calls add up to.                                               *)
OpenCalls   == {g \in Generations : gen[g].pc = "call"}
EndedCalls  == {g \in Generations : gen[g].attempt > 0 /\ gen[g].pc \notin {"call", "wait"}}
FailedCalls == {g \in EndedCalls : gen[g].status \in FailedWith}

Attempts == SumFunction([g \in Generations |-> gen[g].attempt])
HeldFor  == SumFunction([g \in EndedCalls |-> gen[g].waited])
PaidFor  == SumFunction([g \in Generations |-> Spent(g)])

\* The metrics agree with the calls.
SumInv ==
    /\ CallsInv
    /\ Numbers(measured)
    /\ Attempts = SumFunction(measured.calls) + SumFunction(measured.retries) + Cardinality(OpenCalls)
    /\ SumFunction(measured.calls) = Cardinality(EndedCalls)
    /\ SumFunction(measured.errors) = Cardinality(FailedCalls)
    /\ Part(measured.durations, "observations") = Cardinality(EndedCalls)
    /\ Part(measured.durations, "total") = HeldFor
    /\ SumFunction(measured.tokens) = PaidFor

LEMMA OneMoves ==
    ASSUME NEW S, IsFiniteSet(S), NEW A \in SUBSET S, NEW B \in SUBSET S, NEW g \in S,
           \A h \in S \ {g} : h \in A <=> h \in B
    PROVE  /\ Cardinality(A) \in Nat /\ Cardinality(B) \in Nat
           /\ Cardinality(B) = Cardinality(A) + (IF g \in B THEN 1 ELSE 0) - (IF g \in A THEN 1 ELSE 0)
<1>1. /\ IsFiniteSet(A) /\ IsFiniteSet(B) /\ Cardinality(A) \in Nat /\ Cardinality(B) \in Nat
  BY FS_Subset, FS_CardinalityType
<1>2. CASE g \in A /\ g \in B
  <2>1. A = B
    BY <1>2
  <2> QED BY <1>1, <1>2, <2>1
<1>3. CASE g \notin A /\ g \notin B
  <2>1. A = B
    BY <1>3
  <2> QED BY <1>1, <1>3, <2>1
<1>4. CASE g \notin A /\ g \in B
  <2>1. B = A \cup {g}
    BY <1>4
  <2>2. Cardinality(B) = Cardinality(A) + 1
    BY <1>1, <1>4, <2>1, FS_AddElement
  <2> QED BY <1>1, <1>4, <2>2
<1>5. CASE g \in A /\ g \notin B
  <2>1. B = A \ {g}
    BY <1>5
  <2>2. Cardinality(B) = Cardinality(A) - 1
    BY <1>1, <1>5, <2>1, FS_RemoveElement
  <2> QED BY <1>1, <1>5, <2>2
<1> QED BY <1>2, <1>3, <1>4, <1>5

\* The other calls stay, and this one is what it became.
LEMMA BecomesFields ==
    ASSUME CallsInv, NEW g \in Generations, NEW pc, NEW attempt, NEW waited, NEW tokens, NEW status,
           Becomes(g, pc, attempt, waited, tokens, status)
    PROVE  /\ gen'[g].pc = pc /\ gen'[g].attempt = attempt /\ gen'[g].waited = waited
           /\ gen'[g].tokens = tokens /\ gen'[g].status = status
           /\ \A h \in Generations \ {g} : gen'[h] = gen[h]
BY DEF Becomes, CallsInv

LEMMA CallsAreNumbers ==
    ASSUME MaxRetries \in Nat, MaxDelay \in Nat, CallsInv, NEW g \in Generations
    PROVE  gen[g].attempt \in Nat /\ gen[g].waited \in Nat /\ Spent(g) \in Nat
BY CallIs, CallNumbers DEF Spent

\* What one step of one call changes in what the calls add up to.
LEMMA SumsMove ==
    ASSUME MaxRetries \in Nat, MaxDelay \in Nat, IsFiniteSet(Generations), CallsInv, CallsInv',
           NEW g \in Generations, NEW pc, NEW attempt, NEW waited, NEW tokens, NEW status,
           Becomes(g, pc, attempt, waited, tokens, status)
    PROVE  /\ Attempts \in Int
           /\ Attempts' = Attempts + attempt - gen[g].attempt
           /\ PaidFor \in Int
           /\ PaidFor' = PaidFor + (tokens.input + tokens.output) - Spent(g)
           /\ Cardinality(OpenCalls) \in Int
           /\ Cardinality(OpenCalls)' = Cardinality(OpenCalls) + (IF pc = "call" THEN 1 ELSE 0)
                                          - (IF gen[g].pc = "call" THEN 1 ELSE 0)
<1> DEFINE tries(h) == gen[h].attempt
           f == [h \in Generations |-> gen[h].attempt]
           p == [h \in Generations |-> Spent(h)]
<1>1. /\ gen'[g].pc = pc /\ gen'[g].attempt = attempt /\ gen'[g].waited = waited
      /\ gen'[g].tokens = tokens /\ gen'[g].status = status
      /\ \A h \in Generations \ {g} : gen'[h] = gen[h]
  BY BecomesFields
<1>2. \A h \in Generations : gen[h].attempt \in Int /\ Spent(h) \in Int
  BY CallsAreNumbers
<1>3. \A h \in Generations : gen'[h].attempt \in Int /\ Spent(h)' \in Int
  <2>1. \A h \in Generations : gen'[h] \in CallRecords
    BY DEF CallsInv
  <2> QED BY <2>1, CallNumbers DEF Spent
<1>4. Attempts \in Int /\ PaidFor \in Int
  <2>1. DOMAIN f = Generations /\ DOMAIN p = Generations
    OBVIOUS
  <2>2. (\A h \in DOMAIN f : f[h] \in Int) /\ (\A h \in DOMAIN p : p[h] \in Int)
    BY <1>2
  <2> HIDE DEF f, p
  <2> QED BY <2>1, <2>2, SumType DEF Attempts, PaidFor, f, p
<1>5. SumFunction(f') = SumFunction(f) + f'[g] - f[g]
  <2>1. DOMAIN f = Generations /\ DOMAIN f' = Generations
    OBVIOUS
  <2>2. \A h \in Generations : f[h] \in Int /\ f'[h] \in Int
    BY <1>2, <1>3
  <2>3. \A h \in Generations \ {g} : f'[h] = f[h]
    BY <1>1
  <2> HIDE DEF f
  <2> QED BY <2>1, <2>2, <2>3, SumChanges
<1>6. SumFunction(p') = SumFunction(p) + p'[g] - p[g]
  <2>1. DOMAIN p = Generations /\ DOMAIN p' = Generations
    OBVIOUS
  <2>2. \A h \in Generations : p[h] \in Int /\ p'[h] \in Int
    BY <1>2, <1>3
  <2>3. \A h \in Generations \ {g} : p'[h] = p[h]
    BY <1>1 DEF Spent
  <2> HIDE DEF p
  <2> QED BY <2>1, <2>2, <2>3, SumChanges
<1>7. f'[g] = attempt /\ f[g] = gen[g].attempt /\ p'[g] = tokens.input + tokens.output /\ p[g] = Spent(g)
  BY <1>1 DEF Spent
<1>8. /\ Cardinality(OpenCalls) \in Nat
      /\ Cardinality(OpenCalls)' = Cardinality(OpenCalls) + (IF g \in OpenCalls' THEN 1 ELSE 0)
                                     - (IF g \in OpenCalls THEN 1 ELSE 0)
  <2>1. OpenCalls \in SUBSET Generations /\ OpenCalls' \in SUBSET Generations
    BY DEF OpenCalls
  <2>2. \A h \in Generations \ {g} : h \in OpenCalls <=> h \in OpenCalls'
    BY <1>1 DEF OpenCalls
  <2> QED BY <2>1, <2>2, OneMoves
<1>9. (g \in OpenCalls <=> gen[g].pc = "call") /\ (g \in OpenCalls' <=> pc = "call")
  BY <1>1 DEF OpenCalls
<1>10. SumFunction(f) = Attempts /\ SumFunction(f') = Attempts' /\ SumFunction(p) = PaidFor /\ SumFunction(p') = PaidFor'
  BY DEF Attempts, PaidFor
<1>11. Attempts' = Attempts + attempt - gen[g].attempt
  BY <1>5, <1>7, <1>10
<1>12. PaidFor' = PaidFor + (tokens.input + tokens.output) - Spent(g)
  BY <1>6, <1>7, <1>10
<1> QED BY <1>4, <1>8, <1>9, <1>11, <1>12

\* A step that ends no call: what ended stays as it was.
LEMMA NoneEnds ==
    ASSUME MaxRetries \in Nat, MaxDelay \in Nat, CallsInv, CallsInv',
           NEW g \in Generations, NEW pc, NEW attempt, NEW waited, NEW tokens, NEW status,
           Becomes(g, pc, attempt, waited, tokens, status),
           g \in EndedCalls <=> (attempt > 0 /\ pc \notin {"call", "wait"}),
           g \in EndedCalls => waited = gen[g].waited,
           g \in EndedCalls => status \notin FailedWith /\ gen[g].status \notin FailedWith
    PROVE  EndedCalls' = EndedCalls /\ FailedCalls' = FailedCalls /\ HeldFor' = HeldFor
<1>1. /\ gen'[g].pc = pc /\ gen'[g].attempt = attempt /\ gen'[g].waited = waited /\ gen'[g].status = status
      /\ \A h \in Generations \ {g} : gen'[h] = gen[h]
  BY BecomesFields
<1>2. \A h \in Generations : h \in EndedCalls' <=> h \in EndedCalls
  BY <1>1 DEF EndedCalls
<1>3. EndedCalls' = EndedCalls
  <2>1. EndedCalls \subseteq Generations /\ EndedCalls' \subseteq Generations
    BY DEF EndedCalls
  <2> QED BY <1>2, <2>1
<1>4. \A h \in EndedCalls : gen'[h].waited = gen[h].waited
                            /\ (gen'[h].status \in FailedWith <=> gen[h].status \in FailedWith)
  <2> SUFFICES ASSUME NEW h \in EndedCalls
               PROVE  gen'[h].waited = gen[h].waited
                      /\ (gen'[h].status \in FailedWith <=> gen[h].status \in FailedWith)
    OBVIOUS
  <2>1. h \in Generations
    BY DEF EndedCalls
  <2>2. CASE h = g
    BY <1>1, <2>2
  <2>3. CASE h # g
    BY <1>1, <2>1, <2>3
  <2> QED BY <2>2, <2>3
<1>5. FailedCalls' = FailedCalls
  BY <1>3, <1>4 DEF FailedCalls
<1>6. [h \in EndedCalls' |-> gen'[h].waited] = [h \in EndedCalls |-> gen[h].waited]
  BY <1>3, <1>4
<1> QED BY <1>3, <1>5, <1>6 DEF HeldFor

\* The call ends: it joins those that have.
LEMMA OneEnds ==
    ASSUME MaxRetries \in Nat, MaxDelay \in Nat, IsFiniteSet(Generations), CallsInv, CallsInv',
           NEW g \in Generations, NEW pc, NEW attempt, NEW waited, NEW tokens, NEW status,
           Becomes(g, pc, attempt, waited, tokens, status),
           g \notin EndedCalls, attempt > 0, pc \notin {"call", "wait"}
    PROVE  /\ Cardinality(EndedCalls) \in Int /\ Cardinality(EndedCalls)' = Cardinality(EndedCalls) + 1
           /\ HeldFor \in Int /\ HeldFor' = HeldFor + waited
           /\ Cardinality(FailedCalls) \in Int
           /\ Cardinality(FailedCalls)' = Cardinality(FailedCalls) + (IF status \in FailedWith THEN 1 ELSE 0)
<1> DEFINE f == [h \in EndedCalls |-> gen[h].waited]
           failed == status \in FailedWith
<1>1. /\ gen'[g].pc = pc /\ gen'[g].attempt = attempt /\ gen'[g].waited = waited /\ gen'[g].status = status
      /\ \A h \in Generations \ {g} : gen'[h] = gen[h]
  BY BecomesFields
<1>2. EndedCalls \in SUBSET Generations /\ EndedCalls' \in SUBSET Generations
  BY DEF EndedCalls
<1>3. \A h \in Generations \ {g} : h \in EndedCalls <=> h \in EndedCalls'
  BY <1>1 DEF EndedCalls
<1>4. g \in EndedCalls'
  BY <1>1 DEF EndedCalls
<1>5. Cardinality(EndedCalls) \in Nat /\ Cardinality(EndedCalls)' = Cardinality(EndedCalls) + 1
  BY <1>2, <1>3, <1>4, OneMoves
<1>6. EndedCalls' = EndedCalls \cup {g}
  BY <1>2, <1>3, <1>4
<1>7. HeldFor \in Int /\ HeldFor' = HeldFor + waited
  <2>1. IsFiniteSet(EndedCalls)
    BY <1>2, FS_Subset
  <2>2. DOMAIN f = EndedCalls /\ DOMAIN f' = EndedCalls \cup {g}
    BY <1>6
  <2>3. \A h \in EndedCalls : f[h] \in Int
    BY <1>2, CallsAreNumbers
  <2>4. \A h \in EndedCalls \cup {g} : f'[h] \in Int
    <3>1. \A h \in Generations : gen'[h] \in CallRecords
      BY DEF CallsInv
    <3> QED BY <1>2, <1>6, <3>1, CallNumbers
  <2>5. \A h \in EndedCalls : f[h] = f'[h]
    BY <1>1, <1>2, <1>6
  <2>6. f'[g] = waited
    BY <1>1, <1>4
  <2> HIDE DEF f
  <2>7. SumFunction(f') = SumFunction(f) + f'[g]
    BY <2>1, <2>2, <2>3, <2>4, <2>5, SumExtends
  <2>8. SumFunction(f) \in Int
    BY <2>1, <2>2, <2>3, SumType
  <2> QED BY <2>6, <2>7, <2>8 DEF HeldFor, f
<1>8. FailedCalls \in SUBSET Generations /\ FailedCalls' \in SUBSET Generations
  BY <1>2 DEF FailedCalls
<1>9. \A h \in Generations \ {g} : h \in FailedCalls <=> h \in FailedCalls'
  BY <1>1, <1>3 DEF FailedCalls
<1>10. g \notin FailedCalls /\ (g \in FailedCalls' <=> failed)
  BY <1>1, <1>4 DEF FailedCalls
<1>11. /\ Cardinality(FailedCalls) \in Nat
       /\ Cardinality(FailedCalls)' = Cardinality(FailedCalls) + (IF g \in FailedCalls' THEN 1 ELSE 0)
                                        - (IF g \in FailedCalls THEN 1 ELSE 0)
  BY <1>8, <1>9, OneMoves
<1>12. Cardinality(FailedCalls)' = Cardinality(FailedCalls) + (IF failed THEN 1 ELSE 0)
  <2> HIDE DEF failed
  <2> QED BY <1>10, <1>11
<1> QED BY <1>5, <1>7, <1>11, <1>12

LEMMA AskingAddsUp ==
    ASSUME MaxRetries \in Nat, MaxDelay \in Nat, IsFiniteSet(Generations), SumInv, CallsInv',
           NEW g \in Generations,
           (\E model \in {"default", "allowed", "other"} : Generate(g, model)) \/ GenerateStructured(g)
    PROVE  SumInv'
<1> USE DEF SumInv
<1>1. gen[g].pc = "idle" /\ measured' = measured
  BY AskingIs
<1>2. gen[g].attempt = 0 /\ Spent(g) = 0 /\ g \notin EndedCalls
  BY <1>1, CallIs DEF CallOK, Spent, Unspent, EndedCalls
<1>3. ASSUME NEW pc, NEW attempt, NEW status, Becomes(g, pc, attempt, 0, Unspent, status),
             attempt \in Nat, (pc = "call" /\ attempt = 1) \/ (pc = "over" /\ attempt = 0)
      PROVE  SumInv'
  <2>1. /\ Attempts \in Int /\ Attempts' = Attempts + attempt - gen[g].attempt
        /\ PaidFor \in Int /\ PaidFor' = PaidFor + (Unspent.input + Unspent.output) - Spent(g)
        /\ Cardinality(OpenCalls) \in Int
        /\ Cardinality(OpenCalls)' = Cardinality(OpenCalls) + (IF pc = "call" THEN 1 ELSE 0)
                                       - (IF gen[g].pc = "call" THEN 1 ELSE 0)
    BY <1>3, SumsMove
  <2>2. EndedCalls' = EndedCalls /\ FailedCalls' = FailedCalls /\ HeldFor' = HeldFor
    BY <1>2, <1>3, NoneEnds
  <2>3. SumFunction(measured.calls) \in Int /\ SumFunction(measured.retries) \in Int
    BY SumType DEF Numbers, Counted
  <2>4. Attempts' = SumFunction(measured.calls) + SumFunction(measured.retries) + Cardinality(OpenCalls)'
    BY <1>1, <1>2, <1>3, <2>1, <2>3
  <2>5. PaidFor' = PaidFor
    BY <1>2, <2>1 DEF Unspent
  <2> QED BY <1>1, <2>2, <2>4, <2>5
<1>4. \/ \E status \in RefusedWith : Becomes(g, "over", 0, 0, Unspent, status)
      \/ Becomes(g, "call", 1, 0, Unspent, 0)
  BY AskingIs
<1> QED BY <1>3, <1>4

LEMMA AnswerAddsUp ==
    ASSUME MaxRetries \in Nat, MaxDelay \in Nat, IsFiniteSet(Generations), SumInv, CallsInv',
           NEW g \in Generations, NEW n \in Reported, Answered(g, n)
    PROVE  SumInv'
<1> USE DEF SumInv
<1> DEFINE tokens == Tokens(vendor, n)
           c == gen[g]
<1>1. /\ c.pc = "call" /\ tokens \in Counts
      /\ Becomes(g, "record", c.attempt, c.waited, tokens, 0)
      /\ measured' = LogSuccess(c, tokens)
  BY AnswerIs
<1> HIDE DEF tokens
<1>2. c.attempt \in Nat /\ c.attempt > 0 /\ c.waited \in Nat /\ Spent(g) = 0 /\ g \notin EndedCalls
  BY <1>1, CallIs, CallsAreNumbers DEF CallOK, Spent, Unspent, EndedCalls
<1>3. /\ Attempts \in Int /\ Attempts' = Attempts + c.attempt - c.attempt
      /\ PaidFor \in Int /\ PaidFor' = PaidFor + (tokens.input + tokens.output) - Spent(g)
      /\ Cardinality(OpenCalls) \in Int
      /\ Cardinality(OpenCalls)' = Cardinality(OpenCalls) + (IF "record" = "call" THEN 1 ELSE 0)
                                     - (IF c.pc = "call" THEN 1 ELSE 0)
  BY <1>1, SumsMove
<1>4. /\ Cardinality(EndedCalls) \in Int /\ Cardinality(EndedCalls)' = Cardinality(EndedCalls) + 1
      /\ HeldFor \in Int /\ HeldFor' = HeldFor + c.waited
      /\ Cardinality(FailedCalls) \in Int
      /\ Cardinality(FailedCalls)' = Cardinality(FailedCalls) + (IF 0 \in FailedWith THEN 1 ELSE 0)
  BY <1>1, <1>2, OneEnds
<1>5. /\ Numbers(measured')
      /\ SumFunction(measured'.calls) = SumFunction(measured.calls) + 1
      /\ Part(measured'.durations, "total") = Part(measured.durations, "total") + c.waited
      /\ Part(measured'.durations, "observations") = Part(measured.durations, "observations") + 1
      /\ SumFunction(measured'.tokens) = SumFunction(measured.tokens) + tokens.input + tokens.output
      /\ measured'.retries = measured.retries /\ measured'.errors = measured.errors
  BY <1>1, <1>2, CallAdds DEF LogSuccess
<1>6. /\ SumFunction(measured.calls) \in Int /\ SumFunction(measured.retries) \in Int
      /\ SumFunction(measured.tokens) \in Int
  BY SumType DEF Numbers, Counted
<1>7. tokens.input \in Nat /\ tokens.output \in Nat
  BY <1>1 DEF Counts
<1>8. Attempts' = SumFunction(measured'.calls) + SumFunction(measured'.retries) + Cardinality(OpenCalls)'
  BY <1>1, <1>2, <1>3, <1>5, <1>6
<1>9. SumFunction(measured'.tokens) = PaidFor'
  BY <1>2, <1>3, <1>5, <1>6, <1>7
<1>10. SumFunction(measured'.errors) = Cardinality(FailedCalls)'
  <2>1. 0 \notin FailedWith
    BY DEF FailedWith
  <2> QED BY <1>4, <1>5, <2>1
<1> QED BY <1>4, <1>5, <1>8, <1>9, <1>10

LEMMA FailureAddsUp ==
    ASSUME MaxRetries \in Nat, BaseDelay \in Nat, MaxDelay \in Nat, Hints \subseteq Int,
           IsFiniteSet(Generations), SumInv, CallsInv',
           NEW g \in Generations, NEW fault, NEW hint \in Hints \cup {NoHint}, Failed(g, fault, hint)
    PROVE  SumInv'
<1> USE DEF SumInv
<1> DEFINE c == gen[g]
           error == Translate(vendor, fault)
<1>1. c.pc = "call"
  BY FailureIs
<1>2. c.attempt \in Nat /\ c.attempt > 0 /\ c.waited \in Nat /\ Spent(g) = 0 /\ g \notin EndedCalls
  BY <1>1, CallIs, CallsAreNumbers DEF CallOK, Spent, Unspent, EndedCalls
<1>3. /\ SumFunction(measured.calls) \in Int /\ SumFunction(measured.retries) \in Int
      /\ SumFunction(measured.tokens) \in Int /\ SumFunction(measured.errors) \in Int
  BY SumType DEF Numbers, Counted
<1>4. ASSUME NEW status \in FailedWith, Becomes(g, "over", c.attempt, c.waited, Unspent, status),
             measured' = LogFailure(c, error)
      PROVE  SumInv'
  <2> HIDE DEF error
  <2>1. /\ Attempts \in Int /\ Attempts' = Attempts + c.attempt - c.attempt
        /\ PaidFor \in Int /\ PaidFor' = PaidFor + (Unspent.input + Unspent.output) - Spent(g)
        /\ Cardinality(OpenCalls) \in Int
        /\ Cardinality(OpenCalls)' = Cardinality(OpenCalls) + (IF "over" = "call" THEN 1 ELSE 0)
                                       - (IF c.pc = "call" THEN 1 ELSE 0)
    BY <1>4, SumsMove
  <2>2. /\ Cardinality(EndedCalls) \in Int /\ Cardinality(EndedCalls)' = Cardinality(EndedCalls) + 1
        /\ HeldFor \in Int /\ HeldFor' = HeldFor + c.waited
        /\ Cardinality(FailedCalls) \in Int
        /\ Cardinality(FailedCalls)' = Cardinality(FailedCalls) + (IF status \in FailedWith THEN 1 ELSE 0)
    BY <1>2, <1>4, OneEnds
  <2> DEFINE m == RecordLlmCall(measured, c.model, c.op, "failed", c.waited, Unspent)
  <2>3. Unspent \in Counts /\ Unspent.input = 0 /\ Unspent.output = 0
    BY DEF Counts, Unspent
  <2>4. /\ Numbers(m)
        /\ SumFunction(m.calls) = SumFunction(measured.calls) + 1
        /\ Part(m.durations, "total") = Part(measured.durations, "total") + c.waited
        /\ Part(m.durations, "observations") = Part(measured.durations, "observations") + 1
        /\ SumFunction(m.tokens) = SumFunction(measured.tokens) + Unspent.input + Unspent.output
        /\ m.retries = measured.retries /\ m.errors = measured.errors
    BY <1>2, <2>3, CallAdds
  <2>5. measured' = RecordError(m, error, "llm")
    BY <1>4 DEF LogFailure
  <2> HIDE DEF m
  <2>6. /\ Numbers(measured')
        /\ SumFunction(measured'.errors) = SumFunction(m.errors) + 1
        /\ measured'.calls = m.calls /\ measured'.durations = m.durations
        /\ measured'.tokens = m.tokens /\ measured'.retries = m.retries
    BY <2>4, <2>5, ErrorAdds
  <2>7. Attempts' = SumFunction(measured'.calls) + SumFunction(measured'.retries) + Cardinality(OpenCalls)'
    BY <1>1, <1>2, <1>3, <2>1, <2>4, <2>6
  <2>8. SumFunction(measured'.tokens) = PaidFor'
    BY <1>2, <1>3, <2>1, <2>3, <2>4, <2>6
  <2>9. SumFunction(measured'.errors) = Cardinality(FailedCalls)'
    BY <2>2, <2>4, <2>6
  <2> QED BY <2>2, <2>4, <2>6, <2>7, <2>8, <2>9
<1>5. ASSUME NEW waited \in Nat, Becomes(g, "wait", c.attempt, waited, Unspent, 0),
             measured' = LogRetry(c)
      PROVE  SumInv'
  <2>1. /\ Attempts \in Int /\ Attempts' = Attempts + c.attempt - c.attempt
        /\ PaidFor \in Int /\ PaidFor' = PaidFor + (Unspent.input + Unspent.output) - Spent(g)
        /\ Cardinality(OpenCalls) \in Int
        /\ Cardinality(OpenCalls)' = Cardinality(OpenCalls) + (IF "wait" = "call" THEN 1 ELSE 0)
                                       - (IF c.pc = "call" THEN 1 ELSE 0)
    BY <1>5, SumsMove
  <2>2. EndedCalls' = EndedCalls /\ FailedCalls' = FailedCalls /\ HeldFor' = HeldFor
    BY <1>2, <1>5, NoneEnds
  <2>3. /\ Numbers(measured')
        /\ SumFunction(measured'.retries) = SumFunction(measured.retries) + 1
        /\ measured'.calls = measured.calls /\ measured'.durations = measured.durations
        /\ measured'.tokens = measured.tokens /\ measured'.errors = measured.errors
    BY <1>5, RetryAdds DEF LogRetry
  <2>4. Attempts' = SumFunction(measured'.calls) + SumFunction(measured'.retries) + Cardinality(OpenCalls)'
    BY <1>1, <1>2, <1>3, <2>1, <2>3
  <2>5. PaidFor' = PaidFor
    BY <1>2, <2>1 DEF Unspent
  <2> QED BY <2>2, <2>3, <2>4, <2>5
<1> HIDE DEF error
<1>6. \/ \E status \in FailedWith :
            Becomes(g, "over", c.attempt, c.waited, Unspent, status) /\ measured' = LogFailure(c, error)
      \/ \E waited \in Nat :
            Becomes(g, "wait", c.attempt, waited, Unspent, 0) /\ measured' = LogRetry(c)
  BY FailureIs DEF error
<1> QED BY <1>4, <1>5, <1>6

LEMMA RetryAddsUp ==
    ASSUME MaxRetries \in Nat, MaxDelay \in Nat, IsFiniteSet(Generations), SumInv, CallsInv',
           NEW g \in Generations, Retry(g)
    PROVE  SumInv'
<1> USE DEF SumInv
<1> DEFINE c == gen[g]
<1>1. c.pc = "wait" /\ measured' = measured /\ Becomes(g, "call", c.attempt + 1, c.waited, Unspent, 0)
  BY RetryIs
<1>2. c.attempt \in Nat /\ Spent(g) = 0 /\ g \notin EndedCalls
  BY <1>1, CallIs, CallsAreNumbers DEF CallOK, Spent, Unspent, EndedCalls
<1>3. /\ Attempts \in Int /\ Attempts' = Attempts + (c.attempt + 1) - c.attempt
      /\ PaidFor \in Int /\ PaidFor' = PaidFor + (Unspent.input + Unspent.output) - Spent(g)
      /\ Cardinality(OpenCalls) \in Int
      /\ Cardinality(OpenCalls)' = Cardinality(OpenCalls) + (IF "call" = "call" THEN 1 ELSE 0)
                                     - (IF c.pc = "call" THEN 1 ELSE 0)
  BY <1>1, SumsMove
<1>4. EndedCalls' = EndedCalls /\ FailedCalls' = FailedCalls /\ HeldFor' = HeldFor
  BY <1>1, <1>2, NoneEnds
<1>5. SumFunction(measured.calls) \in Int /\ SumFunction(measured.retries) \in Int
  BY SumType DEF Numbers, Counted
<1>6. Attempts' = SumFunction(measured.calls) + SumFunction(measured.retries) + Cardinality(OpenCalls)'
  BY <1>1, <1>2, <1>3, <1>5
<1>7. PaidFor' = PaidFor
  BY <1>2, <1>3 DEF Unspent
<1> QED BY <1>1, <1>4, <1>6, <1>7

LEMMA SettlingAddsUp ==
    ASSUME MaxRetries \in Nat, MaxDelay \in Nat, IsFiniteSet(Generations), SumInv, CallsInv',
           NEW g \in Generations, NEW there \in BOOLEAN,
           Send(g) \/ Record(g, there) \/ RecordStep(g, there) \/ CommitCall(g, there)
    PROVE  SumInv'
<1> USE DEF SumInv
<1> DEFINE c == gen[g]
<1>1. c.pc \in {"record", "commit"} /\ measured' = measured
  BY SettlingIs
<1>2. PICK pc, status :
         /\ Becomes(g, pc, c.attempt, c.waited, c.tokens, status)
         /\ \/ pc = "over" /\ status \in EndedWith
            \/ pc = "commit" /\ status \in {0, 200}
  BY SettlingIs
<1>3. c.attempt \in Nat /\ c.attempt > 0 /\ g \in EndedCalls /\ c.status \in {0, 200}
  <2>1. c.attempt \in Nat /\ c.attempt >= 1 /\ c.status \in {0, 200}
    BY <1>1, CallIs, CallsAreNumbers DEF CallOK
  <2> QED BY <1>1, <2>1 DEF EndedCalls
<1>4. pc \notin {"call", "wait"} /\ status \notin FailedWith /\ c.status \notin FailedWith
  BY <1>2, <1>3 DEF EndedWith, FailedWith
<1>5. /\ Attempts \in Int /\ Attempts' = Attempts + c.attempt - c.attempt
      /\ PaidFor \in Int /\ PaidFor' = PaidFor + (c.tokens.input + c.tokens.output) - Spent(g)
      /\ Cardinality(OpenCalls) \in Int
      /\ Cardinality(OpenCalls)' = Cardinality(OpenCalls) + (IF pc = "call" THEN 1 ELSE 0)
                                     - (IF c.pc = "call" THEN 1 ELSE 0)
  BY <1>2, SumsMove
<1>6. EndedCalls' = EndedCalls /\ FailedCalls' = FailedCalls /\ HeldFor' = HeldFor
  BY <1>2, <1>3, <1>4, NoneEnds
<1>7. PaidFor' = PaidFor
  <2>1. Spent(g) = c.tokens.input + c.tokens.output /\ Spent(g) \in Nat
    BY CallsAreNumbers DEF Spent
  <2> QED BY <1>5, <2>1
<1>8. Attempts' = Attempts /\ Cardinality(OpenCalls)' = Cardinality(OpenCalls)
  BY <1>1, <1>3, <1>4, <1>5
<1> QED BY <1>1, <1>6, <1>7, <1>8

LEMMA SumStep ==
    ASSUME MaxRetries \in Nat, BaseDelay \in Nat, MaxDelay \in Nat, Hints \subseteq Int,
           IsFiniteSet(Generations), SumInv, [ModelCallsNext]_callVars
    PROVE  SumInv'
<1>1. CallsInv'
  BY CallsStep DEF SumInv
<1>2. CASE UNCHANGED callVars
  BY <1>2 DEF callVars, SumInv, CallsInv, Attempts, PaidFor, HeldFor, OpenCalls, EndedCalls, FailedCalls, Spent
<1>3. CASE ModelCallsNext
  <2>1. PICK g \in Generations :
          \/ \E model \in {"default", "allowed", "other"} : Generate(g, model)
          \/ GenerateStructured(g)
          \/ \E n \in Reported : Answered(g, n)
          \/ \E fault, hint : hint \in Hints \cup {NoHint} /\ Failed(g, fault, hint)
          \/ Retry(g)
          \/ \E there \in BOOLEAN : Send(g) \/ Record(g, there) \/ RecordStep(g, there) \/ CommitCall(g, there)
    BY <1>3 DEF ModelCallsNext
  <2> QED BY <2>1, <1>1, AskingAddsUp, AnswerAddsUp, FailureAddsUp, RetryAddsUp, SettlingAddsUp
<1> QED BY <1>2, <1>3

LEMMA NothingAddsUp ==
    ASSUME MaxRetries \in Nat, MaxDelay \in Nat, IsFiniteSet(Generations), ModelCallsInit
    PROVE  SumInv
<1>1. CallsInv
  BY FirstTry DEF ModelCallsInit, CallsInv, CallOK, Fresh, CallRecords, Operations, Stages, Models, Served, Statuses
<1>2. \A series : DOMAIN series = {} => Counted(series) /\ Observed(series) /\ SumFunction(series) = 0
  BY FS_EmptySet, SumOfEmpty DEF Counted, Observed
<1>3. DOMAIN <<>> = {}
  OBVIOUS
<1>4. Numbers(measured)
  BY <1>2, <1>3 DEF ModelCallsInit, Unmeasured, Numbers
<1>5. /\ \A g \in Generations : gen[g].pc = "idle" /\ gen[g].attempt = 0 /\ gen[g].tokens = Unspent
      /\ OpenCalls = {} /\ EndedCalls = {} /\ FailedCalls = {}
  <2>1. Fresh.pc = "idle" /\ Fresh.attempt = 0 /\ Fresh.tokens = Unspent
    BY DEF Fresh
  <2>2. \A g \in Generations : gen[g].pc = "idle" /\ gen[g].attempt = 0 /\ gen[g].tokens = Unspent
    BY <2>1 DEF ModelCallsInit
  <2> QED BY <2>2 DEF OpenCalls, EndedCalls, FailedCalls
<1>6. Cardinality({}) = 0
  BY FS_EmptySet
<1>7. HeldFor = 0 /\ Part(measured.durations, "total") = 0 /\ Part(measured.durations, "observations") = 0
  <2>1. DOMAIN measured.durations = {}
    BY <1>3 DEF ModelCallsInit, Unmeasured
  <2> QED BY <1>5, <2>1, SumOfEmpty DEF HeldFor, Part
<1>8. ASSUME NEW f, DOMAIN f = Generations, \A g \in Generations : f[g] = 0
      PROVE  SumFunction(f) = 0
  <2> DEFINE Bad == {s \in SUBSET Generations : SumOver(f, s) # 0}
  <2>1. Bad = {}
    <3> SUFFICES ASSUME Bad # {} PROVE FALSE
      OBVIOUS
    <3>1. PICK s \in Bad : \A t \in Bad : ~ (Cardinality(t) < Cardinality(s))
      <4>1. Bad \in SUBSET (SUBSET Generations)
        OBVIOUS
      <4> HIDE DEF Bad
      <4> QED BY <4>1, SmallestSet
    <3>2. s \in SUBSET Generations /\ SumOver(f, s) # 0
      OBVIOUS
    <3>3. s # {}
      BY <1>8, <3>2, SumOfNothing
    <3>4. Picked(s) \in s
      BY <3>3, PickedIsIn
    <3>5. s \ {Picked(s)} \in SUBSET Generations /\ Cardinality(s \ {Picked(s)}) < Cardinality(s)
      BY <3>2, <3>4, OneLess
    <3>6. SumOver(f, s \ {Picked(s)}) = 0
      BY <3>1, <3>5
    <3> QED BY <1>8, <3>2, <3>3, <3>4, <3>6, SumPicks
  <2> QED BY <1>8, <2>1, SumIsOverAll
<1>9. Attempts = 0
  <2> DEFINE f == [g \in Generations |-> gen[g].attempt]
  <2>1. DOMAIN f = Generations /\ \A g \in Generations : f[g] = 0
    BY DEF ModelCallsInit, Fresh
  <2> HIDE DEF f
  <2> QED BY <1>8, <2>1 DEF Attempts, f
<1>10. PaidFor = 0
  <2> DEFINE f == [g \in Generations |-> Spent(g)]
  <2>1. DOMAIN f = Generations /\ \A g \in Generations : f[g] = 0
    BY <1>5 DEF Spent, Unspent
  <2> HIDE DEF f
  <2> QED BY <1>8, <2>1 DEF PaidFor, f
<1>11. /\ SumFunction(measured.calls) = 0 /\ SumFunction(measured.retries) = 0
       /\ SumFunction(measured.tokens) = 0 /\ SumFunction(measured.errors) = 0
  BY <1>2, <1>3 DEF ModelCallsInit, Unmeasured
<1> QED BY <1>1, <1>4, <1>5, <1>6, <1>7, <1>9, <1>10, <1>11 DEF SumInv

(* However calls interleave and fail, and whichever series overflow, the   *)
(* metrics account for every call that reached a provider, its time and    *)
(* its tokens (LLMGateway._attempt in ai/gateway.py, record_llm_call and   *)
(* record_llm_retry in observability/instruments.py, Counter and Histogram *)
(* in observability/metrics.py).                                           *)
THEOREM MeasuresDoAddUp ==
    ASSUME MaxRetries \in Nat, BaseDelay \in Nat, MaxDelay \in Nat, Hints \subseteq Int,
           IsFiniteSet(Generations)
    PROVE  ModelCallsSpec => []MeasuresAddUp
<1>1. ModelCallsInit => SumInv
  BY NothingAddsUp
<1>2. SumInv /\ [ModelCallsNext]_callVars => SumInv'
  BY SumStep
<1>3. SumInv => MeasuresAddUp
  BY DEF SumInv, MeasuresAddUp, Attempts, HeldFor, PaidFor, OpenCalls, EndedCalls, FailedCalls, FailedWith, Part
<1> QED BY <1>1, <1>2, <1>3, PTL DEF ModelCallsSpec

-----------------------------------------------------------------------------
(* A report on rows. A book has one price for a model and a date, and its  *)
(* prices are numbers: load_price_book accepts no other.                   *)
Numbered(book) == \A p \in book : p.from \in Int /\ p.input \in Int /\ p.output \in Int
OneEach(book)  == \A p, q \in book : p.model = q.model /\ p.from = q.from => p = q

LedgerOK(rows) ==
    /\ IsFiniteSet(rows)
    /\ \A row \in rows : row.table \in {"agent_steps", "generation_usage"} /\ row.tokens \in Counts

Of(rows, m) == {row \in rows : row.model = m}

LEMMA OnePrice ==
    ASSUME NEW book, Numbered(book), OneEach(book), NEW m, NEW at,
           NEW p \in PriceFor(book, m, at), NEW q \in PriceFor(book, m, at)
    PROVE  p = q
BY DEF PriceFor, Numbered, OneEach

\* The rows by model, none left out.
Grouped(rows) ==
    [m \in {row.model : row \in rows} |->
        [calls  |-> Cardinality(Of(rows, m)),
         input  |-> SumFunction([row \in Of(rows, m) |-> row.tokens.input]),
         output |-> SumFunction([row \in Of(rows, m) |-> row.tokens.output])]]

LEMMA ModelsAreFinite ==
    ASSUME NEW rows, LedgerOK(rows)
    PROVE  IsFiniteSet({row.model : row \in rows})
<1> DEFINE named == [row \in rows |-> row.model]
           all   == {row.model : row \in rows}
<1>1. named \in Surjection(rows, all)
  BY DEF Surjection
<1> HIDE DEF named, all
<1>2. IsFiniteSet(all)
  BY <1>1, FS_Surjection DEF LedgerOK
<1> QED BY <1>2 DEF all

\* What a report is given is the grouping of the rows whose models it keeps.
Listed(rows, most) == {row \in rows : row.model \in DOMAIN ModelUsage(rows, most)}

LEMMA GroupsAreModels ==
    ASSUME NEW rows, LedgerOK(rows)
    PROVE  /\ Groups(rows) = {row.model : row \in rows}
           /\ \A m : Using(rows, m) = Of(rows, m) /\ CallsOf(rows, m) = Cardinality(Of(rows, m))
<1>1. Calls(rows) = rows
  BY DEF Calls, LedgerOK
<1> QED BY <1>1 DEF Groups, Using, Of, CallsOf

LEMMA UsageIsGrouped ==
    ASSUME NEW rows, LedgerOK(rows), NEW most
    PROVE  ModelUsage(rows, most) = Grouped(Listed(rows, most)) /\ LedgerOK(Listed(rows, most))
<1> DEFINE kept == Kept(rows, most)
           told == Listed(rows, most)
<1>1. DOMAIN ModelUsage(rows, most) = kept
  BY DEF ModelUsage
<1>2. told = {row \in rows : row.model \in kept}
  BY <1>1 DEF Listed
<1>3. kept \subseteq {row.model : row \in rows}
  BY GroupsAreModels DEF Kept
<1>4. LedgerOK(told)
  BY <1>2, FS_Subset DEF LedgerOK
<1>5. {row.model : row \in told} = kept
  BY <1>2, <1>3
<1>6. \A m \in kept : Of(told, m) = Of(rows, m)
  BY <1>2 DEF Of
<1> HIDE DEF kept, told
<1>7. ASSUME NEW m \in kept
      PROVE  /\ CallsOf(rows, m) = Cardinality(Of(told, m))
             /\ Using(rows, m) = Of(told, m)
  BY <1>6, GroupsAreModels
<1>8. ModelUsage(rows, most) =
        [m \in kept |->
            [calls  |-> Cardinality(Of(told, m)),
             input  |-> SumFunction([row \in Of(told, m) |-> row.tokens.input]),
             output |-> SumFunction([row \in Of(told, m) |-> row.tokens.output])]]
  BY <1>7 DEF ModelUsage, kept
<1> QED BY <1>4, <1>5, <1>8 DEF Grouped, told

\* The calls of some models are their rows.
LEMMA CallsAreRows ==
    ASSUME NEW rows, LedgerOK(rows), NEW T \in SUBSET {row.model : row \in rows}
    PROVE  SumFunction([m \in T |-> Grouped(rows)[m].calls])
             = Cardinality({row \in rows : row.model \in T})
<1> DEFINE ones == [row \in rows |-> 1]
           used == Grouped(rows)
<1>1. IsFiniteSet(rows) /\ IsFiniteSet(T)
  BY ModelsAreFinite, FS_Subset DEF LedgerOK
<1>2. DOMAIN ones = rows /\ \A x \in rows : ones[x] = 1
  OBVIOUS
<1> HIDE DEF ones
<1>3. SumFunction([m \in T |-> SumOver(ones, {u \in rows : u.model = m})])
        = SumOver(ones, {u \in rows : u.model \in T})
  BY <1>1, <1>2, SumByModels
<1>4. \A m \in T : used[m].calls = SumOver(ones, {u \in rows : u.model = m})
  <2> TAKE m \in T
  <2>1. used[m].calls = Cardinality(Of(rows, m))
    BY DEF Grouped
  <2>2. Of(rows, m) \in SUBSET rows
    BY DEF Of
  <2>3. SumOver(ones, Of(rows, m)) = Cardinality(Of(rows, m))
    BY <1>1, <1>2, <2>2, CountIsSum
  <2> QED BY <2>1, <2>3 DEF Of
<1>5. [m \in T |-> used[m].calls] = [m \in T |-> SumOver(ones, {u \in rows : u.model = m})]
  BY <1>4
<1>6. SumOver(ones, {u \in rows : u.model \in T}) = Cardinality({u \in rows : u.model \in T})
  BY <1>1, <1>2, CountIsSum
<1> QED BY <1>3, <1>5, <1>6

\* What a model's calls cost by its price is what each of them costs.
LEMMA ModelCostsItsCalls ==
    ASSUME NEW rows, LedgerOK(rows), NEW m, NEW p, p.input \in Int, p.output \in Int,
           m \in {row.model : row \in rows},
           NEW charge, NEW some \in SUBSET rows, DOMAIN charge = some, Of(rows, m) \in SUBSET some,
           \A row \in Of(rows, m) : charge[row] = Charge(p, row.tokens.input, row.tokens.output)
    PROVE  Charge(p, Grouped(rows)[m].input, Grouped(rows)[m].output)
             = SumOver(charge, Of(rows, m))
<1> DEFINE ins  == [row \in some |-> row.tokens.input]
           outs == [row \in some |-> row.tokens.output]
           mine == Of(rows, m)
<1>1. IsFiniteSet(some)
  BY FS_Subset DEF LedgerOK
<1>2. \A row \in some : ins[row] \in Int /\ outs[row] \in Int
  BY DEF LedgerOK, Counts
<1>3. \A row \in mine : charge[row] = Charge(p, ins[row], outs[row])
  OBVIOUS
<1>4. DOMAIN ins = some /\ DOMAIN outs = some
  OBVIOUS
<1>5. Grouped(rows)[m].input = SumOver(ins, mine)
  <2>1. Grouped(rows)[m].input = SumFunction([row \in mine |-> row.tokens.input])
    BY DEF Grouped
  <2> DEFINE part == [row \in mine |-> row.tokens.input]
  <2>2. DOMAIN part = mine /\ \A row \in mine : part[row] = ins[row]
    OBVIOUS
  <2> HIDE DEF part, ins, mine
  <2>3. SumFunction(part) = SumOver(ins, mine)
    BY <1>1, <1>4, <2>2, SumOfPart DEF mine
  <2> QED BY <2>1, <2>3 DEF part
<1>6. Grouped(rows)[m].output = SumOver(outs, mine)
  <2>1. Grouped(rows)[m].output = SumFunction([row \in mine |-> row.tokens.output])
    BY DEF Grouped
  <2> DEFINE part == [row \in mine |-> row.tokens.output]
  <2>2. DOMAIN part = mine /\ \A row \in mine : part[row] = outs[row]
    OBVIOUS
  <2> HIDE DEF part, outs, mine
  <2>3. SumFunction(part) = SumOver(outs, mine)
    BY <1>1, <1>4, <2>2, SumOfPart DEF mine
  <2> QED BY <2>1, <2>3 DEF part
<1>7. mine \in SUBSET some
  OBVIOUS
<1> HIDE DEF ins, outs, mine
<1>8. SumOver(charge, mine) = Charge(p, SumOver(ins, mine), SumOver(outs, mine))
  <2>1. (\A x \in some : ins[x] \in Int) /\ (\A x \in some : outs[x] \in Int)
    BY <1>2
  <2> QED BY <1>1, <1>3, <1>4, <1>7, <2>1, ChargeIsLinear
<1> QED BY <1>5, <1>6, <1>8 DEF mine

\* What a report says of rows that are in order, by a book that is.
AddsUp(rows, book, at) ==
    LET report     == Report(book, Grouped(rows), at)
        price(row) == PriceFor(book, row.model, at)
        priced     == {row \in rows : price(row) # {}}
    IN /\ report.priced = Cardinality(priced)
       /\ report.priced + report.unpriced = Cardinality(rows)
       /\ report.cost.refused <=> \E a, b \in priced : \E p \in price(a), q \in price(b) :
                                 p.currency # q.currency
       /\ report.cost.amount = SumFunction([row \in priced |->
             LET p == CHOOSE q \in price(row) : TRUE
             IN Charge(p, row.tokens.input, row.tokens.output)])

LEMMA ReportAddsUp ==
    ASSUME NEW rows, LedgerOK(rows), NEW book, Numbered(book), OneEach(book), NEW at
    PROVE  AddsUp(rows, book, at)
<1> DEFINE used      == Grouped(rows)
           all       == {row.model : row \in rows}
           price(m)  == PriceFor(book, m, at)
           one(m)    == CHOOSE q \in price(m) : TRUE
           cost(m)   == Estimate(book, m, used[m], at)
           models    == {m \in DOMAIN used : cost(m) # {}}
           costs     == [m \in models |-> CHOOSE c \in cost(m) : TRUE]
           calls(s)  == SumFunction([m \in s |-> used[m].calls])
           priced    == {row \in rows : price(row.model) # {}}
           charge    == [row \in priced |-> Charge(one(row.model), row.tokens.input, row.tokens.output)]
           report    == Report(book, used, at)
<1>1. IsFiniteSet(rows) /\ IsFiniteSet(all) /\ DOMAIN used = all
  BY ModelsAreFinite DEF LedgerOK, Grouped
<1>2. models = {m \in all : price(m) # {}}
  BY <1>1 DEF Estimate
<1>3. ASSUME NEW m \in models
      PROVE  /\ one(m) \in price(m) /\ price(m) = {one(m)}
             /\ costs[m].amount = Charge(one(m), used[m].input, used[m].output)
             /\ costs[m].currency = one(m).currency
  <2>1. price(m) # {} /\ one(m) \in price(m)
    BY <1>2
  <2>2. price(m) = {one(m)}
    BY <2>1, OnePrice
  <2>3. cost(m) = {[amount |-> Charge(one(m), used[m].input, used[m].output), currency |-> one(m).currency]}
    <3> HIDE DEF one
    <3> QED BY <2>2 DEF Estimate
  <2>4. costs[m] = [amount |-> Charge(one(m), used[m].input, used[m].output), currency |-> one(m).currency]
    <3> DEFINE c == [amount |-> Charge(one(m), used[m].input, used[m].output), currency |-> one(m).currency]
    <3> HIDE DEF c
    <3>1. cost(m) = {c}
      BY <2>3 DEF c
    <3> HIDE DEF cost
    <3>2. costs[m] = c
      BY <3>1
    <3> QED BY <3>2 DEF c
  <2> QED BY <2>1, <2>2, <2>4
<1>4. /\ report.cost = Total(costs)
      /\ report.priced = calls(models) /\ report.unpriced = calls(DOMAIN used \ models)
  BY DEF Report
<1>5. priced = {row \in rows : row.model \in models} /\ priced \in SUBSET rows
  BY <1>2
<1>6. calls(models) = Cardinality(priced)
  <2>1. models \in SUBSET all
    BY <1>2
  <2> HIDE DEF models, priced
  <2> QED BY <1>5, <2>1, CallsAreRows
<1>7. calls(DOMAIN used \ models) = Cardinality(rows \ priced)
  <2>1. all \ models \in SUBSET all
    OBVIOUS
  <2>2. rows \ priced = {row \in rows : row.model \in all \ models}
    BY <1>5
  <2> HIDE DEF models, priced
  <2>3. calls(all \ models) = Cardinality({row \in rows : row.model \in all \ models})
    BY <2>1, CallsAreRows
  <2> QED BY <1>1, <2>2, <2>3
<1>8. Cardinality(priced) + Cardinality(rows \ priced) = Cardinality(rows)
  <2> HIDE DEF priced
  <2>1. IsFiniteSet(priced) /\ IsFiniteSet(rows \ priced)
    BY <1>1, <1>5, FS_Subset
  <2>2. priced \cup (rows \ priced) = rows /\ priced \cap (rows \ priced) = {}
    BY <1>5
  <2>3. Cardinality(rows) = Cardinality(priced) + Cardinality(rows \ priced) - Cardinality({})
    BY <2>1, <2>2, FS_Union
  <2>4. Cardinality({}) = 0 /\ Cardinality(priced) \in Nat /\ Cardinality(rows \ priced) \in Nat
    BY <2>1, FS_EmptySet, FS_CardinalityType
  <2> QED BY <2>3, <2>4
<1>9. report.cost.refused <=> \E a, b \in priced : \E p \in price(a.model), q \in price(b.model) :
                                 p.currency # q.currency
  <2> DEFINE kinds == {costs[m].currency : m \in models}
  <2>1. report.cost.refused <=> Cardinality(kinds) > 1
    <3>1. DOMAIN costs = models /\ report.cost = Total(costs)
      BY <1>4
    <3> HIDE DEF report, costs, models
    <3>2. kinds = {costs[m].currency : m \in DOMAIN costs}
      BY <3>1
    <3> HIDE DEF kinds
    <3>3. Total(costs).refused = (Cardinality({costs[m].currency : m \in DOMAIN costs}) > 1)
      BY Zenon DEF Total
    <3>4. Total(costs).refused = (Cardinality(kinds) > 1)
      BY <3>2, <3>3
    <3>5. report.cost.refused = (Cardinality(kinds) > 1)
      BY <3>1, <3>4
    <3> QED BY <3>5, Zenon
  <2>2. IsFiniteSet(kinds)
    <3> DEFINE f == [m \in models |-> costs[m].currency]
    <3>1. IsFiniteSet(models)
      BY <1>1, <1>2, FS_Subset
    <3> HIDE DEF models, costs
    <3>2. f \in Surjection(models, kinds)
      BY DEF Surjection
    <3> HIDE DEF f, kinds
    <3> QED BY <3>1, <3>2, FS_Surjection
  <2>3. Cardinality(kinds) > 1 <=> \E x, y \in kinds : x # y
    <3> HIDE DEF kinds
    <3> QED BY <2>2, MoreThanOne
  <2>4. (\E x, y \in kinds : x # y) <=> \E m, n \in models : one(m).currency # one(n).currency
    <3> HIDE DEF models, costs, one
    <3> QED BY <1>3
  <2>5. (\E m, n \in models : one(m).currency # one(n).currency)
          <=> \E a, b \in priced : \E p \in price(a.model), q \in price(b.model) : p.currency # q.currency
    <3>1. \A m \in models : \E row \in priced : row.model = m
      BY <1>2
    <3>2. \A row \in priced : row.model \in models
      BY <1>5
    <3>3. \A m \in models : price(m) = {one(m)}
      BY <1>3
    <3> HIDE DEF models, priced, price, one
    <3> QED BY <3>1, <3>2, <3>3
  <2> QED BY <2>1, <2>3, <2>4, <2>5
<1>10. report.cost.amount = SumFunction(charge)
  <2> DEFINE amounts == [m \in models |-> costs[m].amount]
             groups  == [m \in models |-> SumOver(charge, {u \in priced : u.model = m})]
  <2>1. report.cost.amount = SumFunction(amounts)
    BY <1>4 DEF Total
  <2>2. DOMAIN charge = priced /\ IsFiniteSet(priced) /\ IsFiniteSet(models)
    BY <1>1, <1>2, <1>5, FS_Subset
  <2>3. \A m \in models : /\ one(m).input \in Int /\ one(m).output \in Int
                          /\ {u \in priced : u.model = m} = Of(rows, m)
    <3>1. \A m \in models : one(m) \in book
      BY <1>3 DEF PriceFor
    <3>2. \A m \in models : {u \in priced : u.model = m} = Of(rows, m)
      BY <1>5 DEF Of
    <3> HIDE DEF models, one
    <3> QED BY <3>1, <3>2 DEF Numbered
  <2>4. \A u \in priced : charge[u] \in Int
    <3> TAKE u \in priced
    <3>1. one(u.model).input \in Int /\ one(u.model).output \in Int
      BY <1>5, <2>3
    <3>2. u.tokens.input \in Int /\ u.tokens.output \in Int
      BY <1>5 DEF LedgerOK, Counts
    <3> HIDE DEF one
    <3> QED BY <3>1, <3>2 DEF Charge
  <2>5. ASSUME NEW m \in models
        PROVE  costs[m].amount = SumOver(charge, {u \in priced : u.model = m})
    <3>1. \A row \in Of(rows, m) : charge[row] = Charge(one(m), row.tokens.input, row.tokens.output)
      BY <2>3 DEF Of
    <3>2. m \in all /\ Of(rows, m) \in SUBSET priced
      BY <1>2, <2>3
    <3> HIDE DEF charge, priced, one, all, costs, used, models
    <3>3. Charge(one(m), Grouped(rows)[m].input, Grouped(rows)[m].output)
            = SumOver(charge, Of(rows, m))
      BY <1>5, <2>2, <2>3, <3>1, <3>2, ModelCostsItsCalls DEF all
    <3> QED BY <1>3, <2>3, <3>3 DEF used
  <2>6. amounts = groups
    BY <2>5
  <2>7. SumFunction(groups) = SumOver(charge, {u \in priced : u.model \in models})
    <3> HIDE DEF charge, priced, models
    <3> QED BY <2>2, <2>4, SumByModels
  <2>8. {u \in priced : u.model \in models} = priced
    BY <1>5
  <2>9. SumOver(charge, priced) = SumFunction(charge)
    <3> HIDE DEF charge, priced
    <3> QED BY <2>2, SumIsOverAll
  <2> HIDE DEF charge, priced, models, costs, groups, amounts
  <2> QED BY <2>1, <2>6, <2>7, <2>8, <2>9
<1> HIDE DEF report
<1>11. report.priced + report.unpriced = Cardinality(rows)
  BY <1>4, <1>6, <1>7, <1>8
<1>12. AddsUp(rows, book, at) <=>
         /\ report.priced = Cardinality(priced)
         /\ report.priced + report.unpriced = Cardinality(rows)
         /\ report.cost.refused <=> \E a, b \in priced : \E p \in price(a.model), q \in price(b.model) :
                                       p.currency # q.currency
         /\ report.cost.amount = SumFunction(charge)
  BY DEF AddsUp, report
<1> QED BY <1>4, <1>6, <1>9, <1>10, <1>11, <1>12

LEMMA ReportIsTrue ==
    ASSUME NEW rows, LedgerOK(rows), NEW most, NEW book, Numbered(book), OneEach(book), NEW at
    PROVE  ReportTells(rows, most, book, at)
<1> DEFINE told == Listed(rows, most)
<1>1. ModelUsage(rows, most) = Grouped(told) /\ LedgerOK(told)
  BY UsageIsGrouped
<1>2. told = {row \in rows : row.model \in DOMAIN ModelUsage(rows, most)}
  BY DEF Listed
<1> HIDE DEF told
<1>3. AddsUp(told, book, at)
  BY <1>1, ReportAddsUp
<1> QED BY <1>1, <1>2, <1>3 DEF AddsUp, ReportTells

\* A model that is not kept has others before it, and so has each that comes after those.
LEMMA OnlyTheLeastAreLeftOut ==
    ASSUME NEW rows, LedgerOK(rows), NEW most \in Nat,
           \A row \in rows : Collation[row.model] \in Int
    PROVE  ReportLeavesOut(rows, most)
<1> DEFINE all       == {row.model : row \in rows}
           count(m)  == Cardinality(Of(rows, m))
           before(m) == {n \in all : ComesBefore(rows, n, m)}
           used      == ModelUsage(rows, most)
<1>1. IsFiniteSet(all)
  BY ModelsAreFinite
<1>2. \A m : CallsOf(rows, m) = count(m) /\ count(m) \in Nat
  <2>1. \A m : IsFiniteSet(Of(rows, m))
    BY FS_Subset DEF LedgerOK, Of
  <2> QED BY <2>1, GroupsAreModels, FS_CardinalityType
<1>3. \A m \in all : Collation[m] \in Int
  OBVIOUS
<1>4. DOMAIN used = {m \in all : Cardinality(before(m)) < most}
  BY GroupsAreModels DEF ModelUsage, Kept
<1>5. \A m \in DOMAIN used : used[m].calls = count(m)
  BY <1>2 DEF ModelUsage
<1>6. \A m, n \in all : ComesBefore(rows, m, n)
         <=> count(m) > count(n) \/ (count(m) = count(n) /\ Collation[m] < Collation[n])
  BY <1>2 DEF ComesBefore
<1>7. \A m \in all : /\ before(m) \subseteq all /\ m \notin before(m)
                     /\ IsFiniteSet(before(m)) /\ Cardinality(before(m)) \in Nat
  <2> TAKE m \in all
  <2>1. before(m) \subseteq all /\ m \notin before(m)
    BY <1>2, <1>3, <1>6
  <2> HIDE DEF all, before
  <2> QED BY <1>1, <2>1, FS_Subset, FS_CardinalityType
<1>8. \A row \in rows : row.model \in all
  OBVIOUS
<1>9. \A m : {r \in rows : r.model = m} = Of(rows, m)
  BY DEF Of
<1> HIDE DEF all, count, before, used
<1>10. SUFFICES ASSUME NEW x \in all, x \notin DOMAIN used
       PROVE  Cardinality(all) > most /\ \A m \in DOMAIN used : count(x) <= used[m].calls
  BY <1>8, <1>9 DEF ReportLeavesOut, all, count, used
<1>11. Cardinality(before(x)) >= most
  BY <1>4, <1>7, <1>10
<1>12. Cardinality(all) > most
  <2>1. before(x) \cup {x} \subseteq all
    BY <1>7, <1>10
  <2>2. Cardinality(before(x) \cup {x}) = Cardinality(before(x)) + 1
    BY <1>7, <1>10, FS_AddElement
  <2>3. Cardinality(before(x) \cup {x}) <= Cardinality(all) /\ Cardinality(all) \in Nat
    BY <1>1, <2>1, FS_Subset, FS_CardinalityType
  <2> QED BY <1>7, <1>10, <1>11, <2>2, <2>3
<1>13. ASSUME NEW m \in DOMAIN used
       PROVE  count(x) <= used[m].calls
  <2>1. m \in all /\ Cardinality(before(m)) < most /\ used[m].calls = count(m)
    BY <1>4, <1>5
  <2>2. count(x) \in Nat /\ count(m) \in Nat
    BY <1>2
  <2>3. SUFFICES ASSUME count(x) > count(m) PROVE FALSE
    BY <2>1, <2>2
  <2>4. before(x) \subseteq before(m)
    <3> SUFFICES ASSUME NEW n \in before(x) PROVE n \in before(m)
      OBVIOUS
    <3>1. n \in all /\ count(n) \in Nat /\ count(n) >= count(x)
      BY <1>2, <1>6, <1>10 DEF before
    <3>2. ComesBefore(rows, n, m)
      BY <1>6, <2>1, <2>2, <2>3, <3>1
    <3> QED BY <3>1, <3>2 DEF before
  <2>5. Cardinality(before(x)) <= Cardinality(before(m))
    BY <1>7, <2>1, <2>4, FS_Subset
  <2> QED BY <1>7, <1>10, <1>11, <2>1, <2>5
<1> QED BY <1>12, <1>13

-----------------------------------------------------------------------------
(* The rows are true, are what the two tables hold, and are paid for by    *)
(* calls of their own.                                                     *)
SpentInv ==
    /\ LedgerInv
    /\ SumInv
    /\ IsFiniteSet(usage)
    /\ \A row \in usage : row.table \in {"agent_steps", "generation_usage"} /\ row.model \in Served

LEMMA RowsStep ==
    ASSUME SpentInv, [ModelCallsNext]_callVars
    PROVE  /\ IsFiniteSet(usage')
           /\ \A row \in usage' : row.table \in {"agent_steps", "generation_usage"} /\ row.model \in Served
<1>1. \/ usage' = usage
      \/ \E g \in Generations : \/ usage' = usage \cup {RowOf(g, "agent_steps")}
                                \/ usage' = usage \cup {RowOf(g, "generation_usage")}
  <2>1. CASE UNCHANGED callVars
    BY <2>1 DEF callVars
  <2>2. ASSUME NEW g \in Generations, NEW there, RecordStep(g, there)
        PROVE  usage' = usage \/ usage' = usage \cup {RowOf(g, "agent_steps")}
    BY <2>2 DEF RecordStep
  <2>3. ASSUME NEW g \in Generations, NEW there, CommitCall(g, there)
        PROVE  usage' = usage \/ usage' = usage \cup {RowOf(g, "generation_usage")}
    BY <2>3 DEF CommitCall
  <2>4. CASE ModelCallsNext
    <3>1. PICK g \in Generations :
            \/ usage' = usage
            \/ \E there \in BOOLEAN : RecordStep(g, there) \/ CommitCall(g, there)
      BY <2>4, ZenonT(60) DEF ModelCallsNext, Generate, GenerateStructured, Answered, Failed, Retry, Send, Record
    <3> QED BY <2>2, <2>3, <3>1
  <2> QED BY <2>1, <2>4
<1>2. \A row : IsFiniteSet(usage \cup {row})
  BY FS_AddElement DEF SpentInv
<1>3. \A g \in Generations : \A table : RowOf(g, table).table = table /\ RowOf(g, table).model \in Served
  BY DEF RowOf, SpentInv, SumInv, CallsInv, CallRecords
<1> QED BY <1>1, <1>2, <1>3, ZenonT(60) DEF SpentInv

\* What the rows say was spent is part of what the calls say was.
LEMMA RowsAreOwned ==
    ASSUME IsFiniteSet(Generations), MaxRetries \in Nat, MaxDelay \in Nat, SpentInv
    PROVE  /\ LedgerOK(usage)
           /\ SumFunction([row \in usage |-> row.tokens.input + row.tokens.output])
                <= SumFunction(measured.tokens)
<1> DEFINE f == [row \in usage |-> row.tokens.input + row.tokens.output]
           p == [g \in Generations |-> Spent(g)]
<1>1. \A g \in Generations : gen[g].tokens \in Counts
  BY DEF SpentInv, SumInv, CallsInv, CallRecords
<1>2. \A row \in usage : row.of \in Generations /\ row.tokens = gen[row.of].tokens
  BY DEF SpentInv, LedgerInv, RowsAreTrue
<1>3. LedgerOK(usage)
  BY <1>1, <1>2 DEF SpentInv, LedgerOK
<1>4. \A g \in Generations : p[g] \in Nat
  BY <1>1 DEF Spent, Counts
<1>5. \A row \in usage : f[row] \in Nat /\ f[row] = p[row.of]
  BY <1>1, <1>2 DEF Spent, Counts
<1>6. \A a, b \in usage : a.of = b.of => a = b
  BY DEF SpentInv, LedgerInv, RowsAreTrue
<1>7. DOMAIN f = usage /\ DOMAIN p = Generations /\ IsFiniteSet(usage)
  BY DEF SpentInv
<1>8. SumFunction(p) = SumFunction(measured.tokens)
  BY DEF SpentInv, SumInv, PaidFor
<1> HIDE DEF f, p
<1>9. SumFunction(f) <= SumFunction(p)
  BY <1>2, <1>4, <1>5, <1>6, <1>7, SumOfOwned
<1> QED BY <1>3, <1>8, <1>9 DEF f

(* The ledger is true and says no more was spent than was measured. A      *)
(* report on it, by any price book the deployment accepts, at any moment   *)
(* and whatever MAX_GROUPS is, adds up the calls of the models it lists by *)
(* the prices in force, without loss; and those it leaves out are of the   *)
(* models with the fewest calls (UsageRepository.model_usage, PriceBook    *)
(* and total in observability/pricing.py, services/usage.py). A book has   *)
(* one price for a model and a date: _reject_duplicates refuses any other. *)
THEOREM LedgerTellsTheTruth ==
    ASSUME MaxRetries \in Nat, BaseDelay \in Nat, MaxDelay \in Nat, Hints \subseteq Int,
           IsFiniteSet(Generations), \A book \in Books : Numbered(book) /\ OneEach(book),
           GroupLimits \subseteq Nat, Collation \in [Served -> Int]
    PROVE  ModelCallsSpec => []LedgerTellsWhatWasSpent
<1>1. ModelCallsInit => SpentInv
  <2>1. ModelCallsInit => LedgerInv /\ usage = {}
    BY DEF ModelCallsInit, LedgerInv, RowsAreTrue
  <2> QED BY <2>1, NothingAddsUp, FS_EmptySet DEF SpentInv
<1>2. SpentInv /\ [ModelCallsNext]_callVars => SpentInv'
  <2>1. LedgerInv /\ [ModelCallsNext]_callVars => LedgerInv'
    BY LedgerStep
  <2> QED BY <2>1, SumStep, RowsStep DEF SpentInv
<1>3. SpentInv => LedgerTellsWhatWasSpent
  <2> SUFFICES ASSUME SpentInv PROVE LedgerTellsWhatWasSpent
    OBVIOUS
  <2>1. \A most \in GroupLimits :
          /\ ReportLeavesOut(usage, most)
          /\ \A book \in Books, at \in 0 .. 1 : ReportTells(usage, most, book, at)
    <3>1. \A row \in usage : Collation[row.model] \in Int
      BY DEF SpentInv, Served
    <3> QED BY <3>1, RowsAreOwned, ReportIsTrue, OnlyTheLeastAreLeftOut
  <2>2. RowsAreTrue
    BY DEF SpentInv, LedgerInv
  <2> QED BY <2>1, <2>2, RowsAreOwned DEF LedgerTellsWhatWasSpent
<1> QED BY <1>1, <1>2, <1>3, PTL DEF ModelCallsSpec
=============================================================================
