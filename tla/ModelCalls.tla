------------------------------ MODULE ModelCalls ------------------------------
(***************************************************************************)
(* Calls of a language model: the adapters that translate what a vendor's  *)
(* SDK does (ai/providers), the gateway that retries and measures          *)
(* (ai/gateway.py), and the two callers that write down what was used for  *)
(* the tenant: the steps of agents and the direct generations of           *)
(* POST /ai/generate (services/ai.py).                                     *)
(*                                                                         *)
(* Prompts and answers are left out; an answer is the numbers of tokens it *)
(* read and wrote, and time is counted in units of the backoff, which are  *)
(* all the time a call takes. The response of a request leaves before its  *)
(* commit or after it, as the FastAPI release has it.                      *)
(***************************************************************************)
EXTENDS Metrics, UsageReports

CONSTANTS
    Generations,      \* model calls the application makes
    MaxRetries,       \* llm_max_retries
    BaseDelay,        \* base_delay_seconds
    MaxDelay,         \* llm_retry_max_delay_seconds
    Hints,            \* what a retry-after header may say
    NoHint,           \* no header, or one that is no number
    Books,            \* price books a deployment may be given
    GroupLimits       \* what MAX_GROUPS may be

VARIABLES
    vendor,           \* LLM_PROVIDER
    configured,       \* which of "key" and "model" the deployment has
    gateway,          \* app.state.llm_gateway
    gen,              \* the calls
    measured,         \* the metrics of /metrics
    usage             \* agent_steps and generation_usage: the committed rows

callVars == <<vendor, configured, gateway, gen, measured, usage>>

-----------------------------------------------------------------------------
(* The failures of the abstraction, and the status each is answered with.  *)
StatusOf == [authentication |-> 500, configuration |-> 500, rate_limit |-> 429,
             timeout |-> 504, provider |-> 502, invalid_response |-> 502]

(* What an SDK can do with one call. Only a call for structured output can *)
(* fail to parse, and only OpenAI's SDK says that it was cut short.        *)
Faults == {"denied", "throttled", "no_answer", "unknown_model", "unreachable",
           "status_408", "status_409", "status_4xx", "status_5xx", "foreign"}

AnthropicFaults(op) == Faults \cup (IF op = "generate_structured" THEN {"unparsed"} ELSE {})
OpenAIFaults(op)    == Faults \cup (IF op = "generate_structured" THEN {"unparsed", "cut_short"} ELSE {})

AnthropicError(fault) ==
    CASE fault = "denied"        -> "authentication"
      [] fault = "throttled"     -> "rate_limit"
      [] fault = "no_answer"     -> "timeout"
      [] fault = "unknown_model" -> "configuration"
      [] fault = "unparsed"      -> "invalid_response"
      [] OTHER                   -> "provider"

OpenAIError(fault) == IF fault = "cut_short" THEN "invalid_response" ELSE AnthropicError(fault)

FaultsOf(v, op) == IF v = "openai" THEN OpenAIFaults(op) ELSE AnthropicFaults(op)
Translate(v, fault) == IF v = "openai" THEN OpenAIError(fault) ELSE AnthropicError(fault)

(* An SDK reports the tokens read and written - a number or nonsense, which *)
(* is clamped - and may name the model that answered, which is another than *)
(* was asked when that is an alias.                                        *)
Reported == {[input |-> -1, output |-> 0, named |-> FALSE], [input |-> 2, output |-> 1, named |-> TRUE]}
Clamped(n) == IF n < 0 THEN 0 ELSE n
AnthropicTokens(n) == [input |-> Clamped(n.input), output |-> Clamped(n.output)]
OpenAITokens(n)    == [input |-> Clamped(n.input), output |-> Clamped(n.output)]
Tokens(v, n) == IF v = "openai" THEN OpenAITokens(n) ELSE AnthropicTokens(n)
Unspent == [input |-> 0, output |-> 0]

Released(model) == IF model = "default" THEN "released" ELSE model
ServedModel(model, n) == IF n.named THEN Released(model) ELSE "unknown"

-----------------------------------------------------------------------------
(* The retry policy.                                                       *)
MaxAttempts == MaxRetries + 1

BackoffCeiling(attempt) == LET c == BaseDelay * 2 ^ (attempt - 1)
                           IN IF c < MaxDelay THEN c ELSE MaxDelay

(* A provider error is final when the response behind it was a 4xx other   *)
(* than 408 and 429.                                                       *)
IsRetryable(error, fault) ==
    \/ error \in {"rate_limit", "timeout"}
    \/ error = "provider" /\ fault \notin {"status_409", "status_4xx"}

(* The waits the policy allows before the next attempt; {} gives up.       *)
\* Fault: the provider is waited for as long as it asks.
DelayAsAsked(attempt, error, fault, hint) ==
    IF attempt >= MaxAttempts \/ ~IsRetryable(error, fault) THEN {}
    ELSE IF error = "rate_limit" /\ hint # NoHint THEN {hint} ELSE 0 .. BackoffCeiling(attempt)

DelayBeforeRetry(attempt, error, fault, hint) ==
    IF attempt >= MaxAttempts \/ ~IsRetryable(error, fault) THEN {}
    ELSE IF error = "rate_limit" /\ hint # NoHint
         THEN IF hint > MaxDelay THEN {} ELSE {IF hint < 0 THEN 0 ELSE hint}
    ELSE 0 .. BackoffCeiling(attempt)

(* What is counted: an operation once, with its tokens, and each retry.    *)
LogSuccess(g, tokens) ==
    RecordLlmCall(measured, g.model, g.op, "success", g.waited, tokens)

\* Fault: an attempt that is retried is counted as a failed operation too.
LogRetryAsCall(g) ==
    RecordLlmRetry(RecordLlmCall(measured, g.model, g.op, "failed", g.waited, Unspent))

LogRetry(g) == RecordLlmRetry(measured)

LogFailure(g, error) ==
    RecordError(RecordLlmCall(measured, g.model, g.op, "failed", g.waited, Unspent), error, "llm")

-----------------------------------------------------------------------------
Fresh == [pc |-> "idle", op |-> "generate", model |-> "default", attempt |-> 0, waited |-> 0,
          tokens |-> Unspent, served |-> "", status |-> 0]

Over(g, status) == [gen EXCEPT ![g].pc = "over", ![g].status = status]

(* get_llm_gateway: built by the first request that needs one.             *)
BuildGateway == gateway \/ "key" \in configured

(* resolve_model: the status a generation is refused with, or 0.           *)
ResolveModel(model) ==
    CASE model = "default" -> IF "model" \in configured THEN 0 ELSE 500
      [] model = "allowed" -> 0
      [] OTHER -> 422

(* POST /ai/generate: the gateway, then the application's own policy.      *)
Generate(g, model) ==
    LET refused == IF BuildGateway THEN ResolveModel(model) ELSE 500 IN
    /\ gen[g].pc = "idle"
    /\ gateway' = BuildGateway
    /\ gen' = IF refused = 0 THEN [gen EXCEPT ![g].pc = "call", ![g].model = model, ![g].attempt = 1]
              ELSE Over(g, refused)
    /\ UNCHANGED <<vendor, configured, measured, usage>>

(* An agent asks for its next decision.                                    *)
GenerateStructured(g) ==
    /\ gen[g].pc = "idle"
    /\ gateway' = BuildGateway
    /\ gen' = IF BuildGateway
              THEN [gen EXCEPT ![g].pc = "call", ![g].op = "generate_structured", ![g].attempt = 1]
              ELSE [Over(g, 500) EXCEPT ![g].op = "generate_structured"]
    /\ UNCHANGED <<vendor, configured, measured, usage>>

(* _attempt: the provider answers, or fails and the policy decides.        *)
Answered(g, reported) ==
    LET tokens == Tokens(vendor, reported) IN
    /\ gen[g].pc = "call"
    /\ measured' = LogSuccess(gen[g], tokens)
    /\ gen' = [gen EXCEPT ![g].pc = "record", ![g].tokens = tokens, ![g].served = ServedModel(gen[g].model, reported)]
    /\ UNCHANGED <<vendor, configured, gateway, usage>>

Failed(g, fault, hint) ==
    LET error  == Translate(vendor, fault)
        delays == DelayBeforeRetry(gen[g].attempt, error, fault, hint) IN
    /\ gen[g].pc = "call"
    /\ fault \in FaultsOf(vendor, gen[g].op)
    /\ fault # "throttled" => hint = NoHint
    /\ \/ /\ delays = {}
          /\ measured' = LogFailure(gen[g], error)
          /\ gen' = Over(g, StatusOf[error])
       \/ \E d \in delays :
          /\ measured' = LogRetry(gen[g])
          /\ gen' = [gen EXCEPT ![g].pc = "wait", ![g].waited = @ + d]
    /\ UNCHANGED <<vendor, configured, gateway, usage>>

Retry(g) ==
    /\ gen[g].pc = "wait"
    /\ gen' = [gen EXCEPT ![g].pc = "call", ![g].attempt = @ + 1]
    /\ UNCHANGED <<vendor, configured, gateway, measured, usage>>

RowOf(g, table) == [table |-> table, of |-> g, model |-> gen[g].served, tokens |-> gen[g].tokens]

(* The row of a generation is flushed into the request's transaction, or   *)
(* the database is away and the request with it.                           *)
\* Fault: the row is committed in a transaction of its own.
RecordAndCommit(g, there) ==
    /\ gen[g].pc = "record" /\ gen[g].op = "generate"
    /\ usage' = IF there THEN usage \cup {RowOf(g, "generation_usage")} ELSE usage
    /\ gen' = IF there THEN [gen EXCEPT ![g].pc = "commit"] ELSE Over(g, 503)
    /\ UNCHANGED <<vendor, configured, gateway, measured>>

Record(g, there) ==
    /\ gen[g].pc = "record" /\ gen[g].op = "generate"
    /\ gen' = IF there THEN [gen EXCEPT ![g].pc = "commit"] ELSE Over(g, 503)
    /\ UNCHANGED <<vendor, configured, gateway, measured, usage>>

(* record_step: the journal of an agent commits its row at once.           *)
RecordStep(g, there) ==
    /\ gen[g].pc = "record" /\ gen[g].op = "generate_structured"
    /\ usage' = IF there THEN usage \cup {RowOf(g, "agent_steps")} ELSE usage
    /\ gen' = Over(g, IF there THEN 200 ELSE 503)
    /\ UNCHANGED <<vendor, configured, gateway, measured>>

(* get_session: the commit, and a response that was sent earlier or now.   *)
Send(g) ==
    /\ gen[g].pc = "commit" /\ gen[g].status = 0
    /\ gen' = [gen EXCEPT ![g].status = 200]
    /\ UNCHANGED <<vendor, configured, gateway, measured, usage>>

CommitCall(g, there) ==
    LET status == CASE gen[g].status = 200 -> 200 [] there -> 200 [] OTHER -> 503 IN
    /\ gen[g].pc = "commit"
    /\ usage' = IF there THEN usage \cup {RowOf(g, "generation_usage")} ELSE usage
    /\ gen' = Over(g, status)
    /\ UNCHANGED <<vendor, configured, gateway, measured>>

ModelCallsInit ==
    /\ vendor \in {"anthropic", "openai"}
    /\ configured \in SUBSET {"key", "model"}
    /\ gateway = FALSE
    /\ gen = [g \in Generations |-> Fresh]
    /\ measured = Unmeasured
    /\ usage = {}

ModelCallsNext ==
    \E g \in Generations :
        \/ \E model \in {"default", "allowed", "other"} : Generate(g, model)
        \/ GenerateStructured(g)
        \/ \E n \in Reported : Answered(g, n)
        \/ \E fault \in OpenAIFaults("generate_structured"), hint \in Hints \cup {NoHint} : Failed(g, fault, hint)
        \/ Retry(g) \/ Send(g)
        \/ \E there \in BOOLEAN : Record(g, there) \/ RecordStep(g, there) \/ CommitCall(g, there)

ModelCallsSpec == ModelCallsInit /\ [][ModelCallsNext]_callVars

-----------------------------------------------------------------------------
(* A metric holds no more series than it may, the one for what overflows   *)
(* included.                                                               *)
MetricsBounded ==
    \A metric \in DOMAIN measured : Cardinality(DOMAIN measured[metric]) <= MaxSeries

(* Among the types: a call is tried, and its caller held, no more than the *)
(* policy says, whatever a provider asks for; and metrics are bounded.     *)
ModelCallsTypeOK ==
    /\ gateway \in BOOLEAN
    /\ gen \in [Generations ->
           [pc : {"idle", "call", "wait", "record", "commit", "over"}, op : Operations,
            model : {"default", "allowed"}, attempt : 0 .. MaxAttempts,
            waited : 0 .. MaxRetries * MaxDelay, tokens : [input : Nat, output : Nat],
            served : {"", "released", "allowed", "unknown"}, status : {0, 200, 422, 429, 500, 502, 503, 504}]]
    /\ MetricsBounded

Spent(g) == gen[g].tokens.input + gen[g].tokens.output

(* However calls interleave and fail, and whichever series overflow, the   *)
(* metrics account for every call that reached a provider: it was answered,*)
(* was the end of an operation, was retried, or is still under way - and   *)
(* for its time and its tokens. A failed operation is one error.           *)
MeasuresAddUp ==
    LET ended  == {g \in Generations : gen[g].attempt > 0 /\ gen[g].pc \notin {"call", "wait"}}
        failed == {g \in ended : gen[g].status \in {429, 500, 502, 504}}
        part(f) == SumFunction([s \in DOMAIN measured.durations |-> measured.durations[s][f]])
    IN /\ SumFunction([g \in Generations |-> gen[g].attempt])
            = SumFunction(measured.calls) + SumFunction(measured.retries)
                + Cardinality({g \in Generations : gen[g].pc = "call"})
       /\ SumFunction(measured.calls) = Cardinality(ended)
       /\ SumFunction(measured.errors) = Cardinality(failed)
       /\ part("observations") = Cardinality(ended)
       /\ part("total") = SumFunction([g \in ended |-> gen[g].waited])
       /\ SumFunction(measured.tokens) = SumFunction([g \in Generations |-> Spent(g)])

(* The ledger has one row for a call, with the tokens its answer had, and  *)
(* none for a caller that was told of a failure.                           *)
RowsAreTrue ==
    /\ \A row \in usage : gen[row.of].status = 200 /\ gen[row.of].tokens = row.tokens
    /\ \A a, b \in usage : a.of = b.of => a = b

(* A report, by a book and at a moment, on the models it lists: how many   *)
(* calls have a price, how many have none, and the sum of what they cost.  *)
ReportTells(rows, most, book, at) ==
    LET used       == ModelUsage(rows, most)
        report     == Report(book, used, at)
        told       == {row \in rows : row.model \in DOMAIN used}
        price(row) == PriceFor(book, row.model, at)
        priced     == {row \in told : price(row) # {}}
    IN /\ report.priced = Cardinality(priced)
       /\ report.priced + report.unpriced = Cardinality(told)
       /\ report.cost.refused <=> \E a, b \in priced : \E p \in price(a), q \in price(b) :
                                 p.currency # q.currency
       /\ report.cost.amount = SumFunction([row \in priced |->
             LET p == CHOOSE q \in price(row) : TRUE
             IN Charge(p, row.tokens.input, row.tokens.output)])

(* A call is left out only when more models were called than the limit and *)
(* none of those listed was called less.                                   *)
ReportLeavesOut(rows, most) ==
    LET used == ModelUsage(rows, most) IN
    \A row \in rows : row.model \in DOMAIN used
        \/ /\ Cardinality({r.model : r \in rows}) > most
           /\ \A m \in DOMAIN used : Cardinality({r \in rows : r.model = row.model}) <= used[m].calls

(* The ledger is true and says no more than was measured; and a report on  *)
(* it adds up the calls of the models it lists, which are those with the   *)
(* most calls.                                                             *)
LedgerTellsWhatWasSpent ==
    /\ RowsAreTrue
    /\ SumFunction([row \in usage |-> row.tokens.input + row.tokens.output])
         <= SumFunction(measured.tokens)
    /\ \A most \in GroupLimits :
          /\ ReportLeavesOut(usage, most)
          /\ \A book \in Books, at \in 0 .. 1 : ReportTells(usage, most, book, at)

(* services/usage.py:14-16: the report says how many calls were of a model *)
(* that has no price.                                                      *)
UnpricedCallsAreSaid ==
    \A book \in Books, most \in GroupLimits, at \in 0 .. 1 :
        Report(book, ModelUsage(usage, most), at).unpriced
          = Cardinality({row \in usage : PriceFor(book, row.model, at) = {}})
=============================================================================
