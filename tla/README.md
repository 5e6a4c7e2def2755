# A TLA+ model of the operations agent

This directory specifies, model-checks and proves properties of the backend of the
repository: its concurrent core - durable agent runs, workflow runs, the approvals that stop
them and the tools they gate - and the services around it: membership, conversations, the
model gateway with its metrics and reports, the editions of workflows, and the schema with its
migrations. Paths are relative to `src/backend/app/` unless they start with `src/`.

## 1. Inventory

The backend is a multi-tenant FastAPI application over PostgreSQL (READ COMMITTED). There is
**no background worker**: a run advances inside the HTTP request that started it or that
decided its approval. Requests share nothing but the database, and each keeps a session whose
objects outlive commits (`expire_on_commit=False`) and are not written before them
(`autoflush=False`), so a request acts on copies of rows that others may have moved. That is
where most of the difficulty is.

| Component | State it keeps | Operations | Interacts with | What makes it correct |
|---|---|---|---|---|
| Agent runs (`agents/`, `services/agent_execution.py`, `services/run_journal.py`) | `agent_runs`, `agent_steps`, `tool_executions`, messages; an in-memory `AgentRun` | start, drive, pause, resume, cancel, sweep | model gateway, tool executor, approvals, audit | one driver per run, one budget over all requests, terminal states stay terminal, nothing executed goes unrecorded |
| Approvals (`services/approvals.py`, `services/approval_expiry.py`) | `approvals` | request, approve, reject, expire, withdraw | agent runs, workflow engine, executor | one answer per question; the action at most once and only under an approval |
| Tool executor (`tools/`) | none | execute | runs, workflows | never runs a gated tool without a grant, reports what happened |
| Workflow engine (`workflows/engine.py`, `services/workflow_execution.py`) | `workflow_runs`, `workflow_step_runs` | start, drive, resume, cancel, sweep | executor, agent runs, approvals | each step at most once, claims exclusive, a paused run can always be answered |
| Workflow editions (`services/workflow_execution.py`, `repositories/workflow.py`, `workflows/validation.py`) | `workflows` | draft, check, activate, deactivate, start a run on one | workflow engine | a version names one document; what runs can end |
| Model gateway (`ai/`, `services/ai.py`) | `app.state.llm_gateway`, built by the first request | generate with retries, record what was used | vendors' SDKs, agents, metrics, usage | retries only what is retryable, bounded attempts and waits; what was answered and paid for is what is recorded |
| Membership and authentication (`services/membership.py`, `services/auth.py`, `api/deps.py`) | `users`, `organizations`, `organization_members`, tokens in use | register, log in, resolve the organization, change role, remove | all authorization | an organization keeps an owner; ownership is given by owners |
| Conversations (`repositories/conversation.py`, `services/run_journal.py`) | `messages` with positions | append, replay, report the answer | runs, approvals | a replay contains the turn that asked; a run's turns keep their order |
| Schema (`models/`, `src/backend/alembic/versions/`) | tables, keys, references, checks; the rows in them | migrate up and down, off-board a tenant, delete a person | everything | migrations apply over real rows in both directions; models and migrations agree; records outlive people |
| Audit trail (`services/audit.py`) | `audit_events` | record | everything | every outcome leaves a row |
| Metrics (`observability/metrics.py`, `observability/instruments.py`) | series of each process | increment, observe, render | everything | bounded series that still add up |
| Usage reports (`services/usage.py`, `repositories/usage.py`, `observability/pricing.py`) | none; reads two ledgers | report, price | gateway, agents | nothing counted twice, what is not priced is said |
| Tracing, HTTP layer, schemas, business tools, frontend | little shared state | - | - | - |

`PROJECT.json` lists every component with its status and every hazard at its line.

## 2. The modules

* **`AgentRuns`** - agent runs and the approvals that gate their tools.
* **`ApprovalGate`** - the abstract promise: a question is put, answered exactly once, and the
  action happens at most once and only under an approval.
* **`AgentRunsProofs`** - the gate of `AgentRuns`, and who drives a run, on top of it.
* **`WorkflowRuns`** - workflow runs, their steps and the approvals they wait for.
* **`WorkflowWalk`** - the abstract promise: a run walks the definition, one step at a time,
  each at most once, and stops at a step that is not done.
* **`WorkflowRunsProofs`** - drivers and gate of `WorkflowRuns`, and how a run moves along its
  definition, on top of them.
* **`MCAgentRuns`**, **`MCWorkflowRuns`** - the instances for TLC: symmetry sets, and the
  definitions that workflow runs follow.
* **`Memberships`** - accounts, organizations, seats, and who may change them.
* **`Conversations`** - the turns of conversations that several runs write to.
* **`PeopleProofs`** - the theorems of these two.
* **`ModelCalls`** - one call of a model, from the caller through gateway and adapter to the
  ledger; it extends **`Metrics`**, the registry behind `/metrics`, and **`UsageReports`**, what
  the ledger is read for; **`ModelCallsProofs`** its theorems.
* **`Editions`** - the editions of one workflow and the check that lets one be activated;
  **`EditionsProofs`** its theorems.
* **`Schema`** - the tables, every migration in both directions, the schema the ORM declares;
  **`SchemaProofs`** its theorems. **`Loops`** - loops written as recursive functions, and what
  their turns keep: the walks of `Editions` and the cascades of `Schema`.
* **`MCModelCalls`**, **`MCEditions`**, **`MCSchema`** - small values for the constants of these three.
* **`MCServices`** - an instance of the five service parts, side by side. It extends all of them, which is
  why `Init`, `Next` and the like carry the component's name in all but `Memberships`.
  **`ServicesProofs`** - what is proved of each holds of all together.

The two machines meet in the agent step of a workflow. `WorkflowRuns` sees an agent run as
one row that completes, fails, is cancelled or pauses (up to `MaxPauses` times); what happens
inside it is `AgentRuns`. Both implement `ApprovalGate` for their own gated tools.

### How AgentRuns corresponds to the code

One variable per table (`run`, `journal`, `exec`, `approval`, `audited`), `stale` and `due`
for what time does to rows, `gated` for the registry's `requires_approval`, `body` for the
effect on the world, and `pc`/`job` for the requests: `job[p]` is the copy of the run the
request holds. One action is one database transaction or one call out of the process:

| Points | Code |
|---|---|
| `start`, `loop` .. `append` | `AgentExecutionService.start`, `AgentRunner.run` and `_drive` |
| `decided` .. `resume` | `ApprovalService._decide`, `_resume`; then `AgentRunner.resume` |
| `unresumable`, `unresumed` | the decision is committed, the request raises |
| `closing`, `closed` | `_drive` / `_audit_outcome`, then `get_session` commits or rolls back |

`RecordState` is `DatabaseRunJournal.record_state`: an ORM flush writes only the columns that
differ from the copy, and with no condition on the stored status. Everything else the code
updates conditionally (`Decide`, `Claim`, `Cancel`, `ExpireDue`, `Sweep`) is one action whose
guard is the WHERE clause.

Merged on purpose, each because no other request can tell the difference:
the sweep and the insert of `start` (adjacent commits, the inserted row is new); the
statements of `cancel` and of `expire_due` (one transaction each, row locks held to its end);
the message writes of `record_turns`. `now()` in a conditional update is the transaction's
start, so a deadline that passes during it is a `Lapse` that comes later. A start that finds
its idempotency key taken only sweeps, and is `Sweep`.

Abstracted: contents of messages, arguments and results; token usage; why a call was refused
or failed (`Results` is every outcome the executor can report, with whether the body ran);
which conversation limit was hit.

### How WorkflowRuns corresponds to the code

One variable per table (`run`, `step`, `exec`, `approval`, `agent`); `stamped` is whether an
approval has the workflow's ids, `asks` how many approvals a step has seen (`approval` and
`stamped` are those of the latest). A cell `<<r, k>>` is one row of `workflow_step_runs`.

| Points | Code |
|---|---|
| `start`, `loop` | `WorkflowExecutionService.start`, `WorkflowEngine.start`, `_drive` |
| `execute`, `view` | `_execute` and the handler of the step's kind |
| `finish` | `_finish_step`: step, run and question in one commit |
| `decided` | `ApprovalService._decide`, and for an agent's approval `_resume` first |
| `workflow` | `_resume_workflow`, `resume_from_approval`, the two claims of `WorkflowEngine.resume` |
| `resume`, `grant` | `_decide` of the engine; `_resume_tool` between its claim and its commit |

`run.status`, `step_run.status` and `step_count` are written from the request's copy, whatever
the row says: `FinishStep` and `EndRun` have no condition on the stored status, and the count
is `job[p].count + 1`. The claims, the cancellation, the expiry and the sweep are conditional.

Merged: the reads of `resume_from_approval` into the claim that repeats their condition, the
read of an approval into the update that decides it, deadlines into `ExpireDue`, which lapses
any nonempty set of open approvals. A started agent run commits its pause in one action; the
windows inside that are those of `AgentRuns`. Abstracted: outputs, references, positions. An
unresolved reference or too large an output is a failed outcome inside `_execute` and an
exception on the resume path, and both are in the model. The definition is a constant.

### How the services correspond to the code

`Memberships`. A request reads at several awaits and writes last, and each read is an action:
`Begin` (the dependencies of the route: token, account, seat), `Look` (the target, and
`Refused`), `Count` (`_require_another_owner_remains`), `Write`. What it read is in `req[p]`.
`Register` and `Insert` are the two halves of `register`; the unique indexes on address and slug
decide the second. `ByHand` stands for what no endpoint does but the code provides for: a
suspended account, organization or seat.

`Conversations`. `turns` is the set of rows of `messages`; `sequence` and `created_at` are read and
stamped as the code does, so two appenders can choose the same position, and a conversation is
read by `Place` in the order of the query, by position and then by time. A request that drives
a run decides (`Decide`), reads the next position (`Position`) and stores its turns (`Store`),
until it closes; one that resumes reads the conversation back, oldest first and at most
`MaxReplayed` messages, and is refused when the request it needs is not in it. `nth` (which turn
of its run a row is) is there only for the property.

`ModelCalls`. `gen[g]` is one call: `pc`, attempt, time waited, tokens, status. `Faults` are what
an SDK may do; `AnthropicError` and `OpenAIError` are the `except` clauses of the two adapters,
in order; `DelayBeforeRetry` is the policy; `Answered` and `Failed` are one turn of the loop of
`_attempt`. `Record`, `Send` and `CommitCall` are the recorder's flush, the response and the commit
that `get_session` makes after it; `RecordStep` is the agent's journal, which commits at once.
`measured` is the registry, one map from label tuples to values for each metric, and `Slot` its
ceiling. A row names the model that answered (`served`), which need not be the one asked for; the
metrics name the latter. `UsageReports` reads `usage`, the rows of both tables: `ModelUsage`
groups them by model and keeps the first groups (`Kept`, the query's order and its limit), and
`Report` prices those against a book. The limit is a constant set, `GroupLimits`, because the
report is asked for every limit in it; in the code it is 200.

`Editions`. `stored` is the table, and a request holds what it read and which rows it has
locked. `activate` is split where READ COMMITTED lets another request in, in the order in which
a session that does not flush by itself sends its statements: `Activate` reads and checks,
and its new status stays in the session; the statement that retires the others finds them as it
begins (`DeactivateOthers`), waits for their rows, looks at them again and locks those still
active (`LockOthers`); `CommitActivation` writes the row's own status, if it differs from the one
that was read, and commits both. `late` is what was activated since that statement began; no
guard looks at it. `Reachable` and `FindsCycle` are the two
walks of `workflows/validation.py`, each a function over the states of its loop: `Visit` is one
turn of the first, `Explore` of the second. The stack of frames is split into the path and what
each step has still to explore; a step enters the path at most once, so one table holds both.

`Schema`. A migration is a sequence of statements on tables, columns, keys, references and
checks, in the order of the file; `Legal`, `Alter` and `Affect` say when PostgreSQL takes one and
what it does to schema and rows; a migration with an illegal statement changes nothing. A deletion
fires the references to what it deletes in the order they were created, and what these delete in
turn queues behind them, as PostgreSQL's triggers do: `Fire` is one turn of that loop, `Deleted`
the loop. `Declared` is `models/`. `Written` (in `MCSchema`) gives the rows that one use of each part of the product
leaves behind; between migrations any of them may be written, a tenant off-boarded and a person
deleted.

## 3. Runs

Agent runs. Bounds: `MaxSteps = 2` lets a run pause, resume, pause again and use up its budget; three
requests are a driver, a decider and a third one. A second run would add only that its start
sweeps the first, and here any request may sweep. `SlowDrivers` says whether a live driver may
be silent for longer than `agent_run_stale_after_seconds` (the default and the limits of
`core/config.py` allow it: one model call may take 300 s, times the retries, and the window
may be 60 s). `Tokens` says whether a cancellation token is ever passed. Deadlock checking
is off because the system may stop: every run over, nobody calling.

| Run | Shows |
|---|---|
| `gate` | with slow drivers, tokens, crashes and sweeps: at most one execution, only if approved, always recorded; one driver per run; the step count survives resumes; nothing runs after a durable cancellation; `ApprovalGate` is implemented |
| `live` | two requests, no slow drivers: terminal states are never left, a paused run has put its question, and every request is answered under weak fairness of the requests |

Fairness: only `WF(Drive(p) \/ Resume(p))`, the event loop scheduling a request that is being
served. Users, clocks, sweeps and crashes are never forced.

Each of the following runs finds a behaviour in which the code does not do what a docstring
or comment says; `PROJECT.json` quotes the line.

| Run | What happens |
|---|---|
| `slow_driver` | a sweep fails a run whose driver is in a long model call; the driver then overwrites `failed` |
| `decided_early` | a decision lands between the commit of the approval and the commit of the pause; it is recorded, the resume is refused, the run pauses with nobody left to answer it |
| `audit` | the audit row of a failed run is rolled back with the request's session |

Workflow runs. Bounds: two runs, because a run is swept by the start of another; two requests,
one that drives and one that decides; definitions with each kind of step and a branch. The
definitions are acyclic, which `MCWorkflowRuns` assumes and TLC evaluates, as
`workflows/validation.py` ensures before activation.

| Run | Shows |
|---|---|
| `wf_steps` | a branch, a gated tool, an approval whose refusal leads to an agent that pauses twice, and a plain tool after either, with crashes and a step limit that bites: a step runs at most once and, gated, only approved; one driver, whose run is running; run and step wait together; a success has no failed or open step; an agent step succeeds only if its agent completed; a refused tool stops the run; ended runs stay ended; `WorkflowWalk` and `ApprovalGate` are implemented |
| `wf_live` | two gated tools and an approval: a paused run has an open question of its own or an answer on its way; requests end, and a recorded decision moves its step, under the same fairness |

`wf_steps` has `SlowDrivers = FALSE`: with a silent driver a run is swept under it and revived,
exactly as `slow_driver` shows for agent runs. `wf_live` has no agents, because what
`wf_early_answer` finds refutes its properties, and no crashes, because
a request that dies between the commit of a decision and the claim of the run leaves it paused
with nothing to answer.

| Run | What happens |
|---|---|
| `wf_early_answer` | the agent's approval is decided before the engine stamps it; the agent finishes, the workflow waits forever |
| `wf_failed_agent` | the agent fails with an exception the engine does not catch; run and step stay `running` until swept |

Services. The run `services` checks five components that share no variable. One is chosen in
the initial state and the others stand still, so its states are the sum and not the product of
theirs. The requests are the same two model values in all of them, and the runs of a
conversation the same two as the organizations, so that one permutation is a symmetry of each
part; people are interchangeable too. Nothing in it is about liveness and no fairness is assumed.
Deadlock checking is off because every part stops when its requests are used up.

| Part | Bounds, and why they are enough | Properties |
|---|---|---|
| Memberships | three people, two organizations, two requests in flight, `MaxActs = 2` requests or changes by hand: one request against another, or against a hand, is all the races there are between two reads and a write | the last owner goes only through a request that acted on what was no longer so; who becomes an owner was made one by another owner, or founded the organization |
| Conversations | two requests, two runs, one conversation, one key, one tool call for each run, replay of 3 messages of up to 8 - a question, a request and its result: both sides of the limit, and two runs that write together. A run that has a key asks for no tool (`KeyedRunsAskNothing`): a replay only reads, so tools are left to the runs beside it that have none | a run's turns are read back in its order; no model is sent a result without the request for it |
| ModelCalls | two calls, one retry each and a backoff that the policy caps, `MaxSeries = 2` (one series and the overflow), hints that are past, allowed and too long, responses that name their model and ones that do not, two price books (one currency and a price that changes; two currencies, one price not yet in force), reports of one model or of two: metrics reach their ceiling at different calls, and models are left out. More retries, calls and limits are covered by the proofs | bounded attempts, waits and series; what is measured adds up; the ledger is true, and a report adds up the calls of the models it lists and leaves out only those with the fewest |
| Editions | two requests, two editions; every graph over three steps whose entry leads to both others, one of which has up to two ways on and the other one - trees, diamonds, and cycles through each step and behind a branch already walked - and one document for each other reason to refuse | a version names one document, and whatever is active or was started can end; an edition stays active beside one that is activated only if it was activated after the statement that retires the others began |
| Schema | seven revisions, the rows of each part of the product, written in five uses, any order of migrations, writes, off-boarding and deletions | a schema depends on its revision alone; the last is what the models declare; migrations and off-boarding apply over all rows; a downgrade spares what the older schema can hold; a person who leaves takes only memberships along |

`Ends` (in `Editions`) says what a run needs without a walk: a rank that every transition
lowers. `RunsAreOnOneSoundEdition` therefore checks the two walks of `workflows/validation.py`
against a reference definition on all those graphs; `CheckIsExact` proves it for all others.

| Run | What happens |
|---|---|
| `replay_other_answer` | two runs of one conversation answer; a replay of the first one's key returns the second answer, because `_final_response` looks for the last answer of the conversation |
| `last_owner` | two owners demote or remove each other: both counts are taken before either commits, and the organization has no owner |

Things the models show and no run states. Where a name is given, it is a definition of the module that
no run lists, and TLC finds it violated on `MCServices` with the constants of `services`:

* Two drafts activated side by side both stay active, as each request retires the others before the other
  one commits (`OneEditionIsCurrent`), while `services/workflow_execution.py:178-180` says that
  activating a version says which one is current. `OthersStayOnlyUnseen` says how far that goes.
* The active edition is activated again, and retired by another activation after it was read: its
  own status is not written, as it was active already, while it retires the other. No edition is
  active (`ActivationMakesRunnable`).
* Past `MAX_GROUPS` models (200; one and two here), a report leaves the calls of the other models out of
  both its priced and its unpriced count (`UnpricedCallsAreSaid`), while `services/usage.py:14-17` has it
  say how many calls had no price. `LedgerTellsWhatWasSpent` says what is left out.
* The downgrade of `20260915_0753` deletes the older editions of a workflow (`DefinitionsSurvive`), which
  its docstring says survive.
* A resume that the runtime refuses after the tool has run (agent disabled in between) leaves
  the run `awaiting_approval` with its question answered (`RefuseResume` of `AgentRuns`).
* A call that is refused before its body is recorded as executed, and a body that ran before
  a token tripped as not executed (`ReachedTheTool`).
* An agent's second question is not tied to its workflow: `stamped` is set by the first pause.
* A step that pauses is counted twice against `workflow_max_executed_steps` (`FinishStep` adds
  one before the pause and one after it), so `MaxExecuted` in `wf_live` is twice its steps.
* With `SlowDrivers` a workflow run that was swept goes on.
* A price book in two currencies makes a report fail as soon as models of both were used; the
  ledger property says exactly when (`refused`).

Every property of a passing run has a faulty variant of one definition (marked `Fault:` in
the module) that TLC must catch.

## 4. Proofs

Every inductive invariant below was checked by TLC on small instances before it was proved.

`AgentRunsProofs` proves, for every set of runs and requests, every `MaxSteps \in Nat` and
both values of the two flags:

| Theorem | Property |
|---|---|
| `TypeCorrect` | `[]TypeOK` |
| `RunsAtMostOnce` | `[]AtMostOnce` |
| `RunsOnlyIfApproved` | `[]RanOnlyIfApproved` |
| `EffectIsRecorded` | `[]GatedEffectRecorded` |
| `AnswersAreFinal` | `DecidedOnce` |
| `MachineImplementsGate` | `Spec => Gate!GateSpec` |

Assumptions: `StepsAssumption`, `FlagsAssumption`, `NoRunAssumption`.

None of the three invariants is inductive. A body runs at most once because it had not run
when the request came to call it, and that depends on nobody else being about to call it.
`GateInv` says so: the execution a request holds *before* its question is put is fresh
(`RequestOK`), the one it holds *after* a decision carries that decision and its body waits
for the claim, an execution not yet in the journal left no trace (`ExecOK`), and two requests
are never on the same side of the same question (`Apart`). The last part rests on two
database facts: `UNIQUE(run_id, step_number)` in `agent_steps` and the conditional `UPDATE` of
`approvals`. `Separate` adds that requests on different sides have different questions too.

The proof has a lemma per action that writes one of the gate's tables, `StepOfRequest` for
what such a lemma owes, `QuietStep` for the actions of a request that write none of them, and
`OutsideStep` for the environment. The refinement maps `Ask` to `Put`, `Decide`, `Cancel` and
`ExpireDue` to `Settle`, a `RunGranted` that ran the body to `Perform`, all else to stutters.

Of the drivers it proves, under the same assumptions:

| Theorem | Property |
|---|---|
| `RunsHaveOneDriver` | `[]OneDriver` |
| `CountsAlwaysAgree` | `[]CountsAgree` |
| `PausedRunsWereAsked` | `[]PausedRunWasAsked` |
| `CancelledRunsRunNothing` | `NothingRunsAfterCancel` |
| `RunsEndOnce` | `TerminalForever`, if `SlowDrivers = FALSE` |

No row says that a run is driven, so `OneDriver` cannot be shown from the rows alone.
`DriversInv` (on top of `GateInv`) relates three things. For each request, what its place tells of
the row: a driver finds it active, or failed by a sweep, and has its count; a request that
resumes finds it paused (`ServerOK`). For each run, that the journal has no gap, is as long as the
count, and at most one question is open (`RunOK`). And for two requests, that they serve one run
together only in one `Handover`: the one about to pause, and the one that was quick to answer
(`Alone`), which is the window of `decided_early`. A resume is kept out of it because the claim
asks for a paused row. `TerminalForever` needs the hypothesis: `slow_driver` refutes it without.

`WorkflowRunsProofs` proves, for every definition (any kinds and targets, cyclic ones
included), every set of runs and requests, every limit and all the flags:

| Theorem | Property |
|---|---|
| `TypeCorrect` | `[]TypeOK` |
| `OneDriverAtATime` | `[]OneDriver` |
| `StepsRunOnce` | `[]StepRunsOnce` |
| `GatedStepsRanApproved` | `[]GatedStepRanApproved` |
| `EngineImplementsGate` | `Spec => Gate!GateSpec` |

Assumption: `DefinitionAssumption`, for types; what TLC assumes beyond it, `AcyclicAssumption`,
no theorem needs.

The invariant is built in three layers, each inductive on top of the one before. `TypeInv`:
types, and a request that is served serves a run. `DriverInv`: the request that holds a run,
from its insertion or its claim to its pause or end, finds `pending` (before the claim) or
`running` (after it) in the row, or `failed` if a sweep came by; and holds it alone. `OneDriver`
by itself is not inductive, because what keeps a second request out is the status of the row.
`StepInv`: a cell nobody began has no trace, a request that took a step finds it fresh until
its question is put, a request that carries an approval carries the recorded one, and a grant
is claimed and not yet used. Its preservation is `StepOfRequest`: only the holder of a run runs
a body or puts a first question, so `DriverInv` protects what the others know.

Of the walk it proves, for every definition as well:

| Theorem | Property | Hypotheses |
|---|---|---|
| `RunsWaitWithTheirSteps` | `[]RunWaitsWithItsStep` | |
| `SucceededRunsAreWhole` | `[]SucceededRunIsWhole` | |
| `AgentStepsTellTruth` | `[]AgentStepTellsTruth` | |
| `EngineWalksDefinition` | `WalksDefinition`: `Spec` implements `WorkflowWalk` | |
| `RejectedToolsStop` | `RejectedToolStops` | |
| `DrivenRunsAreRunning` | `[]DrivenRunIsRunning` | `SlowDrivers = FALSE` |
| `RunsEndOnce` | `TerminalForever` | `SlowDrivers = FALSE` |
| `PausedRunsCanMove` | `[]PausedRunCanMove` | `Crashes = FALSE`, no agent steps |

Three more invariants stand on `Inv2`, the one of drivers and gate. `Inv3` adds `WalkInv` -
a run has one step in hand and waits exactly when that step does, a request between two steps
stands where the definition led it, what it is about to commit as a success is one - and
`AnswerInv`. `WalkInv` alone is not inductive: a request that resumes a run could overwrite a step
about which another question is open. `AnswerInv` says why it cannot: the decision a request
carries is the last word on its step, since a step is asked about for the first time only once,
and what an agent asks later never carries the run. The refinement reads the walk off the
step rows: a step that opens, one that ends and one that fails are the steps of
`WorkflowWalk`, and everything else stutters. `PromptInv` is that nobody takes a held run for
dead, and with slow drivers it is false. `PauseInv` (in `Inv4`) is that a step that waits
has an open question that carries its run, or a committed answer whose request is on its way.
Both hypotheses are needed: a request that dies there, or an agent answered before its question
is stamped (`wf_early_answer`), leaves the step with neither.

`PeopleProofs` proves of `Memberships`, for any people (finitely many), organizations, requests and number
of acts:

| Theorem | Property |
|---|---|
| `TypeCorrect` | `[]TypeOK` |
| `LastOwnerGoesUnseen` | `LastOwnerGoesOnlyUnseen` |
| `OwnershipGranted` | `OwnershipIsGranted` |

Assumption: `MembersAssumption`, finite `Users`, so that owners can be counted. The
invariant is `SeatInv`: types, and for each request what it knows by the time it writes
(`Informed`): it is not about itself when it changes a role; it was an owner's if it makes one;
if it saw an owner it counted more than one. The strengthening is needed because count
and write are separate steps: from the write alone one cannot tell that anybody counted.
The step that removes the last owner then contradicts the count unless what was counted has
changed since.

`PeopleProofs` proves of `Conversations`, for any requests, runs, conversations and tools, and any
`MaxReplayed` and `MaxCalls` in `Nat`:

| Theorem | Property |
|---|---|
| `TurnsStayInOrder` | `[]RunTurnsInOrder` |
| `ResultsAreSentAfterRequests` | `[]ResultsFollowTheirRequests` |

Positions are not unique: two transactions that read the last one together write the same.
The invariant `TalkInv` says what is left. A run is in the hands of one request (`HoldsRun`), so the
position that request read is past all of the run's (`AppendOK`), and the run's own turns are in
order of position (`PairOK`). Two rows with one position are of two transactions and so of two
times, so the query orders them; by counting what precedes a row its rank is a one-to-one
numbering. And a result is stored above the request it answers (`RowOK`), so a replay that
contains it and was not refused has the request before it (`SentOK`), wherever the limit cuts.

`ModelCallsProofs` proves, for any number of calls, any policy of retries, hints, buckets and
price books:

| Theorem | States | Hypotheses |
|---|---|---|
| `SeriesStayBounded` | `[]MetricsBounded`, the third part of `ModelCallsTypeOK` | `MaxSeries >= 1` |
| `LedgerIsTrue` | `[]RowsAreTrue`, the first part of `LedgerTellsWhatWasSpent` | |
| `CallsStayBounded` | `[]ModelCallsTypeOK`: attempts and waits within the policy | `MaxSeries >= 1`, the policy's numbers in `Nat` |
| `MeasuresDoAddUp` | `[]MeasuresAddUp` | the policy's numbers in `Nat`, finitely many calls |
| `LedgerTellsTheTruth` | `[]LedgerTellsWhatWasSpent` | those, a book has one numeric price for a model and a date, the limits are in `Nat`, and names have an order (`Collation`) |

None is inductive. A metric with `MaxSeries` series stays there only because the one
over the ceiling is the overflow, which every later label falls into: `Bounded` says so, and
`SlotStaysBounded` is the step. A row stays true only because its call is over: `LedgerInv` says
so, and `StepOfCall` is what an action of one call owes for it. A call is within its policy because
each wait was paid for by an attempt: `CallsInv`, with the place a call has got to. That the
metrics add up is `SumInv`, six equations between sums over calls and sums over series; a step
moves one call and one series of each, or the overflow, and both sides by the same number.
The report splits the rows by model and by price and adds them up again; `SpentInv` is what it
needs of them. What it is given is the grouping of the rows whose models are listed
(`UsageIsGrouped`), so it loses nothing of those (`ReportAddsUp`); and a model that is cut off has
as many others before it as the limit, each of which has at least as many calls
(`OnlyTheLeastAreLeftOut`). That prices are one for each model and date is what
`_reject_duplicates` of `observability/pricing.py` ensures when a book is loaded.

`EditionsProofs` proves, for documents of any size:

| Theorem | States | Hypotheses |
|---|---|---|
| `CheckIsSound` | what `BadGraph` and `BadReference` let through `Ends` | a finite graph that parsed |
| `CheckIsExact` | and what `Ends` is let through | no step is called `"input"`, the model's word for the run's input |
| `EditionsStayNumbered` | `[]EditionsTypeOK` | finite drafts, `MaxEditions >= 1` |
| `EditionsAreSound` | `[]RunsAreOnOneSoundEdition` | the same |
| `OthersGoUnlessUnseen` | `OthersStayOnlyUnseen` | the same |

A walk is a loop that uses something up at every turn: steps not yet seen (`Unseen`),
transitions not yet taken and the length of the path (`Unwalked`). `LoopComputes` shows that such a
loop has a value, and `LoopKeeps` that what each turn keeps holds where it stops. `Reachable` keeps
that what is seen leads to what is seen or pending. The depth-first walk keeps `WalkOK`: what is
finished can be ranked and leads nowhere else; of a step on the path, each transition taken leads
to what is finished or on along the path. So a walk that empties its path has ranked all it
reached, and one that meets its path has found a cycle, which no rank allows. The invariant of
the requests, `EditionsInv`, says that an activation goes on only where the check passed, that the
n-th edition has version n, and that a version taken for an insert is at most the next: that is
all the unique key needs to keep a version to one document. `OthersKnown`, on top of it, says that
what else is active once the others are being retired was found by that statement or was activated
since: a commit is the only action that makes an edition active, and it tells whoever began before it.

Induction over data is done here by a smallest counterexample (`SmallestNumber`, from the
well-founded order of the naturals): the library's own induction theorems take an operator as a
parameter, which the installed provers cannot instantiate. Out of reach remain liveness and
`ENABLED`, and everything in a module with a `RECURSIVE` operator.

`SchemaProofs` proves, for any rows the product may write (`Written`, with `WrittenAssumption`:
finitely many rows, no value is NULL) and any order of migrations, uses and deletions:

| Theorem | States |
|---|---|
| `SchemaHolds` | the inductive invariant, `SchemaInv` |
| `SchemaTypes` | `[]SchemaTypeOK`: every row is one the database would admit again |
| `RowsAlwaysFit` | `[]AllFit`: no migration leaves a row the schema has no place for |
| `LeavingTakesMembershipsOnly` | `LeavingErasesNoRecord` |
| `DowngradeSparesRows` | `DowngradeSparesOlderRows` |
| `ReliedHolds` | `[]Relied`: the columns the downgrades tell rows apart by are there and NOT NULL |
| `PlacedHolds` | `[]Placed`: each table is as its revision makes it |
| `RoundTripHolds` | `[]RoundTrip` |

The database checks a statement once, and what it checked must outlast all later ones; that is
`Base`, which each statement of each migration keeps (`StatementKeeps`), and so does each use and
each deletion. It says that tables and references are well formed (`DbOK`), that rows
fit them (`AllFit`), share no key, refer only to what is there and to their own tenant
(`Upheld`), and of every reference the little all of them have in common (`LinkOK`): which may
cascade from an account, which may set null, that none leads to a membership. The keys
and references of a row hold only because a deletion is complete: `Deleted` is a loop, and what
its turns keep is that whoever still refers to a row that is gone has yet to be visited
(`Pending`, `Swept`) and that whatever goes refers to what has gone (`Linked`). What a downgrade
removes is then explained row by row (`Explained`), in whatever order its statements do it, from
what it relies on (`Relied`) and from the columns and keys the schema has when it ends.

The last two are about the migrations themselves. A schema is the shapes of its tables: the
columns and keys of each, the references from it and the checks on it (`ShapeIn`). No statement
touches the shape of two tables, and what it does to one depends on nothing else, the rows
included (`ShapeAltered`); so a migration that is accepted is, table by table, a chain of shapes
(`Leads`). `Stage` writes down the shape of every table at every revision; `UpLeads` and
`DownLeads` say that each upgrade takes all tables from one stage to the next and each
downgrade takes them back, proved one statement of one table at a time. `Placed`, the inductive
invariant, is then that the database is at the stage of its revision, and so was the fresh
database at each: a migration that was accepted over some rows is accepted over none, as the way
up purges nothing (`Rehearsed`). `RoundTrip` follows: a stage determines a schema up to the
numbers of its references (`StagedAlike`, for `AsFresh`), and the last stage is compared with each
of the 23 models (`DeclaredMatch`, `DeclaredTables`, for `AsDeclared`).

`ServicesProofs` proves that each of the five parts of `MCServices` behaves there as its own
specification says (`PartsBehaveAsAlone`), so that what is proved of one holds of all, and
`ServicesTypes`, `[]TypesOK`, from the type theorems of each.

Only model-checked: `RequestsEnd` and `DecisionMovesStep`, which are liveness; and
`StatementsApply`, which is about the given rows: over other rows a migration may well be refused,
as that of the workflow engine is over workflow runs of the older kind.

## 5. Plan

Done: `AgentRuns`, `ApprovalGate`, `WorkflowRuns`, `WorkflowWalk`, `Memberships`, `Conversations`,
`ModelCalls` with `Metrics` and `UsageReports`, `Editions`, `Schema`, and eight modules of proofs.
Left, in order of importance:

1. `DriverInv` of workflow runs and `DriversInv` of agent runs as refinements of one abstract
   lease: claimed, held, lost to a sweep, given back.
2. `ToolExecutor` as a pipeline of checks that refines `Results`; the resolution of references
   against a run's context; the validators of `core/config.py`.

### Not modelled

* Business tools: queries over one tenant's rows, with no state of their own.
* Tracing, the rendering of metrics and the HTTP layer's routing and formatting: they
  observe or present, and change nothing another request reads.
* SQL aggregates other than those of model calls, pagination, and windows of dates: read-only.
* Cryptography of passwords and tokens, the vendors' SDKs, PostgreSQL: external, and modelled
  only by what the code relies on.
* Demo data: one sequential script.
* The frontend: state of one browser tab; the server decides every question it shows.
