------------------------------ MODULE AgentRuns ------------------------------
(***************************************************************************)
(* Durable agent runs and the approvals that gate their tools, for one     *)
(* organization: the rows of agent_runs, agent_steps, tool_executions and  *)
(* approvals, and the HTTP requests that advance them.                     *)
(*                                                                         *)
(* There is no background worker.  A request starts a run, or decides an   *)
(* approval and resumes the run behind it, and drives it until it ends or  *)
(* pauses; the database is shared by every request.  One action is one     *)
(* database transaction, or one call outside the database (a model call, a *)
(* tool).  A request keeps its own copy of the run between transactions    *)
(* (the ORM session is built with expire_on_commit=False) and a flush      *)
(* writes only the columns that differ from that copy; RecordState is that *)
(* write.                                                                  *)
(*                                                                         *)
(* An execution <<r, n>> is the tool that step n of run r asked for.       *)
(***************************************************************************)
EXTENDS Integers, FiniteSets

CONSTANTS
  Runs,         \* agent runs, each with an idempotency key of its own
  Procs,        \* requests that may be in flight at once
  MaxSteps,     \* the agent's max_steps
  SlowDrivers,  \* may a live driver be silent for longer than the stale window?
  Tokens,       \* is a cancellation token other than NEVER_CANCELLED passed?
  NoRun         \* the run of a request that serves none

ASSUME StepsAssumption == MaxSteps \in Nat
ASSUME FlagsAssumption == SlowDrivers \in BOOLEAN /\ Tokens \in BOOLEAN
ASSUME NoRunAssumption == NoRun \notin Runs

VARIABLES
  run,       \* agent_runs: status, step_count and error_code of each row
  stale,     \* whether a row's updated_at is older than the sweep's cutoff
  journal,   \* agent_steps: the step numbers written for each run
  exec,      \* tool_executions: outcome and executed flag
  approval,  \* approvals: status of the row gating an execution
  due,       \* whether that approval's expires_at has passed
  gated,     \* whether the tool a step asks for requires approval
  audited,   \* audit_events: the statuses agent.run events record for each run
  body,      \* how often a tool body ran: the effect on the world
  pc,        \* where each request is
  job        \* what each request holds in memory

vars == <<run, stale, journal, exec, approval, due, gated, audited, body, pc, job>>

Steps == 1..MaxSteps
Execs == Runs \X Steps

Terminal == {"completed", "failed", "cancelled"}
Active   == {"pending", "running"}
RunStatus == {"absent", "awaiting_approval"} \cup Active \cup Terminal

RunError == {"none", "run_failed", "agent_run_abandoned",
             "approval_expired", "run_cancelled"}

\* "ran" is any result the tool itself produced (succeeded, failed inside the
\* body, timed out); "refused" is a FAILED result of a check before the body.
Outcome == {"ran", "refused", "approval_required", "rejected", "cancelled"}

ApprovalStatus == {"none", "pending", "approved", "rejected", "expired", "cancelled"}

\* Where a driving request is, and where a deciding one is before it drives.
DrivePoints  == {"start", "loop", "final", "tool", "record", "stopped",
                 "ask", "pause", "append"}
DecidePoints == {"decided", "claim", "grant", "outcome", "resume"}
\* Decisions that stand while their run does not go on.
RaisedPoints == {"unresumable", "unresumed"}
\* The run is as far as this request takes it; its outcome is being audited.
ClosePoints  == {"closing", "closed"}
Points == {"idle"} \cup DrivePoints \cup DecidePoints \cup RaisedPoints \cup ClosePoints

NoJob == [run |-> NoRun, step |-> 0, status |-> "absent", steps |-> 0,
          approve |-> FALSE, outcome |-> "ran", stop |-> FALSE]

\* A row of agent_runs, a row of tool_executions, and a request's memory.
Rows     == [status: RunStatus, steps: 0..MaxSteps, error: RunError]
ExecRows == [outcome: Outcome \cup {"none"}, executed: BOOLEAN]
Jobs     == [run: Runs \cup {NoRun}, step: 0..MaxSteps, status: RunStatus,
             steps: 0..MaxSteps, approve: BOOLEAN, outcome: Outcome, stop: BOOLEAN]

TypeOK ==
  /\ run \in [Runs -> Rows]
  /\ stale \in [Runs -> BOOLEAN]
  /\ journal \in [Runs -> SUBSET Steps]
  /\ exec \in [Execs -> ExecRows]
  /\ approval \in [Execs -> ApprovalStatus]
  /\ due \in [Execs -> BOOLEAN]
  /\ gated \in [Execs -> BOOLEAN]
  /\ audited \in [Runs -> SUBSET RunStatus]
  /\ body \in [Execs -> Nat]
  /\ pc \in [Procs -> Points]
  /\ job \in [Procs -> Jobs]

Init ==
  /\ run = [r \in Runs |-> [status |-> "absent", steps |-> 0, error |-> "none"]]
  /\ stale = [r \in Runs |-> FALSE]
  /\ journal = [r \in Runs |-> {}]
  /\ exec = [e \in Execs |-> [outcome |-> "none", executed |-> FALSE]]
  /\ approval = [e \in Execs |-> "none"]
  /\ due = [e \in Execs |-> FALSE]
  /\ gated \in [Execs -> BOOLEAN]
  /\ audited = [r \in Runs |-> {}]
  /\ body = [e \in Execs |-> 0]
  /\ pc = [p \in Procs |-> "idle"]
  /\ job = [p \in Procs |-> NoJob]

-----------------------------------------------------------------------------
(* What a request knows and how it writes.                                 *)

Target(p) == <<job[p].run, job[p].step>>

Driving(p, r) == pc[p] \in DrivePoints /\ job[p].run = r

\* The row of run r after the session whose copy is j flushes the given status,
\* step count and error: a column equal to the copy is not in the UPDATE.
Flushed(j, status, steps, error) ==
  [ status |-> IF status = j.status THEN run[j.run].status ELSE status,
    steps  |-> IF steps = j.steps THEN run[j.run].steps ELSE steps,
    error  |-> IF error = "none" THEN run[j.run].error ELSE error ]

RecordState(j, status, steps, error) ==
  /\ run' = [run EXCEPT ![j.run] = Flushed(j, status, steps, error)]
  /\ stale' = [stale EXCEPT ![j.run] = FALSE]

Goto(p, point) == pc' = [pc EXCEPT ![p] = point]

\* The request is over and its session is gone.
Leave(p) ==
  /\ Goto(p, "idle")
  /\ job' = [job EXCEPT ![p] = NoJob]

\* Write the last status this request gives the run.
Finish(p, status, error) ==
  /\ RecordState(job[p], status, job[p].steps, error)
  /\ job' = [job EXCEPT ![p].status = status]
  /\ Goto(p, "closing")
  /\ UNCHANGED <<journal, exec, approval, due, gated, audited, body>>

\* Every way one call of the executor can end: what it reports and how often it
\* ran the body, for a call made with no grant, a grant or a refusal.
Results(e, grant, stop) ==
  {[outcome |-> "refused", ran |-> 0]} \cup
  CASE gated[e] /\ grant = "none"    -> {[outcome |-> "approval_required", ran |-> 0]}
    [] gated[e] /\ grant = "refusal" -> {[outcome |-> "rejected", ran |-> 0]}
    [] OTHER ->
         (IF stop THEN {} ELSE {[outcome |-> "ran", ran |-> 1]}) \cup
         (IF stop THEN {[outcome |-> "cancelled", ran |-> 0]}
          ELSE IF Tokens THEN [outcome: {"cancelled"}, ran: {0, 1}] ELSE {})

\* Fault: a call that ran its body may be tried again.
CallToolRetrying(p, grant, next) ==
  \E result \in Results(Target(p), grant, job[p].stop) :
    /\ body' = [body EXCEPT ![Target(p)] = @ + result.ran]
    /\ job' = [job EXCEPT ![p].outcome = result.outcome]
    /\ Goto(p, next) \/ (result.ran = 1 /\ UNCHANGED pc)

\* Run the tool of request p and keep its result in memory.
CallTool(p, grant, next) ==
  \E result \in Results(Target(p), grant, job[p].stop) :
    /\ body' = [body EXCEPT ![Target(p)] = @ + result.ran]
    /\ job' = [job EXCEPT ![p].outcome = result.outcome,
                          ![p].stop = @ \/ result.outcome = "cancelled"]
    /\ Goto(p, next)

ReachedTheTool(outcome) == outcome \in {"ran", "refused"}

-----------------------------------------------------------------------------
(* The abandonment sweep.                                                  *)

Sweepable(r) == run[r].status \in Active /\ stale[r]

Abandoned(r) ==
  IF Sweepable(r)
  THEN [run[r] EXCEPT !.status = "failed", !.error = "agent_run_abandoned"]
  ELSE run[r]

-----------------------------------------------------------------------------
(* Starting and driving a run.                                             *)

\* A start sweeps first, then inserts the run under its key.
Create(p, r) ==
  /\ pc[p] = "idle"
  /\ run[r].status = "absent"
  /\ run' = [q \in Runs |-> IF q = r
                            THEN [status |-> "pending", steps |-> 0, error |-> "none"]
                            ELSE Abandoned(q)]
  /\ stale' = [q \in Runs |-> stale[q] /\ ~Sweepable(q) /\ q # r]
  /\ job' = [job EXCEPT ![p] = [NoJob EXCEPT !.run = r, !.status = "pending"]]
  /\ Goto(p, "start")
  /\ UNCHANGED <<journal, exec, approval, due, gated, audited, body>>

\* The conversation is refused, or the runtime cannot be built: the exception
\* leaves the row pending.
RefuseStart(p) ==
  /\ pc[p] = "start"
  /\ Leave(p)
  /\ UNCHANGED <<run, stale, journal, exec, approval, due, gated, audited, body>>

StartRun(p) ==
  /\ pc[p] = "start"
  /\ RecordState(job[p], "running", job[p].steps, "none")
  /\ job' = [job EXCEPT ![p].status = "running"]
  /\ Goto(p, "loop")
  /\ UNCHANGED <<journal, exec, approval, due, gated, audited, body>>

\* Fault: the budget is off by one.
ModelCallOverBudget(p) ==
  LET n == job[p].steps + 1
  IN /\ pc[p] = "loop"
     /\ job[p].steps <= MaxSteps
     /\ RecordState(job[p], "running", n, "none")
     /\ job' = [job EXCEPT ![p].steps = n, ![p].step = n]
     /\ \E decision \in {"final", "tool"} : Goto(p, decision)
     /\ UNCHANGED <<journal, exec, approval, due, gated, audited, body>>

\* Fault: the working copy does not count the step it made.
ModelCallUncounted(p) ==
  /\ pc[p] = "loop"
  /\ job[p].steps < MaxSteps
  /\ ~job[p].stop
  /\ job' = [job EXCEPT ![p].step = job[p].steps + 1]
  /\ Goto(p, "tool")
  /\ UNCHANGED <<run, stale, journal, exec, approval, due, gated, audited, body>>

\* One pass of the loop: a model call, then its step and the new count in one
\* transaction.  UNIQUE(run_id, step_number) is the guard on the journal.
ModelCall(p) ==
  LET j == job[p]
      n == j.steps + 1
  IN /\ pc[p] = "loop"
     /\ j.steps < MaxSteps
     /\ ~j.stop
     /\ n \notin journal[j.run]
     /\ RecordState(j, "running", n, "none")
     /\ journal' = [journal EXCEPT ![j.run] = @ \cup {n}]
     /\ job' = [job EXCEPT ![p].steps = n, ![p].step = n]
     /\ \E decision \in {"final", "tool"} : Goto(p, decision)
     /\ UNCHANGED <<exec, approval, due, gated, audited, body>>

\* The gateway or the agent's output fails the run.
ModelFails(p) ==
  /\ pc[p] = "loop"
  /\ job[p].steps < MaxSteps
  /\ ~job[p].stop
  /\ Finish(p, "failed", "run_failed")

\* AgentMaxStepsExceededError.
OutOfBudget(p) ==
  /\ pc[p] = "loop"
  /\ job[p].steps >= MaxSteps
  /\ Finish(p, "failed", "run_failed")

\* A tripped token, seen at the head of the loop, before a tool or after one.
StopRun(p) ==
  /\ job[p].stop
  /\ \/ pc[p] = "loop" /\ job[p].steps < MaxSteps
     \/ pc[p] \in {"tool", "stopped"}
  /\ Finish(p, "cancelled", "none")

Complete(p) ==
  /\ pc[p] = "final"
  /\ Finish(p, "completed", "none")

RunTool(p) ==
  /\ pc[p] = "tool"
  /\ ~job[p].stop
  /\ CallTool(p, "none", "record")
  /\ UNCHANGED <<run, stale, journal, exec, approval, due, gated, audited>>

\* Fault: the run is paused before its question is put.
RecordToolThenPause(p) ==
  LET outcome == job[p].outcome
  IN /\ pc[p] = "record"
     /\ exec' = [exec EXCEPT ![Target(p)] =
                   [outcome |-> outcome, executed |-> ReachedTheTool(outcome)]]
     /\ Goto(p, CASE outcome = "approval_required" -> "pause"
                  [] outcome = "cancelled" -> "stopped"
                  [] OTHER -> "append")
     /\ UNCHANGED <<run, stale, journal, approval, due, gated, audited, body, job>>

\* The execution row of a first attempt.
RecordTool(p) ==
  LET outcome == job[p].outcome
  IN /\ pc[p] = "record"
     /\ exec' = [exec EXCEPT ![Target(p)] =
                   [outcome |-> outcome, executed |-> ReachedTheTool(outcome)]]
     /\ Goto(p, CASE outcome = "approval_required" -> "ask"
                  [] outcome = "cancelled" -> "stopped"
                  [] OTHER -> "append")
     /\ UNCHANGED <<run, stale, journal, approval, due, gated, audited, body, job>>

\* The approval row is committed, and decidable, before the run is paused.
Ask(p) ==
  /\ pc[p] = "ask"
  /\ approval' = [approval EXCEPT ![Target(p)] = "pending"]
  /\ Goto(p, "pause")
  /\ UNCHANGED <<run, stale, journal, exec, due, gated, audited, body, job>>

Pause(p) ==
  /\ pc[p] = "pause"
  /\ Finish(p, "awaiting_approval", "none")

\* The tool's result joins the conversation and the loop goes round.
Append(p) ==
  /\ pc[p] = "append"
  /\ Goto(p, "loop")
  /\ UNCHANGED <<run, stale, journal, exec, approval, due, gated, audited, body, job>>

\* AgentConversationTooLargeError.
TooLarge(p) ==
  /\ pc[p] = "append"
  /\ Finish(p, "failed", "run_failed")

-----------------------------------------------------------------------------
(* Deciding an approval and resuming its run.                              *)

\* Fault: the status is checked when the request reads the row, not in the UPDATE.
DecideAgain(p, e, approve) ==
  /\ pc[p] = "idle"
  /\ approval[e] # "none"
  /\ ~due[e]
  /\ approval' = [approval EXCEPT ![e] = IF approve THEN "approved" ELSE "rejected"]
  /\ job' = [job EXCEPT ![p] = [NoJob EXCEPT !.run = e[1], !.step = e[2],
                                             !.approve = approve]]
  /\ Goto(p, "decided")
  /\ UNCHANGED <<run, stale, journal, exec, due, gated, audited, body>>

\* UPDATE ... WHERE status = 'pending' AND expires_at > now(), committed before
\* anything runs.  A request that changes no row only reports why.
Decide(p, e, approve) ==
  /\ pc[p] = "idle"
  /\ approval[e] = "pending"
  /\ ~due[e]
  /\ approval' = [approval EXCEPT ![e] = IF approve THEN "approved" ELSE "rejected"]
  /\ job' = [job EXCEPT ![p] = [NoJob EXCEPT !.run = e[1], !.step = e[2],
                                             !.approve = approve]]
  /\ Goto(p, "decided")
  /\ UNCHANGED <<run, stale, journal, exec, due, gated, audited, body>>

\* Fault: a run is resumed whatever its status.
ReadRunAnyStatus(p) ==
  LET row == run[job[p].run]
  IN /\ pc[p] = "decided"
     /\ Goto(p, "claim")
     /\ job' = [job EXCEPT ![p].status = row.status, ![p].steps = row.steps]
     /\ UNCHANGED <<run, stale, journal, exec, approval, due, gated, audited, body>>

\* An unlocked read: the copy everything below works from.
ReadRun(p) ==
  LET row == run[job[p].run]
      paused == row.status = "awaiting_approval"
  IN /\ pc[p] = "decided"
     /\ Goto(p, IF paused THEN "claim" ELSE "unresumable")
     /\ job' = IF paused
               THEN [job EXCEPT ![p].status = row.status, ![p].steps = row.steps]
               ELSE job
     /\ UNCHANGED <<run, stale, journal, exec, approval, due, gated, audited, body>>

\* Fault: nothing is claimed before the tool runs.
ClaimNothing(p) ==
  /\ pc[p] = "claim"
  /\ Goto(p, "grant")
  /\ UNCHANGED <<run, stale, journal, exec, approval, due, gated, audited, body, job>>

\* SET executed = true WHERE executed = false, for an approval only.
Claim(p) ==
  LET e == Target(p)
      lost == job[p].approve /\ exec[e].executed
  IN /\ pc[p] = "claim"
     /\ exec' = IF job[p].approve THEN [exec EXCEPT ![e].executed = TRUE] ELSE exec
     /\ Goto(p, IF lost THEN "unresumable" ELSE "grant")
     /\ UNCHANGED <<run, stale, journal, approval, due, gated, audited, body, job>>

\* Fault: any recorded decision is taken for a grant.
RunDecided(p) ==
  /\ pc[p] = "grant"
  /\ CallTool(p, "grant", "outcome")
  /\ UNCHANGED <<run, stale, journal, exec, approval, due, gated, audited>>

RunGranted(p) ==
  /\ pc[p] = "grant"
  /\ CallTool(p, IF job[p].approve THEN "grant" ELSE "refusal", "outcome")
  /\ UNCHANGED <<run, stale, journal, exec, approval, due, gated, audited>>

\* The same execution row, now with an outcome; executed is raised, never lowered.
RecordOutcome(p) ==
  LET outcome == job[p].outcome
  IN /\ pc[p] = "outcome"
     /\ exec' = [exec EXCEPT ![Target(p)] =
                   [outcome |-> outcome, executed |-> @.executed \/ ReachedTheTool(outcome)]]
     /\ Goto(p, "resume")
     /\ UNCHANGED <<run, stale, journal, approval, due, gated, audited, body, job>>

\* Fault: a resumed run gets a fresh budget.
ResumeUncarried(p) ==
  /\ pc[p] = "resume"
  /\ RecordState(job[p], "running", 0, "none")
  /\ job' = [job EXCEPT ![p].status = "running", ![p].steps = 0]
  /\ Goto(p, "append")
  /\ UNCHANGED <<journal, exec, approval, due, gated, audited, body>>

ResumeRun(p) ==
  /\ pc[p] = "resume"
  /\ RecordState(job[p], "running", job[p].steps, "none")
  /\ job' = [job EXCEPT ![p].status = "running"]
  /\ Goto(p, "append")
  /\ UNCHANGED <<journal, exec, approval, due, gated, audited, body>>

\* The agent is gone, disabled or has no model: the runtime raises before the
\* run is touched.
RefuseResume(p) ==
  /\ pc[p] = "resume"
  /\ Goto(p, "unresumed")
  /\ UNCHANGED <<run, stale, journal, exec, approval, due, gated, audited, body, job>>

\* The agent.run event is flushed, not committed: it is kept when the request
\* returns and rolled back when a failed or cancelled run raises.
Close(p) ==
  LET j == job[p]
      raises == j.status \in {"failed", "cancelled"}
  IN /\ pc[p] = "closing"
     /\ audited' = IF raises THEN audited
                    ELSE [audited EXCEPT ![j.run] = @ \cup {j.status}]
     /\ Goto(p, "closed")
     /\ UNCHANGED <<run, stale, journal, exec, approval, due, gated, body, job>>

Answer(p) ==
  /\ pc[p] \in RaisedPoints \cup {"closed"}
  /\ Leave(p)
  /\ UNCHANGED <<run, stale, journal, exec, approval, due, gated, audited, body>>

-----------------------------------------------------------------------------
(* Everybody else.                                                         *)

Questions(r) == {e \in {r} \X Steps : approval[e] = "pending"}

\* Fault: the paused run is cancelled whether or not a question was withdrawn.
CancelRunFirst(r) ==
  /\ run[r].status = "awaiting_approval"
  /\ approval' = [e \in Execs |-> IF e \in Questions(r) THEN "cancelled" ELSE approval[e]]
  /\ run' = [run EXCEPT ![r].status = "cancelled", ![r].error = "run_cancelled"]
  /\ UNCHANGED <<stale, journal, exec, due, gated, audited, body, pc, job>>

\* Fault: a run with an open question is cancelled though it is still being driven.
CancelDriven(r) ==
  /\ Questions(r) # {}
  /\ approval' = [e \in Execs |-> IF e \in Questions(r) THEN "cancelled" ELSE approval[e]]
  /\ run' = [run EXCEPT ![r].status = "cancelled", ![r].error = "run_cancelled"]
  /\ UNCHANGED <<stale, journal, exec, due, gated, audited, body, pc, job>>

\* Both conditional updates in one transaction: withdraw the questions, then end
\* the paused run.  Either changing no row rolls the other back.
Cancel(r) ==
  /\ Questions(r) # {}
  /\ run[r].status = "awaiting_approval"
  /\ approval' = [e \in Execs |-> IF e \in Questions(r) THEN "cancelled" ELSE approval[e]]
  /\ run' = [run EXCEPT ![r].status = "cancelled", ![r].error = "run_cancelled"]
  /\ UNCHANGED <<stale, journal, exec, due, gated, audited, body, pc, job>>

\* Fault: the clock alone decides what is overdue.
OverdueByClock == {e \in Execs : due[e]}

Overdue == {e \in Execs : approval[e] = "pending" /\ due[e]}

\* The queue being read, a late decision or the operator's script: lapse what is
\* overdue and fail the runs still paused behind it, in one transaction.
ExpireDue ==
  LET stopped == {r \in Runs : /\ run[r].status = "awaiting_approval"
                               /\ \E n \in Steps : <<r, n>> \in Overdue}
  IN /\ Overdue # {}
     /\ approval' = [e \in Execs |-> IF e \in Overdue THEN "expired" ELSE approval[e]]
     /\ run' = [r \in Runs |->
                  IF r \in stopped
                  THEN [run[r] EXCEPT !.status = "failed", !.error = "approval_expired"]
                  ELSE run[r]]
     /\ UNCHANGED <<stale, journal, exec, due, gated, audited, body, pc, job>>

\* The operator's script, or a start that finds its key taken.
Sweep ==
  /\ \E r \in Runs : Sweepable(r)
  /\ run' = [r \in Runs |-> Abandoned(r)]
  /\ stale' = [r \in Runs |-> stale[r] /\ ~Sweepable(r)]
  /\ UNCHANGED <<journal, exec, approval, due, gated, audited, body, pc, job>>

\* A deadline passes.
Lapse(e) ==
  /\ approval[e] = "pending"
  /\ ~due[e]
  /\ due' = [due EXCEPT ![e] = TRUE]
  /\ UNCHANGED <<run, stale, journal, exec, approval, gated, audited, body, pc, job>>

\* A run is not written to for longer than agent_run_stale_after_seconds.
Age(r) ==
  /\ run[r].status \in Active
  /\ ~stale[r]
  /\ SlowDrivers \/ \A p \in Procs : ~Driving(p, r)
  /\ stale' = [stale EXCEPT ![r] = TRUE]
  /\ UNCHANGED <<run, journal, exec, approval, due, gated, audited, body, pc, job>>

\* Somebody trips the request's cancellation token.
Trip(p) ==
  /\ Tokens
  /\ pc[p] \in DrivePoints \cup DecidePoints
  /\ ~job[p].stop
  /\ job' = [job EXCEPT ![p].stop = TRUE]
  /\ UNCHANGED <<run, stale, journal, exec, approval, due, gated, audited, body, pc>>

\* The process dies: memory is lost, the open transaction is rolled back.
Crash(p) ==
  /\ pc[p] # "idle"
  /\ Leave(p)
  /\ UNCHANGED <<run, stale, journal, exec, approval, due, gated, audited, body>>

-----------------------------------------------------------------------------
Drive(p) ==
  \/ RefuseStart(p) \/ StartRun(p)
  \/ ModelCall(p) \/ ModelFails(p) \/ OutOfBudget(p) \/ StopRun(p) \/ Complete(p)
  \/ RunTool(p) \/ RecordTool(p) \/ Ask(p) \/ Pause(p) \/ Append(p) \/ TooLarge(p)

Resume(p) ==
  \/ ReadRun(p) \/ Claim(p) \/ RunGranted(p) \/ RecordOutcome(p)
  \/ ResumeRun(p) \/ RefuseResume(p) \/ Close(p) \/ Answer(p)

Request(p) ==
  \/ \E r \in Runs : Create(p, r)
  \/ \E e \in Execs, approve \in BOOLEAN : Decide(p, e, approve)

Environment ==
  \/ \E r \in Runs : Cancel(r) \/ Age(r)
  \/ \E e \in Execs : Lapse(e)
  \/ ExpireDue
  \/ Sweep
  \/ \E p \in Procs : Trip(p) \/ Crash(p)

Next ==
  \/ \E p \in Procs : Request(p) \/ Drive(p) \/ Resume(p)
  \/ Environment

Spec == Init /\ [][Next]_vars

\* A request that is being served is scheduled until it answers.  Nothing makes
\* a user, a clock or a crash happen.
Fairness == \A p \in Procs : WF_vars(Drive(p) \/ Resume(p))

FairSpec == Spec /\ Fairness

-----------------------------------------------------------------------------
(* What has to be true of every run, whoever is acting on it.              *)

\* A tool body runs at most once for one execution, however many times an
\* approval is repeated and wherever a request dies (ToolExecutionRepository.claim,
\* ToolExecutor._run: "Nothing is retried").
AtMostOnce == \A e \in Execs : body[e] <= 1

\* A tool that needs a person never ran unless the durable decision is an
\* approval: not while the question is open, rejected, lapsed or withdrawn.
RanOnlyIfApproved ==
  \A e \in Execs : gated[e] /\ body[e] > 0 => approval[e] = "approved"

\* The effect of a gated tool is never missing from tool_executions: the claim is
\* durable before the body runs, so a crash in between cannot lose it.
GatedEffectRecorded ==
  \A e \in Execs : gated[e] /\ body[e] > 0 => exec[e].executed

\* At most one request drives a run: the pause, the decision and the resume hand
\* it over without two requests ever holding it.
OneDriver ==
  \A r \in Runs : \A p, q \in Procs : Driving(p, r) /\ Driving(q, r) => p = q

\* agent_runs.step_count is the number of agent_steps rows, across every request
\* that served the run: a resumed run goes on with the budget it had left.
CountsAgree == \A r \in Runs : run[r].steps = Cardinality(journal[r])

\* A run that waits for a person has put its question: a crash between the two
\* commits can leave a question without a pause, never a pause without a question.
PausedRunWasAsked ==
  \A r \in Runs :
    run[r].status = "awaiting_approval" => approval[<<r, run[r].steps>>] # "none"

\* A decision, a lapse or a withdrawal is final: whoever moves an approval out of
\* pending is the only one who ever does (ApprovalRepository).
DecidedOnce ==
  [][\A e \in Execs : approval[e] \notin {"none", "pending"} => approval'[e] = approval[e]]_vars

\* No tool of a run starts after the run is durably cancelled
\* (AgentExecutionService.cancel: "What cannot happen is the action running after
\* the run is durably cancelled").
NothingRunsAfterCancel ==
  [][\A e \in Execs : run[e[1]].status = "cancelled" => body'[e] = body[e]]_vars

\* "States a run never leaves" (agents/models.py, TERMINAL_STATUSES).
TerminalForever ==
  [][\A r \in Runs : run[r].status \in Terminal => run'[r].status = run[r].status]_vars

\* Every request is answered: the step budget ends the loop, and nothing a request
\* waits for depends on another request.
RequestsEnd == \A p \in Procs : pc[p] # "idle" ~> pc[p] = "idle"

\* The whole machine, seen only through its gated executions, is the one-question,
\* one-answer, at-most-one-effect gate of ApprovalGate.
Gate == INSTANCE ApprovalGate WITH
          Actions <- Execs,
          answer  <- approval,
          effect  <- [e \in Execs |-> IF gated[e] THEN body[e] ELSE 0]

ImplementsGate == Gate!GateSpec

-----------------------------------------------------------------------------
(* Why the gate holds: the inductive invariant of AgentRunsProofs.         *)

AskPoints   == {"tool", "record", "ask"}
ClaimPoints == {"decided", "claim", "grant"}

\* Before its question is put, the execution a request works on is fresh; after a
\* decision, it carries that decision, and its body waits for the claim.
RequestOK(p) ==
  /\ pc[p] # "idle" => job[p].run \in Runs
  /\ pc[p] \in AskPoints =>
       /\ job[p].step \in journal[job[p].run]
       /\ approval[Target(p)] = "none"
       /\ pc[p] = "tool" => body[Target(p)] = 0
       /\ pc[p] = "record" /\ job[p].outcome = "approval_required" => gated[Target(p)]
       /\ pc[p] = "ask" => gated[Target(p)]
  /\ pc[p] \in DecidePoints =>
       /\ job[p].step \in Steps
       /\ gated[Target(p)]
       /\ approval[Target(p)] = IF job[p].approve THEN "approved" ELSE "rejected"
       /\ pc[p] \in ClaimPoints => body[Target(p)] = 0
       /\ pc[p] = "grant" /\ job[p].approve => exec[Target(p)].executed

\* A step not yet in the journal left no trace; only gated executions are asked
\* about; a gated body ran once, under an approval, and is recorded.
ExecOK(e) ==
  /\ e[2] \notin journal[e[1]] => body[e] = 0 /\ approval[e] = "none"
  /\ approval[e] # "none" => gated[e]
  /\ body[e] <= 1
  /\ gated[e] /\ body[e] > 0 => approval[e] = "approved" /\ exec[e].executed

\* Two requests are never on the same side of the same question.
Apart(p, q) ==
  \/ pc[p] \in AskPoints /\ pc[q] \in AskPoints
  \/ pc[p] \in DecidePoints /\ pc[q] \in DecidePoints
  => Target(p) # Target(q)

\* Every step keeps the two sides of a question apart: the UNIQUE key of agent_steps
\* before it is put, the conditional UPDATE of approvals once it is answered.
GateInv ==
  /\ TypeOK
  /\ \A p \in Procs : RequestOK(p)
  /\ \A e \in Execs : ExecOK(e)
  /\ \A p, q \in Procs : p # q => Apart(p, q)

-----------------------------------------------------------------------------
(* What the source says and the code does not do.                          *)

\* "The decision was recorded, but the run cannot continue.  The run has moved on -
\* abandoned, cancelled, or already finished" (ApprovalNotResumableError): a
\* decision that cannot be acted on is one whose run is over.
UnresumableRunIsOver ==
  \A p \in Procs : pc[p] = "unresumable" => run[job[p].run].status \in Terminal

\* "The audit row is written first, because a failed run that left no trace is the
\* case an audit trail exists for" (AgentExecutionService._drive).
ClosedRunIsAudited ==
  \A p \in Procs : pc[p] = "closed" => job[p].status \in audited[job[p].run]
=============================================================================
