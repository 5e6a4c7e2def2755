----------------------------- MODULE WorkflowRuns -----------------------------
(***************************************************************************)
(* Durable workflow runs of one organization: the rows of workflow_runs,   *)
(* workflow_step_runs, tool_executions and approvals, and the HTTP         *)
(* requests that advance them.                                             *)
(*                                                                         *)
(* As for agent runs there is no worker.  A request starts a run, or       *)
(* decides an approval and resumes the run behind it, and drives it one    *)
(* step after another until it ends or pauses.  One action is one          *)
(* transaction or one call outside the database.  Between transactions a   *)
(* request holds its copy of the run (expire_on_commit=False): every write *)
(* below sets a status that differs from the copied "running", so it goes  *)
(* out whatever the row says by then.                                      *)
(*                                                                         *)
(* The agent run behind an agent step is one value here: it completes,     *)
(* fails or pauses in one action.  AgentRuns has its machinery.            *)
(*                                                                         *)
(* A cell <<r, k>> is step k of run r: UNIQUE(workflow_run_id, step_key).  *)
(***************************************************************************)
EXTENDS Integers, FiniteSets

CONSTANTS
  Runs,         \* workflow runs
  Procs,        \* requests that may be in flight at once
  Keys,         \* the steps of the definition the runs follow
  Entry,        \* the step a run starts at
  Kind,         \* what each step is; a gated one calls a tool that asks first
  OnSuccess,    \* where a step can lead: one place, or a condition's two
  OnReject,     \* where a refused approval step leads; End when it has no path
  End,          \* "Null ends the workflow"
  MaxExecuted,  \* workflow_max_executed_steps
  MaxPauses,    \* bound: how often the agent of one step stops for a person
  SlowDrivers,  \* may a live driver be silent for longer than the stale window?
  Crashes,      \* may a process die?
  NoRun         \* the run of a request that serves none

Kinds == {"tool", "gated", "agent", "condition", "approval"}

ASSUME LimitsAssumption == MaxExecuted \in Nat \ {0} /\ MaxPauses \in Nat
ASSUME FlagsAssumption == SlowDrivers \in BOOLEAN /\ Crashes \in BOOLEAN
ASSUME NamesAssumption == NoRun \notin Runs /\ End \notin Keys

\* WorkflowDefinition: the entry and every target exist.  validate_definition also
\* refuses a cycle, which only liveness needs (MCWorkflowRuns).
ASSUME DefinitionAssumption ==
  /\ Entry \in Keys
  /\ Kind \in [Keys -> Kinds]
  /\ OnSuccess \in [Keys -> SUBSET (Keys \cup {End})]
  /\ OnReject \in [Keys -> Keys \cup {End}]

VARIABLES
  run,       \* workflow_runs: status, step_count and error_code
  stale,     \* whether a row's updated_at is older than the sweep's cutoff
  step,      \* workflow_step_runs: the status of each cell's row
  exec,      \* tool_executions of a tool step: outcome and executed flag
  approval,  \* approvals: the latest one put for each cell
  stamped,   \* whether that approval carries the workflow run and step ids
  asks,      \* how many approvals were put for each cell
  agent,     \* agent_runs: the run an agent step started
  body,      \* how often the tool of a step ran: the effect on the world
  pc,        \* where each request is
  job        \* what each request holds in memory

vars == <<run, stale, step, exec, approval, stamped, asks, agent, body, pc, job>>
durable == <<run, stale, step, exec, approval, stamped, asks, agent, body>>

Cells == Runs \X Keys

Terminal == {"succeeded", "failed", "cancelled"}
Active   == {"pending", "running"}
RunStatus  == {"absent", "awaiting_approval"} \cup Active \cup Terminal
StepStatus == {"absent", "running", "awaiting_approval"} \cup Terminal
RunError == {"none", "step_failed", "step_limit", "workflow_run_abandoned",
             "approval_expired", "workflow_run_cancelled"}

ApprovalStatus == {"none", "pending", "approved", "rejected", "expired", "cancelled"}
AgentStatus == {"absent", "awaiting_approval", "completed", "failed", "cancelled"}

\* "ran" is any result of the tool itself; "refused" a check before it.
Outcome == {"ran", "refused", "approval_required", "rejected"}
StepOutcome == {"succeeded", "failed", "awaiting_approval"}

DrivePoints  == {"loop", "execute", "view", "finish"}
ResumePoints == {"resume", "grant"}
Points == {"idle", "start", "decided", "workflow"} \cup DrivePoints \cup ResumePoints

NoJob == [run |-> NoRun, key |-> Entry, next |-> End, count |-> 0, approve |-> FALSE,
          stamped |-> FALSE, seen |-> 0, tool |-> "none", outcome |-> "failed"]

Rows     == [status: RunStatus, count: Nat, error: RunError]
ExecRows == [outcome: Outcome \cup {"none"}, executed: BOOLEAN]
Jobs     == [run: Runs \cup {NoRun}, key: Keys, next: Keys \cup {End}, count: Nat,
             approve: BOOLEAN, stamped: BOOLEAN, seen: Nat,
             tool: Outcome \cup {"none"}, outcome: StepOutcome]

TypeOK ==
  /\ run \in [Runs -> Rows]
  /\ stale \in [Runs -> BOOLEAN]
  /\ step \in [Cells -> StepStatus]
  /\ exec \in [Cells -> ExecRows]
  /\ approval \in [Cells -> ApprovalStatus]
  /\ stamped \in [Cells -> BOOLEAN]
  /\ asks \in [Cells -> Nat]
  /\ agent \in [Cells -> AgentStatus]
  /\ body \in [Cells -> Nat]
  /\ pc \in [Procs -> Points]
  /\ job \in [Procs -> Jobs]

Init ==
  /\ run = [r \in Runs |-> [status |-> "absent", count |-> 0, error |-> "none"]]
  /\ stale = [r \in Runs |-> FALSE]
  /\ step = [c \in Cells |-> "absent"]
  /\ exec = [c \in Cells |-> [outcome |-> "none", executed |-> FALSE]]
  /\ approval = [c \in Cells |-> "none"]
  /\ stamped = [c \in Cells |-> FALSE]
  /\ asks = [c \in Cells |-> 0]
  /\ agent = [c \in Cells |-> "absent"]
  /\ body = [c \in Cells |-> 0]
  /\ pc = [p \in Procs |-> "idle"]
  /\ job = [p \in Procs |-> NoJob]

-----------------------------------------------------------------------------
(* What a request knows and how it writes.                                 *)

Target(p) == <<job[p].run, job[p].key>>
KindOf(p) == Kind[job[p].key]

\* The request that works on run r: it claimed the run and has not let it go.
Driving(p, r) == pc[p] \in DrivePoints \cup ResumePoints /\ job[p].run = r

Goto(p, point) == pc' = [pc EXCEPT ![p] = point]

Leave(p) ==
  /\ Goto(p, "idle")
  /\ job' = [job EXCEPT ![p] = NoJob]

\* An outcome of the current step, and where it leads when it succeeded.
Outcomes(p, word, target) ==
  job' = [job EXCEPT ![p].outcome = word, ![p].next = target]

Put(c) ==
  /\ approval' = [approval EXCEPT ![c] = "pending"]
  /\ asks' = [asks EXCEPT ![c] = @ + 1]

-----------------------------------------------------------------------------
(* Starting and driving a run.                                             *)

\* Fault: the sweep does not look at the cutoff.
SweepableAtOnce(r) == run[r].status \in Active

Sweepable(r) == run[r].status \in Active /\ stale[r]

Abandoned(r) ==
  IF Sweepable(r)
  THEN [run[r] EXCEPT !.status = "failed", !.error = "workflow_run_abandoned"]
  ELSE run[r]

\* WorkflowExecutionService.start: sweep, then insert the run.  A key already
\* taken is answered with the run that owns it and changes nothing more.
Create(p, r) ==
  /\ pc[p] = "idle"
  /\ run[r].status = "absent"
  /\ run' = [q \in Runs |-> IF q = r
                            THEN [status |-> "pending", count |-> 0, error |-> "none"]
                            ELSE Abandoned(q)]
  /\ stale' = [q \in Runs |-> stale[q] /\ ~Sweepable(q) /\ q # r]
  /\ job' = [job EXCEPT ![p] = [NoJob EXCEPT !.run = r]]
  /\ Goto(p, "start")
  /\ UNCHANGED <<step, exec, approval, stamped, asks, agent, body>>

\* pending -> running, for one caller; a run swept in between is left alone.
ClaimRun(p) ==
  LET r == job[p].run
  IN /\ pc[p] = "start"
     /\ IF run[r].status = "pending"
        THEN /\ run' = [run EXCEPT ![r].status = "running"]
             /\ stale' = [stale EXCEPT ![r] = FALSE]
             /\ job' = [job EXCEPT ![p].next = Entry]
             /\ Goto(p, "loop")
        ELSE /\ Leave(p)
             /\ UNCHANGED <<run, stale>>
     /\ UNCHANGED <<step, exec, approval, stamped, asks, agent, body>>

\* The last write of a request that drove its run to an end.
EndRun(p, status, error) ==
  LET r == job[p].run
  IN /\ run' = [run EXCEPT ![r].status = status, ![r].error =
                             IF error = "none" THEN @ ELSE error]
     /\ stale' = [stale EXCEPT ![r] = FALSE]
     /\ Leave(p)
     /\ UNCHANGED <<step, exec, approval, stamped, asks, agent, body>>

Succeed(p) ==
  /\ pc[p] = "loop"
  /\ job[p].next = End
  /\ EndRun(p, "succeeded", "none")

ReachLimit(p) ==
  /\ pc[p] = "loop"
  /\ job[p].next # End
  /\ job[p].count >= MaxExecuted
  /\ EndRun(p, "failed", "step_limit")

\* The step's row is inserted, or somebody inserted it already.
BeginStep(p) ==
  LET c == <<job[p].run, job[p].next>>
  IN /\ pc[p] = "loop"
     /\ job[p].next # End
     /\ job[p].count < MaxExecuted
     /\ IF step[c] = "absent"
        THEN /\ step' = [step EXCEPT ![c] = "running"]
             /\ job' = [job EXCEPT ![p].key = job[p].next, ![p].tool = "none",
                                   ![p].seen = 0]
             /\ Goto(p, "execute")
        ELSE /\ Leave(p)
             /\ UNCHANGED step
     /\ UNCHANGED <<run, stale, exec, approval, stamped, asks, agent, body>>

-----------------------------------------------------------------------------
(* The step handlers: what each kind does outside the engine's commits.    *)

\* Every way a tool step can end: a reference that does not resolve, a refusal of
\* the executor, a question, or the body, whose result may fail or be too large.
ExecuteTool(p) ==
  /\ pc[p] = "execute"
  /\ KindOf(p) \in {"tool", "gated"}
  /\ \E tool \in {"none", "refused",
                  IF KindOf(p) = "gated" THEN "approval_required" ELSE "ran"},
        word \in StepOutcome, target \in OnSuccess[job[p].key] :
       /\ tool \in {"none", "refused"} => word = "failed"
       /\ (tool = "approval_required") = (word = "awaiting_approval")
       /\ body' = [body EXCEPT ![Target(p)] = @ + (IF tool = "ran" THEN 1 ELSE 0)]
       /\ job' = [job EXCEPT ![p].tool = tool, ![p].outcome = word, ![p].next = target]
  /\ Goto(p, "finish")
  /\ UNCHANGED <<run, stale, step, exec, approval, stamped, asks, agent>>

ExecuteCondition(p) ==
  /\ pc[p] = "execute"
  /\ KindOf(p) = "condition"
  /\ \E word \in {"succeeded", "failed"}, target \in OnSuccess[job[p].key] :
       Outcomes(p, word, target)
  /\ Goto(p, "finish")
  /\ UNCHANGED durable

ExecuteApproval(p) ==
  /\ pc[p] = "execute"
  /\ KindOf(p) = "approval"
  /\ Outcomes(p, "awaiting_approval", End)
  /\ Goto(p, "finish")
  /\ UNCHANGED durable

\* The agent's run commits on its own.  One that fails is raised through the
\* engine: only a reference and a size are outcomes there.
ExecuteAgent(p) ==
  LET c == Target(p)
  IN /\ pc[p] = "execute"
     /\ KindOf(p) = "agent"
     /\ \/ /\ agent' = [agent EXCEPT ![c] = "completed"]
           /\ \E word \in {"succeeded", "failed"}, target \in OnSuccess[job[p].key] :
                Outcomes(p, word, target)
           /\ Goto(p, "finish")
           /\ UNCHANGED <<approval, asks>>
        \/ /\ MaxPauses > 0
           /\ agent' = [agent EXCEPT ![c] = "awaiting_approval"]
           /\ Put(c)
           /\ Goto(p, "view")
           /\ UNCHANGED job
        \/ /\ agent' = [agent EXCEPT ![c] = "failed"]
           /\ Leave(p)
           /\ UNCHANGED <<approval, asks>>
     /\ UNCHANGED <<run, stale, step, exec, stamped, body>>

\* The engine is handed the paused agent run and the approval still open behind it,
\* if one is.
ViewAgent(p) ==
  LET c == Target(p)
  IN /\ pc[p] = "view"
     /\ job' = [job EXCEPT ![p].outcome = "awaiting_approval", ![p].next = End,
                           ![p].seen = IF approval[c] = "pending" THEN asks[c] ELSE 0]
     /\ Goto(p, "finish")
     /\ UNCHANGED durable

-----------------------------------------------------------------------------
(* _finish_step: the step, the run and the question in one commit.         *)

\* The record of the tool: executed is raised, never lowered.
RecordedExec(p, c) ==
  IF job[p].tool = "none" THEN exec
  ELSE [exec EXCEPT ![c] = [outcome  |-> job[p].tool,
                            executed |-> @.executed \/ job[p].tool \in {"ran", "refused"}]]

\* Fault: the loop does not stop at a step that paused.
GoesOnPaused(outcome) == outcome # "failed"

\* Fault: the loop does not stop at a step that failed.
GoesOnAnyway(outcome) == outcome # "awaiting_approval"

\* Whether the loop goes on to the next step.
GoesOn(outcome) == outcome = "succeeded"

\* Fault: the question is put without the run and the step it is about.
StampNothing(p, asking) == UNCHANGED stamped

\* A question put here carries the run and the step; so does, from now on, the one
\* the engine was shown behind a paused agent.
Stamp(p, asking) ==
  LET shown == job[p].outcome = "awaiting_approval" /\ job[p].seen > 0
               /\ job[p].seen = asks[Target(p)]
  IN stamped' = [stamped EXCEPT ![Target(p)] = @ \/ asking \/ shown]

\* A tool and an approval step put their question here; an agent has put its own.
FinishStep(p) ==
  LET j == job[p]
      c == Target(p)
      paused == j.outcome = "awaiting_approval"
      asking == paused /\ Kind[j.key] \in {"gated", "approval"}
      status == CASE paused -> "awaiting_approval"
                  [] j.outcome = "failed" -> "failed"
                  [] OTHER -> run[j.run].status
  IN /\ pc[p] = "finish"
     /\ step' = [step EXCEPT ![c] = j.outcome]
     /\ exec' = RecordedExec(p, c)
     /\ run' = [run EXCEPT ![j.run] =
                  [status |-> status, count |-> j.count + 1,
                   error |-> IF j.outcome = "failed" THEN "step_failed" ELSE @.error]]
     /\ stale' = [stale EXCEPT ![j.run] = FALSE]
     /\ IF asking THEN Put(c) ELSE UNCHANGED <<approval, asks>>
     /\ Stamp(p, asking)
     /\ IF GoesOn(j.outcome)
        THEN /\ job' = [job EXCEPT ![p].count = @ + 1]
             /\ Goto(p, "loop")
        ELSE Leave(p)
     /\ UNCHANGED <<agent, body>>

-----------------------------------------------------------------------------
(* Deciding an approval and resuming what waits behind it.                 *)

\* Fault: the status is checked when the request reads the row, not in the UPDATE.
DecideAgain(p, c, approve) ==
  /\ pc[p] = "idle"
  /\ approval[c] # "none"
  /\ approval' = [approval EXCEPT ![c] = IF approve THEN "approved" ELSE "rejected"]
  /\ job' = [job EXCEPT ![p] = [NoJob EXCEPT !.run = c[1], !.key = c[2],
                                !.approve = approve, !.stamped = stamped[c]]]
  /\ Goto(p, "decided")
  /\ UNCHANGED <<run, stale, step, exec, stamped, asks, agent, body>>

\* The conditional update, committed before anything is resumed.
Decide(p, c, approve) ==
  /\ pc[p] = "idle"
  /\ approval[c] = "pending"
  /\ approval' = [approval EXCEPT ![c] = IF approve THEN "approved" ELSE "rejected"]
  /\ job' = [job EXCEPT ![p] = [NoJob EXCEPT !.run = c[1], !.key = c[2],
                                !.approve = approve, !.stamped = stamped[c]]]
  /\ Goto(p, "decided")
  /\ UNCHANGED <<run, stale, step, exec, stamped, asks, agent, body>>

\* The agent run first: the workflow reads what it became.  It completes, asks
\* again, or fails; a run that failed, or is not paused, is raised, and the
\* workflow behind it is not resumed.
ResumeAgentRun(p) ==
  LET c == Target(p)
  IN /\ pc[p] = "decided"
     /\ KindOf(p) = "agent"
     /\ \/ /\ agent[c] = "awaiting_approval"
           /\ agent' = [agent EXCEPT ![c] = "completed"]
           /\ Goto(p, "workflow")
           /\ UNCHANGED <<approval, stamped, asks, job>>
        \/ /\ agent[c] = "awaiting_approval"
           /\ asks[c] < MaxPauses
           /\ Put(c)
           /\ stamped' = [stamped EXCEPT ![c] = FALSE]
           /\ Goto(p, "workflow")
           /\ UNCHANGED <<agent, job>>
        \/ /\ agent[c] = "awaiting_approval"
           /\ agent' = [agent EXCEPT ![c] = "failed"]
           /\ Leave(p)
           /\ UNCHANGED <<approval, stamped, asks>>
        \/ /\ agent[c] # "awaiting_approval"
           /\ Leave(p)
           /\ UNCHANGED <<approval, stamped, asks, agent>>
     /\ UNCHANGED <<run, stale, step, exec, body>>

\* awaiting_approval -> running for the run and for the step, together or not at all.
ClaimResume(p) ==
  LET r == job[p].run
      c == Target(p)
  IN /\ pc[p] = IF KindOf(p) = "agent" THEN "workflow" ELSE "decided"
     /\ IF /\ job[p].stamped
           /\ run[r].status = "awaiting_approval"
           /\ step[c] = "awaiting_approval"
        THEN /\ run' = [run EXCEPT ![r].status = "running"]
             /\ stale' = [stale EXCEPT ![r] = FALSE]
             /\ step' = [step EXCEPT ![c] = "running"]
             /\ job' = [job EXCEPT ![p].count = run[r].count]
             /\ Goto(p, "resume")
        ELSE /\ Leave(p)
             /\ UNCHANGED <<run, stale, step>>
     /\ UNCHANGED <<exec, approval, stamped, asks, agent, body>>

\* The execution is claimed, for an approval only, and the claim committed; one
\* already claimed, or missing, fails the step.
ClaimTool(p) ==
  LET c == Target(p)
      lost == exec[c].outcome = "none" \/ (job[p].approve /\ exec[c].executed)
  IN /\ pc[p] = "resume"
     /\ KindOf(p) = "gated"
     /\ IF lost
        THEN /\ Outcomes(p, "failed", End)
             /\ Goto(p, "finish")
             /\ UNCHANGED exec
        ELSE /\ exec' = [exec EXCEPT ![c].executed = @ \/ job[p].approve]
             /\ Goto(p, "grant")
             /\ UNCHANGED job
     /\ UNCHANGED <<run, stale, step, approval, stamped, asks, agent, body>>

\* Fault: a granted tool that ran may be tried again.
RunGrantedRetrying(p) ==
  /\ pc[p] = "grant"
  /\ body' = [body EXCEPT ![Target(p)] = IF job[p].approve /\ @ < 2 THEN @ + 1 ELSE @]
  /\ job' = [job EXCEPT ![p].tool = "ran", ![p].outcome = "failed"]
  /\ Goto(p, "finish") \/ UNCHANGED pc
  /\ UNCHANGED <<run, stale, step, exec, approval, stamped, asks, agent>>

\* Fault: a recorded decision is taken for a grant, whichever way it went.
RunDecided(p) ==
  /\ pc[p] = "grant"
  /\ body' = [body EXCEPT ![Target(p)] = @ + 1]
  /\ \E word \in {"succeeded", "failed"}, target \in OnSuccess[job[p].key] :
       job' = [job EXCEPT ![p].tool = "ran", ![p].outcome = word, ![p].next = target]
  /\ Goto(p, "finish")
  /\ UNCHANGED <<run, stale, step, exec, approval, stamped, asks, agent>>

\* Fault: a refusal is one more result the workflow goes on from.
RunGrantedGoesOn(p) ==
  /\ pc[p] = "grant"
  /\ body' = [body EXCEPT ![Target(p)] = IF job[p].approve THEN @ + 1 ELSE @]
  /\ \E target \in OnSuccess[job[p].key] :
       job' = [job EXCEPT ![p].tool = IF job[p].approve THEN "ran" ELSE "rejected",
                          ![p].outcome = "succeeded", ![p].next = target]
  /\ Goto(p, "finish")
  /\ UNCHANGED <<run, stale, step, exec, approval, stamped, asks, agent>>

\* Fault: a refusal counts as a failed attempt and is tried again from the claim.
RunGrantedReclaiming(p) ==
  /\ pc[p] = "grant"
  /\ body' = [body EXCEPT ![Target(p)] = IF job[p].approve THEN @ + 1 ELSE @]
  /\ \E target \in OnSuccess[job[p].key] :
       job' = [job EXCEPT ![p].tool = IF job[p].approve THEN "ran" ELSE "rejected",
                          ![p].outcome = IF job[p].approve THEN "succeeded" ELSE "failed",
                          ![p].next = target]
  /\ Goto(p, IF job[p].approve THEN "finish" ELSE "resume")
  /\ UNCHANGED <<run, stale, step, exec, approval, stamped, asks, agent>>

\* The tool under its grant.  Nothing here is inside _execute: a reference or a
\* size that is refused leaves the run as the claim put it.
RunGranted(p) ==
  /\ pc[p] = "grant"
  /\ \E tool \in {"refused", IF job[p].approve THEN "ran" ELSE "rejected"},
        word \in {"succeeded", "failed"}, target \in OnSuccess[job[p].key] :
       /\ word = "succeeded" => tool = "ran"
       /\ body' = [body EXCEPT ![Target(p)] = @ + (IF tool = "ran" THEN 1 ELSE 0)]
       /\ \/ /\ job' = [job EXCEPT ![p].tool = tool, ![p].outcome = word, ![p].next = target]
             /\ Goto(p, "finish")
          \/ /\ tool = "ran"
             /\ Leave(p)
  /\ UNCHANGED <<run, stale, step, exec, approval, stamped, asks, agent>>

\* A refusal of the references, before the tool is called.
RaiseGranted(p) ==
  /\ pc[p] = "grant"
  /\ Leave(p)
  /\ UNCHANGED durable

\* Fault: any agent run that is no longer paused counts as finished.
ResumeAgentStepOver(p) ==
  /\ pc[p] = "resume"
  /\ KindOf(p) = "agent"
  /\ \E target \in OnSuccess[job[p].key] : Outcomes(p, "succeeded", target)
  /\ Goto(p, "finish")
  /\ UNCHANGED durable

\* What the agent run became.  One that paused again pauses the step again.
ResumeAgentStep(p) ==
  LET c == Target(p)
  IN /\ pc[p] = "resume"
     /\ KindOf(p) = "agent"
     /\ CASE agent[c] = "awaiting_approval" -> /\ Outcomes(p, "awaiting_approval", End)
                                               /\ Goto(p, "finish")
          [] agent[c] = "completed" ->
               \/ /\ \E target \in OnSuccess[job[p].key] : Outcomes(p, "succeeded", target)
                  /\ Goto(p, "finish")
               \/ Leave(p)
          [] OTHER -> Outcomes(p, "failed", End) /\ Goto(p, "finish")
     /\ UNCHANGED durable

\* Fault: a refusal is recorded in the approval's word, not in the step's.
ResumeApprovalRejected(p) ==
  /\ pc[p] = "resume"
  /\ KindOf(p) = "approval"
  /\ Outcomes(p, IF job[p].approve THEN "succeeded" ELSE "rejected", OnReject[job[p].key])
  /\ Goto(p, "finish")
  /\ UNCHANGED durable

ResumeApproval(p) ==
  /\ pc[p] = "resume"
  /\ KindOf(p) = "approval"
  /\ IF job[p].approve
     THEN \E target \in OnSuccess[job[p].key] : Outcomes(p, "succeeded", target)
     ELSE Outcomes(p, IF OnReject[job[p].key] = End THEN "failed" ELSE "succeeded",
                   OnReject[job[p].key])
  /\ Goto(p, "finish")
  /\ UNCHANGED durable

-----------------------------------------------------------------------------
(* Everybody else.                                                         *)

Questions(r) == {c \in {r} \X Keys : approval[c] = "pending" /\ stamped[c]}

\* Fault: the step of a cancelled run is left as it was.
CancelRunOnly(r) ==
  /\ Questions(r) # {}
  /\ run[r].status = "awaiting_approval"
  /\ approval' = [c \in Cells |-> IF c \in Questions(r) THEN "cancelled" ELSE approval[c]]
  /\ run' = [run EXCEPT ![r].status = "cancelled", ![r].error = "workflow_run_cancelled"]
  /\ UNCHANGED <<stale, step, exec, stamped, asks, agent, body, pc, job>>

\* WorkflowExecutionService.cancel_run: withdraw the questions, end the paused run
\* and close its step in one transaction, or change nothing.
CancelRun(r) ==
  /\ Questions(r) # {}
  /\ run[r].status = "awaiting_approval"
  /\ approval' = [c \in Cells |-> IF c \in Questions(r) THEN "cancelled" ELSE approval[c]]
  /\ run' = [run EXCEPT ![r].status = "cancelled", ![r].error = "workflow_run_cancelled"]
  /\ step' = [c \in Cells |-> IF c[1] = r /\ step[c] = "awaiting_approval"
                              THEN "cancelled" ELSE step[c]]
  /\ UNCHANGED <<stale, exec, stamped, asks, agent, body, pc, job>>

\* AgentExecutionService.cancel, of the run behind an agent step.
CancelAgent(c) ==
  /\ agent[c] = "awaiting_approval"
  /\ approval[c] = "pending"
  /\ agent' = [agent EXCEPT ![c] = "cancelled"]
  /\ approval' = [approval EXCEPT ![c] = "cancelled"]
  /\ UNCHANGED <<run, stale, step, exec, stamped, asks, body, pc, job>>

\* Some open approvals are overdue: they lapse, and the agent runs, workflow runs and
\* steps still paused behind them fail, in one transaction.
ExpireDue(overdue) ==
  LET linked  == {c \in overdue : stamped[c]}
      stopped == {r \in Runs : /\ run[r].status = "awaiting_approval"
                               /\ \E c \in linked : c[1] = r}
  IN /\ overdue # {}
     /\ approval' = [c \in Cells |-> IF c \in overdue THEN "expired" ELSE approval[c]]
     /\ agent' = [c \in Cells |-> IF c \in overdue /\ agent[c] = "awaiting_approval"
                                  THEN "failed" ELSE agent[c]]
     /\ run' = [r \in Runs |->
                  IF r \in stopped
                  THEN [run[r] EXCEPT !.status = "failed", !.error = "approval_expired"]
                  ELSE run[r]]
     /\ step' = [c \in Cells |-> IF c \in linked /\ step[c] = "awaiting_approval"
                                 THEN "failed" ELSE step[c]]
     /\ UNCHANGED <<stale, exec, stamped, asks, body, pc, job>>

\* A run is not written to for longer than workflow_run_stale_after_seconds.
Age(r) ==
  /\ run[r].status \in Active
  /\ ~stale[r]
  /\ SlowDrivers \/ \A p \in Procs : pc[p] = "idle" \/ job[p].run # r
  /\ stale' = [stale EXCEPT ![r] = TRUE]
  /\ UNCHANGED <<run, step, exec, approval, stamped, asks, agent, body, pc, job>>

\* The process dies: memory is lost, the open transaction is rolled back.
Crash(p) ==
  /\ Crashes
  /\ pc[p] # "idle"
  /\ Leave(p)
  /\ UNCHANGED durable

-----------------------------------------------------------------------------
Drive(p) ==
  \/ ClaimRun(p) \/ Succeed(p) \/ ReachLimit(p) \/ BeginStep(p)
  \/ ExecuteTool(p) \/ ExecuteCondition(p) \/ ExecuteApproval(p)
  \/ ExecuteAgent(p) \/ ViewAgent(p) \/ FinishStep(p)

Resume(p) ==
  \/ ResumeAgentRun(p) \/ ClaimResume(p) \/ ClaimTool(p) \/ RunGranted(p)
  \/ RaiseGranted(p) \/ ResumeAgentStep(p) \/ ResumeApproval(p)

Request(p) ==
  \/ \E r \in Runs : Create(p, r)
  \/ \E c \in Cells, approve \in BOOLEAN : Decide(p, c, approve)

Environment ==
  \/ \E r \in Runs : CancelRun(r) \/ Age(r)
  \/ \E c \in Cells : CancelAgent(c)
  \/ \E overdue \in SUBSET {c \in Cells : approval[c] = "pending"} : ExpireDue(overdue)
  \/ \E p \in Procs : Crash(p)

Next ==
  \/ \E p \in Procs : Request(p) \/ Drive(p) \/ Resume(p)
  \/ Environment

Spec == Init /\ [][Next]_vars

\* A request that is being served is scheduled until it answers.
Fairness == \A p \in Procs : WF_vars(Drive(p) \/ Resume(p))

FairSpec == Spec /\ Fairness

-----------------------------------------------------------------------------
(* What has to be true of every workflow run, whoever is acting on it.     *)

\* "A step cannot execute twice" (workflows/engine.py): neither a second start nor a
\* repeated decision runs a step's tool again.
StepRunsOnce == \A c \in Cells : body[c] <= 1

\* The tool of a gated step never ran unless the durable decision is an approval
\* and the execution row says it ran.
GatedStepRanApproved ==
  \A c \in Cells : Kind[c[2]] = "gated" /\ body[c] > 0 =>
                     approval[c] = "approved" /\ exec[c].executed

\* "A run is driven by one request at a time" (workflows/engine.py).
OneDriver ==
  \A r \in Runs : \A p, q \in Procs : Driving(p, r) /\ Driving(q, r) => p = q

\* A run with a driver is running, and one without a sweep, a cancellation or an
\* expiry can take it away: no step starts in a run that is over.
DrivenRunIsRunning ==
  \A r \in Runs, p \in Procs : Driving(p, r) => run[r].status = "running"

\* A run waits for a person exactly when one of its steps does: the pause, the
\* resume, the cancellation and the expiry move both rows together.
RunWaitsWithItsStep ==
  \A r \in Runs :
    run[r].status = "awaiting_approval" <=> \E k \in Keys : step[<<r, k>>] = "awaiting_approval"

\* A run that succeeded left no step open or failed behind, and stopped where the
\* definition lets it stop.
SucceededRunIsWhole ==
  \A r \in Runs : run[r].status = "succeeded" =>
    /\ \A k \in Keys : step[<<r, k>>] \in {"absent", "succeeded"}
    /\ \E k \in Keys : step[<<r, k>>] = "succeeded" /\ End \in OnSuccess[k]

\* A paused run can always be moved: its question is open and carries the run, or a
\* request that answered it is on its way.  Nothing else ends a paused run: it is
\* never swept, and a cancellation needs an open question to withdraw.
PausedRunCanMove ==
  \A c \in Cells : step[c] = "awaiting_approval" =>
    \/ approval[c] = "pending" /\ stamped[c]
    \/ \E p \in Procs : pc[p] \in {"decided", "workflow"} /\ Target(p) = c /\ job[p].stamped

\* An agent step that succeeded has an agent run that completed: whatever was decided,
\* cancelled or expired on the way, the workflow does not go on from anything else.
AgentStepTellsTruth ==
  \A c \in Cells :
    Kind[c[2]] = "agent" /\ step[c] = "succeeded" => agent[c] = "completed"

\* "A process nobody designed a 'no' path for should halt" (engine._rejected): once a
\* gated step is refused, no later step of the run begins.
RejectedToolStops ==
  [][\A r \in Runs, k \in Keys :
       Kind[k] = "gated" /\ approval[<<r, k>>] = "rejected" =>
         \A l \in Keys : step[<<r, l>>] = "absent" => step'[<<r, l>>] = "absent"]_vars

\* A run that succeeded, failed or was swept, cancelled or expired stays as it ended,
\* as long as no live driver outlasts the sweep's window.
TerminalForever ==
  [][\A r \in Runs : run[r].status \in Terminal => run'[r].status = run[r].status]_vars

\* Every request is answered: the definition has no cycle, and no request waits for
\* another one.
RequestsEnd == \A p \in Procs : pc[p] # "idle" ~> pc[p] = "idle"

\* A decision that was recorded moves the step it was about.
DecisionMovesStep ==
  \A c \in Cells : approval[c] \in {"approved", "rejected"} ~> step[c] # "awaiting_approval"

\* Seen only through its step rows, the machine walks the definition.
Walk == INSTANCE WorkflowWalk WITH
          open <- [r \in Runs |-> {k \in Keys : step[<<r, k>>] \notin {"absent", "succeeded"}}],
          done <- [r \in Runs |-> {k \in Keys : step[<<r, k>>] = "succeeded"}]

WalksDefinition == Walk!WalkSpec

GatedCells == {c \in Cells : Kind[c[2]] = "gated"}

\* Seen only through its gated tool steps, it is the gate that agent runs implement.
Gate == INSTANCE ApprovalGate WITH
          Actions <- GatedCells,
          answer  <- [c \in GatedCells |-> approval[c]],
          effect  <- [c \in GatedCells |-> body[c]]

ImplementsGate == Gate!GateSpec

-----------------------------------------------------------------------------
(* What the source says and the code does not do.                          *)

\* "The approval it already created is stamped with this step so deciding it resumes
\* both" (engine._run_agent): no step waits for an agent that has finished.
AnsweredAgentResumesStep ==
  \A c \in Cells :
    /\ step[c] = "awaiting_approval"
    /\ agent[c] = "completed"
    => \E p \in Procs : pc[p] = "workflow" /\ Target(p) = c

\* "A failed step stops the run and says which step and why" (workflows/engine.py): a
\* run whose agent failed under a driver that is gone is over.
FailedAgentStopsRun ==
  \A c \in Cells :
    agent[c] = "failed" /\ (\A p \in Procs : pc[p] = "idle") => run[c[1]].status \in Terminal
=============================================================================
