--------------------------- MODULE AgentRunsProofs ---------------------------
(***************************************************************************)
(* Theorems about AgentRuns, for every set of runs and requests, every     *)
(* step budget, and with or without slow drivers and cancellation tokens.  *)
(* First the gate. Then who drives a run, and what its rows say meanwhile: *)
(* nothing locks a run, and yet two requests never drive one, whatever the *)
(* sweep, the clock, a cancellation or a crash does between two commits.   *)
(***************************************************************************)
EXTENDS AgentRuns, FiniteSetTheorems, TLAPS

-----------------------------------------------------------------------------
(* Types.                                                                  *)

\* NoJob is a job.
LEMMA NoJobType == NoJob \in Jobs
  BY StepsAssumption DEF NoJob, Jobs, RunStatus, Outcome

\* Overwriting the status and the error of a row leaves a row.
LEMMA RowUpdate ==
  ASSUME NEW row \in Rows, NEW status \in RunStatus, NEW error \in RunError
  PROVE  [row EXCEPT !.status = status, !.error = error] \in Rows
  <1>1. [row EXCEPT !.status = status] \in Rows
    BY DEF Rows
  <1> QED
    BY <1>1 DEF Rows

\* Creating or flushing a row leaves a row (run_journal.record_state).
LEMMA RecordStateType ==
  ASSUME TypeOK, NEW j \in Jobs, j.run \in Runs,
         NEW status \in RunStatus, NEW steps \in 0..MaxSteps, NEW error \in RunError,
         RecordState(j, status, steps, error)
  PROVE  run' \in [Runs -> Rows] /\ stale' \in [Runs -> BOOLEAN]
  <1>1. run[j.run] \in Rows
    BY DEF TypeOK, Rows
  <1>2. Flushed(j, status, steps, error) \in Rows
    BY <1>1 DEF Flushed, Rows
  <1> QED
    BY <1>2 DEF RecordState, TypeOK, Rows

\* Finish leaves every table and every request well typed.
LEMMA FinishType ==
  ASSUME TypeOK, NEW p \in Procs, job[p].run \in Runs,
         NEW status \in RunStatus, NEW error \in RunError,
         Finish(p, status, error)
  PROVE  TypeOK'
  <1>1. job \in [Procs -> Jobs] /\ job[p] \in Jobs /\ job[p].steps \in 0..MaxSteps
    BY DEF TypeOK, Jobs
  <1>2. run' \in [Runs -> Rows] /\ stale' \in [Runs -> BOOLEAN]
    BY <1>1, RecordStateType DEF Finish
  <1>3. job' \in [Procs -> Jobs]
    BY <1>1 DEF Finish, Jobs
  <1>4. pc' \in [Procs -> Points]
    BY DEF Finish, Goto, TypeOK, Points, ClosePoints
  <1> QED
    BY <1>2, <1>3, <1>4 DEF Finish, TypeOK, Rows, Jobs

\* What a call of the executor can report: it runs the body at most once, and the
\* body of a gated tool only under a grant (ToolExecutor.execute).
LEMMA ResultsType ==
  ASSUME NEW e \in Execs, NEW grant \in {"none", "grant", "refusal"},
         NEW stop \in BOOLEAN, NEW result \in Results(e, grant, stop)
  PROVE  /\ result.outcome \in Outcome
         /\ result.ran \in {0, 1}
         /\ gated[e] /\ grant # "grant" => result.ran = 0
         /\ result.outcome = "approval_required" => gated[e]
  BY DEF Results, Outcome

\* Running a tool leaves every variable it touches well typed.
LEMMA CallToolType ==
  ASSUME TypeOK, NEW p \in Procs, Target(p) \in Execs,
         NEW grant \in {"none", "grant", "refusal"}, NEW next \in Points,
         CallTool(p, grant, next)
  PROVE  body' \in [Execs -> Nat] /\ job' \in [Procs -> Jobs] /\ pc' \in [Procs -> Points]
  <1>1. job[p] \in Jobs /\ job \in [Procs -> Jobs] /\ job[p].stop \in BOOLEAN
    BY DEF TypeOK, Jobs
  <1>2. PICK result \in Results(Target(p), grant, job[p].stop) :
          /\ body' = [body EXCEPT ![Target(p)] = @ + result.ran]
          /\ job' = [job EXCEPT ![p].outcome = result.outcome,
                                ![p].stop = @ \/ result.outcome = "cancelled"]
          /\ Goto(p, next)
    BY DEF CallTool
  <1>3. result.outcome \in Outcome /\ result.ran \in {0, 1}
    BY <1>1, ResultsType
  <1>4. body' \in [Execs -> Nat]
    BY <1>2, <1>3 DEF TypeOK
  <1>5. job' \in [Procs -> Jobs]
    <2>1. (job[p].stop \/ result.outcome = "cancelled") \in BOOLEAN
      BY <1>1
    <2> DEFINE new == [job[p] EXCEPT !.outcome = result.outcome,
                                     !.stop = job[p].stop \/ result.outcome = "cancelled"]
    <2>2. new \in Jobs
      BY <1>1, <1>3, <2>1 DEF Jobs
    <2>3. job' = [job EXCEPT ![p] = new]
      BY <1>1, <1>2 DEF Jobs
    <2> QED
      BY <1>1, <2>2, <2>3
  <1>6. pc' \in [Procs -> Points]
    BY <1>2 DEF Goto, TypeOK
  <1> QED
    BY <1>4, <1>5, <1>6

\* The sweep leaves rows.
LEMMA AbandonedType ==
  ASSUME TypeOK, NEW r \in Runs
  PROVE  Abandoned(r) \in Rows
  <1>1. run[r] \in Rows
    BY DEF TypeOK, Rows
  <1>2. "failed" \in RunStatus /\ "agent_run_abandoned" \in RunError
    BY DEF RunStatus, RunError, Terminal
  <1>3. [run[r] EXCEPT !.status = "failed", !.error = "agent_run_abandoned"] \in Rows
    BY <1>1, <1>2, RowUpdate
  <1> QED
    BY <1>1, <1>3 DEF Abandoned

\* Ending a request leaves its slot well typed.
LEMMA LeaveType ==
  ASSUME TypeOK, NEW p \in Procs, Leave(p)
  PROVE  pc' \in [Procs -> Points] /\ job' \in [Procs -> Jobs]
  BY NoJobType DEF Leave, Goto, TypeOK, Points, Jobs

\* A request at work serves a run; while it may touch an execution, that is one.
LEMMA TargetType ==
  ASSUME GateInv, NEW p \in Procs
  PROVE  /\ pc[p] # "idle" => job[p].run \in Runs
         /\ pc[p] \in AskPoints \cup DecidePoints => Target(p) \in Execs
  BY DEF GateInv, RequestOK, TypeOK, Target, Execs, Steps, AskPoints, DecidePoints

\* Every step of a driving request preserves the types.
LEMMA DriveType ==
  ASSUME GateInv, NEW p \in Procs, Drive(p)
  PROVE  TypeOK'
  <1> USE DEF Points, DrivePoints, ClosePoints
  <1>1. TypeOK /\ job \in [Procs -> Jobs] /\ job[p] \in Jobs
        /\ job[p].status \in RunStatus /\ job[p].steps \in 0..MaxSteps
        /\ job[p].outcome \in Outcome
    BY DEF GateInv, TypeOK, Jobs
  <1>2. CASE RefuseStart(p)
    BY <1>1, <1>2, LeaveType DEF RefuseStart, TypeOK, Jobs
  <1>3. CASE StartRun(p)
    <2>1. run' \in [Runs -> Rows] /\ stale' \in [Runs -> BOOLEAN]
      BY <1>1, <1>3, TargetType, RecordStateType
      DEF StartRun, RunStatus, RunError, Active
    <2>2. job' \in [Procs -> Jobs]
      BY <1>1, <1>3 DEF StartRun, Jobs, RunStatus, Active
    <2> QED
      BY <1>1, <1>3, <2>1, <2>2 DEF StartRun, Goto, TypeOK, Rows, Jobs
  <1>4. CASE ModelCall(p)
    <2> DEFINE n == job[p].steps + 1
    <2>1. n \in Steps /\ n \in 0..MaxSteps /\ job[p].run \in Runs
      BY <1>1, <1>4, TargetType, StepsAssumption DEF ModelCall, Steps
    <2>2. run' \in [Runs -> Rows] /\ stale' \in [Runs -> BOOLEAN]
      BY <1>1, <1>4, <2>1, RecordStateType
      DEF ModelCall, RunStatus, RunError, Active
    <2>3. job' \in [Procs -> Jobs]
      BY <1>1, <1>4, <2>1 DEF ModelCall, Jobs
    <2>4. journal' \in [Runs -> SUBSET Steps]
      BY <1>1, <1>4, <2>1 DEF ModelCall, TypeOK
    <2>5. pc' \in [Procs -> Points]
      BY <1>1, <1>4 DEF ModelCall, Goto, TypeOK
    <2> QED
      BY <1>1, <1>4, <2>2, <2>3, <2>4, <2>5 DEF ModelCall, TypeOK, Rows, Jobs
  <1>5. CASE ModelFails(p)
    BY <1>1, <1>5, TargetType, FinishType
    DEF ModelFails, RunStatus, RunError, Terminal
  <1>6. CASE OutOfBudget(p)
    BY <1>1, <1>6, TargetType, FinishType
    DEF OutOfBudget, RunStatus, RunError, Terminal
  <1>7. CASE StopRun(p)
    <2>1. pc[p] # "idle" /\ Finish(p, "cancelled", "none")
      BY <1>7 DEF StopRun
    <2> QED
      BY <1>1, <2>1, TargetType, FinishType DEF RunStatus, RunError, Terminal
  <1>8. CASE Complete(p)
    BY <1>1, <1>8, TargetType, FinishType
    DEF Complete, RunStatus, RunError, Terminal
  <1>9. CASE RunTool(p)
    <2>1. Target(p) \in Execs
      BY <1>9, TargetType DEF RunTool, AskPoints
    <2> QED
      BY <1>1, <1>9, <2>1, CallToolType DEF RunTool, TypeOK, Jobs
  <1>10. CASE RecordTool(p)
    <2>1. exec' \in [Execs -> ExecRows]
      <3>1. ReachedTheTool(job[p].outcome) \in BOOLEAN
        BY DEF ReachedTheTool
      <3>2. [outcome |-> job[p].outcome, executed |-> ReachedTheTool(job[p].outcome)]
              \in ExecRows
        BY <1>1, <3>1 DEF ExecRows
      <3>3. exec \in [Execs -> ExecRows]
        BY <1>1 DEF TypeOK
      <3> QED
        BY <1>10, <3>2, <3>3 DEF RecordTool
    <2>2. pc' \in [Procs -> Points]
      BY <1>1, <1>10 DEF RecordTool, Goto, TypeOK
    <2> QED
      BY <1>1, <1>10, <2>1, <2>2 DEF RecordTool, TypeOK
  <1>11. CASE Ask(p)
    BY <1>1, <1>11 DEF Ask, Goto, TypeOK, ApprovalStatus
  <1>12. CASE Pause(p)
    BY <1>1, <1>12, TargetType, FinishType DEF Pause, RunStatus, RunError
  <1>13. CASE Append(p)
    BY <1>1, <1>13 DEF Append, Goto, TypeOK
  <1>14. CASE TooLarge(p)
    BY <1>1, <1>14, TargetType, FinishType
    DEF TooLarge, RunStatus, RunError, Terminal
  <1> QED
    BY <1>2, <1>3, <1>4, <1>5, <1>6, <1>7, <1>8, <1>9, <1>10, <1>11, <1>12,
       <1>13, <1>14 DEF Drive

\* Every step of a request that decided preserves the types.
LEMMA ResumeType ==
  ASSUME GateInv, NEW p \in Procs, Resume(p)
  PROVE  TypeOK'
  <1> USE DEF Points, DrivePoints, DecidePoints, RaisedPoints, ClosePoints
  <1>1. TypeOK /\ job \in [Procs -> Jobs] /\ job[p] \in Jobs
        /\ job[p].status \in RunStatus /\ job[p].steps \in 0..MaxSteps
        /\ job[p].outcome \in Outcome
    BY DEF GateInv, TypeOK, Jobs
  <1>2. CASE ReadRun(p)
    <2>1. job[p].run \in Runs
      BY <1>2, TargetType DEF ReadRun
    <2>2. run[job[p].run] \in Rows
      BY <1>1, <2>1 DEF TypeOK, Rows
    <2>3. job' \in [Procs -> Jobs]
      BY <1>1, <1>2, <2>2 DEF ReadRun, Jobs, Rows
    <2> QED
      BY <1>1, <1>2, <2>3 DEF ReadRun, Goto, TypeOK, Jobs
  <1>3. CASE Claim(p)
    <2>1. exec' \in [Execs -> ExecRows]
      <3>1. exec \in [Execs -> ExecRows]
        BY <1>1 DEF TypeOK
      <3>2. CASE job[p].approve
        BY <1>3, <3>1, <3>2 DEF Claim, ExecRows
      <3>3. CASE ~job[p].approve
        BY <1>3, <3>1, <3>3 DEF Claim
      <3> QED
        BY <3>2, <3>3
    <2> QED
      BY <1>1, <1>3, <2>1 DEF Claim, Goto, TypeOK
  <1>4. CASE RunGranted(p)
    <2>1. Target(p) \in Execs
      BY <1>4, TargetType DEF RunGranted
    <2> QED
      BY <1>1, <1>4, <2>1, CallToolType DEF RunGranted, TypeOK, Jobs
  <1>5. CASE RecordOutcome(p)
    <2>1. exec' \in [Execs -> ExecRows]
      BY <1>1, <1>5 DEF RecordOutcome, ExecRows, ReachedTheTool, TypeOK
    <2> QED
      BY <1>1, <1>5, <2>1 DEF RecordOutcome, Goto, TypeOK
  <1>6. CASE ResumeRun(p)
    <2>1. run' \in [Runs -> Rows] /\ stale' \in [Runs -> BOOLEAN]
      BY <1>1, <1>6, TargetType, RecordStateType
      DEF ResumeRun, RunStatus, RunError, Active
    <2>2. job' \in [Procs -> Jobs]
      BY <1>1, <1>6 DEF ResumeRun, Jobs, RunStatus, Active
    <2> QED
      BY <1>1, <1>6, <2>1, <2>2 DEF ResumeRun, Goto, TypeOK, Rows, Jobs
  <1>7. CASE RefuseResume(p)
    BY <1>1, <1>7 DEF RefuseResume, Goto, TypeOK
  <1>8. CASE Close(p)
    <2>1. audited' \in [Runs -> SUBSET RunStatus]
      BY <1>1, <1>8 DEF Close, TypeOK
    <2> QED
      BY <1>1, <1>8, <2>1 DEF Close, Goto, TypeOK
  <1>9. CASE Answer(p)
    BY <1>1, <1>9, LeaveType DEF Answer, TypeOK, Jobs
  <1> QED
    BY <1>2, <1>3, <1>4, <1>5, <1>6, <1>7, <1>8, <1>9 DEF Resume

\* A new request preserves the types.
LEMMA RequestType ==
  ASSUME GateInv, NEW p \in Procs, Request(p)
  PROVE  TypeOK'
  <1>1. TypeOK /\ job \in [Procs -> Jobs]
    BY DEF GateInv, TypeOK, Jobs
  <1>2. ASSUME NEW r \in Runs, Create(p, r)
        PROVE  TypeOK'
    <2>1. [status |-> "pending", steps |-> 0, error |-> "none"] \in Rows
      BY StepsAssumption DEF Rows, RunStatus, RunError, Active
    <2>2. run' \in [Runs -> Rows]
      BY <1>1, <1>2, <2>1, AbandonedType DEF Create
    <2>3. stale' \in [Runs -> BOOLEAN]
      BY <1>2 DEF Create
    <2>4. [NoJob EXCEPT !.run = r, !.status = "pending"] \in Jobs
      BY NoJobType DEF Jobs, RunStatus, Active
    <2>5. job' \in [Procs -> Jobs] /\ pc' \in [Procs -> Points]
      BY <1>1, <1>2, <2>4 DEF Create, Goto, TypeOK, Points, DrivePoints
    <2> QED
      BY <1>1, <1>2, <2>2, <2>3, <2>5 DEF Create, TypeOK, Rows, Jobs
  <1>3. ASSUME NEW e \in Execs, NEW approve \in BOOLEAN, Decide(p, e, approve)
        PROVE  TypeOK'
    <2>1. e[1] \in Runs /\ e[2] \in 0..MaxSteps
      BY StepsAssumption DEF Execs, Steps
    <2>2. [NoJob EXCEPT !.run = e[1], !.step = e[2], !.approve = approve] \in Jobs
      BY <2>1, NoJobType DEF Jobs
    <2>3. job' \in [Procs -> Jobs] /\ pc' \in [Procs -> Points]
      BY <1>1, <1>3, <2>2 DEF Decide, Goto, TypeOK, Points, DecidePoints
    <2>4. approval' \in [Execs -> ApprovalStatus]
      BY <1>1, <1>3 DEF Decide, TypeOK, ApprovalStatus
    <2> QED
      BY <1>1, <1>3, <2>3, <2>4 DEF Decide, TypeOK, Jobs
  <1> QED
    BY <1>2, <1>3 DEF Request

\* Cancellations, expiry, the sweep, time and crashes preserve the types.
LEMMA EnvironmentType ==
  ASSUME GateInv, Environment
  PROVE  TypeOK'
  <1>1. TypeOK /\ job \in [Procs -> Jobs]
    BY DEF GateInv, TypeOK, Jobs
  <1>2. ASSUME NEW r \in Runs, Cancel(r)
        PROVE  TypeOK'
    <2> DEFINE new == [run[r] EXCEPT !.status = "cancelled", !.error = "run_cancelled"]
    <2>1. run \in [Runs -> Rows]
      BY <1>1 DEF TypeOK, Rows
    <2>2. new \in Rows
      BY <2>1, RowUpdate, ZenonT(60) DEF RunStatus, RunError, Terminal
    <2>3. run' = [run EXCEPT ![r] = new]
      BY <1>2, <2>1 DEF Cancel
    <2>4. run' \in [Runs -> Rows]
      BY <2>1, <2>2, <2>3
    <2>5. approval' \in [Execs -> ApprovalStatus]
      BY <1>1, <1>2 DEF Cancel, TypeOK, ApprovalStatus
    <2> QED
      BY <1>1, <1>2, <2>4, <2>5 DEF Cancel, TypeOK, Rows
  <1>3. ASSUME NEW r \in Runs, Age(r)
        PROVE  TypeOK'
    BY <1>1, <1>3 DEF Age, TypeOK
  <1>4. ASSUME NEW e \in Execs, Lapse(e)
        PROVE  TypeOK'
    BY <1>1, <1>4 DEF Lapse, TypeOK
  <1>5. CASE ExpireDue
    <2>1. \A r \in Runs : [run[r] EXCEPT !.status = "failed", !.error = "approval_expired"] \in Rows
      <3>1. "failed" \in RunStatus /\ "approval_expired" \in RunError
        BY DEF RunStatus, RunError, Terminal
      <3>2. run \in [Runs -> Rows]
        BY <1>1 DEF TypeOK, Rows
      <3> QED
        BY <3>1, <3>2, RowUpdate
    <2>2. run' \in [Runs -> Rows]
      BY <1>1, <1>5, <2>1 DEF ExpireDue, TypeOK, Rows
    <2>3. approval' \in [Execs -> ApprovalStatus]
      BY <1>1, <1>5 DEF ExpireDue, TypeOK, ApprovalStatus
    <2> QED
      BY <1>1, <1>5, <2>2, <2>3 DEF ExpireDue, TypeOK, Rows
  <1>6. CASE Sweep
    <2>1. run' \in [Runs -> Rows]
      BY <1>1, <1>6, AbandonedType DEF Sweep
    <2> QED
      BY <1>1, <1>6, <2>1 DEF Sweep, TypeOK, Rows
  <1>7. ASSUME NEW p \in Procs, Trip(p)
        PROVE  TypeOK'
    BY <1>1, <1>7, ZenonT(60) DEF Trip, TypeOK, Jobs
  <1>8. ASSUME NEW p \in Procs, Crash(p)
        PROVE  TypeOK'
    BY <1>1, <1>8, LeaveType DEF Crash, TypeOK, Jobs
  <1> QED
    BY <1>2, <1>3, <1>4, <1>5, <1>6, <1>7, <1>8 DEF Environment

-----------------------------------------------------------------------------
(* The inductive invariant.                                                *)

\* Two requests with a question in hand never have the same one: asking needs an
\* execution nobody was asked about, and a decision is taken by one request.
LEMMA Separate ==
  ASSUME GateInv, NEW p \in Procs, NEW q \in Procs, p # q,
         pc[p] \in AskPoints \cup DecidePoints,
         pc[q] \in AskPoints \cup DecidePoints
  PROVE  Target(p) # Target(q)
  <1>1. RequestOK(p) /\ RequestOK(q) /\ Apart(p, q)
    BY DEF GateInv
  <1>2. CASE pc[p] \in AskPoints /\ pc[q] \in DecidePoints
    BY <1>1, <1>2 DEF RequestOK
  <1>3. CASE pc[p] \in DecidePoints /\ pc[q] \in AskPoints
    BY <1>1, <1>3 DEF RequestOK
  <1> QED
    BY <1>1, <1>2, <1>3 DEF Apart

\* What a step of one request has to show: that it leaves itself and every
\* execution in order, and the questions of the others alone.
LEMMA StepOfRequest ==
  ASSUME GateInv, TypeOK', NEW p \in Procs,
         gated' = gated,
         \A r \in Runs : journal[r] \subseteq journal'[r],
         \A q \in Procs \ {p} : pc'[q] = pc[q] /\ job'[q] = job[q],
         \A q \in Procs \ {p} : pc[q] \in AskPoints \cup DecidePoints =>
           /\ approval'[Target(q)] = approval[Target(q)]
           /\ body'[Target(q)] = body[Target(q)]
           /\ exec'[Target(q)] = exec[Target(q)],
         \A q \in Procs \ {p} : Apart(p, q)',
         RequestOK(p)',
         \A e \in Execs : ExecOK(e)'
  PROVE  GateInv'
  <1>1. \A q \in Procs \ {p} : Target(q)' = Target(q)
    BY DEF Target
  <1>2. ASSUME NEW q \in Procs \ {p}
        PROVE  RequestOK(q)'
    <2>1. RequestOK(q)
      BY DEF GateInv
    <2>2. pc[q] # "idle" => job[q].run \in Runs
      BY <2>1 DEF RequestOK
    <2>3. CASE pc[q] \in AskPoints
      <3>1. pc[q] # "idle" /\ pc[q] \notin DecidePoints
        BY <2>3 DEF AskPoints, DecidePoints
      <3> QED
        BY <1>1, <2>1, <2>2, <2>3, <3>1 DEF RequestOK
    <2>4. CASE pc[q] \in DecidePoints
      <3>1. pc[q] # "idle" /\ pc[q] \notin AskPoints
        BY <2>4 DEF AskPoints, DecidePoints
      <3> QED
        BY <1>1, <2>1, <2>2, <2>4, <3>1 DEF RequestOK
    <2>5. CASE pc[q] \notin AskPoints \cup DecidePoints
      BY <2>2, <2>5 DEF RequestOK
    <2> QED
      BY <2>3, <2>4, <2>5
  <1>3. ASSUME NEW q \in Procs, NEW o \in Procs, q # o
        PROVE  Apart(q, o)'
    <2>1. Apart(q, o)
      BY <1>3 DEF GateInv
    <2>2. CASE q # p /\ o # p
      BY <1>1, <2>1, <2>2 DEF Apart
    <2>3. CASE q = p
      BY <1>3, <2>3
    <2>4. CASE o = p
      <3>1. Apart(p, q)'
        BY <1>3, <2>4
      <3> QED
        BY <2>4, <3>1 DEF Apart
    <2> QED
      BY <2>2, <2>3, <2>4
  <1> QED
    BY <1>2, <1>3 DEF GateInv

\* A step that writes none of the gate's tables and takes its request out of every
\* point where it holds a question.
LEMMA QuietStep ==
  ASSUME GateInv, TypeOK', NEW p \in Procs,
         UNCHANGED <<journal, exec, approval, gated, body>>,
         \A q \in Procs \ {p} : pc'[q] = pc[q] /\ job'[q] = job[q],
         pc'[p] \notin AskPoints \cup DecidePoints,
         pc'[p] # "idle" => job'[p].run \in Runs
  PROVE  GateInv'
  <1>1. \A e \in Execs : ExecOK(e)'
    BY DEF GateInv, ExecOK
  <1>2. RequestOK(p)'
    BY DEF RequestOK
  <1>3. \A q \in Procs \ {p} : Apart(p, q)'
    BY DEF Apart
  <1> QED
    BY <1>1, <1>2, <1>3, StepOfRequest

\* Nobody steps: an update of the approvals that leaves the unasked and the decided
\* ones alone, or no update at all.
LEMMA OutsideStep ==
  ASSUME GateInv, TypeOK', UNCHANGED <<journal, exec, gated, body, pc>>,
         \A q \in Procs : \E stop \in BOOLEAN : job'[q] = [job[q] EXCEPT !.stop = stop],
         \A e \in Execs : approval[e] # "pending" => approval'[e] = approval[e],
         \A e \in Execs : approval[e] = "pending" => approval'[e] # "none"
  PROVE  GateInv'
  <1>1. ASSUME NEW q \in Procs
        PROVE  /\ job'[q].run = job[q].run
               /\ job'[q].step = job[q].step
               /\ job'[q].outcome = job[q].outcome
               /\ job'[q].approve = job[q].approve
    <2>1. PICK stop \in BOOLEAN : job'[q] = [job[q] EXCEPT !.stop = stop]
      OBVIOUS
    <2>2. job[q] \in Jobs
      BY DEF GateInv, TypeOK, Jobs
    <2> QED
      BY <2>1, <2>2 DEF Jobs
  <1>2. \A q \in Procs : Target(q)' = Target(q)
    BY <1>1 DEF Target
  <1>3. ASSUME NEW e \in Execs
        PROVE  ExecOK(e)'
    <2>1. ExecOK(e)
      BY DEF GateInv
    <2> QED
      BY <2>1 DEF ExecOK
  <1>4. ASSUME NEW q \in Procs
        PROVE  RequestOK(q)'
    <2>1. RequestOK(q)
      BY DEF GateInv
    <2>2. pc[q] \in AskPoints \cup DecidePoints =>
            Target(q) \in Execs /\ approval'[Target(q)] = approval[Target(q)]
      BY <2>1, TargetType DEF RequestOK
    <2> QED
      BY <1>1, <1>2, <2>1, <2>2 DEF RequestOK
  <1>5. ASSUME NEW q \in Procs, NEW o \in Procs, q # o
        PROVE  Apart(q, o)'
    BY <1>2, <1>5 DEF GateInv, Apart
  <1> QED
    BY <1>3, <1>4, <1>5 DEF GateInv

\* Calling the tool of request p, seen from the gate: at most one more run of one
\* body, none for a gated tool without a grant, and only p moves.
LEMMA CallToolEffect ==
  ASSUME TypeOK, NEW p \in Procs, Target(p) \in Execs,
         NEW grant \in {"none", "grant", "refusal"}, NEW next \in Points,
         CallTool(p, grant, next)
  PROVE  /\ \A e \in Execs : e # Target(p) => body'[e] = body[e]
         /\ body'[Target(p)] \in {body[Target(p)], body[Target(p)] + 1}
         /\ gated[Target(p)] /\ grant # "grant" => body'[Target(p)] = body[Target(p)]
         /\ job'[p].outcome = "approval_required" => gated[Target(p)]
         /\ job'[p].run = job[p].run /\ job'[p].step = job[p].step
         /\ job'[p].approve = job[p].approve
         /\ pc'[p] = next
         /\ \A q \in Procs \ {p} : pc'[q] = pc[q] /\ job'[q] = job[q]
  <1>1. job[p] \in Jobs /\ job \in [Procs -> Jobs] /\ job[p].stop \in BOOLEAN
    BY DEF TypeOK, Jobs
  <1>2. PICK result \in Results(Target(p), grant, job[p].stop) :
          /\ body' = [body EXCEPT ![Target(p)] = @ + result.ran]
          /\ job' = [job EXCEPT ![p].outcome = result.outcome,
                                ![p].stop = @ \/ result.outcome = "cancelled"]
          /\ Goto(p, next)
    BY DEF CallTool
  <1>3. /\ result.outcome \in Outcome
        /\ result.ran \in {0, 1}
        /\ gated[Target(p)] /\ grant # "grant" => result.ran = 0
        /\ result.outcome = "approval_required" => gated[Target(p)]
    BY <1>1, ResultsType
  <1>4. body[Target(p)] \in Nat /\ body \in [Execs -> Nat]
    BY DEF TypeOK
  <1>5. body'[Target(p)] = body[Target(p)] + result.ran
        /\ \A e \in Execs : e # Target(p) => body'[e] = body[e]
    BY <1>2, <1>4
  <1>6. /\ job'[p].outcome = result.outcome
        /\ job'[p].run = job[p].run /\ job'[p].step = job[p].step
        /\ job'[p].approve = job[p].approve
        /\ \A q \in Procs \ {p} : job'[q] = job[q]
    BY <1>1, <1>2 DEF Jobs
  <1>7. pc'[p] = next /\ \A q \in Procs \ {p} : pc'[q] = pc[q]
    BY <1>2 DEF Goto, TypeOK
  <1> QED
    BY <1>3, <1>4, <1>5, <1>6, <1>7

\* A new step is in nobody's hands (UNIQUE(run_id, step_number)).
LEMMA ModelCallInv ==
  ASSUME GateInv, TypeOK', NEW p \in Procs, ModelCall(p)
  PROVE  GateInv'
  <1> DEFINE r == job[p].run
             n == job[p].steps + 1
  <1>1. /\ r \in Runs /\ n \in Steps /\ n \notin journal[r]
        /\ TypeOK /\ job[p] \in Jobs /\ <<r, n>> \in Execs
    <2>1. TypeOK /\ job[p] \in Jobs /\ job[p].steps \in 0..MaxSteps
      BY DEF GateInv, TypeOK, Jobs
    <2>2. r \in Runs /\ n \notin journal[r]
      BY TargetType DEF ModelCall
    <2>3. n \in Steps
      BY <2>1, StepsAssumption DEF ModelCall, Steps
    <2> QED
      BY <2>1, <2>2, <2>3 DEF Execs
  <1>2. Target(p)' = <<r, n>> /\ job'[p].run = r /\ job'[p].step = n
        /\ \A q \in Procs \ {p} : pc'[q] = pc[q] /\ job'[q] = job[q]
    BY <1>1 DEF ModelCall, Goto, Target, TypeOK, Jobs
  <1>3. pc'[p] \in {"final", "tool"}
    BY <1>1 DEF ModelCall, Goto, TypeOK
  <1>4. journal' = [journal EXCEPT ![r] = @ \cup {n}]
        /\ n \in journal'[r] /\ \A o \in Runs : journal[o] \subseteq journal'[o]
    BY <1>1 DEF ModelCall, TypeOK
  <1>5. ExecOK(<<r, n>>)
    BY <1>1 DEF GateInv
  <1>6. RequestOK(p)'
    <2>1. approval[<<r, n>>] = "none" /\ body[<<r, n>>] = 0
      BY <1>1, <1>5 DEF ExecOK
    <2>2. UNCHANGED <<approval, body>>
      BY DEF ModelCall
    <2> QED
      BY <1>1, <1>2, <1>3, <1>4, <2>1, <2>2 DEF RequestOK, AskPoints, DecidePoints
  <1>7. ASSUME NEW e \in Execs
        PROVE  ExecOK(e)'
    <2>1. ExecOK(e) /\ e[1] \in Runs
      BY DEF GateInv, Execs
    <2>2. e[2] \notin journal'[e[1]] => e[2] \notin journal[e[1]]
      BY <1>4, <2>1
    <2> QED
      BY <2>1, <2>2 DEF ModelCall, ExecOK
  <1>8. ASSUME NEW q \in Procs \ {p}
        PROVE  Apart(p, q)'
    <2>1. RequestOK(q)
      BY DEF GateInv
    <2>2. pc[q] \in AskPoints => Target(q) # <<r, n>>
      BY <1>1, <2>1 DEF RequestOK, Target
    <2>3. Target(q)' = Target(q)
      BY <1>2 DEF Target
    <2> QED
      BY <1>2, <1>3, <2>2, <2>3 DEF Apart, DecidePoints
  <1> QED
    BY <1>2, <1>4, <1>6, <1>7, <1>8, StepOfRequest DEF ModelCall

\* A first attempt runs a fresh body at most once, and never a gated one.
LEMMA RunToolInv ==
  ASSUME GateInv, TypeOK', NEW p \in Procs, RunTool(p)
  PROVE  GateInv'
  <1>1. RequestOK(p) /\ TypeOK /\ pc[p] = "tool" /\ pc[p] \in AskPoints
    BY DEF GateInv, RunTool, AskPoints
  <1>2. /\ Target(p) \in Execs /\ job[p].run \in Runs
        /\ job[p].step \in journal[job[p].run]
        /\ approval[Target(p)] = "none" /\ body[Target(p)] = 0
    BY <1>1, TargetType DEF RequestOK
  <1>3. /\ \A e \in Execs : e # Target(p) => body'[e] = body[e]
        /\ body'[Target(p)] \in {0, 1}
        /\ gated[Target(p)] => body'[Target(p)] = 0
        /\ job'[p].outcome = "approval_required" => gated[Target(p)]
        /\ job'[p].run = job[p].run /\ job'[p].step = job[p].step
        /\ pc'[p] = "record"
        /\ \A q \in Procs \ {p} : pc'[q] = pc[q] /\ job'[q] = job[q]
    BY <1>1, <1>2, CallToolEffect DEF RunTool, Points, DrivePoints
  <1>4. Target(p)' = Target(p)
    BY <1>3 DEF Target
  <1>5. RequestOK(p)'
    BY <1>2, <1>3, <1>4 DEF RunTool, RequestOK, AskPoints, DecidePoints
  <1>6. ASSUME NEW e \in Execs
        PROVE  ExecOK(e)'
    <2>1. ExecOK(e)
      BY DEF GateInv
    <2>2. CASE e = Target(p)
      BY <1>2, <1>3, <2>1, <2>2 DEF RunTool, ExecOK, Target
    <2>3. CASE e # Target(p)
      BY <1>3, <2>1, <2>3 DEF RunTool, ExecOK
    <2> QED
      BY <2>2, <2>3
  <1>7. ASSUME NEW q \in Procs \ {p}
        PROVE  /\ Apart(p, q)'
               /\ pc[q] \in AskPoints \cup DecidePoints =>
                    body'[Target(q)] = body[Target(q)]
    <2>1. Target(q)' = Target(q)
      BY <1>3 DEF Target
    <2>2. pc[q] \in AskPoints \cup DecidePoints =>
            Target(q) \in Execs /\ Target(q) # Target(p)
      BY <1>1, TargetType, Separate
    <2> QED
      BY <1>3, <1>4, <2>1, <2>2 DEF Apart
  <1> QED
    BY <1>3, <1>5, <1>6, <1>7, StepOfRequest DEF RunTool

\* The first record of an execution is written before anybody is asked about it.
LEMMA RecordToolInv ==
  ASSUME GateInv, TypeOK', NEW p \in Procs, RecordTool(p)
  PROVE  GateInv'
  <1>1. RequestOK(p) /\ TypeOK /\ pc[p] = "record" /\ pc[p] \in AskPoints
    BY DEF GateInv, RecordTool, AskPoints
  <1>2. /\ Target(p) \in Execs /\ job[p].run \in Runs
        /\ job[p].step \in journal[job[p].run]
        /\ approval[Target(p)] = "none"
        /\ job[p].outcome = "approval_required" => gated[Target(p)]
    BY <1>1, TargetType DEF RequestOK
  <1>3. /\ pc'[p] \in {"ask", "stopped", "append"}
        /\ pc'[p] = "ask" => job[p].outcome = "approval_required"
        /\ \A q \in Procs \ {p} : pc'[q] = pc[q]
    <2>1. CASE job[p].outcome = "approval_required"
      BY <1>1, <2>1 DEF RecordTool, Goto, TypeOK
    <2>2. CASE job[p].outcome # "approval_required" /\ job[p].outcome = "cancelled"
      BY <1>1, <2>2 DEF RecordTool, Goto, TypeOK
    <2>3. CASE job[p].outcome # "approval_required" /\ job[p].outcome # "cancelled"
      BY <1>1, <2>3 DEF RecordTool, Goto, TypeOK
    <2> QED
      BY <2>1, <2>2, <2>3
  <1>4. \A e \in Execs : e # Target(p) => exec'[e] = exec[e]
    BY <1>1 DEF RecordTool, TypeOK
  <1>5. \A q \in Procs : Target(q)' = Target(q)
    BY DEF RecordTool, Target
  <1>6. RequestOK(p)'
    BY <1>2, <1>3, <1>5 DEF RecordTool, RequestOK, AskPoints, DecidePoints
  <1>7. ASSUME NEW e \in Execs
        PROVE  ExecOK(e)'
    <2>1. ExecOK(e)
      BY DEF GateInv
    <2>2. CASE e = Target(p)
      BY <1>2, <2>1, <2>2 DEF RecordTool, ExecOK
    <2>3. CASE e # Target(p)
      BY <1>4, <2>1, <2>3 DEF RecordTool, ExecOK
    <2> QED
      BY <2>2, <2>3
  <1>8. ASSUME NEW q \in Procs \ {p}
        PROVE  /\ Apart(p, q)'
               /\ pc[q] \in AskPoints \cup DecidePoints =>
                    exec'[Target(q)] = exec[Target(q)]
    <2>1. pc[q] \in AskPoints \cup DecidePoints =>
            Target(q) \in Execs /\ Target(q) # Target(p)
      BY <1>1, TargetType, Separate
    <2> QED
      BY <1>3, <1>4, <1>5, <2>1 DEF Apart
  <1> QED
    BY <1>3, <1>6, <1>7, <1>8, StepOfRequest DEF RecordTool

\* Only a fresh execution of a gated tool becomes a question.
LEMMA AskInv ==
  ASSUME GateInv, TypeOK', NEW p \in Procs, Ask(p)
  PROVE  GateInv'
  <1>1. RequestOK(p) /\ TypeOK /\ pc[p] = "ask" /\ pc[p] \in AskPoints
    BY DEF GateInv, Ask, AskPoints
  <1>2. /\ Target(p) \in Execs /\ job[p].run \in Runs
        /\ job[p].step \in journal[job[p].run]
        /\ approval[Target(p)] = "none" /\ gated[Target(p)]
    BY <1>1, TargetType DEF RequestOK
  <1>3. pc'[p] = "pause" /\ \A q \in Procs \ {p} : pc'[q] = pc[q]
    BY <1>1 DEF Ask, Goto, TypeOK
  <1>4. \A e \in Execs : e # Target(p) => approval'[e] = approval[e]
    BY <1>1 DEF Ask, TypeOK
  <1>5. RequestOK(p)'
    BY <1>2, <1>3 DEF Ask, RequestOK, AskPoints, DecidePoints
  <1>6. ASSUME NEW e \in Execs
        PROVE  ExecOK(e)'
    <2>1. ExecOK(e)
      BY DEF GateInv
    <2>2. CASE e = Target(p)
      BY <1>2, <2>1, <2>2 DEF Ask, ExecOK, Target
    <2>3. CASE e # Target(p)
      BY <1>4, <2>1, <2>3 DEF Ask, ExecOK
    <2> QED
      BY <2>2, <2>3
  <1>7. ASSUME NEW q \in Procs \ {p}
        PROVE  /\ Apart(p, q)'
               /\ pc[q] \in AskPoints \cup DecidePoints =>
                    approval'[Target(q)] = approval[Target(q)]
    <2>1. pc[q] \in AskPoints \cup DecidePoints =>
            Target(q) \in Execs /\ Target(q) # Target(p)
      BY <1>1, TargetType, Separate
    <2> QED
      BY <1>3, <1>4, <2>1 DEF Apart, AskPoints, DecidePoints
  <1> QED
    BY <1>3, <1>5, <1>6, <1>7, StepOfRequest DEF Ask

\* One request takes the decision (ApprovalRepository.decide), while the body has
\* not run.
LEMMA DecideInv ==
  ASSUME GateInv, TypeOK', NEW p \in Procs, NEW e \in Execs,
         NEW approve \in BOOLEAN, Decide(p, e, approve)
  PROVE  GateInv'
  <1>1. TypeOK /\ ExecOK(e) /\ e[1] \in Runs /\ e[2] \in Steps /\ e = <<e[1], e[2]>>
    BY DEF GateInv, Execs
  <1>2. approval[e] = "pending" /\ gated[e] /\ body[e] = 0
    BY <1>1 DEF Decide, ExecOK, TypeOK
  <1>3. /\ pc'[p] = "decided"
        /\ job'[p].run = e[1] /\ job'[p].step = e[2] /\ job'[p].approve = approve
        /\ \A q \in Procs \ {p} : pc'[q] = pc[q] /\ job'[q] = job[q]
    BY <1>1 DEF Decide, Goto, TypeOK, NoJob
  <1>4. Target(p)' = e /\ \A q \in Procs \ {p} : Target(q)' = Target(q)
    BY <1>1, <1>3 DEF Target
  <1>5. /\ approval'[e] = IF approve THEN "approved" ELSE "rejected"
        /\ \A d \in Execs : d # e => approval'[d] = approval[d]
    BY <1>1 DEF Decide, TypeOK
  <1>6. RequestOK(p)'
    BY <1>1, <1>2, <1>3, <1>4, <1>5
    DEF Decide, RequestOK, AskPoints, DecidePoints
  <1>7. ASSUME NEW d \in Execs
        PROVE  ExecOK(d)'
    <2>1. ExecOK(d)
      BY DEF GateInv
    <2>2. CASE d = e
      BY <1>2, <2>1, <2>2 DEF Decide, ExecOK
    <2>3. CASE d # e
      BY <1>5, <2>1, <2>3 DEF Decide, ExecOK
    <2> QED
      BY <2>2, <2>3
  <1>8. ASSUME NEW q \in Procs \ {p}
        PROVE  /\ Apart(p, q)'
               /\ pc[q] \in AskPoints \cup DecidePoints =>
                    approval'[Target(q)] = approval[Target(q)]
    <2>1. RequestOK(q)
      BY DEF GateInv
    <2>2. pc[q] \in AskPoints \cup DecidePoints =>
            Target(q) \in Execs /\ Target(q) # e
      BY <1>2, <2>1, TargetType DEF RequestOK
    <2> QED
      BY <1>3, <1>4, <1>5, <2>2 DEF Apart, AskPoints
  <1> QED
    BY <1>3, <1>6, <1>7, <1>8, StepOfRequest DEF Decide

\* The claim is durable before the body runs (ToolExecutionRepository.claim).
LEMMA ClaimInv ==
  ASSUME GateInv, TypeOK', NEW p \in Procs, Claim(p)
  PROVE  GateInv'
  <1>1. RequestOK(p) /\ TypeOK /\ pc[p] = "claim" /\ pc[p] \in DecidePoints
        /\ pc[p] \in ClaimPoints
    BY DEF GateInv, Claim, DecidePoints, ClaimPoints
  <1>2. Target(p) \in Execs /\ job[p].run \in Runs
    BY <1>1, TargetType DEF DecidePoints
  <1>3. pc'[p] \in {"unresumable", "grant"} /\ \A q \in Procs \ {p} : pc'[q] = pc[q]
    BY <1>1 DEF Claim, Goto, TypeOK
  <1>4. /\ \A e \in Execs : e # Target(p) => exec'[e] = exec[e]
        /\ \A e \in Execs : exec[e].executed => exec'[e].executed
        /\ job[p].approve => exec'[Target(p)].executed
    <2>1. exec \in [Execs -> ExecRows]
      BY <1>1 DEF TypeOK
    <2>2. CASE job[p].approve
      BY <1>2, <2>1, <2>2 DEF Claim
    <2>3. CASE ~job[p].approve
      BY <1>2, <2>1, <2>3 DEF Claim
    <2> QED
      BY <2>2, <2>3
  <1>5. \A q \in Procs : Target(q)' = Target(q)
    BY DEF Claim, Target
  <1>6. RequestOK(p)'
    BY <1>1, <1>2, <1>3, <1>4, <1>5
    DEF Claim, RequestOK, AskPoints, DecidePoints, ClaimPoints
  <1>7. ASSUME NEW e \in Execs
        PROVE  ExecOK(e)'
    <2>1. ExecOK(e)
      BY DEF GateInv
    <2> QED
      BY <1>4, <2>1 DEF Claim, ExecOK
  <1>8. ASSUME NEW q \in Procs \ {p}
        PROVE  /\ Apart(p, q)'
               /\ pc[q] \in AskPoints \cup DecidePoints =>
                    exec'[Target(q)] = exec[Target(q)]
    <2>1. pc[q] \in AskPoints \cup DecidePoints =>
            Target(q) \in Execs /\ Target(q) # Target(p)
      BY <1>1, TargetType, Separate
    <2> QED
      BY <1>3, <1>4, <1>5, <2>1 DEF Apart, AskPoints, DecidePoints
  <1> QED
    BY <1>3, <1>6, <1>7, <1>8, StepOfRequest DEF Claim

\* A claimed body runs at most once, and only for an approval.
LEMMA RunGrantedInv ==
  ASSUME GateInv, TypeOK', NEW p \in Procs, RunGranted(p)
  PROVE  GateInv'
  <1> DEFINE grant == IF job[p].approve THEN "grant" ELSE "refusal"
  <1>1. RequestOK(p) /\ TypeOK /\ pc[p] = "grant" /\ pc[p] \in DecidePoints
        /\ pc[p] \in ClaimPoints
    BY DEF GateInv, RunGranted, DecidePoints, ClaimPoints
  <1>2. /\ Target(p) \in Execs /\ job[p].run \in Runs
        /\ job[p].step \in Steps
        /\ gated[Target(p)] /\ body[Target(p)] = 0
        /\ approval[Target(p)] = IF job[p].approve THEN "approved" ELSE "rejected"
        /\ job[p].approve => exec[Target(p)].executed
    BY <1>1, TargetType DEF RequestOK
  <1>3. /\ \A e \in Execs : e # Target(p) => body'[e] = body[e]
        /\ body'[Target(p)] \in {0, 1}
        /\ ~job[p].approve => body'[Target(p)] = 0
        /\ job'[p].run = job[p].run /\ job'[p].step = job[p].step
        /\ job'[p].approve = job[p].approve
        /\ pc'[p] = "outcome"
        /\ \A q \in Procs \ {p} : pc'[q] = pc[q] /\ job'[q] = job[q]
    <2>1. grant \in {"none", "grant", "refusal"} /\ "outcome" \in Points
          /\ CallTool(p, grant, "outcome")
      BY DEF RunGranted, Points, DecidePoints
    <2> HIDE DEF grant
    <2>2. /\ \A e \in Execs : e # Target(p) => body'[e] = body[e]
          /\ body'[Target(p)] \in {body[Target(p)], body[Target(p)] + 1}
          /\ gated[Target(p)] /\ grant # "grant" => body'[Target(p)] = body[Target(p)]
          /\ job'[p].run = job[p].run /\ job'[p].step = job[p].step
          /\ job'[p].approve = job[p].approve
          /\ pc'[p] = "outcome"
          /\ \A q \in Procs \ {p} : pc'[q] = pc[q] /\ job'[q] = job[q]
      BY <1>1, <1>2, <2>1, CallToolEffect
    <2> QED
      BY <1>2, <2>2 DEF grant
  <1>4. Target(p)' = Target(p)
    BY <1>3 DEF Target
  <1>5. RequestOK(p)'
    BY <1>2, <1>3, <1>4 DEF RunGranted, RequestOK, AskPoints, DecidePoints, ClaimPoints
  <1>6. ASSUME NEW e \in Execs
        PROVE  ExecOK(e)'
    <2>1. ExecOK(e)
      BY DEF GateInv
    <2>2. CASE e = Target(p)
      BY <1>2, <1>3, <2>1, <2>2 DEF RunGranted, ExecOK
    <2>3. CASE e # Target(p)
      BY <1>3, <2>1, <2>3 DEF RunGranted, ExecOK
    <2> QED
      BY <2>2, <2>3
  <1>7. ASSUME NEW q \in Procs \ {p}
        PROVE  /\ Apart(p, q)'
               /\ pc[q] \in AskPoints \cup DecidePoints =>
                    body'[Target(q)] = body[Target(q)]
    <2>1. Target(q)' = Target(q)
      BY <1>3 DEF Target
    <2>2. pc[q] \in AskPoints \cup DecidePoints =>
            Target(q) \in Execs /\ Target(q) # Target(p)
      BY <1>1, TargetType, Separate
    <2> QED
      BY <1>3, <1>4, <2>1, <2>2 DEF Apart
  <1> QED
    BY <1>3, <1>5, <1>6, <1>7, StepOfRequest DEF RunGranted

\* Recording the outcome never lowers the executed flag.
LEMMA RecordOutcomeInv ==
  ASSUME GateInv, TypeOK', NEW p \in Procs, RecordOutcome(p)
  PROVE  GateInv'
  <1>1. RequestOK(p) /\ TypeOK /\ pc[p] = "outcome" /\ pc[p] \in DecidePoints
    BY DEF GateInv, RecordOutcome, DecidePoints
  <1>2. Target(p) \in Execs /\ job[p].run \in Runs
    BY <1>1, TargetType
  <1>3. pc'[p] = "resume" /\ \A q \in Procs \ {p} : pc'[q] = pc[q]
    BY <1>1 DEF RecordOutcome, Goto, TypeOK
  <1>4. /\ \A e \in Execs : e # Target(p) => exec'[e] = exec[e]
        /\ \A e \in Execs : exec[e].executed => exec'[e].executed
    BY <1>1, <1>2 DEF RecordOutcome, TypeOK
  <1>5. \A q \in Procs : Target(q)' = Target(q)
    BY DEF RecordOutcome, Target
  <1>6. RequestOK(p)'
    BY <1>1, <1>2, <1>3, <1>5
    DEF RecordOutcome, RequestOK, AskPoints, DecidePoints, ClaimPoints
  <1>7. ASSUME NEW e \in Execs
        PROVE  ExecOK(e)'
    <2>1. ExecOK(e)
      BY DEF GateInv
    <2> QED
      BY <1>4, <2>1 DEF RecordOutcome, ExecOK
  <1>8. ASSUME NEW q \in Procs \ {p}
        PROVE  /\ Apart(p, q)'
               /\ pc[q] \in AskPoints \cup DecidePoints =>
                    exec'[Target(q)] = exec[Target(q)]
    <2>1. pc[q] \in AskPoints \cup DecidePoints =>
            Target(q) \in Execs /\ Target(q) # Target(p)
      BY <1>1, TargetType, Separate
    <2> QED
      BY <1>3, <1>4, <1>5, <2>1 DEF Apart
  <1> QED
    BY <1>3, <1>6, <1>7, <1>8, StepOfRequest DEF RecordOutcome

\* Reading the run keeps the decision in hand, or gives it up.
LEMMA ReadRunInv ==
  ASSUME GateInv, TypeOK', NEW p \in Procs, ReadRun(p)
  PROVE  GateInv'
  <1>1. RequestOK(p) /\ TypeOK /\ pc[p] = "decided" /\ pc[p] \in DecidePoints
        /\ pc[p] \in ClaimPoints /\ job[p] \in Jobs
    BY DEF GateInv, ReadRun, DecidePoints, ClaimPoints, TypeOK, Jobs
  <1>2. pc'[p] \in {"claim", "unresumable"} /\ \A q \in Procs \ {p} : pc'[q] = pc[q]
    BY <1>1 DEF ReadRun, Goto, TypeOK
  <1>3. /\ job'[p].run = job[p].run /\ job'[p].step = job[p].step
        /\ job'[p].approve = job[p].approve
        /\ \A q \in Procs \ {p} : job'[q] = job[q]
    BY <1>1 DEF ReadRun, TypeOK, Jobs
  <1>4. \A q \in Procs : Target(q)' = Target(q)
    BY <1>3 DEF Target
  <1>5. RequestOK(p)'
    BY <1>1, <1>2, <1>3, <1>4
    DEF ReadRun, RequestOK, AskPoints, DecidePoints, ClaimPoints
  <1>6. \A e \in Execs : ExecOK(e)'
    BY DEF GateInv, ReadRun, ExecOK
  <1>7. ASSUME NEW q \in Procs \ {p}
        PROVE  Apart(p, q)'
    <2>1. pc[q] \in AskPoints \cup DecidePoints => Target(q) # Target(p)
      BY <1>1, Separate
    <2> QED
      BY <1>2, <1>4, <2>1 DEF Apart
  <1> QED
    BY <1>2, <1>3, <1>5, <1>6, <1>7, StepOfRequest DEF ReadRun

\* The last write of a request touches none of the gate's tables.
LEMMA FinishInv ==
  ASSUME GateInv, TypeOK', NEW p \in Procs, pc[p] # "idle",
         NEW status, NEW error, Finish(p, status, error)
  PROVE  GateInv'
  <1>1. TypeOK /\ job \in [Procs -> Jobs] /\ job[p].run \in Runs
    BY TargetType DEF GateInv, TypeOK, Jobs
  <1>2. pc'[p] = "closing" /\ job'[p].run = job[p].run
        /\ \A q \in Procs \ {p} : pc'[q] = pc[q] /\ job'[q] = job[q]
    BY <1>1 DEF Finish, Goto, TypeOK, Jobs
  <1> QED
    BY <1>1, <1>2, QuietStep DEF Finish, AskPoints, DecidePoints

\* Leaving gives up whatever the request had in hand.
LEMMA LeaveInv ==
  ASSUME GateInv, TypeOK', NEW p \in Procs, Leave(p),
         UNCHANGED <<journal, exec, approval, gated, body>>
  PROVE  GateInv'
  <1>1. TypeOK /\ job \in [Procs -> Jobs]
    BY DEF GateInv, TypeOK, Jobs
  <1>2. pc'[p] = "idle" /\ \A q \in Procs \ {p} : pc'[q] = pc[q] /\ job'[q] = job[q]
    BY <1>1 DEF Leave, Goto, TypeOK
  <1> QED
    BY <1>2, QuietStep DEF AskPoints, DecidePoints

\* Every step of a driving request preserves the invariant.
LEMMA DriveInv ==
  ASSUME GateInv, NEW p \in Procs, Drive(p)
  PROVE  GateInv'
  <1>1. TypeOK' /\ TypeOK /\ job \in [Procs -> Jobs]
    BY DriveType DEF GateInv, TypeOK, Jobs
  <1>2. CASE RefuseStart(p)
    BY <1>1, <1>2, LeaveInv DEF RefuseStart
  <1>3. CASE StartRun(p)
    <2>1. pc'[p] = "loop" /\ job'[p].run = job[p].run /\ job[p].run \in Runs
          /\ \A q \in Procs \ {p} : pc'[q] = pc[q] /\ job'[q] = job[q]
      BY <1>1, <1>3, TargetType DEF StartRun, Goto, TypeOK, Jobs
    <2> QED
      BY <1>1, <1>3, <2>1, QuietStep DEF StartRun, AskPoints, DecidePoints
  <1>4. CASE ModelCall(p)
    BY <1>1, <1>4, ModelCallInv
  <1>5. CASE ModelFails(p)
    BY <1>1, <1>5, FinishInv DEF ModelFails
  <1>6. CASE OutOfBudget(p)
    BY <1>1, <1>6, FinishInv DEF OutOfBudget
  <1>7. CASE StopRun(p)
    <2>1. pc[p] # "idle" /\ Finish(p, "cancelled", "none")
      BY <1>7 DEF StopRun
    <2> QED
      BY <1>1, <2>1, FinishInv
  <1>8. CASE Complete(p)
    BY <1>1, <1>8, FinishInv DEF Complete
  <1>9. CASE RunTool(p)
    BY <1>1, <1>9, RunToolInv
  <1>10. CASE RecordTool(p)
    BY <1>1, <1>10, RecordToolInv
  <1>11. CASE Ask(p)
    BY <1>1, <1>11, AskInv
  <1>12. CASE Pause(p)
    BY <1>1, <1>12, FinishInv DEF Pause
  <1>13. CASE Append(p)
    <2>1. pc'[p] = "loop" /\ job' = job /\ job[p].run \in Runs
          /\ \A q \in Procs \ {p} : pc'[q] = pc[q]
      BY <1>1, <1>13, TargetType DEF Append, Goto, TypeOK
    <2> QED
      BY <1>1, <1>13, <2>1, QuietStep DEF Append, AskPoints, DecidePoints
  <1>14. CASE TooLarge(p)
    BY <1>1, <1>14, FinishInv DEF TooLarge
  <1> QED
    BY <1>2, <1>3, <1>4, <1>5, <1>6, <1>7, <1>8, <1>9, <1>10, <1>11, <1>12,
       <1>13, <1>14 DEF Drive

\* Every step of a request that decided preserves the invariant.
LEMMA ResumeInv ==
  ASSUME GateInv, NEW p \in Procs, Resume(p)
  PROVE  GateInv'
  <1>1. TypeOK' /\ TypeOK /\ job \in [Procs -> Jobs]
    BY ResumeType DEF GateInv, TypeOK, Jobs
  <1>2. CASE ReadRun(p)
    BY <1>1, <1>2, ReadRunInv
  <1>3. CASE Claim(p)
    BY <1>1, <1>3, ClaimInv
  <1>4. CASE RunGranted(p)
    BY <1>1, <1>4, RunGrantedInv
  <1>5. CASE RecordOutcome(p)
    BY <1>1, <1>5, RecordOutcomeInv
  <1>6. CASE ResumeRun(p)
    <2>1. pc'[p] = "append" /\ job'[p].run = job[p].run /\ job[p].run \in Runs
          /\ \A q \in Procs \ {p} : pc'[q] = pc[q] /\ job'[q] = job[q]
      BY <1>1, <1>6, TargetType DEF ResumeRun, Goto, TypeOK, Jobs
    <2> QED
      BY <1>1, <1>6, <2>1, QuietStep DEF ResumeRun, AskPoints, DecidePoints
  <1>7. CASE RefuseResume(p)
    <2>1. pc'[p] = "unresumed" /\ job' = job /\ job[p].run \in Runs
          /\ \A q \in Procs \ {p} : pc'[q] = pc[q]
      BY <1>1, <1>7, TargetType DEF RefuseResume, Goto, TypeOK
    <2> QED
      BY <1>1, <1>7, <2>1, QuietStep DEF RefuseResume, AskPoints, DecidePoints
  <1>8. CASE Close(p)
    <2>1. pc'[p] = "closed" /\ job' = job /\ job[p].run \in Runs
          /\ \A q \in Procs \ {p} : pc'[q] = pc[q]
      BY <1>1, <1>8, TargetType DEF Close, Goto, TypeOK
    <2> QED
      BY <1>1, <1>8, <2>1, QuietStep DEF Close, AskPoints, DecidePoints
  <1>9. CASE Answer(p)
    BY <1>1, <1>9, LeaveInv DEF Answer
  <1> QED
    BY <1>2, <1>3, <1>4, <1>5, <1>6, <1>7, <1>8, <1>9 DEF Resume

\* A new request preserves the invariant.
LEMMA RequestInv ==
  ASSUME GateInv, NEW p \in Procs, Request(p)
  PROVE  GateInv'
  <1>1. TypeOK' /\ TypeOK
    BY RequestType DEF GateInv
  <1>2. ASSUME NEW r \in Runs, Create(p, r)
        PROVE  GateInv'
    <2>1. pc'[p] = "start" /\ job'[p].run = r
          /\ \A q \in Procs \ {p} : pc'[q] = pc[q] /\ job'[q] = job[q]
      BY <1>1, <1>2 DEF Create, Goto, TypeOK, NoJob
    <2> QED
      BY <1>1, <1>2, <2>1, QuietStep DEF Create, AskPoints, DecidePoints
  <1>3. ASSUME NEW e \in Execs, NEW approve \in BOOLEAN, Decide(p, e, approve)
        PROVE  GateInv'
    BY <1>1, <1>3, DecideInv
  <1> QED
    BY <1>2, <1>3 DEF Request

\* Cancellations, expiry, the sweep, time and crashes preserve the invariant.
LEMMA EnvironmentInv ==
  ASSUME GateInv, Environment
  PROVE  GateInv'
  <1>1. TypeOK' /\ TypeOK
    BY EnvironmentType DEF GateInv
  <1>2. \A q \in Procs : job[q].stop \in BOOLEAN /\ job[q] = [job[q] EXCEPT !.stop = job[q].stop]
    BY <1>1 DEF TypeOK, Jobs
  <1>3. ASSUME NEW r \in Runs, Cancel(r)
        PROVE  GateInv'
    <2>1. \A e \in Execs : approval'[e] =
            IF e \in Questions(r) THEN "cancelled" ELSE approval[e]
      BY <1>3 DEF Cancel
    <2> QED
      BY <1>1, <1>2, <1>3, <2>1, OutsideStep DEF Cancel, Questions
  <1>4. ASSUME NEW r \in Runs, Age(r)
        PROVE  GateInv'
    BY <1>1, <1>2, <1>4, OutsideStep DEF Age
  <1>5. ASSUME NEW e \in Execs, Lapse(e)
        PROVE  GateInv'
    BY <1>1, <1>2, <1>5, OutsideStep DEF Lapse
  <1>6. CASE ExpireDue
    <2>1. \A e \in Execs : approval'[e] = IF e \in Overdue THEN "expired" ELSE approval[e]
      BY <1>6 DEF ExpireDue
    <2> QED
      BY <1>1, <1>2, <1>6, <2>1, OutsideStep DEF ExpireDue, Overdue
  <1>7. CASE Sweep
    BY <1>1, <1>2, <1>7, OutsideStep DEF Sweep
  <1>8. ASSUME NEW p \in Procs, Trip(p)
        PROVE  GateInv'
    <2>1. \A q \in Procs : \E stop \in BOOLEAN : job'[q] = [job[q] EXCEPT !.stop = stop]
      <3>1. job'[p] = [job[p] EXCEPT !.stop = TRUE]
            /\ \A q \in Procs \ {p} : job'[q] = job[q]
        BY <1>1, <1>8 DEF Trip, TypeOK
      <3> QED
        BY <1>2, <3>1
    <2> QED
      BY <1>1, <1>8, <2>1, OutsideStep DEF Trip
  <1>9. ASSUME NEW p \in Procs, Crash(p)
        PROVE  GateInv'
    BY <1>1, <1>9, LeaveInv DEF Crash
  <1> QED
    BY <1>3, <1>4, <1>5, <1>6, <1>7, <1>8, <1>9 DEF Environment

\* The empty database satisfies the invariant.
LEMMA InitInv == Init => GateInv
  <1> SUFFICES ASSUME Init PROVE GateInv
    OBVIOUS
  <1>1. TypeOK
    <2>1. [status |-> "absent", steps |-> 0, error |-> "none"] \in Rows
      BY StepsAssumption DEF Rows, RunStatus, RunError
    <2>2. run \in [Runs -> Rows] /\ job \in [Procs -> Jobs]
      BY <2>1, NoJobType DEF Init
    <2> QED
      BY <2>2 DEF Init, ExecRows, TypeOK, Rows, Jobs, ApprovalStatus, Points
  <1>2. \A p \in Procs : RequestOK(p)
    BY DEF Init, RequestOK, AskPoints, DecidePoints
  <1>3. \A e \in Execs : ExecOK(e)
    BY DEF Init, ExecOK
  <1>4. \A p, q \in Procs : p # q => Apart(p, q)
    BY DEF Init, Apart, AskPoints, DecidePoints
  <1> QED
    BY <1>1, <1>2, <1>3, <1>4 DEF GateInv

\* Every step, and no step, preserves the invariant.
LEMMA NextInv == GateInv /\ [Next]_vars => GateInv'
  <1> SUFFICES ASSUME GateInv, [Next]_vars PROVE GateInv'
    OBVIOUS
  <1>1. ASSUME NEW p \in Procs, Request(p) PROVE GateInv'
    BY <1>1, RequestInv
  <1>2. ASSUME NEW p \in Procs, Drive(p) PROVE GateInv'
    BY <1>2, DriveInv
  <1>3. ASSUME NEW p \in Procs, Resume(p) PROVE GateInv'
    BY <1>3, ResumeInv
  <1>4. CASE Environment
    BY <1>4, EnvironmentInv
  <1>5. CASE UNCHANGED vars
    <2>1. UNCHANGED <<journal, exec, approval, gated, body, pc, job>> /\ (TypeOK <=> TypeOK')
      BY <1>5 DEF vars, TypeOK
    <2> QED
      BY <2>1 DEF GateInv, RequestOK, ExecOK, Apart, Target
  <1> QED
    BY <1>1, <1>2, <1>3, <1>4, <1>5 DEF Next

-----------------------------------------------------------------------------
(* What every behaviour has.                                               *)

\* The invariant holds in every reachable state.
THEOREM GateInvariant == Spec => []GateInv
  <1> QED
    BY InitInv, NextInv, PTL DEF Spec

\* The tables and the memory of the requests are always well typed.
THEOREM TypeCorrect == Spec => []TypeOK
  <1>1. GateInv => TypeOK
    BY DEF GateInv
  <1> QED
    BY <1>1, GateInvariant, PTL

\* A tool body runs at most once for one execution (ToolExecutionRepository.claim).
THEOREM RunsAtMostOnce == Spec => []AtMostOnce
  <1>1. GateInv => AtMostOnce
    BY DEF GateInv, ExecOK, AtMostOnce
  <1> QED
    BY <1>1, GateInvariant, PTL

\* A gated tool that ran was approved (ToolExecutor._check_approval).
THEOREM RunsOnlyIfApproved == Spec => []RanOnlyIfApproved
  <1>1. GateInv => RanOnlyIfApproved
    BY DEF GateInv, ExecOK, RanOnlyIfApproved
  <1> QED
    BY <1>1, GateInvariant, PTL

\* A gated tool that ran is recorded as executed, wherever a crash fell
\* (ApprovalService._resume claims before it drives).
THEOREM EffectIsRecorded == Spec => []GatedEffectRecorded
  <1>1. GateInv => GatedEffectRecorded
    BY DEF GateInv, ExecOK, GatedEffectRecorded
  <1> QED
    BY <1>1, GateInvariant, PTL

-----------------------------------------------------------------------------
(* The machine implements the gate.                                        *)

Effect == [e \in Execs |-> IF gated[e] THEN body[e] ELSE 0]

\* A step that leaves the answers and the bodies alone is a stutter of the gate.
LEMMA GateStutter ==
  ASSUME UNCHANGED <<approval, gated, body>>
  PROVE  UNCHANGED Gate!gateVars
  BY DEF Gate!gateVars

\* Running an ungated tool is a stutter of the gate.
LEMMA RunToolStutters ==
  ASSUME GateInv, NEW p \in Procs, RunTool(p)
  PROVE  UNCHANGED Gate!gateVars
  <1>1. RequestOK(p) /\ TypeOK /\ Target(p) \in Execs /\ pc[p] \in Points
    BY TargetType DEF GateInv, RunTool, AskPoints, TypeOK
  <1>2. /\ \A e \in Execs : e # Target(p) => body'[e] = body[e]
        /\ gated[Target(p)] => body'[Target(p)] = body[Target(p)]
        /\ approval' = approval /\ gated' = gated
    BY <1>1, CallToolEffect DEF RunTool, Points, DrivePoints
  <1>3. Effect' = Effect
    BY <1>2 DEF Effect
  <1> QED
    BY <1>2, <1>3 DEF Gate!gateVars, Effect

\* Running a decided tool performs its action once, or is a stutter.
LEMMA RunGrantedPerforms ==
  ASSUME GateInv, NEW p \in Procs, RunGranted(p)
  PROVE  Gate!Perform(Target(p)) \/ UNCHANGED Gate!gateVars
  <1> DEFINE grant == IF job[p].approve THEN "grant" ELSE "refusal"
  <1>1. RequestOK(p) /\ TypeOK /\ pc[p] = "grant" /\ pc[p] \in DecidePoints
        /\ pc[p] \in ClaimPoints
    BY DEF GateInv, RunGranted, DecidePoints, ClaimPoints
  <1>2. /\ Target(p) \in Execs /\ gated[Target(p)] /\ body[Target(p)] = 0
        /\ job[p].approve => approval[Target(p)] = "approved"
        /\ body \in [Execs -> Nat] /\ body' \in [Execs -> Nat]
    BY <1>1, TargetType, ResumeInv DEF RequestOK, GateInv, TypeOK, Resume
  <1>3. /\ \A e \in Execs : e # Target(p) => body'[e] = body[e]
        /\ body'[Target(p)] \in {body[Target(p)], body[Target(p)] + 1}
        /\ grant # "grant" => body'[Target(p)] = body[Target(p)]
    <2>1. grant \in {"none", "grant", "refusal"} /\ "outcome" \in Points
          /\ CallTool(p, grant, "outcome")
      BY DEF RunGranted, Points, DecidePoints
    <2> HIDE DEF grant
    <2> QED
      BY <1>1, <1>2, <2>1, CallToolEffect
  <1>4. approval' = approval /\ gated' = gated
    BY DEF RunGranted
  <1>5. CASE body'[Target(p)] = body[Target(p)]
    <2>1. Effect' = Effect
      BY <1>3, <1>4, <1>5 DEF Effect
    <2> QED
      BY <1>4, <2>1 DEF Gate!gateVars, Effect
  <1>6. CASE body'[Target(p)] = 1
    <2>1. approval[Target(p)] = "approved"
      BY <1>2, <1>3, <1>6
    <2>2. Effect' = [Effect EXCEPT ![Target(p)] = 1] /\ Effect[Target(p)] = 0
      BY <1>2, <1>3, <1>4, <1>6 DEF Effect
    <2> QED
      BY <1>4, <2>1, <2>2 DEF Gate!Perform, Effect
  <1> QED
    BY <1>2, <1>3, <1>5, <1>6

\* Every step of the machine is a step or a stutter of the gate.
LEMMA GateStep == GateInv /\ [Next]_vars => [Gate!GateNext]_Gate!gateVars
  <1> SUFFICES ASSUME GateInv, [Next]_vars
               PROVE  Gate!GateNext \/ UNCHANGED Gate!gateVars
    OBVIOUS
  <1> USE DEF Gate!GateNext
  <1>1. TypeOK
    BY DEF GateInv
  <1>2. ASSUME NEW p \in Procs, NEW r \in Runs, Create(p, r)
        PROVE  UNCHANGED Gate!gateVars
    BY <1>2, GateStutter DEF Create
  <1>3. ASSUME NEW p \in Procs, NEW e \in Execs, NEW approve \in BOOLEAN,
               Decide(p, e, approve)
        PROVE  Gate!GateNext
    <2> DEFINE word == IF approve THEN "approved" ELSE "rejected"
    <2>1. word \in {"approved", "rejected"}
      OBVIOUS
    <2>2. Effect' = Effect
      BY <1>3 DEF Decide, Effect
    <2>3. approval' = [d \in Execs |-> IF d \in {e} THEN word ELSE approval[d]]
      BY <1>1, <1>3 DEF Decide, TypeOK
    <2>4. Gate!Settle({e}, word)
      BY <1>3, <2>2, <2>3 DEF Decide, Gate!Settle, Effect
    <2> QED
      BY <2>1, <2>4
  <1>4. ASSUME NEW p \in Procs, Drive(p)
        PROVE  Gate!GateNext \/ UNCHANGED Gate!gateVars
    <2>1. CASE RunTool(p)
      BY <2>1, RunToolStutters
    <2>2. CASE Ask(p)
      <3>1. Target(p) \in Execs /\ approval[Target(p)] = "none"
        BY <2>2, TargetType DEF Ask, GateInv, RequestOK, AskPoints
      <3>2. Effect' = Effect
        BY <2>2 DEF Ask, Effect
      <3>3. Gate!Put(Target(p))
        BY <2>2, <3>1, <3>2 DEF Ask, Gate!Put, Effect
      <3> QED
        BY <3>1, <3>3
    <2>3. CASE UNCHANGED <<approval, gated, body>>
      BY <2>3, GateStutter
    <2> QED
      BY <1>4, <2>1, <2>2, <2>3
      DEF Drive, RefuseStart, StartRun, ModelCall, ModelFails, OutOfBudget, StopRun,
          Complete, RecordTool, Pause, Append, TooLarge, Finish
  <1>5. ASSUME NEW p \in Procs, Resume(p)
        PROVE  Gate!GateNext \/ UNCHANGED Gate!gateVars
    <2>1. CASE RunGranted(p)
      <3>1. Target(p) \in Execs
        BY <2>1, TargetType DEF RunGranted, DecidePoints
      <3>2. Gate!Perform(Target(p)) \/ UNCHANGED Gate!gateVars
        BY <2>1, RunGrantedPerforms
      <3> QED
        BY <3>1, <3>2 DEF Gate!Perform
    <2>2. CASE UNCHANGED <<approval, gated, body>>
      BY <2>2, GateStutter
    <2> QED
      BY <1>5, <2>1, <2>2
      DEF Resume, ReadRun, Claim, RecordOutcome, ResumeRun, RefuseResume, Close, Answer
  <1>6. ASSUME NEW r \in Runs, Cancel(r)
        PROVE  Gate!GateNext
    <2>1. Effect' = Effect
      BY <1>6 DEF Cancel, Effect
    <2>2. Questions(r) \in SUBSET Execs
      BY DEF Questions, Execs
    <2>3. Gate!Settle(Questions(r), "cancelled")
      BY <1>6, <2>1 DEF Cancel, Questions, Gate!Settle, Effect
    <2> QED
      BY <2>2, <2>3
  <1>7. CASE ExpireDue
    <2>1. Effect' = Effect
      BY <1>7 DEF ExpireDue, Effect
    <2>2. Overdue \in SUBSET Execs
      BY DEF Overdue
    <2>3. Gate!Settle(Overdue, "expired")
      BY <1>7, <2>1 DEF ExpireDue, Overdue, Gate!Settle, Effect
    <2> QED
      BY <2>2, <2>3
  <1>8. ASSUME NEW r \in Runs, Age(r) PROVE UNCHANGED Gate!gateVars
    BY <1>8, GateStutter DEF Age
  <1>9. ASSUME NEW e \in Execs, Lapse(e) PROVE UNCHANGED Gate!gateVars
    BY <1>9, GateStutter DEF Lapse
  <1>10. CASE Sweep
    BY <1>10, GateStutter DEF Sweep
  <1>11. ASSUME NEW p \in Procs, Trip(p) \/ Crash(p) PROVE UNCHANGED Gate!gateVars
    BY <1>11, GateStutter DEF Trip, Crash
  <1>12. CASE UNCHANGED vars
    BY <1>12, GateStutter DEF vars
  <1> HIDE DEF Gate!GateNext
  <1> QED
    BY <1>2, <1>3, <1>4, <1>5, <1>6, <1>7, <1>8, <1>9, <1>10, <1>11, <1>12
    DEF Next, Request, Environment

\* Every behaviour of the machine is one of the gate: one question, one answer, and
\* the action at most once, under an approval.
THEOREM MachineImplementsGate == Spec => ImplementsGate
  <1>1. Init => Gate!GateInit
    BY DEF Init, Gate!GateInit
  <1> QED
    BY <1>1, GateInvariant, GateStep, PTL DEF Spec, ImplementsGate, Gate!GateSpec

\* An answer, once given, is never changed (ApprovalRepository: every update of a
\* status is conditional on pending).
THEOREM AnswersAreFinal == Spec => DecidedOnce
  <1>1. GateInv /\ [Next]_vars =>
          [\A e \in Execs : approval[e] \notin {"none", "pending"}
                              => approval'[e] = approval[e]]_vars
    <2> SUFFICES ASSUME GateInv, [Next]_vars, NEW e \in Execs,
                        approval[e] \notin {"none", "pending"}
                 PROVE  approval'[e] = approval[e]
      OBVIOUS
    <2>1. TypeOK
      BY DEF GateInv
    <2>2. CASE UNCHANGED Gate!gateVars
      BY <2>2 DEF Gate!gateVars
    <2>3. ASSUME NEW a \in Execs, Gate!Put(a) PROVE approval'[e] = approval[e]
      BY <2>1, <2>3 DEF Gate!Put, TypeOK
    <2>4. ASSUME NEW a \in Execs, Gate!Perform(a) PROVE approval'[e] = approval[e]
      BY <2>4 DEF Gate!Perform
    <2>5. ASSUME NEW S, NEW word, Gate!Settle(S, word) PROVE approval'[e] = approval[e]
      BY <2>5 DEF Gate!Settle
    <2> QED
      BY GateStep, <2>2, <2>3, <2>4, <2>5 DEF Gate!GateNext
  <1> QED
    BY <1>1, GateInvariant, PTL DEF Spec, DecidedOnce

-----------------------------------------------------------------------------
(* The inductive invariant.                                                *)

\* Where the request that resumes a run works from its copy of it.
ResumePoints == {"claim", "grant", "outcome", "resume"}
\* Where a request acts for a run, or is about to.
ServePoints  == DrivePoints \cup DecidePoints

\* What the place of a request says of its run.  A request that drives has the count
\* of the row, and the sweep may have failed the run under it; one that resumes
\* works on a paused run.  The only open question of a run that is served is the
\* one just put by the request about to pause it.
ServerOK(p) ==
  LET r == job[p].run
  IN /\ pc[p] # "idle" => run[r].status # "absent"
     /\ pc[p] \in DrivePoints =>
          /\ run[r].status \in Active \cup {"failed"}
          /\ ~SlowDrivers => run[r].status \in Active /\ ~stale[r]
          /\ job[p].steps = run[r].steps
     /\ pc[p] \in AskPoints \cup {"pause"} =>
          job[p].step = job[p].steps /\ job[p].step \in Steps
     /\ pc[p] = "pause" => approval[Target(p)] # "none"
     /\ pc[p] \in ResumePoints =>
          /\ run[r].status = "awaiting_approval"
          /\ job[p].status = "awaiting_approval"
          /\ job[p].steps = run[r].steps
     /\ pc[p] \in ServePoints =>
          \A n \in Steps : approval[<<r, n>>] = "pending" => pc[p] = "pause" /\ n = job[p].step

\* A request that put a question and is about to pause, and one that was quick to
\* answer it.
Handover(p, q) == pc[p] = "pause" /\ pc[q] = "decided" /\ job[p].step = job[q].step

\* Only those two ever serve a run at the same time.
Alone(p, q) ==
  pc[p] \in ServePoints /\ pc[q] \in ServePoints /\ job[p].run = job[q].run
    => Handover(p, q) \/ Handover(q, p)

\* What the rows of one run say of each other: its journal has no gap and is as long
\* as its count, a paused run has put the question of its last step, and at most one
\* question is open.
RunOK(r) ==
  /\ journal[r] = 1..run[r].steps
  /\ run[r].status = "absent" => journal[r] = {} /\ \A n \in Steps : approval[<<r, n>>] = "none"
  /\ run[r].status = "awaiting_approval" =>
       run[r].steps \in Steps /\ approval[<<r, run[r].steps>>] # "none"
  /\ stale[r] => run[r].status \in Active
  /\ \A n, m \in Steps :
       approval[<<r, n>>] = "pending" /\ approval[<<r, m>>] = "pending" => n = m

DriversInv ==
  /\ \A p \in Procs : ServerOK(p)
  /\ \A r \in Runs : RunOK(r)
  /\ \A p, q \in Procs : p # q => Alone(p, q)

-----------------------------------------------------------------------------
(* What a step has to show.                                                *)

\* A request in the middle of serving a run has it to itself; so it keeps it while
\* it stays with that run.
LEMMA HolderStaysAlone ==
  ASSUME DriversInv, NEW p \in Procs, NEW q \in Procs \ {p},
         pc[p] \in ServePoints \ {"pause", "decided"},
         job'[p].run = job[p].run, pc'[q] = pc[q], job'[q] = job[q]
  PROVE  Alone(p, q)'
  <1>1. Alone(p, q)
    BY DEF DriversInv
  <1>2. ~(pc[q] \in ServePoints /\ job[p].run = job[q].run)
    BY <1>1 DEF Alone, Handover
  <1> QED
    BY <1>2 DEF Alone

\* A request that is idle, raising or closing is in nobody's way.
LEMMA GoneIsAlone ==
  ASSUME NEW p \in Procs, NEW q \in Procs, pc'[p] \notin ServePoints
  PROVE  Alone(p, q)'
  BY DEF Alone

\* A step of one request, from the sides it has to show.
LEMMA StepOfServer ==
  ASSUME DriversInv, NEW p \in Procs,
         \A q \in Procs \ {p} : pc'[q] = pc[q] /\ job'[q] = job[q],
         \A q \in Procs : ServerOK(q)',
         \A r \in Runs : RunOK(r)',
         \A q \in Procs \ {p} : Alone(p, q)'
  PROVE  DriversInv'
  <1>1. ASSUME NEW q \in Procs, NEW o \in Procs, q # o
        PROVE  Alone(q, o)'
    <2>1. Alone(q, o)
      BY <1>1 DEF DriversInv
    <2>2. CASE q # p /\ o # p
      BY <2>1, <2>2 DEF Alone, Handover
    <2>3. CASE q = p
      BY <1>1, <2>3
    <2>4. CASE o = p
      <3>1. Alone(p, q)'
        BY <1>1, <2>4
      <3> QED
        BY <2>4, <3>1 DEF Alone
    <2> QED
      BY <2>2, <2>3, <2>4
  <1> QED
    BY <1>1 DEF DriversInv

\* A request that stands still, over a run nobody wrote.
LEMMA SameServer ==
  ASSUME GateInv, NEW q \in Procs, ServerOK(q), pc'[q] = pc[q], job'[q] = job[q],
         pc[q] # "idle" =>
           /\ run'[job[q].run] = run[job[q].run]
           /\ stale'[job[q].run] = stale[job[q].run]
           /\ \A n \in Steps : approval'[<<job[q].run, n>>] = approval[<<job[q].run, n>>]
  PROVE  ServerOK(q)'
  <1>1. CASE pc[q] = "idle"
    BY <1>1 DEF ServerOK, DrivePoints, DecidePoints, AskPoints, ResumePoints, ServePoints
  <1>2. CASE pc[q] # "idle"
    <2>1. pc[q] = "pause" => approval'[Target(q)] = approval[Target(q)]
      BY <1>2 DEF ServerOK, Target
    <2>2. Target(q)' = Target(q)
      BY DEF Target
    <2> QED
      BY <1>2, <2>1, <2>2 DEF ServerOK
  <1> QED
    BY <1>1, <1>2

\* The rows of a run nobody wrote.
LEMMA SameRun ==
  ASSUME NEW r \in Runs, RunOK(r), run'[r] = run[r], stale'[r] = stale[r],
         journal'[r] = journal[r],
         \A n \in Steps : approval'[<<r, n>>] = approval[<<r, n>>]
  PROVE  RunOK(r)'
  BY DEF RunOK

\* A step that writes neither the runs nor the questions.
LEMMA QuietServer ==
  ASSUME GateInv, DriversInv, NEW p \in Procs,
         UNCHANGED <<run, stale, journal, approval>>,
         \A q \in Procs \ {p} : pc'[q] = pc[q] /\ job'[q] = job[q],
         ServerOK(p)',
         \A q \in Procs \ {p} : Alone(p, q)'
  PROVE  DriversInv'
  <1>1. \A q \in Procs \ {p} : ServerOK(q)'
    BY SameServer DEF DriversInv
  <1>2. \A r \in Runs : RunOK(r)'
    BY SameRun DEF DriversInv
  <1> QED
    BY <1>1, <1>2, StepOfServer

\* A step of a request that has its run to itself, or shares it only with the quick
\* answer to its question, and writes no row but that run's.
LEMMA WritingServer ==
  ASSUME GateInv, DriversInv, NEW p \in Procs, NEW r \in Runs, job[p].run = r,
         pc[p] \in ServePoints, pc[p] # "decided",
         pc'[p] \notin ServePoints \/ (pc[p] # "pause" /\ job'[p].run = r),
         pc[p] = "pause" => UNCHANGED approval,
         \A q \in Procs \ {p} : pc'[q] = pc[q] /\ job'[q] = job[q],
         \A o \in Runs \ {r} :
           run'[o] = run[o] /\ stale'[o] = stale[o] /\ journal'[o] = journal[o],
         \A o \in Runs \ {r}, n \in Steps : approval'[<<o, n>>] = approval[<<o, n>>],
         run'[r].status # "absent",
         RunOK(r)',
         ServerOK(p)'
  PROVE  DriversInv'
  <1>1. ASSUME NEW o \in Runs
        PROVE  RunOK(o)'
    <2>1. CASE o = r
      BY <2>1
    <2>2. CASE o # r
      <3>1. RunOK(o)
        BY DEF DriversInv
      <3> QED
        BY <2>2, <3>1, SameRun
    <2> QED
      BY <2>1, <2>2
  <1>2. ASSUME NEW q \in Procs \ {p}
        PROVE  Alone(p, q)'
    BY GoneIsAlone, HolderStaysAlone
  <1>3. ASSUME NEW q \in Procs \ {p}
        PROVE  ServerOK(q)'
    <2>1. ServerOK(q) /\ Alone(p, q) /\ pc'[q] = pc[q] /\ job'[q] = job[q]
      BY DEF DriversInv
    <2>2. CASE pc[q] = "idle" \/ job[q].run # r
      <3>1. pc[q] # "idle" => job[q].run \in Runs \ {r}
        BY <2>2, TargetType
      <3> QED
        BY <2>1, <3>1, SameServer
    <2>3. CASE pc[q] \in ServePoints /\ job[q].run = r
      <3>1. pc[p] = "pause" /\ pc[q] = "decided"
        BY <2>1, <2>3 DEF Alone, Handover
      <3>2. pc[q] \notin DrivePoints \cup AskPoints \cup ResumePoints \cup {"pause"}
        BY <3>1 DEF DrivePoints, AskPoints, ResumePoints
      <3>3. \A n \in Steps : approval[<<job[q].run, n>>] # "pending"
        BY <2>1, <2>3, <3>1 DEF ServerOK
      <3> QED
        BY <2>1, <2>3, <3>1, <3>2, <3>3 DEF ServerOK
    <2>4. CASE pc[q] # "idle" /\ pc[q] \notin ServePoints /\ job[q].run = r
      BY <2>1, <2>4
      DEF ServerOK, ServePoints, DrivePoints, DecidePoints, AskPoints, ResumePoints
    <2> QED
      BY <2>2, <2>3, <2>4 DEF ServePoints
  <1> QED
    BY <1>1, <1>2, <1>3, StepOfServer

\* The last write of a request keeps the count, and leaves the run over, or paused
\* behind the question just put.
LEMMA FinishDrivers ==
  ASSUME GateInv, DriversInv, NEW p \in Procs, pc[p] \in DrivePoints,
         NEW r \in Runs, job[p].run = r, NEW status, NEW error, Finish(p, status, error),
         \/ status \in Terminal
         \/ status = "awaiting_approval" /\ pc[p] = "pause"
  PROVE  DriversInv'
  <1>1. TypeOK /\ ServerOK(p) /\ pc[p] \in ServePoints /\ pc[p] # "decided"
    BY DEF GateInv, DriversInv, DrivePoints, ServePoints
  <1>2. RunOK(r)
    BY <1>1 DEF DriversInv
  <1>3. /\ run'[r].status \in {status, run[r].status}
        /\ run'[r].steps = run[r].steps /\ stale'[r] = FALSE
        /\ \A o \in Runs \ {r} : run'[o] = run[o] /\ stale'[o] = stale[o]
    <2>1. RecordState(job[p], status, job[p].steps, error)
      BY DEF Finish
    <2> QED
      BY <1>1, <2>1 DEF RecordState, Flushed, TypeOK
  <1>4. /\ pc'[p] = "closing" /\ job'[p].run = r
        /\ \A q \in Procs \ {p} : pc'[q] = pc[q] /\ job'[q] = job[q]
    BY <1>1 DEF Finish, Goto, TypeOK, Jobs
  <1>5. UNCHANGED <<journal, approval>>
    BY DEF Finish
  <1>6. /\ run[r].status \in Active \cup {"failed"}
        /\ pc[p] = "pause" => job[p].step = run[r].steps /\ job[p].step \in Steps
                              /\ approval[<<r, job[p].step>>] # "none"
    BY <1>1 DEF ServerOK, Target
  <1>7. run'[r].status # "absent"
        /\ (run'[r].status = "awaiting_approval" => pc[p] = "pause")
    BY <1>3, <1>6 DEF Terminal, Active
  <1>8. RunOK(r)'
    BY <1>2, <1>3, <1>5, <1>6, <1>7 DEF RunOK
  <1>9. pc'[p] \notin ServePoints
    BY <1>4 DEF ServePoints, DrivePoints, DecidePoints
  <1>10. ServerOK(p)'
    BY <1>4, <1>7, <1>9
    DEF ServerOK, ServePoints, DrivePoints, DecidePoints, AskPoints, ResumePoints
  <1> QED
    BY <1>1, <1>3, <1>4, <1>5, <1>7, <1>8, <1>9, <1>10, WritingServer

\* Running a tool leaves the request at its run, its step and its count.
LEMMA CallToolKeeps ==
  ASSUME TypeOK, NEW p \in Procs, NEW grant, NEW next, CallTool(p, grant, next)
  PROVE  /\ job'[p].run = job[p].run /\ job'[p].step = job[p].step
         /\ job'[p].status = job[p].status /\ job'[p].steps = job[p].steps
         /\ pc'[p] = next
         /\ \A q \in Procs \ {p} : pc'[q] = pc[q] /\ job'[q] = job[q]
  <1>1. PICK result \in Results(Target(p), grant, job[p].stop) :
          /\ job' = [job EXCEPT ![p].outcome = result.outcome,
                                ![p].stop = @ \/ result.outcome = "cancelled"]
          /\ Goto(p, next)
    BY DEF CallTool
  <1>2. job[p] \in Jobs /\ job \in [Procs -> Jobs]
    BY DEF TypeOK, Jobs
  <1> QED
    BY <1>1, <1>2 DEF Goto, TypeOK, Jobs

\* Ending a request frees its slot.
LEMMA LeaveDrivers ==
  ASSUME GateInv, DriversInv, NEW p \in Procs, Leave(p),
         UNCHANGED <<run, stale, journal, approval>>
  PROVE  DriversInv'
  <1>1. pc'[p] = "idle" /\ \A q \in Procs \ {p} : pc'[q] = pc[q] /\ job'[q] = job[q]
    BY DEF Leave, Goto, GateInv, TypeOK
  <1>2. pc'[p] \notin ServePoints /\ ServerOK(p)'
    BY <1>1 DEF ServerOK, ServePoints, DrivePoints, DecidePoints, AskPoints, ResumePoints
  <1> QED
    BY <1>1, <1>2, GoneIsAlone, QuietServer

\* A holder that moves on with the same step, count and status, over rows nobody wrote.
LEMMA MoveOn ==
  ASSUME GateInv, DriversInv, NEW p \in Procs,
         UNCHANGED <<run, stale, journal, approval>>,
         \A q \in Procs \ {p} : pc'[q] = pc[q] /\ job'[q] = job[q],
         job'[p].run = job[p].run, job'[p].step = job[p].step,
         job'[p].status = job[p].status, job'[p].steps = job[p].steps,
         \/ pc[p] \in DrivePoints \ {"pause"} /\ pc'[p] \in DrivePoints \ {"pause"}
         \/ pc[p] \in ResumePoints /\ pc'[p] \in ResumePoints
         \/ pc[p] \in ResumePoints /\ pc'[p] \in RaisedPoints,
         pc'[p] \in AskPoints => pc[p] \in AskPoints
  PROVE  DriversInv'
  <1>1. ServerOK(p) /\ pc[p] \in ServePoints \ {"pause", "decided"} /\ pc[p] # "idle"
    BY DEF DriversInv, ServePoints, DrivePoints, DecidePoints, ResumePoints
  <1>2. pc'[p] \in ServePoints => pc'[p] # "pause"
    BY DEF ServePoints, DrivePoints, DecidePoints, ResumePoints, RaisedPoints
  <1>3. /\ pc'[p] \in DrivePoints => pc[p] \in DrivePoints
        /\ pc'[p] \in ResumePoints => pc[p] \in ResumePoints
        /\ pc'[p] # "pause"
    BY DEF DrivePoints, ResumePoints, RaisedPoints
  <1>4. ServerOK(p)'
    BY <1>1, <1>3 DEF ServerOK
  <1> QED
    BY <1>1, <1>4, HolderStaysAlone, QuietServer

-----------------------------------------------------------------------------
(* The steps of a driving request.                                         *)

\* The first write of a drive.
LEMMA StartRunDrivers ==
  ASSUME GateInv, DriversInv, NEW p \in Procs, NEW r \in Runs, job[p].run = r, StartRun(p)
  PROVE  DriversInv'
  <1>1. TypeOK /\ ServerOK(p) /\ pc[p] \in DrivePoints
        /\ pc[p] \in ServePoints
    BY DEF GateInv, DriversInv, StartRun, DrivePoints, ServePoints
  <1>2. RunOK(r)
    BY <1>1 DEF DriversInv
  <1>3. /\ run'[r].status \in {"running", run[r].status}
        /\ run'[r].steps = run[r].steps /\ stale'[r] = FALSE
        /\ \A o \in Runs \ {r} : run'[o] = run[o] /\ stale'[o] = stale[o]
    <2>1. RecordState(job[p], "running", job[p].steps, "none")
      BY DEF StartRun
    <2> QED
      BY <1>1, <2>1 DEF RecordState, Flushed, TypeOK
  <1>4. /\ pc'[p] = "loop" /\ job'[p].run = r /\ job'[p].steps = job[p].steps
        /\ \A q \in Procs \ {p} : pc'[q] = pc[q] /\ job'[q] = job[q]
    BY <1>1 DEF StartRun, Goto, TypeOK, Jobs
  <1>5. UNCHANGED <<journal, approval>> /\ pc[p] = "start"
    BY DEF StartRun
  <1>6. /\ run[r].status \in Active \cup {"failed"} /\ job[p].steps = run[r].steps
        /\ ~SlowDrivers => run[r].status \in Active
        /\ \A n \in Steps : approval[<<r, n>>] # "pending"
    BY <1>1, <1>5 DEF ServerOK
  <1>7. /\ run'[r].status \in Active \cup {"failed"}
        /\ ~SlowDrivers => run'[r].status \in Active
        /\ run'[r].status \notin {"absent", "awaiting_approval"}
    BY <1>3, <1>6 DEF Active
  <1>8. RunOK(r)'
    BY <1>2, <1>3, <1>5, <1>7 DEF RunOK
  <1>9. ServerOK(p)'
    BY <1>3, <1>4, <1>5, <1>6, <1>7 DEF ServerOK, AskPoints, ResumePoints
  <1> QED
    BY <1>1, <1>3, <1>4, <1>5, <1>7, <1>8, <1>9, WritingServer

\* One more step, one more row, one more count, in one transaction.
LEMMA ModelCallDrivers ==
  ASSUME GateInv, DriversInv, NEW p \in Procs, NEW r \in Runs, job[p].run = r, ModelCall(p)
  PROVE  DriversInv'
  <1> DEFINE n == job[p].steps + 1
  <1>1. TypeOK /\ ServerOK(p) /\ pc[p] = "loop" /\ pc[p] \in DrivePoints
        /\ pc[p] \in ServePoints /\ job[p] \in Jobs /\ job[p].steps \in 0..MaxSteps
    BY DEF GateInv, DriversInv, ModelCall, DrivePoints, ServePoints, TypeOK, Jobs
  <1>2. RunOK(r)
    BY <1>1 DEF DriversInv
  <1>3. n \in Steps /\ n # job[p].steps
    BY <1>1, StepsAssumption DEF ModelCall, Steps
  <1>4. /\ run'[r].status \in {"running", run[r].status}
        /\ run'[r].steps = n /\ stale'[r] = FALSE
        /\ \A o \in Runs \ {r} : run'[o] = run[o] /\ stale'[o] = stale[o]
    <2>1. RecordState(job[p], "running", n, "none")
      BY DEF ModelCall
    <2> QED
      BY <1>1, <1>3, <2>1 DEF RecordState, Flushed, TypeOK
  <1>5. /\ pc'[p] \in {"final", "tool"}
        /\ job'[p].run = r /\ job'[p].steps = n /\ job'[p].step = n
        /\ \A q \in Procs \ {p} : pc'[q] = pc[q] /\ job'[q] = job[q]
    BY <1>1 DEF ModelCall, Goto, TypeOK, Jobs
  <1>6. /\ run[r].status \in Active \cup {"failed"} /\ job[p].steps = run[r].steps
        /\ ~SlowDrivers => run[r].status \in Active
        /\ \A m \in Steps : approval[<<r, m>>] # "pending"
    BY <1>1 DEF ServerOK
  <1>7. journal'[r] = 1..n /\ \A o \in Runs \ {r} : journal'[o] = journal[o]
    <2>1. journal' = [journal EXCEPT ![r] = @ \cup {n}]
      BY DEF ModelCall
    <2>2. journal'[r] = (1..job[p].steps) \cup {n}
      BY <1>1, <1>2, <1>6, <2>1 DEF RunOK, TypeOK
    <2>3. (1..job[p].steps) \cup {n} = 1..n
      BY <1>1, StepsAssumption
    <2> QED
      BY <1>1, <2>1, <2>2, <2>3 DEF TypeOK
  <1>8. /\ run'[r].status \in Active \cup {"failed"}
        /\ ~SlowDrivers => run'[r].status \in Active
        /\ run'[r].status \notin {"absent", "awaiting_approval"}
    BY <1>4, <1>6 DEF Active
  <1>9. UNCHANGED approval
    BY DEF ModelCall
  <1> HIDE DEF n
  <1>10. RunOK(r)'
    BY <1>2, <1>4, <1>7, <1>8, <1>9 DEF RunOK
  <1>11. ServerOK(p)'
    BY <1>3, <1>4, <1>5, <1>6, <1>8, <1>9 DEF ServerOK, AskPoints, ResumePoints
  <1> QED
    BY <1>1, <1>4, <1>5, <1>7, <1>8, <1>9, <1>10, <1>11, WritingServer

\* The question is committed before the pause, by the only request that serves the
\* run, when no other is open.
LEMMA AskDrivers ==
  ASSUME GateInv, DriversInv, NEW p \in Procs, NEW r \in Runs, job[p].run = r, Ask(p)
  PROVE  DriversInv'
  <1>1. TypeOK /\ ServerOK(p) /\ pc[p] = "ask" /\ pc[p] \in DrivePoints
        /\ pc[p] \in ServePoints /\ pc[p] \in AskPoints
    BY DEF GateInv, DriversInv, Ask, DrivePoints, ServePoints, AskPoints
  <1>2. RunOK(r)
    BY <1>1 DEF DriversInv
  <1>3. /\ pc'[p] = "pause" /\ UNCHANGED <<run, stale, journal, job>>
        /\ \A q \in Procs \ {p} : pc'[q] = pc[q] /\ job'[q] = job[q]
    BY <1>1 DEF Ask, Goto, TypeOK
  <1>4. /\ run[r].status \in Active \cup {"failed"} /\ job[p].steps = run[r].steps
        /\ ~SlowDrivers => run[r].status \in Active /\ ~stale[r]
        /\ job[p].step = job[p].steps /\ job[p].step \in Steps
        /\ \A n \in Steps : approval[<<r, n>>] # "pending"
    BY <1>1 DEF ServerOK
  <1>5. <<r, job[p].step>> \in Execs
    BY <1>1, <1>4 DEF Execs
  <1>6. /\ approval'[<<r, job[p].step>>] = "pending"
        /\ \A e \in Execs : e # <<r, job[p].step>> => approval'[e] = approval[e]
    BY <1>1, <1>5 DEF Ask, Target, TypeOK
  <1>7. \A n \in Steps : approval'[<<r, n>>] = "pending" <=> n = job[p].step
    <2>1. \A n \in Steps : <<r, n>> \in Execs
      BY <1>1 DEF Execs
    <2> QED
      BY <1>4, <1>6, <2>1
  <1>8. run[r].status \notin {"absent", "awaiting_approval"}
    BY <1>4 DEF Active
  <1>9. RunOK(r)'
    BY <1>2, <1>3, <1>7, <1>8 DEF RunOK
  <1>10. ServerOK(p)'
    BY <1>3, <1>4, <1>6, <1>7, <1>8 DEF ServerOK, AskPoints, ResumePoints, Target
  <1>11. \A o \in Runs \ {r}, n \in Steps : approval'[<<o, n>>] = approval[<<o, n>>]
    BY <1>6 DEF Execs
  <1>12. pc[p] # "pause" /\ pc[p] # "decided"
    BY <1>1
  <1>13. UNCHANGED <<run, stale, journal>> /\ job'[p].run = r
    BY <1>3
  <1> QED
    BY <1>1, <1>3, <1>8, <1>9, <1>10, <1>11, <1>12, <1>13, WritingServer

\* Every step of a driving request preserves the invariant.
LEMMA DriveDrivers ==
  ASSUME GateInv, DriversInv, NEW p \in Procs, Drive(p)
  PROVE  DriversInv'
  <1>1. TypeOK /\ (pc[p] # "idle" => job[p].run \in Runs)
    BY TargetType DEF GateInv
  <1>2. CASE RefuseStart(p)
    BY <1>2, LeaveDrivers DEF RefuseStart
  <1>3. CASE StartRun(p)
    BY <1>1, <1>3, StartRunDrivers DEF StartRun
  <1>4. CASE ModelCall(p)
    BY <1>1, <1>4, ModelCallDrivers DEF ModelCall
  <1>5. CASE ModelFails(p)
    BY <1>1, <1>5, FinishDrivers DEF ModelFails, Terminal, DrivePoints
  <1>6. CASE OutOfBudget(p)
    BY <1>1, <1>6, FinishDrivers DEF OutOfBudget, Terminal, DrivePoints
  <1>7. CASE StopRun(p)
    BY <1>1, <1>7, FinishDrivers DEF StopRun, Terminal, DrivePoints
  <1>8. CASE Complete(p)
    BY <1>1, <1>8, FinishDrivers DEF Complete, Terminal, DrivePoints
  <1>9. CASE RunTool(p)
    <2>1. pc[p] = "tool" /\ UNCHANGED <<run, stale, journal, approval>>
          /\ CallTool(p, "none", "record")
      BY <1>9 DEF RunTool
    <2> QED
      BY <1>1, <2>1, CallToolKeeps, MoveOn DEF DrivePoints, AskPoints
  <1>10. CASE RecordTool(p)
    <2>1. pc[p] = "record" /\ UNCHANGED <<run, stale, journal, approval, job>>
      BY <1>10 DEF RecordTool
    <2>2. \E point \in {"ask", "stopped", "append"} : Goto(p, point)
      <3>1. CASE job[p].outcome = "approval_required"
        BY <1>10, <3>1 DEF RecordTool
      <3>2. CASE job[p].outcome # "approval_required" /\ job[p].outcome = "cancelled"
        BY <1>10, <3>2 DEF RecordTool
      <3>3. CASE job[p].outcome # "approval_required" /\ job[p].outcome # "cancelled"
        BY <1>10, <3>3 DEF RecordTool
      <3> QED
        BY <3>1, <3>2, <3>3
    <2>3. pc'[p] \in {"ask", "stopped", "append"} /\ \A q \in Procs \ {p} : pc'[q] = pc[q]
      BY <1>1, <2>2 DEF Goto, TypeOK
    <2> QED
      BY <2>1, <2>3, MoveOn DEF DrivePoints, AskPoints
  <1>11. CASE Ask(p)
    BY <1>1, <1>11, AskDrivers DEF Ask
  <1>12. CASE Pause(p)
    BY <1>1, <1>12, FinishDrivers DEF Pause, DrivePoints
  <1>13. CASE Append(p)
    BY <1>1, <1>13, MoveOn DEF Append, Goto, TypeOK, DrivePoints, AskPoints
  <1>14. CASE TooLarge(p)
    BY <1>1, <1>14, FinishDrivers DEF TooLarge, Terminal, DrivePoints
  <1> QED
    BY <1>2, <1>3, <1>4, <1>5, <1>6, <1>7, <1>8, <1>9, <1>10, <1>11, <1>12,
       <1>13, <1>14 DEF Drive

-----------------------------------------------------------------------------
(* The steps of a request that decided.                                    *)

\* The read that finds the run paused finds it with nobody else: the request that
\* paused it is gone.
LEMMA ReadRunDrivers ==
  ASSUME GateInv, DriversInv, NEW p \in Procs, NEW r \in Runs, job[p].run = r, ReadRun(p)
  PROVE  DriversInv'
  <1>1. TypeOK /\ ServerOK(p) /\ pc[p] = "decided" /\ pc[p] \in ServePoints
        /\ UNCHANGED <<run, stale, journal, approval>>
    BY DEF GateInv, DriversInv, ReadRun, ServePoints, DecidePoints
  <1>2. run[r].status # "absent" /\ \A n \in Steps : approval[<<r, n>>] # "pending"
    BY <1>1 DEF ServerOK
  <1>3. CASE run[r].status = "awaiting_approval"
    <2>1. /\ pc'[p] = "claim" /\ job'[p].run = r
          /\ job'[p].status = "awaiting_approval" /\ job'[p].steps = run[r].steps
          /\ \A q \in Procs \ {p} : pc'[q] = pc[q] /\ job'[q] = job[q]
      BY <1>1, <1>3 DEF ReadRun, Goto, TypeOK, Jobs
    <2>2. ServerOK(p)'
      BY <1>1, <1>2, <1>3, <2>1 DEF ServerOK, DrivePoints, AskPoints
    <2>3. ASSUME NEW q \in Procs \ {p}
          PROVE  Alone(p, q)'
      <3>1. ServerOK(q) /\ Alone(p, q)
        BY DEF DriversInv
      <3>2. CASE pc[q] \in ServePoints /\ job[q].run = r
        <4>1. pc[q] = "pause"
          BY <1>1, <3>1, <3>2 DEF Alone, Handover
        <4>2. run[r].status \in Active \cup {"failed"}
          BY <3>1, <3>2, <4>1 DEF ServerOK, DrivePoints
        <4> QED
          BY <1>3, <4>2 DEF Active
      <3>3. CASE ~(pc[q] \in ServePoints /\ job[q].run = r)
        BY <2>1, <3>3 DEF Alone
      <3> QED
        BY <3>2, <3>3
    <2> QED
      BY <1>1, <2>1, <2>2, <2>3, QuietServer
  <1>4. CASE run[r].status # "awaiting_approval"
    <2>1. /\ pc'[p] = "unresumable" /\ job' = job
          /\ \A q \in Procs \ {p} : pc'[q] = pc[q] /\ job'[q] = job[q]
      BY <1>1, <1>4 DEF ReadRun, Goto, TypeOK
    <2>2. pc'[p] \notin ServePoints
      BY <2>1 DEF ServePoints, DrivePoints, DecidePoints
    <2>3. ServerOK(p)'
      BY <1>1, <1>2, <2>1, <2>2
      DEF ServerOK, ServePoints, DrivePoints, DecidePoints, AskPoints, ResumePoints
    <2> QED
      BY <1>1, <2>1, <2>2, <2>3, GoneIsAlone, QuietServer
  <1> QED
    BY <1>3, <1>4

\* The resumed run goes on from the count of the request's copy, which is the row's.
LEMMA ResumeRunDrivers ==
  ASSUME GateInv, DriversInv, NEW p \in Procs, NEW r \in Runs, job[p].run = r, ResumeRun(p)
  PROVE  DriversInv'
  <1>1. TypeOK /\ ServerOK(p) /\ pc[p] = "resume" /\ pc[p] \in ResumePoints
        /\ pc[p] \in ServePoints /\ UNCHANGED <<journal, approval>>
    BY DEF GateInv, DriversInv, ResumeRun, ServePoints, DecidePoints, ResumePoints
  <1>2. RunOK(r)
    BY DEF DriversInv
  <1>3. /\ job[p].status = "awaiting_approval" /\ job[p].steps = run[r].steps
        /\ \A n \in Steps : approval[<<r, n>>] # "pending"
    BY <1>1 DEF ServerOK
  <1>4. /\ run'[r].status = "running"
        /\ run'[r].steps = run[r].steps /\ stale'[r] = FALSE
        /\ \A o \in Runs \ {r} : run'[o] = run[o] /\ stale'[o] = stale[o]
    BY <1>1, <1>3 DEF ResumeRun, RecordState, Flushed, TypeOK
  <1>5. /\ pc'[p] = "append" /\ job'[p].run = r /\ job'[p].steps = job[p].steps
        /\ \A q \in Procs \ {p} : pc'[q] = pc[q] /\ job'[q] = job[q]
    BY <1>1 DEF ResumeRun, Goto, TypeOK, Jobs
  <1>6. RunOK(r)'
    BY <1>1, <1>2, <1>4 DEF RunOK, Active
  <1>7. ServerOK(p)'
    BY <1>1, <1>3, <1>4, <1>5 DEF ServerOK, AskPoints, ResumePoints, Active
  <1> QED
    BY <1>1, <1>4, <1>5, <1>6, <1>7, WritingServer

\* Every step of a request that decided preserves the invariant.
LEMMA ResumeDrivers ==
  ASSUME GateInv, DriversInv, NEW p \in Procs, Resume(p)
  PROVE  DriversInv'
  <1>1. TypeOK /\ (pc[p] # "idle" => job[p].run \in Runs)
    BY TargetType DEF GateInv
  <1>2. CASE ReadRun(p)
    BY <1>1, <1>2, ReadRunDrivers DEF ReadRun
  <1>3. CASE Claim(p)
    <2>1. pc[p] = "claim" /\ pc'[p] \in {"grant", "unresumable"}
          /\ UNCHANGED <<run, stale, journal, approval, job>>
          /\ \A q \in Procs \ {p} : pc'[q] = pc[q]
      BY <1>1, <1>3 DEF Claim, Goto, TypeOK
    <2> QED
      BY <2>1, MoveOn DEF ResumePoints, RaisedPoints, AskPoints
  <1>4. CASE RunGranted(p)
    <2>1. pc[p] = "grant" /\ UNCHANGED <<run, stale, journal, approval>>
          /\ CallTool(p, IF job[p].approve THEN "grant" ELSE "refusal", "outcome")
      BY <1>4 DEF RunGranted
    <2> QED
      BY <1>1, <2>1, CallToolKeeps, MoveOn DEF ResumePoints, AskPoints
  <1>5. CASE RecordOutcome(p)
    BY <1>1, <1>5, MoveOn DEF RecordOutcome, Goto, TypeOK, ResumePoints, AskPoints
  <1>6. CASE ResumeRun(p)
    BY <1>1, <1>6, ResumeRunDrivers DEF ResumeRun
  <1>7. CASE RefuseResume(p)
    BY <1>1, <1>7, MoveOn
    DEF RefuseResume, Goto, TypeOK, ResumePoints, RaisedPoints, AskPoints
  <1>8. CASE Close(p)
    <2>1. pc[p] = "closing" /\ pc'[p] = "closed"
          /\ UNCHANGED <<run, stale, journal, approval, job>>
          /\ \A q \in Procs \ {p} : pc'[q] = pc[q]
      BY <1>1, <1>8 DEF Close, Goto, TypeOK
    <2>2. pc'[p] \notin ServePoints
      BY <2>1 DEF ServePoints, DrivePoints, DecidePoints
    <2>3. ServerOK(p)'
      BY <2>1 DEF DriversInv, ServerOK, ServePoints, DrivePoints, DecidePoints,
                  AskPoints, ResumePoints
    <2> QED
      BY <2>1, <2>2, <2>3, GoneIsAlone, QuietServer
  <1>9. CASE Answer(p)
    BY <1>9, LeaveDrivers DEF Answer
  <1> QED
    BY <1>2, <1>3, <1>4, <1>5, <1>6, <1>7, <1>8, <1>9 DEF Resume

-----------------------------------------------------------------------------
(* New requests.                                                           *)

\* What the sweep does to a run leaves its rows in order, and a request that serves
\* it with it: only a slow driver is ever swept.
LEMMA SweptServer ==
  ASSUME DriversInv, NEW q \in Procs, NEW r \in Runs, job[q].run = r,
         pc'[q] = pc[q], job'[q] = job[q], UNCHANGED approval,
         run'[r] = Abandoned(r), stale'[r] = (stale[r] /\ ~Sweepable(r))
  PROVE  ServerOK(q)'
  <1>1. ServerOK(q)
    BY DEF DriversInv
  <1>2. Target(q)' = Target(q)
    BY DEF Target
  <1>3. CASE Sweepable(r)
    <2>1. run[r].status \in Active /\ stale[r]
      BY <1>3 DEF Sweepable
    <2>2. pc[q] \notin ResumePoints
      BY <1>1, <2>1 DEF ServerOK, Active
    <2>3. pc[q] \in DrivePoints => SlowDrivers
      BY <1>1, <2>1, FlagsAssumption DEF ServerOK
    <2>4. run'[r].status = "failed"
          /\ (pc[q] \in DrivePoints => run'[r].steps = job[q].steps)
      BY <1>1, <1>3 DEF Abandoned, ServerOK, Rows
    <2> QED
      BY <1>1, <1>2, <2>2, <2>3, <2>4 DEF ServerOK
  <1>4. CASE ~Sweepable(r)
    BY <1>1, <1>2, <1>4 DEF Abandoned, ServerOK
  <1> QED
    BY <1>3, <1>4

LEMMA SweptRun ==
  ASSUME TypeOK, DriversInv, NEW r \in Runs, UNCHANGED <<journal, approval>>,
         run'[r] = Abandoned(r), stale'[r] = (stale[r] /\ ~Sweepable(r))
  PROVE  RunOK(r)'
  <1>1. RunOK(r) /\ run[r] \in Rows
    BY DEF DriversInv, TypeOK, Rows
  <1>2. CASE Sweepable(r)
    <2>1. run'[r].status = "failed" /\ run'[r].steps = run[r].steps /\ stale'[r] = FALSE
      BY <1>1, <1>2 DEF Abandoned, Rows
    <2> QED
      BY <1>1, <2>1 DEF RunOK
  <1>3. CASE ~Sweepable(r)
    BY <1>1, <1>3 DEF Abandoned, RunOK
  <1> QED
    BY <1>2, <1>3

\* A new run has no rows but its own, and the sweep before it is the sweep.
LEMMA CreateDrivers ==
  ASSUME GateInv, DriversInv, NEW p \in Procs, NEW r \in Runs, Create(p, r)
  PROVE  DriversInv'
  <1>1. TypeOK /\ UNCHANGED <<journal, approval>> /\ pc[p] = "idle"
        /\ run[r].status = "absent"
    BY DEF GateInv, Create
  <1>2. /\ pc'[p] = "start" /\ job'[p].run = r /\ job'[p].steps = 0
        /\ \A q \in Procs \ {p} : pc'[q] = pc[q] /\ job'[q] = job[q]
    BY <1>1 DEF Create, Goto, TypeOK, NoJob
  <1>3. /\ run'[r].status = "pending" /\ run'[r].steps = 0 /\ stale'[r] = FALSE
        /\ \A o \in Runs \ {r} : run'[o] = Abandoned(o)
                                 /\ stale'[o] = (stale[o] /\ ~Sweepable(o))
    BY DEF Create
  <1>4. journal[r] = {} /\ \A n \in Steps : approval[<<r, n>>] = "none"
    BY <1>1 DEF DriversInv, RunOK
  <1>5. \A q \in Procs : pc[q] # "idle" => job[q].run \in Runs \ {r}
    BY <1>1, TargetType DEF DriversInv, ServerOK
  <1>6. RunOK(r)'
    BY <1>1, <1>3, <1>4 DEF RunOK, Active
  <1>7. \A o \in Runs \ {r} : RunOK(o)'
    BY <1>1, <1>3, SweptRun
  <1>8. ServerOK(p)'
    BY <1>1, <1>2, <1>3, <1>4 DEF ServerOK, AskPoints, ResumePoints, Active
  <1>9. ASSUME NEW q \in Procs \ {p}
        PROVE  ServerOK(q)' /\ Alone(p, q)'
    <2>1. CASE pc[q] = "idle"
      BY <1>2, <2>1
      DEF ServerOK, Alone, DrivePoints, DecidePoints, AskPoints, ResumePoints, ServePoints
    <2>2. CASE pc[q] # "idle"
      <3>1. PICK o \in Runs \ {r} : job[q].run = o
        BY <1>5, <2>2
      <3>2. ServerOK(q)'
        BY <1>1, <1>2, <1>3, <3>1, SweptServer
      <3> QED
        BY <1>2, <3>1, <3>2 DEF Alone
    <2> QED
      BY <2>1, <2>2
  <1> QED
    BY <1>2, <1>6, <1>7, <1>8, <1>9, StepOfServer

\* The request that takes a decision shares the run at most with the one that put
\* the question, which has only the pause left to write.
LEMMA DecideDrivers ==
  ASSUME GateInv, DriversInv, NEW p \in Procs, NEW r \in Runs, NEW n \in Steps,
         NEW approve \in BOOLEAN, Decide(p, <<r, n>>, approve)
  PROVE  DriversInv'
  <1>1. TypeOK /\ UNCHANGED <<run, stale, journal>> /\ pc[p] = "idle"
        /\ approval[<<r, n>>] = "pending" /\ <<r, n>> \in Execs
    BY DEF GateInv, Decide, Execs
  <1>2. /\ pc'[p] = "decided" /\ job'[p].run = r /\ job'[p].step = n
        /\ \A q \in Procs \ {p} : pc'[q] = pc[q] /\ job'[q] = job[q]
    BY <1>1 DEF Decide, Goto, TypeOK, NoJob
  <1>3. /\ approval'[<<r, n>>] \in {"approved", "rejected"}
        /\ \A e \in Execs : e # <<r, n>> => approval'[e] = approval[e]
    BY <1>1 DEF Decide, TypeOK
  <1>4. \A o \in Runs, m \in Steps : <<o, m>> \in Execs
    BY DEF Execs
  <1>5. RunOK(r) /\ run[r].status # "absent"
        /\ \A m \in Steps : approval'[<<r, m>>] # "pending"
    BY <1>1, <1>3, <1>4 DEF DriversInv, RunOK
  <1>6. ASSUME NEW o \in Runs
        PROVE  RunOK(o)'
    <2>1. RunOK(o)
      BY DEF DriversInv
    <2>2. \A m \in Steps : /\ approval[<<o, m>>] = "none" <=> approval'[<<o, m>>] = "none"
                           /\ approval'[<<o, m>>] = "pending" => approval[<<o, m>>] = "pending"
      BY <1>1, <1>3, <1>4
    <2> QED
      BY <1>1, <2>1, <2>2 DEF RunOK
  <1>7. ServerOK(p)'
    BY <1>1, <1>2, <1>5 DEF ServerOK, DrivePoints, AskPoints, ResumePoints
  <1>8. ASSUME NEW q \in Procs \ {p}
        PROVE  ServerOK(q)' /\ Alone(p, q)'
    <2>1. ServerOK(q) /\ pc'[q] = pc[q] /\ job'[q] = job[q]
      BY <1>2 DEF DriversInv
    <2>2. CASE pc[q] # "idle" /\ job[q].run = r
      <3>1. pc[q] \in ServePoints => pc[q] = "pause" /\ job[q].step = n
        BY <1>1, <2>1, <2>2 DEF ServerOK
      <3>2. Alone(p, q)'
        BY <1>2, <2>1, <3>1 DEF Alone, Handover
      <3>3. pc[q] = "pause" => approval'[Target(q)] # "none"
        BY <1>3, <2>2, <3>1 DEF Target, ServePoints, DrivePoints
      <3>4. Target(q)' = Target(q)
        BY <2>1 DEF Target
      <3> QED
        BY <1>1, <1>5, <2>1, <2>2, <3>2, <3>3, <3>4 DEF ServerOK
    <2>3. CASE pc[q] # "idle" => job[q].run # r
      <3>1. ServerOK(q)'
        <4>1. pc[q] # "idle" => job[q].run \in Runs \ {r}
          BY <2>3, TargetType
        <4>2. pc[q] # "idle" => \A m \in Steps :
                approval'[<<job[q].run, m>>] = approval[<<job[q].run, m>>]
          BY <1>3, <1>4, <4>1
        <4> QED
          BY <1>1, <2>1, <4>2, SameServer
      <3>2. Alone(p, q)'
        BY <1>2, <2>1, <2>3 DEF Alone, ServePoints, DrivePoints, DecidePoints
      <3> QED
        BY <3>1, <3>2
    <2> QED
      BY <2>2, <2>3
  <1> QED
    BY <1>2, <1>6, <1>7, <1>8, StepOfServer

\* A new request preserves the invariant.
LEMMA RequestDrivers ==
  ASSUME GateInv, DriversInv, NEW p \in Procs, Request(p)
  PROVE  DriversInv'
  <1>1. ASSUME NEW e \in Execs, NEW approve \in BOOLEAN, Decide(p, e, approve)
        PROVE  DriversInv'
    <2>1. PICK r \in Runs, n \in Steps : e = <<r, n>>
      BY DEF Execs
    <2> QED
      BY <1>1, <2>1, DecideDrivers
  <1> QED
    BY <1>1, CreateDrivers DEF Request

-----------------------------------------------------------------------------
(* Everybody else.                                                         *)

\* Withdrawing or lapsing open questions, and ending a run that is paused behind
\* one of them: nobody serves a paused run whose question is open.
LEMMA Withdrawn ==
  ASSUME GateInv, DriversInv, UNCHANGED <<stale, journal, pc, job>>,
         \A e \in Execs :
           \/ approval'[e] = approval[e]
           \/ approval[e] = "pending" /\ approval'[e] \notin {"none", "pending"},
         \A r \in Runs :
           \/ run'[r] = run[r]
           \/ /\ run[r].status = "awaiting_approval"
              /\ \E n \in Steps : approval[<<r, n>>] = "pending"
              /\ run'[r].status \in Terminal /\ run'[r].steps = run[r].steps
  PROVE  DriversInv'
  <1>1. \A r \in Runs, n \in Steps : <<r, n>> \in Execs
    BY DEF Execs
  <1>2. ASSUME NEW r \in Runs
        PROVE  RunOK(r)'
    <2>1. RunOK(r)
      BY DEF DriversInv
    <2>2. \A m \in Steps : /\ approval'[<<r, m>>] = "none" <=> approval[<<r, m>>] = "none"
                           /\ approval'[<<r, m>>] = "pending" => approval[<<r, m>>] = "pending"
      BY <1>1
    <2>3. CASE run'[r] = run[r]
      BY <2>1, <2>2, <2>3 DEF RunOK
    <2>4. CASE run[r].status = "awaiting_approval" /\ run'[r].status \in Terminal
               /\ run'[r].steps = run[r].steps
      BY <2>1, <2>2, <2>4 DEF RunOK, Terminal, Active
    <2> QED
      BY <2>3, <2>4
  <1>3. ASSUME NEW q \in Procs
        PROVE  ServerOK(q)'
    <2>1. ServerOK(q) /\ Target(q)' = Target(q)
      BY DEF DriversInv, Target
    <2>2. CASE pc[q] = "idle"
      BY <2>2 DEF ServerOK, ServePoints, DrivePoints, DecidePoints, AskPoints, ResumePoints
    <2>3. CASE pc[q] # "idle"
      <3>1. PICK r \in Runs : job[q].run = r
        BY <2>3, TargetType
      <3>2. \A m \in Steps : /\ approval'[<<r, m>>] = "none" <=> approval[<<r, m>>] = "none"
                             /\ approval'[<<r, m>>] = "pending" => approval[<<r, m>>] = "pending"
        BY <1>1
      <3>3. pc[q] = "pause" => approval'[Target(q)] # "none"
        BY <2>1, <3>1, <3>2 DEF ServerOK, Target
      <3>4. CASE run'[r] = run[r]
        BY <2>1, <3>1, <3>2, <3>3, <3>4 DEF ServerOK
      <3>5. CASE run'[r] # run[r]
        <4>1. run[r].status = "awaiting_approval" /\ run'[r].status \in Terminal
              /\ \E n \in Steps : approval[<<r, n>>] = "pending"
          BY <3>5
        <4>2. pc[q] \notin DrivePoints
          BY <2>1, <3>1, <4>1 DEF ServerOK, Active
        <4>3. pc[q] \notin ServePoints /\ pc[q] \notin ResumePoints
              /\ pc[q] \notin AskPoints \cup {"pause"}
          BY <2>1, <3>1, <4>1, <4>2
          DEF ServerOK, ServePoints, DrivePoints, DecidePoints, AskPoints, ResumePoints
        <4> QED
          BY <3>1, <4>1, <4>2, <4>3 DEF ServerOK, Terminal
      <3> QED
        BY <3>4, <3>5
    <2> QED
      BY <2>2, <2>3
  <1>4. \A p, q \in Procs : p # q => Alone(p, q)'
    BY DEF DriversInv, Alone, Handover
  <1> QED
    BY <1>2, <1>3, <1>4 DEF DriversInv

\* Cancellations, expiry, the sweep, time and crashes preserve the invariant.
LEMMA EnvironmentDrivers ==
  ASSUME GateInv, DriversInv, Environment
  PROVE  DriversInv'
  <1>1. TypeOK /\ run \in [Runs -> Rows] /\ \A r \in Runs : run[r] \in Rows
    BY DEF GateInv, TypeOK, Rows
  <1>2. ASSUME NEW r \in Runs, Cancel(r)
        PROVE  DriversInv'
    <2>1. PICK n \in Steps : approval[<<r, n>>] = "pending"
      BY <1>2 DEF Cancel, Questions
    <2>2. run'[r].status \in Terminal /\ run'[r].steps = run[r].steps
          /\ \A o \in Runs \ {r} : run'[o] = run[o]
      BY <1>1, <1>2 DEF Cancel, Terminal, Rows
    <2>3. \A e \in Execs : \/ approval'[e] = approval[e]
                           \/ approval[e] = "pending" /\ approval'[e] = "cancelled"
      BY <1>2 DEF Cancel, Questions
    <2> QED
      BY <1>2, <2>1, <2>2, <2>3, Withdrawn DEF Cancel
  <1>3. CASE ExpireDue
    <2>1. \A e \in Execs : \/ approval'[e] = approval[e]
                           \/ approval[e] = "pending" /\ approval'[e] = "expired"
      BY <1>3 DEF ExpireDue, Overdue
    <2>2. ASSUME NEW r \in Runs, run'[r] # run[r]
          PROVE  /\ run[r].status = "awaiting_approval"
                 /\ \E n \in Steps : approval[<<r, n>>] = "pending"
                 /\ run'[r].status \in Terminal /\ run'[r].steps = run[r].steps
      <3>1. /\ run[r].status = "awaiting_approval"
            /\ \E n \in Steps : <<r, n>> \in Overdue
            /\ run'[r] = [run[r] EXCEPT !.status = "failed", !.error = "approval_expired"]
        BY <1>3, <2>2 DEF ExpireDue
      <3> QED
        BY <1>1, <3>1 DEF Overdue, Rows, Terminal
    <2> QED
      BY <1>3, <2>1, <2>2, Withdrawn DEF ExpireDue
  <1>4. ASSUME NEW r \in Runs, Age(r)
        PROVE  DriversInv'
    <2>1. /\ UNCHANGED <<run, journal, approval, pc, job>> /\ run[r].status \in Active
          /\ stale'[r] = TRUE /\ \A o \in Runs \ {r} : stale'[o] = stale[o]
          /\ ~SlowDrivers => \A p \in Procs : ~Driving(p, r)
      BY <1>1, <1>4 DEF Age, TypeOK
    <2>2. ASSUME NEW o \in Runs
          PROVE  RunOK(o)'
      BY <2>1, <2>2 DEF DriversInv, RunOK
    <2>3. ASSUME NEW q \in Procs
          PROVE  ServerOK(q)'
      <3>1. ServerOK(q) /\ Target(q)' = Target(q)
        BY <2>1 DEF DriversInv, Target
      <3>2. ASSUME pc[q] \in DrivePoints, ~SlowDrivers
            PROVE  ~stale'[job[q].run]
        <4>1. job[q].run # r /\ ~stale[job[q].run]
          BY <2>1, <3>1, <3>2 DEF Driving, ServerOK
        <4>2. job[q].run \in Runs
          BY <3>2, TargetType DEF DrivePoints
        <4> QED
          BY <2>1, <4>1, <4>2
      <3> QED
        BY <2>1, <3>1, <3>2 DEF ServerOK
    <2>4. \A p, q \in Procs : p # q => Alone(p, q)'
      BY <2>1 DEF DriversInv, Alone, Handover
    <2> QED
      BY <2>2, <2>3, <2>4 DEF DriversInv
  <1>5. CASE Sweep
    <2>1. UNCHANGED <<journal, approval, pc, job>>
          /\ \A r \in Runs : run'[r] = Abandoned(r) /\ stale'[r] = (stale[r] /\ ~Sweepable(r))
      BY <1>5 DEF Sweep
    <2>2. \A r \in Runs : RunOK(r)'
      BY <1>1, <2>1, SweptRun
    <2>3. ASSUME NEW q \in Procs
          PROVE  ServerOK(q)'
      <3>1. CASE pc[q] = "idle"
        BY <2>1, <3>1
        DEF ServerOK, ServePoints, DrivePoints, DecidePoints, AskPoints, ResumePoints
      <3>2. CASE pc[q] # "idle"
        <4>1. PICK r \in Runs : job[q].run = r
          BY <3>2, TargetType
        <4> QED
          BY <2>1, <4>1, SweptServer
      <3> QED
        BY <3>1, <3>2
    <2>4. \A p, q \in Procs : p # q => Alone(p, q)'
      BY <2>1 DEF DriversInv, Alone, Handover
    <2> QED
      BY <2>2, <2>3, <2>4 DEF DriversInv
  <1>6. ASSUME UNCHANGED <<run, stale, journal, approval, pc>>,
               \A q \in Procs : /\ job'[q].run = job[q].run /\ job'[q].step = job[q].step
                                /\ job'[q].status = job[q].status
                                /\ job'[q].steps = job[q].steps
        PROVE  DriversInv'
    <2>1. \A q \in Procs : Target(q)' = Target(q)
      BY <1>6 DEF Target
    <2>2. \A q \in Procs : ServerOK(q)'
      BY <1>6, <2>1 DEF DriversInv, ServerOK
    <2>3. \A r \in Runs : RunOK(r)'
      BY <1>6, SameRun DEF DriversInv
    <2>4. \A p, q \in Procs : p # q => Alone(p, q)'
      BY <1>6 DEF DriversInv, Alone, Handover
    <2> QED
      BY <2>2, <2>3, <2>4 DEF DriversInv
  <1>7. ASSUME NEW e \in Execs, Lapse(e)
        PROVE  DriversInv'
    BY <1>6, <1>7 DEF Lapse
  <1>8. ASSUME NEW p \in Procs, Trip(p)
        PROVE  DriversInv'
    <2>1. \A q \in Procs : /\ job'[q].run = job[q].run /\ job'[q].step = job[q].step
                           /\ job'[q].status = job[q].status /\ job'[q].steps = job[q].steps
      BY <1>1, <1>8 DEF Trip, TypeOK, Jobs
    <2> QED
      BY <1>6, <1>8, <2>1 DEF Trip
  <1>9. ASSUME NEW p \in Procs, Crash(p)
        PROVE  DriversInv'
    BY <1>9, LeaveDrivers DEF Crash
  <1> QED
    BY <1>2, <1>3, <1>4, <1>5, <1>7, <1>8, <1>9 DEF Environment

\* The empty database satisfies the invariant.
LEMMA InitDrivers == Init => DriversInv
  <1> SUFFICES ASSUME Init PROVE DriversInv
    OBVIOUS
  <1>1. \A p \in Procs : pc[p] = "idle"
    BY DEF Init
  <1>2. \A p \in Procs : ServerOK(p)
    BY <1>1 DEF ServerOK, ServePoints, DrivePoints, DecidePoints, AskPoints, ResumePoints
  <1>3. \A p, q \in Procs : Alone(p, q)
    BY <1>1 DEF Alone, ServePoints, DrivePoints, DecidePoints
  <1>4. ASSUME NEW r \in Runs
        PROVE  RunOK(r)
    <2>1. run[r].status = "absent" /\ run[r].steps = 0 /\ journal[r] = {} /\ stale[r] = FALSE
          /\ \A n \in Steps : approval[<<r, n>>] = "none"
      BY DEF Init, Execs
    <2> QED
      BY <2>1 DEF RunOK
  <1> QED
    BY <1>2, <1>3, <1>4 DEF DriversInv

\* Every step, and no step, preserves the invariant.
LEMMA NextDrivers == GateInv /\ DriversInv /\ [Next]_vars => DriversInv'
  <1> SUFFICES ASSUME GateInv, DriversInv, [Next]_vars PROVE DriversInv'
    OBVIOUS
  <1>1. ASSUME NEW p \in Procs, Request(p) PROVE DriversInv'
    BY <1>1, RequestDrivers
  <1>2. ASSUME NEW p \in Procs, Drive(p) PROVE DriversInv'
    BY <1>2, DriveDrivers
  <1>3. ASSUME NEW p \in Procs, Resume(p) PROVE DriversInv'
    BY <1>3, ResumeDrivers
  <1>4. CASE Environment
    BY <1>4, EnvironmentDrivers
  <1>5. CASE UNCHANGED vars
    BY <1>5 DEF vars, DriversInv, ServerOK, RunOK, Alone, Handover, Target
  <1> QED
    BY <1>1, <1>2, <1>3, <1>4, <1>5 DEF Next

-----------------------------------------------------------------------------
(* What every behaviour has.                                               *)

\* The invariant holds in every reachable state.
THEOREM DriversInvariant == Spec => [](GateInv /\ DriversInv)
  <1> QED
    BY InitDrivers, NextDrivers, GateInvariant, PTL DEF Spec

\* At most one request drives a run, though nothing locks one: the row of a run is
\* created once, its question is answered once, and the run is resumed only when the
\* request that paused it has let go (ApprovalService._resume, AgentRunner.resume).
THEOREM RunsHaveOneDriver == Spec => []OneDriver
  <1>1. DriversInv => OneDriver
    <2> SUFFICES ASSUME DriversInv, NEW r \in Runs, NEW p \in Procs, NEW q \in Procs,
                        Driving(p, r), Driving(q, r), p # q
                 PROVE  FALSE
      BY DEF OneDriver
    <2>1. Handover(p, q) \/ Handover(q, p)
      BY DEF DriversInv, Alone, Driving, ServePoints
    <2> QED
      BY <2>1 DEF Handover, Driving, DrivePoints
  <1> QED
    BY <1>1, DriversInvariant, PTL

\* step_count is the number of journal rows of the run, in every state: each pass of
\* the loop writes both in one transaction, and no request works from an old count
\* (AgentRunner._execute, run_journal.record_state).
THEOREM CountsAlwaysAgree == Spec => []CountsAgree
  <1>1. GateInv /\ DriversInv => CountsAgree
    <2> SUFFICES ASSUME GateInv, DriversInv, NEW r \in Runs
                 PROVE  run[r].steps = Cardinality(journal[r])
      BY DEF CountsAgree
    <2>1. journal[r] = 1..run[r].steps
      BY DEF DriversInv, RunOK
    <2>2. run[r].steps \in Nat
      BY StepsAssumption DEF GateInv, TypeOK, Rows
    <2> QED
      BY <2>1, <2>2, FS_Interval
  <1> QED
    BY <1>1, DriversInvariant, PTL

\* A paused run has put the question of its last step: the approval is committed
\* before the pause (AgentRunner._request_approval).
THEOREM PausedRunsWereAsked == Spec => []PausedRunWasAsked
  <1>1. DriversInv => PausedRunWasAsked
    BY DEF DriversInv, RunOK, PausedRunWasAsked
  <1> QED
    BY <1>1, DriversInvariant, PTL

\* No tool of a run starts once the run is durably cancelled: only a paused run with
\* an open question is cancelled, and nobody serves that one
\* (AgentExecutionService.cancel).
THEOREM CancelledRunsRunNothing == Spec => NothingRunsAfterCancel
  <1>1. GateInv /\ DriversInv /\ [Next]_vars =>
          [\A e \in Execs : run[e[1]].status = "cancelled" => body'[e] = body[e]]_vars
    <2> SUFFICES ASSUME GateInv, DriversInv, [Next]_vars, NEW e \in Execs,
                        run[e[1]].status = "cancelled"
                 PROVE  body'[e] = body[e]
      OBVIOUS
    <2>1. TypeOK
      BY DEF GateInv
    <2>2. ASSUME NEW p \in Procs, NEW grant \in {"none", "grant", "refusal"},
                 NEW next \in Points, CallTool(p, grant, next),
                 pc[p] \in {"tool", "grant"}
          PROVE  body'[e] = body[e]
      <3>1. Target(p) \in Execs /\ ServerOK(p)
        BY <2>2, TargetType DEF DriversInv, AskPoints, DecidePoints
      <3>2. run[job[p].run].status # "cancelled"
        BY <2>2, <3>1 DEF ServerOK, DrivePoints, ResumePoints, Active
      <3>3. e # Target(p)
        BY <3>2 DEF Target
      <3> QED
        BY <2>1, <2>2, <3>1, <3>3, CallToolEffect
    <2>3. ASSUME NEW p \in Procs, Drive(p)
          PROVE  body'[e] = body[e]
      <3>1. CASE RunTool(p)
        BY <2>2, <3>1 DEF RunTool, Points, DrivePoints
      <3>2. CASE ~RunTool(p)
        BY <2>3, <3>2
        DEF Drive, RefuseStart, StartRun, ModelCall, ModelFails, OutOfBudget, StopRun,
            Complete, RecordTool, Ask, Pause, Append, TooLarge, Finish
      <3> QED
        BY <3>1, <3>2
    <2>4. ASSUME NEW p \in Procs, Resume(p)
          PROVE  body'[e] = body[e]
      <3>1. CASE RunGranted(p)
        <4>1. "outcome" \in Points /\ pc[p] = "grant"
              /\ CallTool(p, IF job[p].approve THEN "grant" ELSE "refusal", "outcome")
          BY <3>1 DEF RunGranted, Points, DecidePoints
        <4> QED
          BY <2>2, <4>1
      <3>2. CASE ~RunGranted(p)
        BY <2>4, <3>2
        DEF Resume, ReadRun, Claim, RecordOutcome, ResumeRun, RefuseResume, Close, Answer
      <3> QED
        BY <3>1, <3>2
    <2>5. ASSUME NEW p \in Procs, Request(p)
          PROVE  body'[e] = body[e]
      BY <2>5 DEF Request, Create, Decide
    <2>6. CASE Environment
      BY <2>6 DEF Environment, Cancel, Age, Lapse, ExpireDue, Sweep, Trip, Crash
    <2>7. CASE UNCHANGED vars
      BY <2>7 DEF vars
    <2> QED
      BY <2>3, <2>4, <2>5, <2>6, <2>7 DEF Next
  <1> QED
    BY <1>1, DriversInvariant, PTL DEF Spec, NothingRunsAfterCancel

\* A run that is over stays as it ended, as long as no live driver is silent for
\* longer than the sweep's window: then the sweep never fails a run under its driver,
\* whose flush would otherwise revive it (TERMINAL_STATUSES, run_journal.record_state).
THEOREM RunsEndOnce ==
  ASSUME SlowDrivers = FALSE
  PROVE  Spec => TerminalForever
  <1>1. GateInv /\ DriversInv /\ [Next]_vars =>
          [\A r \in Runs : run[r].status \in Terminal => run'[r].status = run[r].status]_vars
    <2> SUFFICES ASSUME GateInv, DriversInv, [Next]_vars, NEW r \in Runs,
                        run[r].status \in Terminal
                 PROVE  run'[r].status = run[r].status
      OBVIOUS
    <2>1. TypeOK /\ run \in [Runs -> Rows] /\ ~Sweepable(r)
      BY DEF GateInv, TypeOK, Rows, Sweepable, Terminal, Active
    <2>2. ASSUME NEW p \in Procs, pc[p] \in DrivePoints \cup ResumePoints
          PROVE  job[p].run # r
      BY <2>2 DEF DriversInv, ServerOK, Terminal, Active
    <2>4. ASSUME NEW p \in Procs, Drive(p)
          PROVE  run'[r].status = run[r].status
      <3>1. pc[p] \in DrivePoints
        BY <2>4 DEF Drive, RefuseStart, StartRun, ModelCall, ModelFails, OutOfBudget,
             StopRun, Complete, RunTool, RecordTool, Ask, Pause, Append, TooLarge, DrivePoints
      <3>2. UNCHANGED run \/ \E status, steps, error : RecordState(job[p], status, steps, error)
        BY <2>4 DEF Drive, RefuseStart, StartRun, ModelCall, ModelFails, OutOfBudget,
             StopRun, Complete, RunTool, RecordTool, Ask, Pause, Append, TooLarge, Finish
      <3> QED
        BY <2>1, <2>2, <3>1, <3>2 DEF RecordState
    <2>5. ASSUME NEW p \in Procs, Resume(p)
          PROVE  run'[r].status = run[r].status
      <3>1. CASE ResumeRun(p)
        BY <2>1, <2>2, <3>1 DEF ResumeRun, RecordState, ResumePoints
      <3>2. CASE ~ResumeRun(p)
        BY <2>5, <3>2
        DEF Resume, ReadRun, Claim, RunGranted, RecordOutcome, RefuseResume, Close, Answer
      <3> QED
        BY <3>1, <3>2
    <2>6. ASSUME NEW p \in Procs, Request(p)
          PROVE  run'[r].status = run[r].status
      BY <2>1, <2>6 DEF Request, Create, Decide, Abandoned, Terminal
    <2>7. CASE Environment
      BY <2>1, <2>7
      DEF Environment, Cancel, Age, Lapse, ExpireDue, Sweep, Trip, Crash, Abandoned, Terminal
    <2>8. CASE UNCHANGED vars
      BY <2>8 DEF vars
    <2> QED
      BY <2>4, <2>5, <2>6, <2>7, <2>8 DEF Next
  <1> QED
    BY <1>1, DriversInvariant, PTL DEF Spec, TerminalForever
=============================================================================
