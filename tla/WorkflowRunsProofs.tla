-------------------------- MODULE WorkflowRunsProofs --------------------------
(***************************************************************************)
(* Theorems about WorkflowRuns, for every definition, every set of runs    *)
(* and requests, every limit, and with or without slow drivers and         *)
(* crashes. First its drivers and its gate. Then how a run moves along its *)
(* definition: the row of the run and the rows of its steps never          *)
(* contradict each other, and seen through its step rows the machine       *)
(* implements WorkflowWalk; as long as no driver is slow, a run somebody   *)
(* drives is running; and as long as no process dies, a run that waits for *)
(* a person can be moved.                                                  *)
(***************************************************************************)
EXTENDS WorkflowRuns, TLAPS

-----------------------------------------------------------------------------
(* Types.                                                                  *)

\* A request that is served works on a run that exists.
ServesRun == \A p \in Procs : pc[p] # "idle" => job[p].run \in Runs

TypeInv == TypeOK /\ ServesRun

\* NoJob is a job.
LEMMA NoJobType == NoJob \in Jobs
  BY DefinitionAssumption DEF NoJob, Jobs, StepOutcome, Outcome

\* At the beginning every variable has its type.
LEMMA InitType == Init => TypeInv
  <1> SUFFICES ASSUME Init PROVE TypeInv
    OBVIOUS
  <1>1. run \in [Runs -> Rows]
    BY DEF Init, Rows, RunStatus, RunError
  <1>2. exec \in [Cells -> ExecRows]
    BY DEF Init, ExecRows
  <1>3. job \in [Procs -> Jobs]
    BY NoJobType DEF Init
  <1>4. pc \in [Procs -> Points] /\ ServesRun
    BY DEF Init, Points, ServesRun
  <1> QED
    BY <1>1, <1>2, <1>3, <1>4
    DEF Init, TypeInv, TypeOK, StepStatus, ApprovalStatus, AgentStatus

\* The step a request is at is a cell, and its kind a kind.
LEMMA TargetType ==
  ASSUME TypeInv, NEW p \in Procs, pc[p] # "idle"
  PROVE  /\ job[p] \in Jobs /\ job[p].run \in Runs /\ job[p].key \in Keys
         /\ Target(p) \in Cells /\ KindOf(p) \in Kinds
         /\ run[job[p].run] \in Rows
  BY DefinitionAssumption DEF TypeInv, TypeOK, ServesRun, Jobs, Target, Cells, KindOf


\* A request that goes somewhere with a job that serves a run is well typed.
LEMMA MoveType ==
  ASSUME TypeInv, NEW p \in Procs, NEW point \in Points, Goto(p, point),
         NEW new \in Jobs, new.run \in Runs, job' = [job EXCEPT ![p] = new]
  PROVE  pc' \in [Procs -> Points] /\ job' \in [Procs -> Jobs] /\ ServesRun'
  BY DEF TypeInv, TypeOK, Goto, ServesRun

\* So is one that goes somewhere with the job it had, and one that leaves.
LEMMA StayType ==
  ASSUME TypeInv, NEW p \in Procs, NEW point \in Points, Goto(p, point),
         pc[p] # "idle", UNCHANGED job
  PROVE  pc' \in [Procs -> Points] /\ job' \in [Procs -> Jobs] /\ ServesRun'
  BY DEF TypeInv, TypeOK, Goto, ServesRun

LEMMA LeaveType ==
  ASSUME TypeInv, NEW p \in Procs, Leave(p)
  PROVE  pc' \in [Procs -> Points] /\ job' \in [Procs -> Jobs] /\ ServesRun'
  BY NoJobType DEF TypeInv, TypeOK, Leave, Goto, ServesRun, Points

\* A request that notes an outcome is well typed.
LEMMA OutcomesType ==
  ASSUME TypeInv, NEW p \in Procs, pc[p] # "idle",
         NEW word \in StepOutcome, NEW target \in Keys \cup {End},
         NEW point \in Points, Outcomes(p, word, target), Goto(p, point)
  PROVE  pc' \in [Procs -> Points] /\ job' \in [Procs -> Jobs] /\ ServesRun'
  <1> DEFINE new == [job[p] EXCEPT !.outcome = word, !.next = target]
  <1>1. job[p] \in Jobs /\ job[p].run \in Runs
    BY TargetType
  <1>2. new \in Jobs /\ new.run = job[p].run
    BY <1>1 DEF Jobs
  <1>3. job' = [job EXCEPT ![p] = new]
    BY DEF Outcomes, TypeInv, TypeOK
  <1> QED
    BY <1>1, <1>2, <1>3, MoveType

\* Overwriting the status, or the status and the error, of a row leaves a row.
LEMMA RowUpdate ==
  ASSUME NEW row \in Rows, NEW status \in RunStatus, NEW error \in RunError
  PROVE  /\ [row EXCEPT !.status = status] \in Rows
         /\ [row EXCEPT !.status = status, !.error = error] \in Rows
  BY DEF Rows

\* The targets a step can lead to are targets.
LEMMA Targets ==
  ASSUME NEW k \in Keys
  PROVE  OnSuccess[k] \subseteq Keys \cup {End} /\ OnReject[k] \in Keys \cup {End}
  BY DefinitionAssumption

-----------------------------------------------------------------------------
(* Every step keeps the types.                                             *)

\* Starting a run, sweeping the others (WorkflowExecutionService.start).
LEMMA CreateType ==
  ASSUME TypeInv, NEW p \in Procs, NEW r \in Runs, Create(p, r)
  PROVE  TypeInv'
  <1>1. \A q \in Runs : Abandoned(q) \in Rows
    BY RowUpdate, ZenonT(60) DEF TypeInv, TypeOK, Abandoned, RunStatus, Terminal, RunError
  <1>2. run' \in [Runs -> Rows]
    BY <1>1 DEF Create, Rows, RunStatus, Active, RunError
  <1>3. [NoJob EXCEPT !.run = r] \in Jobs /\ [NoJob EXCEPT !.run = r].run = r
    BY NoJobType DEF Jobs, NoJob
  <1>4. pc' \in [Procs -> Points] /\ job' \in [Procs -> Jobs] /\ ServesRun'
    BY <1>3, MoveType DEF Create, Points
  <1>5. stale' \in [Runs -> BOOLEAN]
    BY DEF Create
  <1> QED
    BY <1>2, <1>4, <1>5, SMTT(40) DEF Create, TypeInv, TypeOK

\* The claim of a start.
LEMMA ClaimRunType ==
  ASSUME TypeInv, NEW p \in Procs, ClaimRun(p)
  PROVE  TypeInv'
  <1> DEFINE r == job[p].run
             new == [job[p] EXCEPT !.next = Entry]
  <1>1. pc[p] = "start" /\ r \in Runs /\ job[p] \in Jobs /\ run[r] \in Rows
    BY TargetType DEF ClaimRun
  <1>2. CASE run[r].status = "pending"
    <2>1. new \in Jobs /\ new.run = r
      BY <1>1, DefinitionAssumption DEF Jobs
    <2>2. job' = [job EXCEPT ![p] = new] /\ Goto(p, "loop")
      BY <1>2 DEF ClaimRun, TypeInv, TypeOK
    <2>3. pc' \in [Procs -> Points] /\ job' \in [Procs -> Jobs] /\ ServesRun'
      BY <1>1, <2>1, <2>2, MoveType DEF Points, DrivePoints
    <2>4. [run[r] EXCEPT !.status = "running"] \in Rows
      BY <1>1 DEF Rows, RunStatus, Active
    <2>5. run' \in [Runs -> Rows] /\ stale' \in [Runs -> BOOLEAN]
      BY <1>1, <1>2, <2>4 DEF ClaimRun, TypeInv, TypeOK
    <2> QED
      BY <2>3, <2>5 DEF ClaimRun, TypeInv, TypeOK
  <1>3. CASE run[r].status # "pending"
    BY <1>3, LeaveType DEF ClaimRun, TypeInv, TypeOK
  <1> QED
    BY <1>2, <1>3

\* The end of a run.
LEMMA EndRunType ==
  ASSUME TypeInv, NEW p \in Procs, pc[p] # "idle",
         NEW status \in RunStatus, NEW error \in RunError, EndRun(p, status, error)
  PROVE  TypeInv'
  <1> DEFINE r == job[p].run
             row == [run[r] EXCEPT !.status = status, !.error =
                        IF error = "none" THEN @ ELSE error]
  <1>1. r \in Runs /\ run[r] \in Rows
    BY TargetType
  <1>2. row \in Rows
    BY <1>1 DEF Rows
  <1>3. run' = [run EXCEPT ![r] = row]
    BY DEF EndRun, TypeInv, TypeOK
  <1>4. run' \in [Runs -> Rows] /\ stale' \in [Runs -> BOOLEAN]
    BY <1>1, <1>2, <1>3 DEF EndRun, TypeInv, TypeOK
  <1> QED
    BY <1>4, LeaveType DEF EndRun, TypeInv, TypeOK

\* The insertion of a step (WorkflowStepRunRepository.begin).
LEMMA BeginStepType ==
  ASSUME TypeInv, NEW p \in Procs, BeginStep(p)
  PROVE  TypeInv'
  <1> DEFINE c == <<job[p].run, job[p].next>>
             new == [job[p] EXCEPT !.key = job[p].next, !.tool = "none", !.seen = 0]
  <1>1. pc[p] = "loop" /\ job[p].next # End /\ job[p] \in Jobs /\ job[p].run \in Runs
    BY TargetType DEF BeginStep
  <1>2. CASE step[c] = "absent"
    <2>1. new \in Jobs /\ new.run = job[p].run
      BY <1>1 DEF Jobs
    <2>2. job' = [job EXCEPT ![p] = new] /\ Goto(p, "execute")
      BY <1>2 DEF BeginStep, TypeInv, TypeOK
    <2>3. pc' \in [Procs -> Points] /\ job' \in [Procs -> Jobs] /\ ServesRun'
      BY <1>1, <2>1, <2>2, MoveType DEF Points, DrivePoints
    <2>4. step' \in [Cells -> StepStatus]
      BY <1>2 DEF BeginStep, TypeInv, TypeOK, StepStatus
    <2> QED
      BY <2>3, <2>4 DEF BeginStep, TypeInv, TypeOK
  <1>3. CASE step[c] # "absent"
    BY <1>3, LeaveType DEF BeginStep, TypeInv, TypeOK
  <1> QED
    BY <1>2, <1>3

\* A request that notes an outcome with what became of the tool is well typed.
LEMMA ToolJobType ==
  ASSUME TypeInv, NEW p \in Procs, pc[p] # "idle",
         NEW tool \in Outcome \cup {"none"},
         NEW word \in StepOutcome, NEW target \in Keys \cup {End},
         job' = [job EXCEPT ![p].tool = tool, ![p].outcome = word, ![p].next = target],
         Goto(p, "finish")
  PROVE  pc' \in [Procs -> Points] /\ job' \in [Procs -> Jobs] /\ ServesRun'
  <1> DEFINE new == [job[p] EXCEPT !.tool = tool, !.outcome = word, !.next = target]
  <1>1. job[p] \in Jobs /\ job[p].run \in Runs
    BY TargetType
  <1>2. new \in Jobs /\ new.run = job[p].run
    BY <1>1 DEF Jobs
  <1>3. job' = [job EXCEPT ![p] = new]
    BY DEF TypeInv, TypeOK
  <1> QED
    BY <1>1, <1>2, <1>3, MoveType DEF Points, DrivePoints

\* What a call of the executor leaves in memory (ToolExecutor.execute).
CalledTool(p, tool, word, target) ==
  /\ body' = [body EXCEPT ![Target(p)] = @ + (IF tool = "ran" THEN 1 ELSE 0)]
  /\ job' = [job EXCEPT ![p].tool = tool, ![p].outcome = word, ![p].next = target]

\* The outcomes of a first call, one by one.
LEMMA ToolOutcomes ==
  ASSUME TypeInv, NEW p \in Procs, ExecuteTool(p)
  PROVE  \E tool \in Outcome \cup {"none"}, word \in StepOutcome,
            target \in Keys \cup {End} :
           /\ CalledTool(p, tool, word, target)
           /\ tool \in {"none", "refused"} => word = "failed"
           /\ (tool = "approval_required") = (word = "awaiting_approval")
           /\ KindOf(p) = "gated" => tool \in {"none", "refused", "approval_required"}
           /\ KindOf(p) # "gated" => tool \in {"none", "refused", "ran"}
           /\ target \in OnSuccess[job[p].key]
  <1>1. job[p].key \in Keys
    BY TargetType DEF ExecuteTool
  <1>2. OnSuccess[job[p].key] \subseteq Keys \cup {End}
    BY <1>1, Targets
  <1>3. PICK tool \in {"none", "refused", IF KindOf(p) = "gated" THEN "approval_required"
                                          ELSE "ran"},
             word \in StepOutcome, target \in OnSuccess[job[p].key] :
          /\ tool \in {"none", "refused"} => word = "failed"
          /\ (tool = "approval_required") = (word = "awaiting_approval")
          /\ CalledTool(p, tool, word, target)
    BY Zenon DEF ExecuteTool, CalledTool
  <1>4. /\ tool \in Outcome \cup {"none"}
        /\ KindOf(p) = "gated" => tool \in {"none", "refused", "approval_required"}
        /\ KindOf(p) # "gated" => tool \in {"none", "refused", "ran"}
    BY DEF Outcome
  <1>5. target \in Keys \cup {End}
    BY <1>2
  <1> QED
    BY <1>3, <1>4, <1>5, Zenon

\* The step handlers: what is not recorded by a commit of the engine.
LEMMA ExecuteToolType ==
  ASSUME TypeInv, NEW p \in Procs, ExecuteTool(p)
  PROVE  TypeInv'
  <1>1. pc[p] = "execute" /\ Target(p) \in Cells
    BY TargetType DEF ExecuteTool
  <1>2. PICK tool \in Outcome \cup {"none"}, word \in StepOutcome,
             target \in Keys \cup {End} : CalledTool(p, tool, word, target)
    BY ToolOutcomes
  <1>3. pc' \in [Procs -> Points] /\ job' \in [Procs -> Jobs] /\ ServesRun'
    BY <1>1, <1>2, ToolJobType DEF ExecuteTool, CalledTool
  <1>4. body' \in [Cells -> Nat]
    <2>1. body[Target(p)] + (IF tool = "ran" THEN 1 ELSE 0) \in Nat
      BY <1>1 DEF TypeInv, TypeOK
    <2> QED
      BY <1>2, <2>1 DEF CalledTool, TypeInv, TypeOK
  <1> QED
    BY <1>3, <1>4 DEF ExecuteTool, TypeInv, TypeOK

\* A handler that only notes an outcome.
LEMMA NoteType ==
  ASSUME TypeInv, NEW p \in Procs, pc[p] # "idle", UNCHANGED durable,
         NEW word \in StepOutcome, NEW target \in Keys \cup {End},
         Outcomes(p, word, target), Goto(p, "finish")
  PROVE  TypeInv'
  BY OutcomesType DEF Points, DrivePoints, durable, TypeInv, TypeOK

\* A request that leaves, or dies, and writes nothing.
LEMMA QuitType ==
  ASSUME TypeInv, NEW p \in Procs, Leave(p), UNCHANGED durable
  PROVE  TypeInv'
  BY LeaveType DEF durable, TypeInv, TypeOK

\* The question put for a cell.
LEMMA PutType ==
  ASSUME TypeInv, NEW c \in Cells, Put(c)
  PROVE  approval' \in [Cells -> ApprovalStatus] /\ asks' \in [Cells -> Nat]
  BY DEF Put, TypeInv, TypeOK, ApprovalStatus

\* What an agent step does: its agent completes, stops for a person, or fails.
LEMMA AgentOutcomes ==
  ASSUME NEW p \in Procs, ExecuteAgent(p)
  PROVE  \/ /\ agent' = [agent EXCEPT ![Target(p)] = "completed"]
            /\ \E word \in {"succeeded", "failed"}, target \in OnSuccess[job[p].key] :
                 Outcomes(p, word, target)
            /\ Goto(p, "finish")
            /\ UNCHANGED <<approval, asks>>
         \/ /\ agent' = [agent EXCEPT ![Target(p)] = "awaiting_approval"]
            /\ Put(Target(p))
            /\ Goto(p, "view")
            /\ UNCHANGED job
         \/ /\ agent' = [agent EXCEPT ![Target(p)] = "failed"]
            /\ Leave(p)
            /\ UNCHANGED <<approval, asks>>
  BY Zenon DEF ExecuteAgent

LEMMA ExecuteAgentType ==
  ASSUME TypeInv, NEW p \in Procs, ExecuteAgent(p)
  PROVE  TypeInv'
  <1> DEFINE c == Target(p)
  <1>1. /\ pc[p] = "execute" /\ c \in Cells /\ job[p].key \in Keys
        /\ UNCHANGED <<run, stale, step, exec, stamped, body>>
    BY TargetType DEF ExecuteAgent
  <1>2. /\ agent \in [Cells -> AgentStatus] /\ approval \in [Cells -> ApprovalStatus]
        /\ asks \in [Cells -> Nat]
    BY DEF TypeInv, TypeOK
  <1>3. CASE /\ agent' = [agent EXCEPT ![c] = "completed"]
             /\ \E word \in {"succeeded", "failed"}, target \in OnSuccess[job[p].key] :
                  Outcomes(p, word, target)
             /\ Goto(p, "finish")
             /\ UNCHANGED <<approval, asks>>
    <2>1. PICK word \in {"succeeded", "failed"}, target \in OnSuccess[job[p].key] :
            Outcomes(p, word, target)
      BY <1>3
    <2>2. pc' \in [Procs -> Points] /\ job' \in [Procs -> Jobs] /\ ServesRun'
      BY <1>1, <1>3, <2>1, OutcomesType, Targets DEF StepOutcome, Points, DrivePoints
    <2>3. agent' \in [Cells -> AgentStatus]
      BY <1>2, <1>3 DEF AgentStatus
    <2> QED
      BY <1>1, <1>2, <1>3, <2>2, <2>3 DEF TypeInv, TypeOK
  <1>4. CASE /\ agent' = [agent EXCEPT ![c] = "awaiting_approval"]
             /\ Put(c) /\ Goto(p, "view") /\ UNCHANGED job
    <2>1. pc' \in [Procs -> Points] /\ job' \in [Procs -> Jobs] /\ ServesRun'
      BY <1>1, <1>4, StayType DEF Points, DrivePoints
    <2>2. agent' \in [Cells -> AgentStatus]
      BY <1>2, <1>4 DEF AgentStatus
    <2>3. approval' \in [Cells -> ApprovalStatus] /\ asks' \in [Cells -> Nat]
      BY <1>1, <1>4, PutType
    <2> QED
      BY <1>1, <2>1, <2>2, <2>3 DEF TypeInv, TypeOK
  <1>5. CASE /\ agent' = [agent EXCEPT ![c] = "failed"]
             /\ Leave(p) /\ UNCHANGED <<approval, asks>>
    <2>1. agent' \in [Cells -> AgentStatus]
      BY <1>2, <1>5 DEF AgentStatus
    <2> QED
      BY <1>1, <1>5, <2>1, LeaveType DEF TypeInv, TypeOK
  <1> QED
    BY <1>3, <1>4, <1>5, AgentOutcomes

LEMMA ViewAgentType ==
  ASSUME TypeInv, NEW p \in Procs, ViewAgent(p)
  PROVE  TypeInv'
  <1> DEFINE seen == IF approval[Target(p)] = "pending" THEN asks[Target(p)] ELSE 0
             new  == [job[p] EXCEPT !.outcome = "awaiting_approval", !.next = End,
                                    !.seen = seen]
  <1>1. pc[p] = "view" /\ job[p] \in Jobs /\ job[p].run \in Runs /\ Target(p) \in Cells
    BY TargetType DEF ViewAgent
  <1>2. seen \in Nat
    BY <1>1 DEF TypeInv, TypeOK
  <1>3. new \in Jobs /\ new.run = job[p].run
    BY <1>1, <1>2 DEF Jobs, StepOutcome
  <1>4. job' = [job EXCEPT ![p] = new]
    BY DEF ViewAgent, TypeInv, TypeOK
  <1>5. pc' \in [Procs -> Points] /\ job' \in [Procs -> Jobs] /\ ServesRun'
    BY <1>1, <1>3, <1>4, MoveType DEF ViewAgent, Points, DrivePoints
  <1> QED
    BY <1>5 DEF ViewAgent, durable, TypeInv, TypeOK

\* The row FinishStep writes (WorkflowEngine._finish_step).
FinishedRow(p) ==
  [status |-> CASE job[p].outcome = "awaiting_approval" -> "awaiting_approval"
                [] job[p].outcome = "failed" -> "failed"
                [] OTHER -> run[job[p].run].status,
   count  |-> job[p].count + 1,
   error  |-> IF job[p].outcome = "failed" THEN "step_failed" ELSE run[job[p].run].error]

LEMMA FinishStepType ==
  ASSUME TypeInv, NEW p \in Procs, FinishStep(p)
  PROVE  TypeInv'
  <1> DEFINE c == Target(p)
             new == [job[p] EXCEPT !.count = @ + 1]
  <1>1. /\ pc[p] = "finish" /\ job[p] \in Jobs /\ job[p].run \in Runs /\ c \in Cells
        /\ run[job[p].run] \in Rows
    BY TargetType DEF FinishStep
  <1>2. run' \in [Runs -> Rows] /\ stale' \in [Runs -> BOOLEAN]
    <2>1. FinishedRow(p) \in Rows
      BY <1>1 DEF FinishedRow, Rows, RunStatus, Terminal, RunError, Jobs
    <2>2. run' = [run EXCEPT ![job[p].run] = FinishedRow(p)]
      BY <1>1 DEF FinishStep, FinishedRow, TypeInv, TypeOK
    <2> QED
      BY <2>1, <2>2, ZenonT(60) DEF FinishStep, TypeInv, TypeOK
  <1>3. step' \in [Cells -> StepStatus]
    BY <1>1 DEF FinishStep, TypeInv, TypeOK, Jobs, StepOutcome, StepStatus, Terminal
  <1>4. exec' \in [Cells -> ExecRows]
    BY <1>1 DEF FinishStep, RecordedExec, TypeInv, TypeOK, Jobs, ExecRows
  <1>5. approval' \in [Cells -> ApprovalStatus] /\ asks' \in [Cells -> Nat]
    BY <1>1, PutType DEF FinishStep, TypeInv, TypeOK
  <1>6. stamped' \in [Cells -> BOOLEAN]
    BY <1>1 DEF FinishStep, Stamp, TypeInv, TypeOK
  <1>7. pc' \in [Procs -> Points] /\ job' \in [Procs -> Jobs] /\ ServesRun'
    <2>1. CASE GoesOn(job[p].outcome)
      <3>1. new \in Jobs /\ new.run = job[p].run
        BY <1>1 DEF Jobs
      <3>2. job' = [job EXCEPT ![p] = new] /\ Goto(p, "loop")
        BY <2>1 DEF FinishStep, TypeInv, TypeOK
      <3> QED
        BY <1>1, <3>1, <3>2, MoveType DEF Points, DrivePoints
    <2>2. CASE ~GoesOn(job[p].outcome)
      BY <2>2, LeaveType DEF FinishStep
    <2> QED
      BY <2>1, <2>2
  <1> QED
    BY <1>2, <1>3, <1>4, <1>5, <1>6, <1>7 DEF FinishStep, TypeInv, TypeOK

\* A recorded decision (ApprovalService._decide).
LEMMA DecideType ==
  ASSUME TypeInv, NEW p \in Procs, NEW c \in Cells, NEW approve \in BOOLEAN,
         Decide(p, c, approve)
  PROVE  TypeInv'
  <1> DEFINE new == [NoJob EXCEPT !.run = c[1], !.key = c[2],
                                  !.approve = approve, !.stamped = stamped[c]]
  <1>1. c[1] \in Runs /\ c[2] \in Keys /\ stamped[c] \in BOOLEAN
    BY DEF Cells, TypeInv, TypeOK
  <1>2. new \in Jobs /\ new.run \in Runs
    BY <1>1, NoJobType DEF Jobs, NoJob
  <1>3. pc' \in [Procs -> Points] /\ job' \in [Procs -> Jobs] /\ ServesRun'
    BY <1>2, MoveType DEF Decide, Points
  <1>4. approval' \in [Cells -> ApprovalStatus]
    BY DEF Decide, TypeInv, TypeOK, ApprovalStatus
  <1> QED
    BY <1>3, <1>4 DEF Decide, TypeInv, TypeOK

\* What resuming the agent behind an approval comes to (ApprovalService._resume).
LEMMA AgentAnswers ==
  ASSUME NEW p \in Procs, ResumeAgentRun(p)
  PROVE  \/ /\ agent[Target(p)] = "awaiting_approval"
            /\ agent' = [agent EXCEPT ![Target(p)] = "completed"]
            /\ Goto(p, "workflow")
            /\ UNCHANGED <<approval, stamped, asks, job>>
         \/ /\ Put(Target(p))
            /\ stamped' = [stamped EXCEPT ![Target(p)] = FALSE]
            /\ Goto(p, "workflow")
            /\ UNCHANGED <<agent, job>>
         \/ /\ agent[Target(p)] = "awaiting_approval"
            /\ agent' = [agent EXCEPT ![Target(p)] = "failed"]
            /\ Leave(p)
            /\ UNCHANGED <<approval, stamped, asks>>
         \/ /\ Leave(p)
            /\ UNCHANGED <<approval, stamped, asks, agent>>
  BY Zenon DEF ResumeAgentRun

LEMMA ResumeAgentRunType ==
  ASSUME TypeInv, NEW p \in Procs, ResumeAgentRun(p)
  PROVE  TypeInv'
  <1> DEFINE c == Target(p)
  <1>1. /\ pc[p] = "decided" /\ c \in Cells
        /\ UNCHANGED <<run, stale, step, exec, body>>
    BY TargetType DEF ResumeAgentRun
  <1>2. /\ agent \in [Cells -> AgentStatus] /\ approval \in [Cells -> ApprovalStatus]
        /\ asks \in [Cells -> Nat] /\ stamped \in [Cells -> BOOLEAN]
    BY DEF TypeInv, TypeOK
  <1>3. agent' \in [Cells -> AgentStatus]
    BY <1>2, AgentAnswers DEF AgentStatus
  <1>4. Put(c) => approval' \in [Cells -> ApprovalStatus] /\ asks' \in [Cells -> Nat]
    BY <1>1, PutType
  <1>5. /\ approval' \in [Cells -> ApprovalStatus] /\ asks' \in [Cells -> Nat]
        /\ stamped' \in [Cells -> BOOLEAN]
    BY <1>2, <1>4, AgentAnswers
  <1>6. CASE Goto(p, "workflow") /\ UNCHANGED job
    BY <1>1, <1>3, <1>5, <1>6, StayType DEF Points, TypeInv, TypeOK
  <1>7. CASE Leave(p)
    BY <1>1, <1>3, <1>5, <1>7, LeaveType DEF TypeInv, TypeOK
  <1> QED
    BY <1>6, <1>7, AgentAnswers

\* The two claims of a resume (WorkflowEngine.resume).
LEMMA ClaimResumeType ==
  ASSUME TypeInv, NEW p \in Procs, ClaimResume(p)
  PROVE  TypeInv'
  <1> DEFINE r == job[p].run
             c == Target(p)
             new == [job[p] EXCEPT !.count = run[r].count]
  <1>1. pc[p] # "idle" /\ r \in Runs /\ c \in Cells /\ job[p] \in Jobs /\ run[r] \in Rows
    BY TargetType DEF ClaimResume
  <1>2. CASE /\ job[p].stamped
             /\ run[r].status = "awaiting_approval" /\ step[c] = "awaiting_approval"
    <2>1. new \in Jobs /\ new.run = r
      BY <1>1 DEF Jobs, Rows
    <2>2. job' = [job EXCEPT ![p] = new] /\ Goto(p, "resume")
      BY <1>2 DEF ClaimResume, TypeInv, TypeOK
    <2>3. pc' \in [Procs -> Points] /\ job' \in [Procs -> Jobs] /\ ServesRun'
      BY <1>1, <2>1, <2>2, MoveType DEF Points, ResumePoints
    <2>4. [run[r] EXCEPT !.status = "running"] \in Rows
      BY <1>1 DEF Rows, RunStatus, Active
    <2>5. run' \in [Runs -> Rows] /\ stale' \in [Runs -> BOOLEAN]
      BY <1>1, <1>2, <2>4 DEF ClaimResume, TypeInv, TypeOK
    <2>6. step' \in [Cells -> StepStatus]
      BY <1>2 DEF ClaimResume, TypeInv, TypeOK, StepStatus
    <2> QED
      BY <2>3, <2>5, <2>6 DEF ClaimResume, TypeInv, TypeOK
  <1>3. CASE ~(/\ job[p].stamped
               /\ run[r].status = "awaiting_approval" /\ step[c] = "awaiting_approval")
    BY <1>3, LeaveType DEF ClaimResume, TypeInv, TypeOK
  <1> QED
    BY <1>2, <1>3

\* The claim of the execution (WorkflowEngine._resume_tool).
LEMMA ClaimToolType ==
  ASSUME TypeInv, NEW p \in Procs, ClaimTool(p)
  PROVE  TypeInv'
  <1> DEFINE c == Target(p)
             lost == exec[c].outcome = "none" \/ (job[p].approve /\ exec[c].executed)
  <1>1. pc[p] = "resume" /\ c \in Cells /\ job[p] \in Jobs
    BY TargetType DEF ClaimTool
  <1>2. CASE lost
    <2>1. UNCHANGED durable /\ Outcomes(p, "failed", End) /\ Goto(p, "finish")
      BY <1>2 DEF ClaimTool, durable
    <2> QED
      BY <1>1, <2>1, NoteType DEF StepOutcome
  <1>3. CASE ~lost
    <2>1. exec' = [exec EXCEPT ![c].executed = @ \/ job[p].approve]
      BY <1>3 DEF ClaimTool
    <2>2. exec' \in [Cells -> ExecRows]
      BY <1>1, <2>1 DEF TypeInv, TypeOK, ExecRows, Jobs
    <2>3. pc' \in [Procs -> Points] /\ job' \in [Procs -> Jobs] /\ ServesRun'
      BY <1>1, <1>3, StayType DEF ClaimTool, Points, ResumePoints
    <2> QED
      BY <2>2, <2>3 DEF ClaimTool, TypeInv, TypeOK
  <1> QED
    BY <1>2, <1>3

\* The outcomes of a call under a decision, one by one.
LEMMA GrantedOutcomes ==
  ASSUME TypeInv, NEW p \in Procs, RunGranted(p)
  PROVE  \E tool \in Outcome \cup {"none"} :
           /\ tool \in {"refused", "ran", "rejected"}
           /\ tool = "ran" => job[p].approve
           /\ body' = [body EXCEPT ![Target(p)] = @ + (IF tool = "ran" THEN 1 ELSE 0)]
           /\ \/ /\ Goto(p, "finish")
                 /\ \E word \in StepOutcome, target \in Keys \cup {End} :
                      /\ CalledTool(p, tool, word, target)
                      /\ word \in {"succeeded", "failed"}
                      /\ word = "succeeded" => tool = "ran"
                      /\ target \in OnSuccess[job[p].key]
              \/ Leave(p)
  <1>1. job[p].key \in Keys
    BY TargetType DEF RunGranted
  <1>2. OnSuccess[job[p].key] \subseteq Keys \cup {End}
    BY <1>1, Targets
  <1>3. PICK tool \in {"refused", IF job[p].approve THEN "ran" ELSE "rejected"},
             word \in {"succeeded", "failed"}, target \in OnSuccess[job[p].key] :
          /\ word = "succeeded" => tool = "ran"
          /\ body' = [body EXCEPT ![Target(p)] = @ + (IF tool = "ran" THEN 1 ELSE 0)]
          /\ \/ CalledTool(p, tool, word, target) /\ Goto(p, "finish")
             \/ Leave(p)
    BY Zenon DEF RunGranted, CalledTool
  <1>4. /\ tool \in Outcome \cup {"none"} /\ tool \in {"refused", "ran", "rejected"}
        /\ tool = "ran" => job[p].approve
    BY DEF Outcome
  <1>5. target \in Keys \cup {End} /\ word \in StepOutcome
    BY <1>2 DEF StepOutcome
  <1> QED
    BY <1>3, <1>4, <1>5, Zenon

LEMMA RunGrantedType ==
  ASSUME TypeInv, NEW p \in Procs, RunGranted(p)
  PROVE  TypeInv'
  <1>1. pc[p] = "grant" /\ Target(p) \in Cells
    BY TargetType DEF RunGranted
  <1>2. PICK tool \in Outcome \cup {"none"} :
          /\ body' = [body EXCEPT ![Target(p)] = @ + (IF tool = "ran" THEN 1 ELSE 0)]
          /\ \/ /\ Goto(p, "finish")
                /\ \E word \in StepOutcome, target \in Keys \cup {End} :
                     CalledTool(p, tool, word, target)
             \/ Leave(p)
    BY GrantedOutcomes, Zenon
  <1>3. pc' \in [Procs -> Points] /\ job' \in [Procs -> Jobs] /\ ServesRun'
    BY <1>1, <1>2, ToolJobType, LeaveType DEF CalledTool
  <1>4. body' \in [Cells -> Nat]
    <2>1. body[Target(p)] + (IF tool = "ran" THEN 1 ELSE 0) \in Nat
      BY <1>1 DEF TypeInv, TypeOK
    <2> QED
      BY <1>2, <2>1 DEF TypeInv, TypeOK
  <1> QED
    BY <1>3, <1>4 DEF RunGranted, TypeInv, TypeOK

\* What an agent run became, and what was decided of an approval step.
LEMMA ResumeAgentStepType ==
  ASSUME TypeInv, NEW p \in Procs, ResumeAgentStep(p)
  PROVE  TypeInv'
  <1>1. pc[p] = "resume" /\ job[p].key \in Keys /\ UNCHANGED durable
    BY TargetType DEF ResumeAgentStep
  <1>2. \/ Leave(p)
        \/ /\ Goto(p, "finish")
           /\ \E word \in StepOutcome, target \in Keys \cup {End} : Outcomes(p, word, target)
    BY <1>1, Targets DEF ResumeAgentStep, StepOutcome
  <1> QED
    BY <1>1, <1>2, NoteType, QuitType

LEMMA ResumeApprovalType ==
  ASSUME TypeInv, NEW p \in Procs, ResumeApproval(p)
  PROVE  TypeInv'
  <1>1. pc[p] = "resume" /\ job[p].key \in Keys /\ UNCHANGED durable /\ Goto(p, "finish")
    BY TargetType DEF ResumeApproval
  <1>2. \E word \in StepOutcome, target \in Keys \cup {End} : Outcomes(p, word, target)
    BY <1>1, Targets DEF ResumeApproval, StepOutcome
  <1> QED
    BY <1>1, <1>2, NoteType

\* Cancellation of a run (WorkflowExecutionService.cancel_run).
LEMMA CancelRunType ==
  ASSUME TypeInv, NEW r \in Runs, CancelRun(r)
  PROVE  TypeInv'
  <1> DEFINE row == [run[r] EXCEPT !.status = "cancelled", !.error = "workflow_run_cancelled"]
  <1>1. row \in Rows
    BY RowUpdate, ZenonT(60) DEF TypeInv, TypeOK, RunStatus, Terminal, RunError
  <1>2. run' = [run EXCEPT ![r] = row]
    BY DEF CancelRun, TypeInv, TypeOK
  <1>3. run' \in [Runs -> Rows]
    BY <1>1, <1>2 DEF TypeInv, TypeOK
  <1>4. approval' \in [Cells -> ApprovalStatus] /\ step' \in [Cells -> StepStatus]
    BY DEF CancelRun, TypeInv, TypeOK, ApprovalStatus, StepStatus, Terminal
  <1> QED
    BY <1>3, <1>4, SMTT(40) DEF CancelRun, TypeInv, TypeOK, ServesRun

\* Cancellation of the agent run behind a step (AgentExecutionService.cancel).
LEMMA CancelAgentType ==
  ASSUME TypeInv, NEW c \in Cells, CancelAgent(c)
  PROVE  TypeInv'
  BY DEF CancelAgent, TypeInv, TypeOK, ServesRun, AgentStatus, ApprovalStatus

\* The expiry of overdue approvals (expire_due).
LEMMA ExpireDueType ==
  ASSUME TypeInv, NEW overdue \in SUBSET {c \in Cells : approval[c] = "pending"},
         ExpireDue(overdue)
  PROVE  TypeInv'
  <1>1. \A r \in Runs : [run[r] EXCEPT !.status = "failed", !.error = "approval_expired"] \in Rows
    BY RowUpdate, ZenonT(60) DEF TypeInv, TypeOK, RunStatus, Terminal, RunError
  <1>2. run' \in [Runs -> Rows]
    BY <1>1 DEF ExpireDue, TypeInv, TypeOK
  <1>3. /\ approval' \in [Cells -> ApprovalStatus] /\ step' \in [Cells -> StepStatus]
        /\ agent' \in [Cells -> AgentStatus]
    BY DEF ExpireDue, TypeInv, TypeOK, ApprovalStatus, StepStatus, Terminal, AgentStatus
  <1> QED
    BY <1>2, <1>3 DEF ExpireDue, TypeInv, TypeOK, ServesRun

\* The passing of time.
LEMMA AgeType ==
  ASSUME TypeInv, NEW r \in Runs, Age(r)
  PROVE  TypeInv'
  BY DEF Age, TypeInv, TypeOK, ServesRun

\* Every step keeps every variable well typed.
LEMMA TypeStep == TypeInv /\ [Next]_vars => TypeInv'
  <1> SUFFICES ASSUME TypeInv, [Next]_vars PROVE TypeInv'
    OBVIOUS
  <1>1. ASSUME NEW p \in Procs, Request(p) PROVE TypeInv'
    BY <1>1, CreateType, DecideType DEF Request
  <1>2. ASSUME NEW p \in Procs, Drive(p) PROVE TypeInv'
    <2>1. CASE Succeed(p)
      BY <2>1, EndRunType DEF Succeed, RunStatus, Terminal, RunError
    <2>2. CASE ReachLimit(p)
      BY <2>2, EndRunType DEF ReachLimit, RunStatus, Terminal, RunError
    <2>3. CASE ExecuteCondition(p)
      <3>1. pc[p] = "execute" /\ UNCHANGED durable /\ Goto(p, "finish") /\ job[p].key \in Keys
        BY <2>3, TargetType DEF ExecuteCondition
      <3>2. \E word \in StepOutcome, target \in Keys \cup {End} : Outcomes(p, word, target)
        BY <2>3, <3>1, Targets DEF ExecuteCondition, StepOutcome
      <3> QED
        BY <3>1, <3>2, NoteType
    <2>4. CASE ExecuteApproval(p)
      BY <2>4, NoteType DEF ExecuteApproval, StepOutcome
    <2> QED
      BY <1>2, <2>1, <2>2, <2>3, <2>4, ClaimRunType, BeginStepType, ExecuteToolType,
         ExecuteAgentType, ViewAgentType, FinishStepType DEF Drive
  <1>3. ASSUME NEW p \in Procs, Resume(p) PROVE TypeInv'
    <2>1. CASE RaiseGranted(p)
      BY <2>1, QuitType DEF RaiseGranted
    <2> QED
      BY <1>3, <2>1, ResumeAgentRunType, ClaimResumeType, ClaimToolType, RunGrantedType,
         ResumeAgentStepType, ResumeApprovalType DEF Resume
  <1>4. CASE Environment
    <2>1. ASSUME NEW p \in Procs, Crash(p) PROVE TypeInv'
      BY <2>1, QuitType DEF Crash
    <2> QED
      BY <1>4, <2>1, CancelRunType, AgeType, CancelAgentType, ExpireDueType DEF Environment
  <1>5. CASE UNCHANGED vars
    BY <1>5 DEF vars, TypeInv, TypeOK, ServesRun
  <1> QED
    BY <1>1, <1>2, <1>3, <1>4, <1>5 DEF Next

\* In every reachable state every variable has its type: every row a state the
\* schema allows, every request a point of the code.
THEOREM TypeCorrect == Spec => []TypeOK
  <1>1. TypeInv => TypeOK
    BY DEF TypeInv
  <1> QED
    BY <1>1, InitType, TypeStep, PTL DEF Spec

-----------------------------------------------------------------------------
(* One driver.  A run is held by the request that started or resumed it,   *)
(* from its insertion or its claim to its pause or its end.                *)

HoldPoints == {"start"} \cup DrivePoints \cup ResumePoints

\* What the row of a run may say to the request that holds it: a sweep may have
\* failed it, nothing else.
StatusFits(point, status) ==
  /\ point = "start" => status \in {"pending", "failed"}
  /\ point \in DrivePoints \cup ResumePoints => status \in {"running", "failed"}

\* No request but p holds run r.
Free(p, r) == \A q \in Procs \ {p} : pc[q] \in HoldPoints => job[q].run # r

DriverInv ==
  \A p \in Procs : pc[p] \in HoldPoints =>
    StatusFits(pc[p], run[job[p].run].status) /\ Free(p, job[p].run)

Inv1 == TypeInv /\ DriverInv

\* The other requests are where they were.
Others(p) == \A q \in Procs \ {p} : pc'[q] = pc[q] /\ job'[q] = job[q]

\* A step of request p moves no other request.
LEMMA OthersStay ==
  ASSUME TypeInv, NEW p \in Procs, Request(p) \/ Drive(p) \/ Resume(p) \/ Crash(p)
  PROVE  Others(p)
  <1>1. pc \in [Procs -> Points] /\ job \in [Procs -> Jobs]
    BY DEF TypeInv, TypeOK
  <1>2. ASSUME NEW point, Goto(p, point) PROVE \A q \in Procs \ {p} : pc'[q] = pc[q]
    BY <1>1, <1>2 DEF Goto
  <1>3. ASSUME NEW word, NEW target, Outcomes(p, word, target)
        PROVE  \A q \in Procs \ {p} : job'[q] = job[q]
    BY <1>1, <1>3 DEF Outcomes
  <1>4. Leave(p) => Others(p)
    BY <1>1, <1>2 DEF Leave, Others
  <1>5. CASE Request(p)
    BY <1>1, <1>2, <1>5 DEF Request, Create, Decide, Others
  <1>6. CASE Drive(p)
    <2>1. CASE ClaimRun(p)
      BY <1>1, <1>2, <1>4, <2>1 DEF ClaimRun, Others
    <2>2. CASE Succeed(p) \/ ReachLimit(p)
      BY <1>4, <2>2 DEF Succeed, ReachLimit, EndRun
    <2>3. CASE BeginStep(p)
      BY <1>1, <1>2, <1>4, <2>3 DEF BeginStep, Others
    <2>4. CASE ExecuteTool(p)
      <3>1. \E tool, word, target : CalledTool(p, tool, word, target)
        BY <2>4, ToolOutcomes
      <3> QED
        BY <1>1, <1>2, <2>4, <3>1 DEF ExecuteTool, CalledTool, Others
    <2>5. CASE ExecuteCondition(p) \/ ExecuteApproval(p)
      BY <1>2, <1>3, <2>5 DEF ExecuteCondition, ExecuteApproval, Others
    <2>6. CASE ExecuteAgent(p)
      BY <1>2, <1>3, <1>4, <2>6, AgentOutcomes DEF Others
    <2>7. CASE ViewAgent(p)
      BY <1>1, <1>2, <2>7 DEF ViewAgent, Others
    <2>8. CASE FinishStep(p)
      BY <1>1, <1>2, <1>4, <2>8 DEF FinishStep, Others
    <2> QED
      BY <1>6, <2>1, <2>2, <2>3, <2>4, <2>5, <2>6, <2>7, <2>8 DEF Drive
  <1>7. CASE Resume(p)
    <2>1. CASE ResumeAgentRun(p)
      BY <1>2, <1>4, <2>1, AgentAnswers DEF Others
    <2>2. CASE ClaimResume(p)
      BY <1>1, <1>2, <1>4, <2>2 DEF ClaimResume, Others
    <2>3. CASE ClaimTool(p)
      BY <1>2, <1>3, <2>3 DEF ClaimTool, Others
    <2>4. CASE RunGranted(p)
      <3>1. Leave(p) \/ (Goto(p, "finish") /\ \E tool, word, target : CalledTool(p, tool, word, target))
        BY <2>4, GrantedOutcomes
      <3> QED
        BY <1>1, <1>2, <1>4, <3>1 DEF CalledTool, Others
    <2>5. CASE RaiseGranted(p)
      BY <1>4, <2>5 DEF RaiseGranted
    <2>6. CASE ResumeAgentStep(p) \/ ResumeApproval(p)
      BY <1>2, <1>3, <1>4, <2>6 DEF ResumeAgentStep, ResumeApproval, Others
    <2> QED
      BY <1>7, <2>1, <2>2, <2>3, <2>4, <2>5, <2>6 DEF Resume
  <1>8. CASE Crash(p)
    BY <1>4, <1>8 DEF Crash
  <1> QED
    BY <1>5, <1>6, <1>7, <1>8

\* A request that is served works on the same run until it answers.
LEMMA SameRun ==
  ASSUME TypeInv, NEW p \in Procs, Drive(p) \/ Resume(p), pc'[p] # "idle"
  PROVE  job'[p].run = job[p].run
  <1>1. pc \in [Procs -> Points] /\ job \in [Procs -> Jobs]
    BY DEF TypeInv, TypeOK
  <1>2. ~Leave(p)
    BY <1>1 DEF Leave, Goto
  <1>3. ASSUME NEW word, NEW target, Outcomes(p, word, target)
        PROVE  job'[p].run = job[p].run
    BY <1>1, <1>3 DEF Outcomes, Jobs
  <1>4. ASSUME NEW tool, NEW word, NEW target, CalledTool(p, tool, word, target)
        PROVE  job'[p].run = job[p].run
    BY <1>1, <1>4 DEF CalledTool, Jobs
  <1>5. CASE Drive(p)
    <2>1. CASE ClaimRun(p) \/ BeginStep(p)
      BY <1>1, <1>2, <2>1 DEF ClaimRun, BeginStep, Jobs
    <2>2. CASE Succeed(p) \/ ReachLimit(p)
      BY <1>2, <2>2 DEF Succeed, ReachLimit, EndRun
    <2>3. CASE ExecuteTool(p)
      BY <1>4, <2>3, ToolOutcomes
    <2>4. CASE ExecuteCondition(p) \/ ExecuteApproval(p)
      BY <1>3, <2>4 DEF ExecuteCondition, ExecuteApproval
    <2>5. CASE ExecuteAgent(p)
      BY <1>2, <1>3, <2>5, AgentOutcomes
    <2>6. CASE ViewAgent(p) \/ FinishStep(p)
      BY <1>1, <1>2, <2>6 DEF ViewAgent, FinishStep, Jobs
    <2> QED
      BY <1>5, <2>1, <2>2, <2>3, <2>4, <2>5, <2>6 DEF Drive
  <1>6. CASE Resume(p)
    <2>1. CASE ResumeAgentRun(p)
      BY <1>2, <2>1, AgentAnswers
    <2>2. CASE ClaimResume(p)
      BY <1>1, <1>2, <2>2 DEF ClaimResume, Jobs
    <2>3. CASE ClaimTool(p)
      BY <1>3, <2>3 DEF ClaimTool
    <2>4. CASE RunGranted(p)
      BY <1>2, <1>4, <2>4, GrantedOutcomes
    <2>5. CASE RaiseGranted(p) \/ ResumeAgentStep(p) \/ ResumeApproval(p)
      BY <1>2, <1>3, <2>5 DEF RaiseGranted, ResumeAgentStep, ResumeApproval
    <2> QED
      BY <1>6, <2>1, <2>2, <2>3, <2>4, <2>5 DEF Resume
  <1> QED
    BY <1>5, <1>6

\* A step keeps the drivers apart if the request it moves ends up alone with its run,
\* in a status that fits, and it changes the status of no run another request holds
\* but to "failed".
LEMMA DriverMove ==
  ASSUME Inv1, NEW p \in Procs, Others(p),
         pc'[p] \in HoldPoints =>
           StatusFits(pc'[p], run'[job'[p].run].status) /\ Free(p, job'[p].run),
         \A r \in Runs : \/ run'[r].status \in {run[r].status, "failed"}
                         \/ Free(p, r)
  PROVE  DriverInv'
  <1> SUFFICES ASSUME NEW q \in Procs, pc'[q] \in HoldPoints
               PROVE  /\ StatusFits(pc'[q], run'[job'[q].run].status)
                      /\ \A s \in Procs \ {q} : pc'[s] \in HoldPoints => job'[s].run # job'[q].run
    BY DEF DriverInv, Free
  <1>1. CASE q = p
    BY <1>1 DEF Free, Others
  <1>2. CASE q # p
    <2> DEFINE r == job[q].run
    <2>1. pc'[q] = pc[q] /\ job'[q] = job[q] /\ pc[q] \in HoldPoints
      BY <1>2 DEF Others
    <2>2. StatusFits(pc[q], run[r].status) /\ Free(q, r)
      BY <2>1 DEF Inv1, DriverInv
    <2>3. r \in Runs
      BY <2>1 DEF Inv1, TypeInv, ServesRun, HoldPoints, DrivePoints, ResumePoints
    <2>4. run'[r].status \in {run[r].status, "failed"}
      BY <1>2, <2>1, <2>3 DEF Free
    <2>5. StatusFits(pc[q], run'[r].status)
      BY <2>2, <2>4 DEF StatusFits
    <2>6. pc'[p] \in HoldPoints => job'[p].run # r
      BY <1>2, <2>1 DEF Free
    <2>7. \A s \in Procs \ {q} : pc'[s] \in HoldPoints => job'[s].run # r
      BY <2>1, <2>2, <2>6 DEF Free, Others
    <2> QED
      BY <2>1, <2>5, <2>7
  <1> QED
    BY <1>1, <1>2

\* Nobody holds a run that does not exist, waits or is cancelled.
LEMMA NotHeld ==
  ASSUME Inv1, NEW r \in Runs, run[r].status \in {"absent", "awaiting_approval"},
         NEW p \in Procs
  PROVE  Free(p, r)
  BY DEF Inv1, DriverInv, Free, StatusFits, HoldPoints

\* The environment moves no request and touches only runs that wait.
LEMMA DriverRest ==
  ASSUME Inv1, UNCHANGED <<pc, job>>,
         \A r \in Runs : run'[r].status = run[r].status \/ run[r].status = "awaiting_approval"
  PROVE  DriverInv'
  <1> SUFFICES ASSUME NEW q \in Procs, pc[q] \in HoldPoints
               PROVE  /\ StatusFits(pc[q], run'[job[q].run].status)
                      /\ \A s \in Procs \ {q} : pc[s] \in HoldPoints => job[s].run # job[q].run
    BY DEF DriverInv, Free
  <1>1. job[q].run \in Runs
    BY DEF Inv1, TypeInv, ServesRun, HoldPoints, DrivePoints, ResumePoints
  <1>2. StatusFits(pc[q], run[job[q].run].status) /\ Free(q, job[q].run)
    BY DEF Inv1, DriverInv
  <1>3. run[job[q].run].status # "awaiting_approval"
    BY <1>2 DEF StatusFits, HoldPoints
  <1> QED
    BY <1>1, <1>2, <1>3 DEF Free

LEMMA CreateDriver ==
  ASSUME Inv1, NEW p \in Procs, NEW r \in Runs, Create(p, r)
  PROVE  DriverInv'
  <1>1. Others(p)
    BY OthersStay DEF Inv1, Request
  <1>2. Free(p, r)
    BY NotHeld DEF Create
  <1>3. pc'[p] = "start" /\ job'[p].run = r /\ run'[r].status = "pending"
    BY DEF Create, Goto, NoJob, Inv1, TypeInv, TypeOK
  <1>4. \A q \in Runs \ {r} : run'[q].status \in {run[q].status, "failed"}
    <2>1. \A q \in Runs : run[q] \in Rows
      BY DEF Inv1, TypeInv, TypeOK
    <2> QED
      BY <2>1 DEF Create, Abandoned, Rows
  <1>5. StatusFits(pc'[p], run'[job'[p].run].status)
    BY <1>3 DEF StatusFits, DrivePoints, ResumePoints
  <1> QED
    BY <1>1, <1>2, <1>3, <1>4, <1>5, DriverMove

\* What the holder of a run knows of its row.
LEMMA HolderKnows ==
  ASSUME Inv1, NEW p \in Procs, pc[p] \in HoldPoints
  PROVE  /\ job[p].run \in Runs /\ Free(p, job[p].run)
         /\ pc[p] = "start" => run[job[p].run].status \in {"pending", "failed"}
         /\ pc[p] \in DrivePoints \cup ResumePoints =>
              run[job[p].run].status \in {"running", "failed"}
  BY DEF Inv1, DriverInv, TypeInv, ServesRun, StatusFits, HoldPoints, DrivePoints,
     ResumePoints

\* A holder that goes on, or leaves, and writes at most its own run.
LEMMA HolderMove ==
  ASSUME Inv1, NEW p \in Procs, pc[p] \in HoldPoints, Drive(p) \/ Resume(p),
         \A r \in Runs \ {job[p].run} : run'[r] = run[r],
         pc'[p] \in DrivePoints \cup ResumePoints \cup {"idle"},
         pc'[p] # "idle" => run'[job[p].run].status \in {"running", "failed"}
  PROVE  DriverInv'
  <1>1. Others(p)
    BY OthersStay DEF Inv1
  <1>2. job[p].run \in Runs /\ Free(p, job[p].run)
    BY HolderKnows
  <1>3. pc'[p] # "idle" => job'[p].run = job[p].run
    BY SameRun DEF Inv1
  <1>4. pc'[p] \in HoldPoints => StatusFits(pc'[p], run'[job'[p].run].status)
    BY <1>3 DEF StatusFits, HoldPoints, DrivePoints, ResumePoints
  <1>5. pc'[p] \in HoldPoints => Free(p, job'[p].run)
    BY <1>2, <1>3 DEF HoldPoints, DrivePoints, ResumePoints
  <1>6. \A r \in Runs : run'[r].status \in {run[r].status, "failed"} \/ Free(p, r)
    BY <1>2
  <1> QED
    BY <1>1, <1>4, <1>5, <1>6, DriverMove

\* A driver that goes on to another point, or leaves, and leaves the runs alone.
LEMMA QuietDriver ==
  ASSUME Inv1, NEW p \in Procs, pc[p] \in DrivePoints \cup ResumePoints,
         Drive(p) \/ Resume(p), UNCHANGED run,
         pc'[p] \in DrivePoints \cup ResumePoints \cup {"idle"}
  PROVE  DriverInv'
  BY HolderKnows, HolderMove DEF HoldPoints

\* A request that holds no run and takes none.
LEMMA QuietVisitor ==
  ASSUME Inv1, NEW p \in Procs, Others(p), UNCHANGED run, pc'[p] \notin HoldPoints
  PROVE  DriverInv'
  BY DriverMove

\* Where a step of a request takes it.
LEMMA GotoPoint ==
  ASSUME TypeInv, NEW p \in Procs, NEW point
  PROVE  /\ Goto(p, point) => pc'[p] = point
         /\ Leave(p) => pc'[p] = "idle"
  BY DEF Goto, Leave, TypeInv, TypeOK

LEMMA DriveDriver ==
  ASSUME Inv1, NEW p \in Procs, Drive(p)
  PROVE  DriverInv'
  <1>1. TypeInv
    BY DEF Inv1
  <1>2. CASE ClaimRun(p)
    <2>1. pc[p] = "start" /\ pc[p] \in HoldPoints /\ job[p].run \in Runs
      BY <1>2, HolderKnows DEF ClaimRun, HoldPoints
    <2>2. CASE run[job[p].run].status = "pending"
      <3>1. /\ pc'[p] = "loop" /\ run'[job[p].run].status = "running"
            /\ \A r \in Runs \ {job[p].run} : run'[r] = run[r]
        BY <1>1, <1>2, <2>1, <2>2, GotoPoint DEF ClaimRun, TypeInv, TypeOK, Rows
      <3> QED
        BY <2>1, <3>1, HolderMove DEF DrivePoints
    <2>3. CASE run[job[p].run].status # "pending"
      <3>1. pc'[p] = "idle" /\ run' = run
        BY <1>1, <1>2, <2>3, GotoPoint DEF ClaimRun
      <3> QED
        BY <2>1, <3>1, HolderMove
    <2> QED
      BY <2>2, <2>3
  <1>3. CASE Succeed(p) \/ ReachLimit(p)
    <2>1. pc[p] \in HoldPoints
      BY <1>3 DEF Succeed, ReachLimit, HoldPoints, DrivePoints
    <2>2. pc'[p] = "idle" /\ \A r \in Runs \ {job[p].run} : run'[r] = run[r]
      BY <1>1, <1>3, GotoPoint DEF Succeed, ReachLimit, EndRun, TypeInv, TypeOK
    <2> QED
      BY <2>1, <2>2, HolderMove
  <1>4. CASE BeginStep(p)
    <2>1. pc[p] = "loop" /\ UNCHANGED run /\ pc'[p] \in {"execute", "idle"}
      BY <1>1, <1>4, GotoPoint DEF BeginStep
    <2> QED
      BY <2>1, QuietDriver DEF DrivePoints
  <1>5. CASE ExecuteTool(p) \/ ExecuteCondition(p) \/ ExecuteApproval(p) \/ ViewAgent(p)
    <2>1. pc[p] \in {"execute", "view"} /\ UNCHANGED run /\ pc'[p] = "finish"
      BY <1>1, <1>5, GotoPoint
      DEF ExecuteTool, ExecuteCondition, ExecuteApproval, ViewAgent, durable
    <2> QED
      BY <2>1, QuietDriver DEF DrivePoints
  <1>6. CASE ExecuteAgent(p)
    <2>1. pc[p] = "execute" /\ UNCHANGED run
      BY <1>6 DEF ExecuteAgent
    <2>2. pc'[p] \in {"finish", "view", "idle"}
      BY <1>1, <1>6, GotoPoint, AgentOutcomes
    <2> QED
      BY <2>1, <2>2, QuietDriver DEF DrivePoints
  <1>7. CASE FinishStep(p)
    <2>1. /\ pc[p] = "finish" /\ job[p].run \in Runs
          /\ run[job[p].run].status \in {"running", "failed"} /\ job[p] \in Jobs
      BY <1>1, <1>7, HolderKnows, TargetType
      DEF FinishStep, HoldPoints, DrivePoints
    <2>2. run' = [run EXCEPT ![job[p].run] = FinishedRow(p)]
      BY <1>7 DEF FinishStep, FinishedRow, Inv1, TypeInv, TypeOK
    <2>3. \A r \in Runs \ {job[p].run} : run'[r] = run[r]
      BY <1>1, <2>2 DEF TypeInv, TypeOK
    <2>4. CASE GoesOn(job[p].outcome)
      <3>1. pc'[p] = "loop"
        BY <1>1, <1>7, <2>4, GotoPoint DEF FinishStep
      <3>2. run'[job[p].run].status = run[job[p].run].status
        BY <1>1, <2>1, <2>2, <2>4 DEF FinishedRow, GoesOn, TypeInv, TypeOK
      <3> QED
        BY <2>1, <2>3, <3>1, <3>2, HolderMove DEF HoldPoints, DrivePoints
    <2>5. CASE ~GoesOn(job[p].outcome)
      <3>1. pc'[p] = "idle"
        BY <1>1, <1>7, <2>5, GotoPoint DEF FinishStep
      <3> QED
        BY <2>1, <2>3, <3>1, HolderMove DEF HoldPoints, DrivePoints
    <2> QED
      BY <2>4, <2>5
  <1> QED
    BY <1>2, <1>3, <1>4, <1>5, <1>6, <1>7 DEF Drive

LEMMA ResumeDriver ==
  ASSUME Inv1, NEW p \in Procs, Resume(p)
  PROVE  DriverInv'
  <1>1. TypeInv /\ Others(p)
    BY OthersStay DEF Inv1
  <1>2. CASE ResumeAgentRun(p)
    <2>1. UNCHANGED run /\ pc'[p] \in {"workflow", "idle"}
      BY <1>1, <1>2, GotoPoint, AgentAnswers DEF ResumeAgentRun
    <2> QED
      BY <1>1, <2>1, QuietVisitor DEF HoldPoints, DrivePoints, ResumePoints
  <1>3. CASE ClaimResume(p)
    <2> DEFINE r == job[p].run
               taken == /\ job[p].stamped /\ run[r].status = "awaiting_approval"
                        /\ step[Target(p)] = "awaiting_approval"
    <2>1. r \in Runs /\ pc[p] # "idle"
      BY <1>1, <1>3, TargetType DEF ClaimResume
    <2>2. CASE taken
      <3>1. /\ pc'[p] = "resume" /\ run'[r].status = "running"
            /\ \A q \in Runs \ {r} : run'[q] = run[q]
        BY <1>1, <1>3, <2>1, <2>2, GotoPoint DEF ClaimResume, TypeInv, TypeOK, Rows
      <3>2. Free(p, r)
        BY <2>1, <2>2, NotHeld
      <3>3. job'[p].run = r
        BY <1>1, <1>3, <3>1, SameRun
      <3>4. StatusFits("resume", "running")
        BY DEF StatusFits
      <3>5. \A q \in Runs : run'[q].status \in {run[q].status, "failed"} \/ Free(p, q)
        BY <3>1, <3>2
      <3> QED
        BY <1>1, <3>1, <3>2, <3>3, <3>4, <3>5, DriverMove
    <2>3. CASE ~taken
      <3>1. pc'[p] = "idle" /\ run' = run
        BY <1>1, <1>3, <2>3, GotoPoint DEF ClaimResume
      <3> QED
        BY <1>1, <3>1, QuietVisitor DEF HoldPoints, DrivePoints, ResumePoints
    <2> QED
      BY <2>2, <2>3
  <1>4. CASE ClaimTool(p) \/ RaiseGranted(p) \/ ResumeAgentStep(p) \/ ResumeApproval(p)
    <2>1. /\ pc[p] \in {"resume", "grant"} /\ UNCHANGED run
          /\ pc'[p] \in {"finish", "grant", "idle"}
      BY <1>1, <1>4, GotoPoint
      DEF ClaimTool, RaiseGranted, ResumeAgentStep, ResumeApproval, durable
    <2> QED
      BY <2>1, QuietDriver DEF DrivePoints, ResumePoints
  <1>5. CASE RunGranted(p)
    <2>1. pc[p] = "grant" /\ UNCHANGED run
      BY <1>5 DEF RunGranted
    <2>2. pc'[p] \in {"finish", "idle"}
      BY <1>1, <1>5, GotoPoint, GrantedOutcomes
    <2> QED
      BY <2>1, <2>2, QuietDriver DEF DrivePoints, ResumePoints
  <1> QED
    BY <1>2, <1>3, <1>4, <1>5 DEF Resume

LEMMA EnvironmentDriver ==
  ASSUME Inv1, Environment
  PROVE  DriverInv'
  <1>1. ASSUME NEW r \in Runs, CancelRun(r) \/ Age(r) PROVE DriverInv'
    <2>1. \A q \in Runs : run'[q].status = run[q].status \/ run[q].status = "awaiting_approval"
      BY <1>1 DEF CancelRun, Age, Inv1, TypeInv, TypeOK
    <2> QED
      BY <1>1, <2>1, DriverRest DEF CancelRun, Age
  <1>2. ASSUME NEW c \in Cells, CancelAgent(c) PROVE DriverInv'
    BY <1>2, DriverRest DEF CancelAgent
  <1>3. ASSUME NEW overdue \in SUBSET Cells, ExpireDue(overdue) PROVE DriverInv'
    <2>1. \A q \in Runs : run'[q].status = run[q].status \/ run[q].status = "awaiting_approval"
      BY <1>3 DEF ExpireDue
    <2> QED
      BY <1>3, <2>1, DriverRest DEF ExpireDue
  <1>4. ASSUME NEW p \in Procs, Crash(p) PROVE DriverInv'
    <2>1. Others(p) /\ UNCHANGED run /\ pc'[p] = "idle"
      BY <1>4, OthersStay, GotoPoint DEF Inv1, Crash, durable
    <2> QED
      BY <2>1, QuietVisitor DEF HoldPoints, DrivePoints, ResumePoints
  <1> QED
    BY <1>1, <1>2, <1>3, <1>4 DEF Environment

\* Every step keeps the drivers apart.
LEMMA DriverStep == Inv1 /\ [Next]_vars => Inv1'
  <1> SUFFICES ASSUME Inv1, [Next]_vars PROVE DriverInv'
    BY TypeStep DEF Inv1
  <1>1. ASSUME NEW p \in Procs, NEW c \in Cells, NEW approve \in BOOLEAN,
               Decide(p, c, approve)
        PROVE  DriverInv'
    <2>1. Others(p) /\ UNCHANGED run /\ pc'[p] = "decided"
      BY <1>1, OthersStay, GotoPoint DEF Inv1, Request, Decide
    <2> QED
      BY <2>1, QuietVisitor DEF HoldPoints, DrivePoints, ResumePoints
  <1>2. CASE UNCHANGED vars
    BY <1>2, DriverRest DEF vars
  <1> QED
    BY <1>1, <1>2, CreateDriver, DriveDriver, ResumeDriver, EnvironmentDriver
    DEF Next, Request

LEMMA InitDriver == Init => Inv1
  BY InitType DEF Init, Inv1, DriverInv, HoldPoints, DrivePoints, ResumePoints

\* "A run is driven by one request at a time" (workflows/engine.py): the two claims
\* let one request in, and only the holder of a run makes it wait again.
THEOREM OneDriverAtATime == Spec => []OneDriver
  <1>1. Inv1 => OneDriver
    <2> SUFFICES ASSUME Inv1, NEW r \in Runs, NEW p \in Procs, NEW q \in Procs,
                        Driving(p, r), Driving(q, r)
                 PROVE  p = q
      BY DEF OneDriver
    <2>1. pc[p] \in HoldPoints /\ pc[q] \in HoldPoints /\ job[p].run = job[q].run
      BY DEF Driving, HoldPoints
    <2>2. Free(p, job[p].run)
      BY <2>1, HolderKnows
    <2> QED
      BY <2>1, <2>2 DEF Free
  <1> QED
    BY <1>1, InitDriver, DriverStep, PTL DEF Spec

-----------------------------------------------------------------------------
(* A step runs once, and a gated one under its approval.                   *)

\* A step nobody began left no trace; a body ran at most once; the body of a gated
\* step ran under an approval, in an execution that is recorded.
CellOK(c) ==
  /\ step[c] = "absent" => body[c] = 0 /\ approval[c] = "none"
  /\ body[c] <= 1
  /\ Kind[c[2]] = "gated" /\ body[c] > 0 => approval[c] = "approved" /\ exec[c].executed

\* A request that took a step holds it fresh until its question is put; one that
\* carries a decision carries the recorded one; a grant is claimed and unused.
RequestOK(p) ==
  LET c == Target(p)
  IN /\ pc[p] \in {"execute", "view", "finish", "resume", "grant"} => step[c] # "absent"
     /\ pc[p] \in {"decided", "workflow"} => approval[c] # "none"
     /\ pc[p] = "view" => KindOf(p) = "agent"
     /\ pc[p] = "execute" => body[c] = 0 /\ approval[c] = "none"
     /\ pc[p] = "finish" /\ KindOf(p) = "gated" /\ job[p].outcome = "awaiting_approval" =>
          approval[c] = "none"
     /\ KindOf(p) = "gated" /\ job[p].approve
        /\ pc[p] \in {"decided", "workflow", "resume", "grant"} => approval[c] = "approved"
     /\ pc[p] = "grant" =>
          KindOf(p) = "gated" /\ (job[p].approve => body[c] = 0 /\ exec[c].executed)

StepInv == (\A c \in Cells : CellOK(c)) /\ (\A p \in Procs : RequestOK(p))

Inv2 == Inv1 /\ StepInv

\* What no step takes from a cell: a row, a question, an approval of a gated step, a
\* recorded execution.
Kept(c) ==
  /\ step[c] # "absent" => step'[c] # "absent"
  /\ approval[c] # "none" => approval'[c] # "none"
  /\ Kind[c[2]] = "gated" /\ approval[c] = "approved" => approval'[c] = "approved"
  /\ exec[c].executed => exec'[c].executed

\* What only the holder of the run does to a cell: run its body, put its question.
Still(c) ==
  /\ body'[c] = body[c]
  /\ approval[c] = "none" => approval'[c] = "none"

\* A request that did not move keeps what it knows while nobody takes it away.
LEMMA StayOK ==
  ASSUME TypeInv, NEW q \in Procs, RequestOK(q), pc'[q] = pc[q], job'[q] = job[q],
         pc[q] # "idle" => Kept(Target(q)),
         pc[q] \in HoldPoints => Still(Target(q))
  PROVE  RequestOK(q)'
  <1>1. /\ pc[q] \in {"execute", "finish", "grant"} => Still(Target(q))
        /\ pc[q] # "idle" => Kept(Target(q))
    BY DEF HoldPoints, DrivePoints, ResumePoints
  <1>2. Target(q)' = Target(q) /\ KindOf(q)' = KindOf(q) /\ KindOf(q) = Kind[Target(q)[2]]
    BY DEF Target, KindOf
  <1> QED
    BY <1>1, <1>2 DEF RequestOK, Kept, Still

\* The requests that did not move keep what they know.
LEMMA OthersOK ==
  ASSUME Inv2, NEW p \in Procs, Others(p), \A c \in Cells : Kept(c),
         \A c \in Cells : Still(c) \/ (pc[p] \in HoldPoints /\ c = Target(p))
  PROVE  \A q \in Procs \ {p} : RequestOK(q)'
  <1> SUFFICES ASSUME NEW q \in Procs \ {p} PROVE RequestOK(q)'
    OBVIOUS
  <1>1. TypeInv /\ RequestOK(q) /\ pc'[q] = pc[q] /\ job'[q] = job[q]
    BY DEF Inv2, Inv1, StepInv, Others
  <1>2. pc[q] # "idle" => Target(q) \in Cells
    BY <1>1, TargetType
  <1>3. pc[q] \in HoldPoints => Still(Target(q))
    <2>1. SUFFICES ASSUME pc[q] \in HoldPoints, pc[p] \in HoldPoints, Target(q) = Target(p)
                   PROVE  FALSE
      BY <1>2 DEF HoldPoints, DrivePoints, ResumePoints
    <2>2. job[p].run = job[q].run
      BY <2>1 DEF Target
    <2>3. Free(p, job[p].run)
      BY <2>1, HolderKnows DEF Inv2
    <2> QED
      BY <2>1, <2>2, <2>3 DEF Free
  <1> QED
    BY <1>1, <1>2, <1>3, StayOK

\* A step keeps StepInv if it keeps the cells and the request it moves.
LEMMA StepOfRequest ==
  ASSUME Inv2, NEW p \in Procs, Others(p), RequestOK(p)',
         \A c \in Cells : Kept(c) /\ CellOK(c)',
         \A c \in Cells : Still(c) \/ (pc[p] \in HoldPoints /\ c = Target(p))
  PROVE  StepInv'
  <1>1. \A q \in Procs \ {p} : RequestOK(q)'
    BY OthersOK
  <1> QED
    BY <1>1 DEF StepInv

\* A step of the environment, if it keeps the cells.
LEMMA StepOfOthers ==
  ASSUME Inv2, UNCHANGED <<pc, job>>, \A c \in Cells : Kept(c) /\ Still(c) /\ CellOK(c)'
  PROVE  StepInv'
  <1> SUFFICES ASSUME NEW q \in Procs PROVE RequestOK(q)'
    BY DEF StepInv
  <1>1. TypeInv /\ RequestOK(q) /\ pc'[q] = pc[q] /\ job'[q] = job[q]
    BY DEF Inv2, Inv1, StepInv
  <1>2. pc[q] # "idle" => Target(q) \in Cells
    BY <1>1, TargetType
  <1> QED
    BY <1>1, <1>2, StayOK DEF HoldPoints, DrivePoints, ResumePoints

\* A step that writes no cell.
LEMMA QuietCells ==
  ASSUME Inv2, UNCHANGED <<step, approval, exec, body>>
  PROVE  \A c \in Cells : Kept(c) /\ Still(c) /\ CellOK(c)'
  BY DEF Inv2, StepInv, CellOK, Kept, Still

LEMMA QuietStep ==
  ASSUME Inv2, NEW p \in Procs, Others(p), UNCHANGED <<step, approval, exec, body>>,
         RequestOK(p)'
  PROVE  StepInv'
  BY QuietCells, StepOfRequest

\* Between two steps, and when it is gone, a request knows nothing.
LEMMA Unbound ==
  ASSUME NEW p \in Procs, pc'[p] \in {"idle", "start", "loop"}
  PROVE  RequestOK(p)'
  BY DEF RequestOK

\* What the invariants say of a request that is served, and of its cell.
LEMMA Knows ==
  ASSUME Inv2, NEW p \in Procs, pc[p] # "idle"
  PROVE  /\ TypeInv /\ RequestOK(p) /\ CellOK(Target(p)) /\ Target(p) \in Cells
         /\ job[p] \in Jobs /\ Kind[Target(p)[2]] = KindOf(p)
  BY TargetType DEF Inv2, Inv1, StepInv, Target, KindOf

\* Noting an outcome does not move the request to another step.
LEMMA NotedTarget ==
  ASSUME TypeInv, NEW p \in Procs, NEW word, NEW target, Outcomes(p, word, target)
  PROVE  /\ Target(p)' = Target(p) /\ KindOf(p)' = KindOf(p)
         /\ job'[p].approve = job[p].approve /\ job'[p].outcome = word
  BY DEF Outcomes, Target, KindOf, TypeInv, TypeOK, Jobs

LEMMA CalledTarget ==
  ASSUME TypeInv, NEW p \in Procs, NEW tool, NEW word, NEW target,
         CalledTool(p, tool, word, target)
  PROVE  /\ Target(p)' = Target(p) /\ KindOf(p)' = KindOf(p)
         /\ job'[p].approve = job[p].approve /\ job'[p].outcome = word
  BY DEF CalledTool, Target, KindOf, TypeInv, TypeOK, Jobs

\* A handler that writes no row and notes an outcome of a step that is not gated, or
\* does not put its question, leads to the commit of the step.
LEMMA NotedStep ==
  ASSUME Inv2, NEW p \in Procs, pc[p] \in {"execute", "resume"}, Others(p),
         UNCHANGED durable, Goto(p, "finish"),
         NEW word, NEW target, Outcomes(p, word, target),
         KindOf(p) # "gated" \/ word # "awaiting_approval"
  PROVE  StepInv'
  <1>1. /\ TypeInv /\ step[Target(p)] # "absent" /\ pc'[p] = "finish"
        /\ UNCHANGED <<step, approval, exec, body>>
    BY Knows, GotoPoint DEF RequestOK, durable
  <1>2. RequestOK(p)'
    BY <1>1, NotedTarget DEF RequestOK
  <1> QED
    BY <1>1, <1>2, QuietStep

\* A request that leaves and writes no cell.
LEMMA LeftStep ==
  ASSUME Inv2, NEW p \in Procs, Others(p), Leave(p),
         UNCHANGED <<step, approval, exec, body>>
  PROVE  StepInv'
  <1>1. pc'[p] = "idle"
    BY GotoPoint DEF Inv2, Inv1
  <1> QED
    BY <1>1, Unbound, QuietStep

\* A step is taken when it left no trace (WorkflowStepRunRepository.begin).
LEMMA BeginStepOK ==
  ASSUME Inv2, NEW p \in Procs, BeginStep(p)
  PROVE  StepInv'
  <1> DEFINE c == <<job[p].run, job[p].next>>
  <1>1. TypeInv /\ Others(p)
    BY OthersStay DEF Inv2, Inv1, Drive
  <1>2. CASE step[c] = "absent"
    <2>1. c \in Cells
      BY <1>1, TargetType DEF BeginStep, Cells, Jobs
    <2>2. body[c] = 0 /\ approval[c] = "none"
      BY <1>2, <2>1 DEF Inv2, StepInv, CellOK
    <2>3. step' = [step EXCEPT ![c] = "running"] /\ UNCHANGED <<approval, exec, body>>
      BY <1>2 DEF BeginStep
    <2>4. pc'[p] = "execute" /\ Target(p)' = c
      BY <1>1, <1>2, GotoPoint DEF BeginStep, Target, TypeInv, TypeOK, Jobs
    <2>5. \A d \in Cells : Kept(d) /\ Still(d) /\ CellOK(d)'
      BY <1>1, <2>3 DEF Kept, Still, CellOK, Inv2, StepInv, TypeInv, TypeOK
    <2>6. RequestOK(p)'
      BY <1>1, <2>1, <2>2, <2>3, <2>4 DEF RequestOK, TypeInv, TypeOK
    <2> QED
      BY <1>1, <2>5, <2>6, StepOfRequest
  <1>3. CASE step[c] # "absent"
    BY <1>1, <1>3, LeftStep DEF BeginStep
  <1> QED
    BY <1>2, <1>3

\* A first call runs the body of a plain tool, once.
LEMMA ExecuteToolOK ==
  ASSUME Inv2, NEW p \in Procs, ExecuteTool(p)
  PROVE  StepInv'
  <1> DEFINE c == Target(p)
  <1>1. /\ pc[p] = "execute" /\ TypeInv /\ Others(p) /\ pc'[p] = "finish"
        /\ UNCHANGED <<step, approval, exec>>
    BY OthersStay, GotoPoint DEF Inv2, Inv1, Drive, ExecuteTool
  <1>2. /\ c \in Cells /\ Kind[c[2]] = KindOf(p) /\ CellOK(c)
        /\ step[c] # "absent" /\ body[c] = 0 /\ approval[c] = "none"
    BY <1>1, Knows DEF RequestOK
  <1>3. PICK tool, word, target :
          CalledTool(p, tool, word, target) /\ (KindOf(p) = "gated" => tool # "ran")
    BY <1>1, ToolOutcomes
  <1>4. /\ \A d \in Cells : d # c => body'[d] = body[d]
        /\ body'[c] \in {0, 1} /\ (KindOf(p) = "gated" => body'[c] = 0)
    BY <1>1, <1>2, <1>3 DEF CalledTool, TypeInv, TypeOK
  <1>5. \A d \in Cells : Kept(d) /\ CellOK(d)' /\ (Still(d) \/ d = c)
    BY <1>1, <1>2, <1>4 DEF Kept, Still, CellOK, Inv2, StepInv
  <1>6. RequestOK(p)'
    BY <1>1, <1>2, <1>3, CalledTarget DEF RequestOK
  <1> QED
    BY <1>1, <1>5, <1>6, StepOfRequest DEF HoldPoints, DrivePoints

\* Putting a question for a step that is not gated, by the one who may.
LEMMA PutCell ==
  ASSUME Inv2, NEW c \in Cells, Put(c), Kind[c[2]] # "gated", step[c] # "absent",
         UNCHANGED <<step, exec, body>>
  PROVE  /\ \A d \in Cells : Kept(d) /\ CellOK(d)' /\ (Still(d) \/ d = c)
         /\ approval'[c] = "pending"
  BY DEF Put, Kept, Still, CellOK, Inv2, Inv1, StepInv, TypeInv, TypeOK

LEMMA ExecuteAgentOK ==
  ASSUME Inv2, NEW p \in Procs, ExecuteAgent(p)
  PROVE  StepInv'
  <1> DEFINE c == Target(p)
  <1>1. /\ pc[p] = "execute" /\ TypeInv /\ Others(p) /\ KindOf(p) = "agent"
        /\ UNCHANGED <<run, stale, step, exec, stamped, body>>
    BY OthersStay DEF Inv2, Inv1, Drive, ExecuteAgent
  <1>2. c \in Cells /\ Kind[c[2]] = "agent" /\ step[c] # "absent"
    BY <1>1, Knows DEF RequestOK
  <1>3. CASE /\ \E word, target : Outcomes(p, word, target)
             /\ Goto(p, "finish") /\ UNCHANGED <<approval, asks>>
    <2>1. pc'[p] = "finish" /\ Target(p)' = c /\ KindOf(p)' = "agent"
      BY <1>1, <1>3, GotoPoint, NotedTarget
    <2>2. RequestOK(p)'
      BY <1>1, <1>2, <2>1 DEF RequestOK
    <2> QED
      BY <1>1, <1>3, <2>2, QuietStep
  <1>4. CASE Put(c) /\ Goto(p, "view") /\ UNCHANGED job
    <2>1. pc'[p] = "view" /\ Target(p)' = c /\ KindOf(p)' = "agent"
      BY <1>1, <1>4, GotoPoint DEF Target, KindOf
    <2>2. \A d \in Cells : Kept(d) /\ CellOK(d)' /\ (Still(d) \/ d = c)
      BY <1>1, <1>2, <1>4, PutCell
    <2>3. RequestOK(p)'
      BY <1>1, <1>2, <2>1 DEF RequestOK
    <2> QED
      BY <1>1, <2>2, <2>3, StepOfRequest DEF HoldPoints, DrivePoints
  <1>5. CASE Leave(p) /\ UNCHANGED <<approval, asks>>
    BY <1>1, <1>5, LeftStep
  <1> QED
    BY <1>3, <1>4, <1>5, AgentOutcomes

\* The engine is shown the paused agent.
LEMMA ViewAgentOK ==
  ASSUME Inv2, NEW p \in Procs, ViewAgent(p)
  PROVE  StepInv'
  <1>1. /\ pc[p] = "view" /\ TypeInv /\ Others(p) /\ pc'[p] = "finish"
        /\ UNCHANGED <<step, approval, exec, body>>
    BY OthersStay, GotoPoint DEF Inv2, Inv1, Drive, ViewAgent, durable
  <1>2. step[Target(p)] # "absent" /\ KindOf(p) = "agent"
    BY <1>1, Knows DEF RequestOK
  <1>3. Target(p)' = Target(p) /\ KindOf(p)' = KindOf(p)
    BY <1>1 DEF ViewAgent, Target, KindOf, TypeInv, TypeOK, Jobs
  <1>4. RequestOK(p)'
    BY <1>1, <1>2, <1>3 DEF RequestOK
  <1> QED
    BY <1>1, <1>4, QuietStep

\* The commit of a step puts the question of a gated tool before its body ran, and
\* keeps what is recorded of the execution.
LEMMA FinishStepOK ==
  ASSUME Inv2, NEW p \in Procs, FinishStep(p)
  PROVE  StepInv'
  <1> DEFINE c == Target(p)
             asking == /\ job[p].outcome = "awaiting_approval"
                       /\ KindOf(p) \in {"gated", "approval"}
  <1>1. /\ pc[p] = "finish" /\ TypeInv /\ Others(p) /\ UNCHANGED body
        /\ step' = [step EXCEPT ![c] = job[p].outcome]
        /\ exec' = RecordedExec(p, c)
    BY OthersStay DEF Inv2, Inv1, Drive, FinishStep
  <1>2. /\ c \in Cells /\ Kind[c[2]] = KindOf(p) /\ CellOK(c) /\ job[p] \in Jobs
        /\ KindOf(p) = "gated" /\ job[p].outcome = "awaiting_approval" => approval[c] = "none"
    BY <1>1, Knows DEF RequestOK
  <1>3. \/ asking /\ approval' = [approval EXCEPT ![c] = "pending"]
        \/ approval' = approval
    BY DEF FinishStep, KindOf, Put
  <1>4. /\ \A d \in Cells : d # c => step'[d] = step[d]
        /\ step'[c] # "absent"
    BY <1>1, <1>2 DEF TypeInv, TypeOK, Jobs, StepOutcome
  <1>5. \A d \in Cells : exec[d].executed => exec'[d].executed
    BY <1>1, <1>2 DEF RecordedExec, TypeInv, TypeOK, ExecRows
  <1>6. /\ \A d \in Cells : d # c => approval'[d] = approval[d]
        /\ approval'[c] # approval[c] => approval'[c] = "pending" /\ asking
    BY <1>1, <1>2, <1>3 DEF TypeInv, TypeOK
  <1>7. approval[c] # approval'[c] /\ KindOf(p) = "gated" => approval[c] = "none" /\ body[c] = 0
    <2>1. body[c] \in Nat
      BY <1>1, <1>2 DEF TypeInv, TypeOK
    <2> QED
      BY <1>2, <1>6, <2>1 DEF CellOK
  <1>8. \A d \in Cells : Kept(d) /\ CellOK(d)' /\ (Still(d) \/ d = c)
    <2> SUFFICES ASSUME NEW d \in Cells PROVE Kept(d) /\ CellOK(d)' /\ (Still(d) \/ d = c)
      OBVIOUS
    <2>1. CellOK(d) /\ body'[d] = body[d] /\ (exec[d].executed => exec'[d].executed)
      BY <1>1, <1>5 DEF Inv2, StepInv
    <2>2. CASE d = c
      BY <1>2, <1>4, <1>6, <1>7, <2>1, <2>2 DEF Kept, CellOK
    <2>3. CASE d # c
      BY <1>4, <1>6, <2>1, <2>3 DEF Kept, CellOK, Still
    <2> QED
      BY <2>2, <2>3
  <1>9. pc'[p] \in {"loop", "idle"}
    BY <1>1, GotoPoint DEF FinishStep
  <1> QED
    BY <1>1, <1>8, <1>9, Unbound, StepOfRequest DEF HoldPoints, DrivePoints

\* A decision is recorded on an open question only.
LEMMA DecideOK ==
  ASSUME Inv2, NEW p \in Procs, NEW c \in Cells, NEW approve \in BOOLEAN,
         Decide(p, c, approve)
  PROVE  StepInv'
  <1>1. /\ TypeInv /\ Others(p) /\ pc'[p] = "decided" /\ approval[c] = "pending"
        /\ UNCHANGED <<step, exec, body>>
        /\ approval' = [approval EXCEPT ![c] = IF approve THEN "approved" ELSE "rejected"]
    BY OthersStay, GotoPoint DEF Inv2, Inv1, Request, Decide
  <1>2. /\ approval'[c] # "none" /\ (approve => approval'[c] = "approved")
        /\ \A d \in Cells : d # c => approval'[d] = approval[d]
    BY <1>1 DEF TypeInv, TypeOK
  <1>3. \A d \in Cells : Kept(d) /\ CellOK(d)' /\ Still(d)
    BY <1>1, <1>2 DEF Kept, CellOK, Still, Inv2, StepInv
  <1>4. Target(p)' = c /\ job'[p].approve = approve
    BY <1>1 DEF Decide, Target, Cells, NoJob, TypeInv, TypeOK
  <1>5. RequestOK(p)'
    BY <1>1, <1>2, <1>4 DEF RequestOK
  <1> QED
    BY <1>1, <1>3, <1>5, StepOfRequest

\* An agent that asks again asks about its own step, which is not gated.
LEMMA ResumeAgentRunOK ==
  ASSUME Inv2, NEW p \in Procs, ResumeAgentRun(p)
  PROVE  StepInv'
  <1> DEFINE c == Target(p)
  <1>1. /\ pc[p] = "decided" /\ TypeInv /\ Others(p) /\ KindOf(p) = "agent"
        /\ UNCHANGED <<run, stale, step, exec, body>>
    BY OthersStay DEF Inv2, Inv1, Resume, ResumeAgentRun
  <1>2. /\ c \in Cells /\ Kind[c[2]] = "agent" /\ step[c] # "absent"
        /\ approval[c] # "none"
    BY <1>1, Knows DEF RequestOK, CellOK
  <1>3. CASE Put(c) /\ Goto(p, "workflow") /\ UNCHANGED job
    <2>1. pc'[p] = "workflow" /\ Target(p)' = c /\ KindOf(p)' = "agent"
      BY <1>1, <1>3, GotoPoint DEF Target, KindOf
    <2>2. /\ \A d \in Cells : Kept(d) /\ CellOK(d)' /\ (Still(d) \/ d = c)
          /\ approval'[c] = "pending"
      BY <1>1, <1>2, <1>3, PutCell
    <2>3. Still(c)
      BY <1>1, <1>2 DEF Still
    <2>4. RequestOK(p)'
      BY <2>1, <2>2 DEF RequestOK
    <2> QED
      BY <1>1, <2>2, <2>3, <2>4, StepOfRequest
  <1>4. CASE Goto(p, "workflow") /\ UNCHANGED <<approval, job>>
    <2>1. pc'[p] = "workflow" /\ Target(p)' = c /\ KindOf(p)' = "agent"
      BY <1>1, <1>4, GotoPoint DEF Target, KindOf
    <2>2. RequestOK(p)'
      BY <1>2, <1>4, <2>1 DEF RequestOK
    <2> QED
      BY <1>1, <1>4, <2>2, QuietStep
  <1>5. CASE Leave(p) /\ UNCHANGED approval
    BY <1>1, <1>5, LeftStep
  <1> QED
    BY <1>3, <1>4, <1>5, AgentAnswers

\* The claims of a resume leave the decision with the request.
LEMMA ClaimResumeOK ==
  ASSUME Inv2, NEW p \in Procs, ClaimResume(p)
  PROVE  StepInv'
  <1> DEFINE c == Target(p)
             taken == /\ job[p].stamped /\ run[job[p].run].status = "awaiting_approval"
                      /\ step[c] = "awaiting_approval"
  <1>1. /\ pc[p] \in {"decided", "workflow"} /\ TypeInv /\ Others(p)
        /\ UNCHANGED <<approval, exec, body>>
    BY OthersStay DEF Inv2, Inv1, Resume, ClaimResume
  <1>2. c \in Cells /\ Kind[c[2]] = KindOf(p) /\ RequestOK(p)
    BY <1>1, Knows
  <1>3. CASE taken
    <2>1. /\ pc'[p] = "resume" /\ step' = [step EXCEPT ![c] = "running"]
          /\ Target(p)' = c /\ KindOf(p)' = KindOf(p) /\ job'[p].approve = job[p].approve
      BY <1>1, <1>3, GotoPoint
      DEF ClaimResume, Target, KindOf, TypeInv, TypeOK, Jobs
    <2>2. \A d \in Cells : Kept(d) /\ CellOK(d)' /\ Still(d)
      BY <1>1, <1>2, <1>3, <2>1 DEF Kept, CellOK, Still, Inv2, StepInv, TypeInv, TypeOK
    <2>3. RequestOK(p)'
      BY <1>1, <1>2, <2>1 DEF RequestOK, TypeInv, TypeOK
    <2> QED
      BY <1>1, <2>2, <2>3, StepOfRequest
  <1>4. CASE ~taken
    BY <1>1, <1>4, LeftStep DEF ClaimResume
  <1> QED
    BY <1>3, <1>4

\* The claim of an execution is refused once it was executed: the body behind a
\* granted claim has not run.
LEMMA ClaimToolOK ==
  ASSUME Inv2, NEW p \in Procs, ClaimTool(p)
  PROVE  StepInv'
  <1> DEFINE c == Target(p)
             lost == exec[c].outcome = "none" \/ (job[p].approve /\ exec[c].executed)
  <1>1. /\ pc[p] = "resume" /\ TypeInv /\ Others(p) /\ KindOf(p) = "gated"
        /\ UNCHANGED <<run, stale, step, approval, stamped, asks, agent, body>>
    BY OthersStay DEF Inv2, Inv1, Resume, ClaimTool
  <1>2. /\ c \in Cells /\ Kind[c[2]] = "gated" /\ RequestOK(p) /\ CellOK(c)
        /\ job[p] \in Jobs
    BY <1>1, Knows
  <1>3. CASE lost
    BY <1>1, <1>3, NotedStep DEF ClaimTool, durable
  <1>4. CASE ~lost
    <2>1. /\ exec' = [exec EXCEPT ![c].executed = @ \/ job[p].approve]
          /\ pc'[p] = "grant" /\ UNCHANGED job
      BY <1>1, <1>4, GotoPoint DEF ClaimTool
    <2>2. /\ \A d \in Cells : exec[d].executed => exec'[d].executed
          /\ job[p].approve => exec'[c].executed
      BY <1>1, <1>2, <2>1 DEF TypeInv, TypeOK, ExecRows, Jobs
    <2>3. \A d \in Cells : Kept(d) /\ CellOK(d)' /\ Still(d)
      BY <1>1, <2>2 DEF Kept, CellOK, Still, Inv2, StepInv
    <2>4. job[p].approve => body[c] = 0
      BY <1>1, <1>2, <1>4 DEF CellOK, TypeInv, TypeOK
    <2>5. Target(p)' = c /\ KindOf(p)' = "gated"
      BY <1>1, <2>1 DEF Target, KindOf
    <2>6. RequestOK(p)'
      BY <1>1, <1>2, <2>1, <2>2, <2>4, <2>5 DEF RequestOK
    <2> QED
      BY <1>1, <2>3, <2>6, StepOfRequest
  <1> QED
    BY <1>3, <1>4

\* A granted body runs under the recorded approval, in a claimed execution.
LEMMA RunGrantedOK ==
  ASSUME Inv2, NEW p \in Procs, RunGranted(p)
  PROVE  StepInv'
  <1> DEFINE c == Target(p)
  <1>1. /\ pc[p] = "grant" /\ TypeInv /\ Others(p)
        /\ UNCHANGED <<run, stale, step, exec, approval, stamped, asks, agent>>
    BY OthersStay DEF Inv2, Inv1, Resume, RunGranted
  <1>2. /\ c \in Cells /\ Kind[c[2]] = "gated" /\ step[c] # "absent" /\ CellOK(c)
        /\ job[p].approve => /\ body[c] = 0 /\ approval[c] = "approved"
                             /\ exec[c].executed
    BY <1>1, Knows DEF RequestOK
  <1>3. PICK tool :
          /\ tool = "ran" => job[p].approve
          /\ body' = [body EXCEPT ![c] = @ + (IF tool = "ran" THEN 1 ELSE 0)]
          /\ \/ Goto(p, "finish") /\ \E word, target : /\ CalledTool(p, tool, word, target)
                                                       /\ word \in {"succeeded", "failed"}
             \/ Leave(p)
    BY <1>1, GrantedOutcomes
  <1>4. /\ \A d \in Cells : d # c => body'[d] = body[d]
        /\ body'[c] = body[c] \/ (body'[c] = 1 /\ job[p].approve)
    BY <1>1, <1>2, <1>3 DEF TypeInv, TypeOK
  <1>5. \A d \in Cells : Kept(d) /\ CellOK(d)' /\ (Still(d) \/ d = c)
    BY <1>1, <1>2, <1>4 DEF Kept, Still, CellOK, Inv2, StepInv
  <1>6. RequestOK(p)'
    <2>1. CASE Leave(p)
      BY <1>1, <2>1, GotoPoint, Unbound
    <2>2. CASE /\ Goto(p, "finish")
               /\ \E word, target : /\ CalledTool(p, tool, word, target)
                                    /\ word \in {"succeeded", "failed"}
      <3>1. /\ pc'[p] = "finish" /\ Target(p)' = c
            /\ job'[p].outcome # "awaiting_approval"
        BY <1>1, <2>2, GotoPoint, CalledTarget
      <3> QED
        BY <1>1, <1>2, <3>1 DEF RequestOK
    <2> QED
      BY <1>3, <2>1, <2>2
  <1> QED
    BY <1>1, <1>5, <1>6, StepOfRequest DEF HoldPoints, ResumePoints

\* Cancellations and the expiry answer open questions only.
LEMMA SettledCells ==
  ASSUME Inv2, UNCHANGED <<exec, body>>,
         \A c \in Cells : /\ step'[c] = step[c] \/ step'[c] \in {"cancelled", "failed"}
                          /\ step[c] = "absent" => step'[c] = "absent"
                          /\ \/ approval'[c] = approval[c]
                             \/ /\ approval[c] = "pending"
                                /\ approval'[c] \in {"cancelled", "expired"}
  PROVE  \A c \in Cells : Kept(c) /\ Still(c) /\ CellOK(c)'
  BY DEF Kept, Still, CellOK, Inv2, StepInv

LEMMA EnvironmentOK ==
  ASSUME Inv2, Environment
  PROVE  StepInv'
  <1>1. TypeInv
    BY DEF Inv2, Inv1
  <1>2. ASSUME NEW r \in Runs, CancelRun(r) PROVE StepInv'
    BY <1>2, SettledCells, StepOfOthers DEF CancelRun, Questions
  <1>3. ASSUME NEW r \in Runs, Age(r) PROVE StepInv'
    BY <1>3, QuietCells, StepOfOthers DEF Age
  <1>4. ASSUME NEW c \in Cells, CancelAgent(c) PROVE StepInv'
    <2>1. \A d \in Cells : approval'[d] = approval[d]
                           \/ (approval[d] = "pending" /\ approval'[d] = "cancelled")
      BY <1>1, <1>4 DEF CancelAgent, TypeInv, TypeOK
    <2> QED
      BY <1>4, <2>1, SettledCells, StepOfOthers DEF CancelAgent
  <1>5. ASSUME NEW overdue \in SUBSET {c \in Cells : approval[c] = "pending"},
               ExpireDue(overdue)
        PROVE  StepInv'
    BY <1>5, SettledCells, StepOfOthers DEF ExpireDue
  <1>6. ASSUME NEW p \in Procs, Crash(p) PROVE StepInv'
    BY <1>1, <1>6, OthersStay, LeftStep DEF Crash, durable
  <1> QED
    BY <1>2, <1>3, <1>4, <1>5, <1>6 DEF Environment

\* Every step keeps the invariant.
LEMMA StepStep == Inv2 /\ [Next]_vars => Inv2'
  <1> SUFFICES ASSUME Inv2, [Next]_vars PROVE StepInv'
    BY DriverStep DEF Inv2
  <1>1. TypeInv
    BY DEF Inv2, Inv1
  <1>2. ASSUME NEW p \in Procs, NEW r \in Runs, Create(p, r) PROVE StepInv'
    <2>1. /\ pc'[p] = "start" /\ Others(p)
          /\ UNCHANGED <<step, approval, exec, body>>
      BY <1>1, <1>2, GotoPoint, OthersStay DEF Create, Request
    <2> QED
      BY <2>1, Unbound, QuietStep
  <1>3. ASSUME NEW p \in Procs, Drive(p) PROVE StepInv'
    <2>1. Others(p)
      BY <1>1, <1>3, OthersStay
    <2>2. CASE ClaimRun(p)
      <3>1. pc'[p] \in {"loop", "idle"} /\ UNCHANGED <<step, approval, exec, body>>
        BY <1>1, <2>2, GotoPoint DEF ClaimRun
      <3> QED
        BY <2>1, <3>1, Unbound, QuietStep
    <2>3. CASE Succeed(p) \/ ReachLimit(p)
      BY <2>1, <2>3, LeftStep DEF Succeed, ReachLimit, EndRun
    <2>4. CASE ExecuteCondition(p) \/ ExecuteApproval(p)
      BY <2>1, <2>4, NotedStep DEF ExecuteCondition, ExecuteApproval
    <2> QED
      BY <1>3, <2>2, <2>3, <2>4, BeginStepOK, ExecuteToolOK, ExecuteAgentOK, ViewAgentOK,
         FinishStepOK DEF Drive
  <1>4. ASSUME NEW p \in Procs, Resume(p) PROVE StepInv'
    <2>1. Others(p)
      BY <1>1, <1>4, OthersStay
    <2>2. CASE RaiseGranted(p)
      BY <2>1, <2>2, LeftStep DEF RaiseGranted, durable
    <2>3. CASE ResumeAgentStep(p)
      <3>1. CASE Leave(p)
        BY <2>1, <2>3, <3>1, LeftStep DEF ResumeAgentStep, durable
      <3>2. CASE Goto(p, "finish") /\ \E word, target : Outcomes(p, word, target)
        BY <2>1, <2>3, <3>2, NotedStep DEF ResumeAgentStep
      <3> QED
        BY <2>3, <3>1, <3>2 DEF ResumeAgentStep
    <2>4. CASE ResumeApproval(p)
      <3>1. /\ Goto(p, "finish") /\ \E word, target : Outcomes(p, word, target)
            /\ pc[p] = "resume" /\ KindOf(p) # "gated" /\ UNCHANGED durable
        BY <2>4 DEF ResumeApproval
      <3> QED
        BY <2>1, <3>1, NotedStep
    <2> QED
      BY <1>4, <2>2, <2>3, <2>4, ResumeAgentRunOK, ClaimResumeOK, ClaimToolOK, RunGrantedOK
      DEF Resume
  <1>5. CASE UNCHANGED vars
    BY <1>5, QuietCells, StepOfOthers DEF vars
  <1> QED
    BY <1>2, <1>3, <1>4, <1>5, DecideOK, EnvironmentOK DEF Next, Request

LEMMA InitStep == Init => Inv2
  BY InitDriver DEF Init, Inv2, StepInv, CellOK, RequestOK

\* The strengthening that carries both invariants below: what every cell is like, and
\* what every request knows of the cell it is at.
THEOREM StepInvariant == Spec => []Inv2
  BY InitStep, StepStep, PTL DEF Spec

\* "A step cannot execute twice" (workflows/engine.py): a cell is begun once, and the
\* execution behind a question is claimed once.
THEOREM StepsRunOnce == Spec => []StepRunsOnce
  <1>1. Inv2 => StepRunsOnce
    BY DEF Inv2, StepInv, CellOK, StepRunsOnce
  <1> QED
    BY <1>1, StepInvariant, PTL

\* The tool of a gated step runs only under a durable approval, and never without
\* being recorded as executed.
THEOREM GatedStepsRanApproved == Spec => []GatedStepRanApproved
  <1>1. Inv2 => GatedStepRanApproved
    BY DEF Inv2, StepInv, CellOK, GatedStepRanApproved
  <1> QED
    BY <1>1, StepInvariant, PTL

-----------------------------------------------------------------------------
(* The gated steps implement the gate.                                     *)

Answers == [c \in GatedCells |-> approval[c]]
Effects == [c \in GatedCells |-> body[c]]

\* A step that leaves the answers and the bodies of the gated steps alone.
LEMMA GateStutter ==
  ASSUME \A c \in GatedCells : approval'[c] = approval[c] /\ body'[c] = body[c]
  PROVE  UNCHANGED Gate!gateVars
  <1>1. Answers' = Answers /\ Effects' = Effects
    BY DEF Answers, Effects, GatedCells
  <1> QED
    BY <1>1 DEF Gate!gateVars, Answers, Effects

\* Some open questions get the same answer.
LEMMA GateSettles ==
  ASSUME NEW S \in SUBSET Cells, NEW word, \A c \in S : approval[c] = "pending",
         \A c \in Cells : approval'[c] = IF c \in S THEN word ELSE approval[c],
         UNCHANGED body
  PROVE  Gate!Settle(S \cap GatedCells, word)
  <1>1. Effects' = Effects
    BY DEF Effects, GatedCells
  <1>2. Answers' = [c \in GatedCells |-> IF c \in S \cap GatedCells THEN word ELSE Answers[c]]
    BY DEF Answers, GatedCells
  <1> QED
    BY <1>1, <1>2 DEF Gate!Settle, Answers, Effects

LEMMA FinishStepPuts ==
  ASSUME Inv2, NEW p \in Procs, FinishStep(p)
  PROVE  \/ \E a \in GatedCells : Gate!Put(a)
         \/ UNCHANGED Gate!gateVars
  <1> DEFINE c == Target(p)
  <1>1. /\ pc[p] = "finish" /\ TypeInv /\ UNCHANGED body
        /\ \/ /\ job[p].outcome = "awaiting_approval"
              /\ approval' = [approval EXCEPT ![c] = "pending"]
           \/ approval' = approval
    BY DEF Inv2, Inv1, FinishStep, Put
  <1>2. /\ c \in Cells /\ Kind[c[2]] = KindOf(p)
        /\ KindOf(p) = "gated" /\ job[p].outcome = "awaiting_approval" => approval[c] = "none"
    BY <1>1, Knows DEF RequestOK
  <1>3. CASE approval' = approval \/ c \notin GatedCells
    <2>1. \A d \in GatedCells : approval'[d] = approval[d]
      BY <1>1, <1>3 DEF TypeInv, TypeOK, GatedCells
    <2> QED
      BY <1>1, <2>1, GateStutter
  <1>4. CASE approval' # approval /\ c \in GatedCells
    <2>1. approval[c] = "none" /\ approval' = [approval EXCEPT ![c] = "pending"]
      BY <1>1, <1>2, <1>4 DEF GatedCells
    <2>2. Answers' = [Answers EXCEPT ![c] = "pending"]
      BY <1>1, <2>1 DEF Answers, GatedCells, TypeInv, TypeOK
    <2>3. Effects' = Effects
      BY <1>1 DEF Effects, GatedCells
    <2>4. PICK a \in GatedCells : a = c
      BY <1>4
    <2>5. Gate!Put(a)
      BY <2>1, <2>2, <2>3, <2>4 DEF Gate!Put, Answers, Effects
    <2> QED
      BY <2>5
  <1> QED
    BY <1>3, <1>4

LEMMA RunGrantedPerforms ==
  ASSUME Inv2, NEW p \in Procs, RunGranted(p)
  PROVE  \/ \E a \in GatedCells : Gate!Perform(a)
         \/ UNCHANGED Gate!gateVars
  <1> DEFINE c == Target(p)
  <1>1. /\ pc[p] = "grant" /\ TypeInv /\ UNCHANGED approval
    BY DEF Inv2, Inv1, RunGranted
  <1>2. /\ c \in Cells /\ Kind[c[2]] = "gated"
        /\ job[p].approve => body[c] = 0 /\ approval[c] = "approved"
    BY <1>1, Knows DEF RequestOK
  <1>3. c \in GatedCells
    BY <1>2 DEF GatedCells
  <1>4. PICK tool :
          /\ tool = "ran" => job[p].approve
          /\ body' = [body EXCEPT ![c] = @ + (IF tool = "ran" THEN 1 ELSE 0)]
    BY <1>1, GrantedOutcomes
  <1>5. CASE tool = "ran"
    <2>1. body[c] = 0 /\ approval[c] = "approved"
      BY <1>2, <1>4, <1>5
    <2> DEFINE ran == body[c] + (IF tool = "ran" THEN 1 ELSE 0)
    <2>2. body' = [body EXCEPT ![c] = ran]
      BY <1>4
    <2>3. ran = 1
      BY <1>5, <2>1
    <2> HIDE DEF ran
    <2>4. \A d \in Cells : body'[d] = IF d = c THEN 1 ELSE body[d]
      BY <1>1, <2>2, <2>3 DEF TypeInv, TypeOK
    <2>5. Effects' = [Effects EXCEPT ![c] = 1]
      BY <2>4 DEF Effects, GatedCells
    <2>6. Answers' = Answers
      BY <1>1 DEF Answers, GatedCells
    <2>7. PICK a \in GatedCells : a = c
      BY <1>3
    <2>8. Gate!Perform(a)
      BY <2>1, <2>5, <2>6, <2>7 DEF Gate!Perform, Answers, Effects
    <2> QED
      BY <2>8
  <1>6. CASE tool # "ran"
    <2>1. \A d \in GatedCells : body'[d] = body[d]
      BY <1>1, <1>4, <1>6 DEF TypeInv, TypeOK, GatedCells
    <2> QED
      BY <1>1, <2>1, GateStutter
  <1> QED
    BY <1>5, <1>6

\* Every step of the engine is a step or a stutter of the gate.
LEMMA GateStep == Inv2 /\ [Next]_vars => [Gate!GateNext]_Gate!gateVars
  <1> SUFFICES ASSUME Inv2, [Next]_vars PROVE Gate!GateNext \/ UNCHANGED Gate!gateVars
    OBVIOUS
  <1>1. TypeInv
    BY DEF Inv2, Inv1
  <1>2. UNCHANGED <<approval, body>> => UNCHANGED Gate!gateVars
    BY GateStutter
  <1>3. ASSUME NEW S \in SUBSET Cells, NEW word \in {"expired", "cancelled"},
               Gate!Settle(S \cap GatedCells, word)
        PROVE  Gate!GateNext
    BY <1>3 DEF Gate!GateNext
  <1>4. ASSUME NEW a \in GatedCells, Gate!Put(a) \/ Gate!Perform(a) PROVE Gate!GateNext
    BY <1>4 DEF Gate!GateNext
  <1>5. ASSUME NEW p \in Procs, NEW c \in Cells, NEW approve \in BOOLEAN,
               Decide(p, c, approve)
        PROVE  Gate!GateNext \/ UNCHANGED Gate!gateVars
    <2> DEFINE word == IF approve THEN "approved" ELSE "rejected"
    <2>1. /\ \A d \in Cells : approval'[d] = IF d \in {c} THEN word ELSE approval[d]
          /\ UNCHANGED body /\ approval[c] = "pending"
      BY <1>1, <1>5 DEF Decide, TypeInv, TypeOK
    <2>2. Gate!Settle({c} \cap GatedCells, word)
      BY <2>1, GateSettles
    <2>3. CASE c \in GatedCells
      <3>1. {c} \cap GatedCells = {c} /\ word \in {"approved", "rejected"}
        BY <2>3
      <3> QED
        BY <2>2, <2>3, <3>1 DEF Gate!GateNext
    <2>4. CASE c \notin GatedCells
      <3>1. \A d \in GatedCells : approval'[d] = approval[d]
        BY <2>1, <2>4 DEF GatedCells
      <3> QED
        BY <2>1, <3>1, GateStutter
    <2> QED
      BY <2>3, <2>4
  <1>6. ASSUME NEW p \in Procs, Drive(p)
        PROVE  Gate!GateNext \/ UNCHANGED Gate!gateVars
    <2>1. CASE FinishStep(p)
      BY <1>4, <2>1, FinishStepPuts
    <2>2. CASE ExecuteTool(p)
      <3>1. /\ pc[p] = "execute" /\ UNCHANGED approval
            /\ \E tool, word, target : CalledTool(p, tool, word, target)
                                       /\ (KindOf(p) = "gated" => tool # "ran")
        BY <1>1, <2>2, ToolOutcomes DEF ExecuteTool
      <3>2. Target(p) \in Cells /\ Kind[Target(p)[2]] = KindOf(p)
        BY <3>1, Knows
      <3>3. \A d \in GatedCells : body'[d] = body[d]
        BY <1>1, <3>1, <3>2 DEF CalledTool, GatedCells, TypeInv, TypeOK
      <3> QED
        BY <3>1, <3>3, GateStutter
    <2>3. CASE ExecuteAgent(p)
      <3>1. pc[p] = "execute" /\ KindOf(p) = "agent" /\ UNCHANGED body
        BY <2>3 DEF ExecuteAgent
      <3>2. Kind[Target(p)[2]] = "agent"
        BY <3>1, Knows
      <3>3. \A d \in GatedCells : approval'[d] = approval[d]
        BY <1>1, <2>3, <3>2, AgentOutcomes DEF Put, GatedCells, TypeInv, TypeOK
      <3> QED
        BY <3>1, <3>3, GateStutter
    <2>4. CASE UNCHANGED <<approval, body>>
      BY <1>2, <2>4
    <2> QED
      BY <1>6, <2>1, <2>2, <2>3, <2>4
      DEF Drive, ClaimRun, Succeed, ReachLimit, EndRun, BeginStep, ExecuteCondition,
          ExecuteApproval, ViewAgent, durable
  <1>7. ASSUME NEW p \in Procs, Resume(p)
        PROVE  Gate!GateNext \/ UNCHANGED Gate!gateVars
    <2>1. CASE RunGranted(p)
      BY <1>4, <2>1, RunGrantedPerforms
    <2>2. CASE ResumeAgentRun(p)
      <3>1. pc[p] = "decided" /\ KindOf(p) = "agent" /\ UNCHANGED body
        BY <2>2 DEF ResumeAgentRun
      <3>2. Kind[Target(p)[2]] = "agent"
        BY <3>1, Knows
      <3>3. \A d \in GatedCells : approval'[d] = approval[d]
        BY <1>1, <2>2, <3>2, AgentAnswers DEF Put, GatedCells, TypeInv, TypeOK
      <3> QED
        BY <3>1, <3>3, GateStutter
    <2>3. CASE UNCHANGED <<approval, body>>
      BY <1>2, <2>3
    <2> QED
      BY <1>7, <2>1, <2>2, <2>3
      DEF Resume, ClaimResume, ClaimTool, RaiseGranted, ResumeAgentStep, ResumeApproval,
          durable
  <1>8. ASSUME NEW r \in Runs, CancelRun(r) PROVE Gate!GateNext
    <2>1. /\ Questions(r) \in SUBSET Cells /\ \A c \in Questions(r) : approval[c] = "pending"
          /\ \A c \in Cells : approval'[c] = IF c \in Questions(r) THEN "cancelled"
                                             ELSE approval[c]
          /\ UNCHANGED body
      BY <1>8 DEF CancelRun, Questions, Cells
    <2> QED
      BY <1>3, <2>1, GateSettles
  <1>9. ASSUME NEW c \in Cells, CancelAgent(c) PROVE Gate!GateNext
    <2>1. /\ \A d \in Cells : approval'[d] = IF d \in {c} THEN "cancelled" ELSE approval[d]
          /\ UNCHANGED body /\ approval[c] = "pending"
      BY <1>1, <1>9 DEF CancelAgent, TypeInv, TypeOK
    <2> QED
      BY <1>3, <2>1, GateSettles
  <1>10. ASSUME NEW overdue \in SUBSET {c \in Cells : approval[c] = "pending"},
               ExpireDue(overdue)
        PROVE  Gate!GateNext
    <2>1. /\ \A c \in Cells : approval'[c] = IF c \in overdue THEN "expired" ELSE approval[c]
          /\ UNCHANGED body
      BY <1>10 DEF ExpireDue
    <2> QED
      BY <1>3, <2>1, GateSettles
  <1>11. ASSUME NEW p \in Procs, NEW r \in Runs, Create(p, r)
         PROVE  UNCHANGED Gate!gateVars
    BY <1>2, <1>11 DEF Create
  <1>12. ASSUME NEW p \in Procs, Crash(p) PROVE UNCHANGED Gate!gateVars
    BY <1>2, <1>12 DEF Crash, durable
  <1>13. ASSUME NEW r \in Runs, Age(r) PROVE UNCHANGED Gate!gateVars
    BY <1>2, <1>13 DEF Age
  <1>14. CASE UNCHANGED vars
    BY <1>2, <1>14 DEF vars
  <1> QED
    BY <1>5, <1>6, <1>7, <1>8, <1>9, <1>10, <1>11, <1>12, <1>13, <1>14
    DEF Next, Request, Environment

\* Seen through its gated steps the engine keeps the promise agent runs keep: one
\* question, one answer, and the action at most once, under an approval.
THEOREM EngineImplementsGate == Spec => ImplementsGate
  <1>1. Init => Gate!GateInit
    BY DEF Init, Gate!GateInit, GatedCells
  <1> QED
    BY <1>1, StepInvariant, GateStep, PTL DEF Spec, ImplementsGate, Gate!GateSpec

-----------------------------------------------------------------------------
(* The inductive invariant, on top of Inv2.                                *)

\* Where a request has a step in hand.
StepPoints == {"execute", "view", "finish", "resume", "grant"}

Open(r, k) == step[<<r, k>>] \notin {"absent", "succeeded"}
Done(r, k) == step[<<r, k>>] = "succeeded"

\* Where a step that succeeded may lead: a refusal with no path is a failure.
LeadsOn(k, target) ==
  target \in OnSuccess[k] \/ (target = OnReject[k] /\ target # End)

\* A run has one step in hand, none before it is claimed, and waits with it; one that
\* succeeded finished all it began, the last where the definition may end.
RunWalks(r) ==
  /\ \A k, l \in Keys : Open(r, k) /\ Open(r, l) => k = l
  /\ run[r].status \in {"absent", "pending"} => \A k \in Keys : step[<<r, k>>] = "absent"
  /\ run[r].status = "awaiting_approval" <=>
       \E k \in Keys : step[<<r, k>>] = "awaiting_approval"
  /\ run[r].status = "succeeded" =>
       /\ \A k \in Keys : ~Open(r, k)
       /\ \E k \in Keys : Done(r, k) /\ End \in OnSuccess[k]

\* A question that carries its run is open only while its step waits; a gated step is
\* never asked about without, and never succeeds once refused; an agent step succeeds
\* with its agent.
CellWalks(c) ==
  /\ approval[c] = "none" => ~stamped[c]
  /\ approval[c] = "pending" /\ stamped[c] => step[c] = "awaiting_approval"
  /\ Kind[c[2]] = "gated" =>
       /\ approval[c] = "pending" => stamped[c]
       /\ approval[c] = "rejected" => step[c] \notin {"absent", "succeeded"}
  /\ Kind[c[2]] = "agent" /\ step[c] = "succeeded" => agent[c] = "completed"

\* Between two steps a request stands where the definition led it; with a step in
\* hand it is the one that runs; what it is about to commit as a success is one.
RequestWalks(p) ==
  LET r == job[p].run
      c == Target(p)
  IN /\ pc[p] = "loop" =>
          /\ \A k \in Keys : ~Open(r, k)
          /\ \/ job[p].next = Entry /\ \A k \in Keys : step[<<r, k>>] = "absent"
             \/ \E k \in Keys : Done(r, k) /\ LeadsOn(k, job[p].next)
     /\ pc[p] \in StepPoints => step[c] = "running"
     /\ pc[p] = "finish" /\ job[p].outcome = "succeeded" =>
          /\ LeadsOn(job[p].key, job[p].next)
          /\ KindOf(p) = "gated" => approval[c] = "approved"
          /\ KindOf(p) = "agent" => agent[c] = "completed"
     /\ pc[p] \in {"execute", "decided", "workflow", "resume", "grant"} => job[p].seen = 0
     /\ pc[p] = "finish" /\ job[p].seen > 0 => approval[c] # "none"

WalkInv ==
  /\ \A r \in Runs : RunWalks(r)
  /\ \A c \in Cells : CellWalks(c)
  /\ \A p \in Procs : RequestWalks(p)

\* A step that is about to be asked about for the first time: its question is put or,
\* if an agent put it, stamped by the commit.
Fresh(p) ==
  \/ pc[p] = "view"
  \/ /\ pc[p] = "finish" /\ job[p].outcome = "awaiting_approval"
     /\ job[p].seen > 0 \/ KindOf(p) \in {"gated", "approval"}

\* The decision a request carries for a run is the last word on its step: no question
\* that carries the run is open or about to be.
AnswerWalks(p) ==
  LET c == Target(p)
  IN /\ Fresh(p) => ~stamped[c]
     /\ pc[p] \in {"decided", "workflow"} /\ job[p].stamped =>
          /\ ~(approval[c] = "pending" /\ stamped[c])
          /\ \A q \in Procs : Fresh(q) => Target(q) # c

AnswerInv == \A p \in Procs : AnswerWalks(p)

Inv3 == Inv2 /\ WalkInv /\ AnswerInv

-----------------------------------------------------------------------------
(* What a step has to show.                                                *)

\* What no step takes from an approval: that it was put, and that a gated step was
\* approved.
Answered(c) ==
  /\ approval[c] # "none" => approval'[c] # "none"
  /\ Kind[c[2]] = "gated" /\ approval[c] = "approved" => approval'[c] = "approved"

\* A request that did not move stands where it stood.
LEMMA StillWalks ==
  ASSUME Inv2, NEW q \in Procs, RequestWalks(q), pc'[q] = pc[q], job'[q] = job[q],
         pc[q] \in HoldPoints =>
           /\ \A k \in Keys : step'[<<job[q].run, k>>] = step[<<job[q].run, k>>]
           /\ agent[Target(q)] = "completed" => agent'[Target(q)] = "completed"
           /\ Answered(Target(q))
  PROVE  RequestWalks(q)'
  <1>1. Target(q)' = Target(q) /\ KindOf(q)' = KindOf(q) /\ KindOf(q) = Kind[Target(q)[2]]
    BY DEF Target, KindOf
  <1>2. CASE pc[q] \in HoldPoints
    <2>1. job[q].key \in Keys
      BY <1>2, Knows DEF HoldPoints, DrivePoints, ResumePoints, Jobs
    <2>2. step'[Target(q)] = step[Target(q)]
      BY <1>2, <2>1 DEF Target
    <2> QED
      BY <1>1, <1>2, <2>2 DEF RequestWalks, Answered, Open, Done
  <1>3. CASE pc[q] \notin HoldPoints
    <2>1. pc[q] \notin {"loop", "finish"} \cup StepPoints
      BY <1>3 DEF HoldPoints, DrivePoints, ResumePoints, StepPoints
    <2> QED
      BY <1>1, <2>1 DEF RequestWalks
  <1> QED
    BY <1>2, <1>3

\* The others, when the steps a request writes are those of the run it holds or of a
\* run that waits, and no agent that completed is taken back elsewhere.
LEMMA OthersWalk ==
  ASSUME Inv2, WalkInv, NEW p \in Procs, Others(p),
         \A r \in Runs, k \in Keys :
           \/ step'[<<r, k>>] = step[<<r, k>>]
           \/ run[r].status = "awaiting_approval"
           \/ pc[p] \in HoldPoints /\ job[p].run = r,
         \A c \in Cells :
           \/ agent[c] = "completed" => agent'[c] = "completed"
           \/ pc[p] \in HoldPoints /\ c = Target(p),
         \A c \in Cells : Answered(c)
  PROVE  \A q \in Procs \ {p} : RequestWalks(q)'
  <1> SUFFICES ASSUME NEW q \in Procs \ {p} PROVE RequestWalks(q)'
    OBVIOUS
  <1>1. RequestWalks(q) /\ pc'[q] = pc[q] /\ job'[q] = job[q]
    BY DEF WalkInv, Others
  <1>2. ASSUME pc[q] \in HoldPoints
        PROVE  /\ \A k \in Keys : step'[<<job[q].run, k>>] = step[<<job[q].run, k>>]
               /\ agent[Target(q)] = "completed" => agent'[Target(q)] = "completed"
               /\ Answered(Target(q))
    <2>1. /\ job[q].run \in Runs /\ Free(q, job[q].run)
          /\ run[job[q].run].status # "awaiting_approval"
      BY <1>2, HolderKnows DEF Inv2, HoldPoints
    <2>2. ~(pc[p] \in HoldPoints /\ job[p].run = job[q].run)
      BY <2>1 DEF Free
    <2>3. Target(q) \in Cells
      BY <1>2, Knows DEF HoldPoints, DrivePoints, ResumePoints
    <2>4. Target(q) = Target(p) => job[p].run = job[q].run
      BY DEF Target
    <2> QED
      BY <2>1, <2>2, <2>3, <2>4
  <1> QED
    BY <1>1, <1>2, StillWalks

\* A step of a request keeps the walk if it keeps the rows and the request it moves.
LEMMA StepWalks ==
  ASSUME Inv2, WalkInv, NEW p \in Procs, Others(p),
         \A r \in Runs, k \in Keys :
           \/ step'[<<r, k>>] = step[<<r, k>>]
           \/ run[r].status = "awaiting_approval"
           \/ pc[p] \in HoldPoints /\ job[p].run = r,
         \A c \in Cells :
           \/ agent[c] = "completed" => agent'[c] = "completed"
           \/ pc[p] \in HoldPoints /\ c = Target(p),
         \A c \in Cells : Answered(c) /\ CellWalks(c)',
         \A r \in Runs : RunWalks(r)',
         RequestWalks(p)'
  PROVE  WalkInv'
  <1>1. \A q \in Procs \ {p} : RequestWalks(q)'
    BY OthersWalk
  <1> QED
    BY <1>1 DEF WalkInv

\* A step of the environment, if it keeps the rows.
LEMMA OutsideWalks ==
  ASSUME Inv2, WalkInv, UNCHANGED <<pc, job>>,
         \A r \in Runs, k \in Keys :
           step'[<<r, k>>] = step[<<r, k>>] \/ run[r].status = "awaiting_approval",
         \A c \in Cells : agent[c] = "completed" => agent'[c] = "completed",
         \A c \in Cells : Answered(c) /\ CellWalks(c)',
         \A r \in Runs : RunWalks(r)'
  PROVE  WalkInv'
  <1> SUFFICES ASSUME NEW q \in Procs PROVE RequestWalks(q)'
    BY DEF WalkInv
  <1>1. RequestWalks(q)
    BY DEF WalkInv
  <1>2. ASSUME pc[q] \in HoldPoints
        PROVE  /\ job[q].run \in Runs /\ run[job[q].run].status # "awaiting_approval"
               /\ Target(q) \in Cells
    BY <1>2, HolderKnows, Knows DEF Inv2, HoldPoints, DrivePoints, ResumePoints
  <1> QED
    BY <1>1, <1>2, StillWalks

\* A run whose steps nobody wrote, and whose status, if it changed, left one that is
\* not a pause for another that fits the steps.
LEMMA SameSteps ==
  ASSUME NEW r \in Runs, RunWalks(r), \A k \in Keys : step'[<<r, k>>] = step[<<r, k>>],
         \/ run'[r].status = run[r].status
         \/ /\ "awaiting_approval" \notin {run[r].status, run'[r].status}
            /\ run'[r].status = "pending" => run[r].status = "absent"
            /\ run'[r].status # "absent"
            /\ run'[r].status = "succeeded" =>
                 /\ \A k \in Keys : ~Open(r, k)
                 /\ \E k \in Keys : Done(r, k) /\ End \in OnSuccess[k]
  PROVE  RunWalks(r)'
  BY DEF RunWalks, Open, Done

\* A cell nobody wrote.
LEMMA SameCell ==
  ASSUME NEW c \in Cells, CellWalks(c), step'[c] = step[c], approval'[c] = approval[c],
         stamped'[c] = stamped[c], agent'[c] = agent[c]
  PROVE  CellWalks(c)' /\ Answered(c)
  BY DEF CellWalks, Answered

\* A step that writes none of the rows but the status of runs.
LEMMA QuietWalk ==
  ASSUME Inv2, WalkInv, NEW p \in Procs, Others(p),
         UNCHANGED <<step, approval, stamped, agent>>,
         \A r \in Runs : run'[r].status = run[r].status \/ RunWalks(r)',
         RequestWalks(p)'
  PROVE  WalkInv'
  <1>1. \A c \in Cells : CellWalks(c)' /\ Answered(c)
    BY SameCell DEF WalkInv
  <1>2. \A r \in Runs : RunWalks(r)'
    BY SameSteps DEF WalkInv
  <1> QED
    BY <1>1, <1>2, StepWalks

\* A request that is gone, or has not begun, stands nowhere.
LEMMA Nowhere ==
  ASSUME NEW p \in Procs, pc'[p] \in {"idle", "start"}
  PROVE  RequestWalks(p)'
  BY DEF RequestWalks, StepPoints

\* A request that leaves, and leaves every row alone.
LEMMA LeftWalk ==
  ASSUME Inv2, WalkInv, NEW p \in Procs, Others(p), Leave(p),
         UNCHANGED <<run, step, approval, stamped, agent>>
  PROVE  WalkInv'
  <1>1. pc'[p] = "idle"
    BY GotoPoint DEF Inv2, Inv1
  <1> QED
    BY <1>1, Nowhere, QuietWalk

\* What a request knows that has a step in hand: the row is running and the only one
\* of its run that is open.
LEMMA InHand ==
  ASSUME Inv2, WalkInv, NEW p \in Procs, pc[p] \in StepPoints
  PROVE  /\ TypeInv /\ RequestWalks(p) /\ job[p] \in Jobs
         /\ job[p].run \in Runs /\ job[p].key \in Keys
         /\ Target(p) = <<job[p].run, job[p].key>> /\ Target(p) \in Cells
         /\ Kind[Target(p)[2]] = KindOf(p) /\ CellWalks(Target(p)) /\ RequestOK(p)
         /\ step[Target(p)] = "running"
         /\ run[job[p].run].status \in {"running", "failed"}
         /\ \A k \in Keys \ {job[p].key} : step[<<job[p].run, k>>] \in {"absent", "succeeded"}
         /\ pc[p] \in HoldPoints
  <1>1. pc[p] # "idle" /\ pc[p] \in DrivePoints \cup ResumePoints /\ pc[p] \in HoldPoints
    BY DEF StepPoints, DrivePoints, ResumePoints, HoldPoints
  <1>2. /\ TypeInv /\ RequestOK(p) /\ Target(p) \in Cells /\ job[p] \in Jobs
        /\ Kind[Target(p)[2]] = KindOf(p) /\ job[p].run \in Runs /\ job[p].key \in Keys
    BY <1>1, Knows, TargetType DEF Inv2, Inv1
  <1>3. /\ RequestWalks(p) /\ RunWalks(job[p].run) /\ CellWalks(Target(p))
        /\ step[Target(p)] = "running"
    BY <1>2 DEF WalkInv, RequestWalks
  <1>4. run[job[p].run].status \in {"running", "failed"}
    BY <1>1, HolderKnows DEF Inv2
  <1>5. \A k \in Keys \ {job[p].key} : step[<<job[p].run, k>>] \in {"absent", "succeeded"}
    BY <1>2, <1>3 DEF RunWalks, Open, Target
  <1> QED
    BY <1>1, <1>2, <1>3, <1>4, <1>5 DEF Target

\* Writing one step row leaves the others.
LEMMA OneStep ==
  ASSUME TypeInv, NEW r \in Runs, NEW key \in Keys, NEW word,
         step' = [step EXCEPT ![<<r, key>>] = word]
  PROVE  /\ step'[<<r, key>>] = word
         /\ \A s \in Runs, k \in Keys : <<s, k>> # <<r, key>> => step'[<<s, k>>] = step[<<s, k>>]
         /\ \A c \in Cells : c # <<r, key>> => step'[c] = step[c]
  BY DEF TypeInv, TypeOK, Cells

\* A run that goes on, fails or waits, with at most one step that is open.
LEMMA OneOpen ==
  ASSUME NEW r \in Runs, NEW key \in Keys,
         \A k \in Keys \ {key} : step'[<<r, k>>] \in {"absent", "succeeded"},
         run'[r].status \notin {"absent", "pending", "succeeded"},
         run'[r].status = "awaiting_approval" <=> step'[<<r, key>>] = "awaiting_approval"
  PROVE  RunWalks(r)'
  <1>1. \A k \in Keys : Open(r, k)' => k = key
    BY DEF Open
  <1>2. run'[r].status = "awaiting_approval" <=>
          \E k \in Keys : step'[<<r, k>>] = "awaiting_approval"
    OBVIOUS
  <1> QED
    BY <1>1, <1>2 DEF RunWalks

-----------------------------------------------------------------------------
(* Starting and driving a run.                                             *)

\* A run is inserted with no steps, and a sweep ends no run that waits.
LEMMA CreateWalks ==
  ASSUME Inv2, WalkInv, NEW p \in Procs, NEW s \in Runs, Create(p, s)
  PROVE  WalkInv'
  <1>1. /\ TypeInv /\ Others(p) /\ pc'[p] = "start"
        /\ UNCHANGED <<step, approval, stamped, agent>>
    BY OthersStay, GotoPoint DEF Inv2, Inv1, Request, Create
  <1>2. ASSUME NEW r \in Runs PROVE run'[r].status = run[r].status \/ RunWalks(r)'
    <2>1. RunWalks(r) /\ run[r] \in Rows
      BY <1>1 DEF WalkInv, TypeInv, TypeOK
    <2>2. CASE r = s
      <3>1. run[r].status = "absent" /\ run'[r].status = "pending"
        BY <2>2 DEF Create
      <3> QED
        BY <1>1, <2>1, <3>1, SameSteps
    <2>3. CASE r # s
      <3>1. run'[r] = Abandoned(r)
        BY <2>3 DEF Create
      <3>2. \/ run'[r] = run[r]
            \/ run[r].status \in {"pending", "running"} /\ run'[r].status = "failed"
        BY <2>1, <3>1 DEF Abandoned, Sweepable, Active, Rows
      <3> QED
        BY <1>1, <2>1, <3>2, SameSteps
    <2> QED
      BY <2>2, <2>3
  <1> QED
    BY <1>1, <1>2, Nowhere, QuietWalk

\* A run that is claimed has no step, and its request stands at the entry.
LEMMA ClaimRunWalks ==
  ASSUME Inv2, WalkInv, NEW p \in Procs, ClaimRun(p)
  PROVE  WalkInv'
  <1>1. /\ TypeInv /\ Others(p) /\ pc[p] = "start"
        /\ UNCHANGED <<step, approval, stamped, agent>>
    BY OthersStay DEF Inv2, Inv1, Drive, ClaimRun
  <1>2. PICK r \in Runs : r = job[p].run
    BY <1>1, TargetType
  <1>3. CASE run[r].status = "pending"
    <2>1. /\ run' = [run EXCEPT ![r].status = "running"] /\ pc'[p] = "loop"
          /\ job'[p].next = Entry /\ job'[p].run = r /\ job'[p].key = job[p].key
      BY <1>1, <1>2, <1>3, GotoPoint DEF ClaimRun, TypeInv, TypeOK, Jobs
    <2>2. /\ run'[r].status = "running"
          /\ \A s \in Runs : s # r => run'[s] = run[s]
      BY <1>1, <2>1 DEF TypeInv, TypeOK, Rows
    <2>3. RunWalks(r) /\ \A k \in Keys : step[<<r, k>>] = "absent"
      BY <1>3 DEF WalkInv, RunWalks
    <2>4. RunWalks(r)'
      BY <1>1, <1>3, <2>2, <2>3, SameSteps
    <2>5. RequestWalks(p)'
      BY <1>1, <2>1, <2>3 DEF RequestWalks, StepPoints, Open
    <2> QED
      BY <1>1, <2>2, <2>4, <2>5, QuietWalk
  <1>4. CASE run[r].status # "pending"
    BY <1>1, <1>2, <1>4, LeftWalk DEF ClaimRun
  <1> QED
    BY <1>3, <1>4

\* The last write of a request that drove its run to an end, where it may end so.
LEMMA EndRunWalks ==
  ASSUME Inv2, WalkInv, NEW p \in Procs, pc[p] = "loop", Others(p),
         NEW status \in {"succeeded", "failed"}, NEW error, EndRun(p, status, error),
         status = "succeeded" =>
           /\ \A k \in Keys : ~Open(job[p].run, k)
           /\ \E k \in Keys : Done(job[p].run, k) /\ End \in OnSuccess[k]
  PROVE  WalkInv'
  <1>1. TypeInv /\ pc'[p] = "idle" /\ UNCHANGED <<step, approval, stamped, agent>>
    BY GotoPoint DEF Inv2, Inv1, EndRun
  <1>2. PICK r \in Runs : r = job[p].run
    BY <1>1, TargetType
  <1>3. run[r].status \in {"running", "failed"}
    BY <1>2, HolderKnows DEF Inv2, HoldPoints, DrivePoints
  <1>4. run'[r].status = status /\ \A s \in Runs : s # r => run'[s] = run[s]
    <2> DEFINE row == [run[r] EXCEPT !.status = status, !.error =
                          IF error = "none" THEN @ ELSE error]
    <2>1. row.status = status
      BY <1>1 DEF TypeInv, TypeOK, Rows
    <2>2. run' = [run EXCEPT ![r] = row]
      BY <1>2 DEF EndRun, TypeInv, TypeOK
    <2> QED
      BY <1>1, <2>1, <2>2 DEF TypeInv, TypeOK
  <1>5. RunWalks(r)'
    BY <1>1, <1>2, <1>3, <1>4, SameSteps DEF WalkInv
  <1> QED
    BY <1>1, <1>4, <1>5, Nowhere, QuietWalk

\* "Null ends the workflow": the request stands at the end, after the step that leads
\* there.
LEMMA SucceedWalks ==
  ASSUME Inv2, WalkInv, NEW p \in Procs, Succeed(p)
  PROVE  WalkInv'
  <1>1. /\ TypeInv /\ Others(p) /\ pc[p] = "loop" /\ job[p].next = End
        /\ EndRun(p, "succeeded", "none") /\ RequestWalks(p) /\ Entry # End
    BY OthersStay, NamesAssumption, DefinitionAssumption
    DEF Inv2, Inv1, Drive, Succeed, WalkInv
  <1>2. /\ \A k \in Keys : ~Open(job[p].run, k)
        /\ \E k \in Keys : Done(job[p].run, k) /\ LeadsOn(k, End)
    BY <1>1 DEF RequestWalks
  <1>3. \E k \in Keys : Done(job[p].run, k) /\ End \in OnSuccess[k]
    BY <1>2 DEF LeadsOn
  <1> QED
    BY <1>1, <1>2, <1>3, EndRunWalks

\* workflow_max_executed_steps.
LEMMA ReachLimitWalks ==
  ASSUME Inv2, WalkInv, NEW p \in Procs, ReachLimit(p)
  PROVE  WalkInv'
  BY OthersStay, EndRunWalks DEF Inv2, Inv1, Drive, ReachLimit

\* The insertion of a step makes it the one in hand.
LEMMA BeginStepWalks ==
  ASSUME Inv2, WalkInv, NEW p \in Procs, BeginStep(p)
  PROVE  WalkInv'
  <1>1. /\ TypeInv /\ Others(p) /\ pc[p] = "loop" /\ job[p].next # End
        /\ UNCHANGED <<run, approval, stamped, agent>> /\ RequestWalks(p)
    BY OthersStay DEF Inv2, Inv1, Drive, BeginStep, WalkInv
  <1>2. PICK r \in Runs, key \in Keys : r = job[p].run /\ key = job[p].next
    BY <1>1, TargetType DEF Jobs
  <1>3. CASE step[<<r, key>>] = "absent"
    <2>1. /\ step' = [step EXCEPT ![<<r, key>>] = "running"] /\ pc'[p] = "execute"
          /\ job'[p].run = r /\ job'[p].key = key /\ job'[p].seen = 0
      BY <1>1, <1>2, <1>3, GotoPoint DEF BeginStep, TypeInv, TypeOK, Jobs
    <2>2. /\ step'[<<r, key>>] = "running"
          /\ \A s \in Runs, k \in Keys : <<s, k>> # <<r, key>> => step'[<<s, k>>] = step[<<s, k>>]
          /\ \A c \in Cells : c # <<r, key>> => step'[c] = step[c]
      BY <1>1, <2>1, OneStep
    <2>3. /\ \A k \in Keys : ~Open(r, k)
          /\ run[r].status \in {"running", "failed"}
      BY <1>1, <1>2, HolderKnows DEF RequestWalks, Inv2, HoldPoints, DrivePoints
    <2>4. RunWalks(r)'
      <3>1. \A k \in Keys \ {key} : step'[<<r, k>>] \in {"absent", "succeeded"}
        BY <2>2, <2>3 DEF Open
      <3> QED
        BY <1>1, <2>2, <2>3, <3>1, OneOpen
    <2>5. \A s \in Runs : RunWalks(s)'
      BY <1>1, <2>2, <2>4, SameSteps DEF WalkInv
    <2>6. approval[<<r, key>>] = "none" /\ ~stamped[<<r, key>>]
      BY <1>3 DEF Inv2, StepInv, CellOK, WalkInv, CellWalks, Cells
    <2>7. \A c \in Cells : CellWalks(c)' /\ Answered(c)
      BY <1>1, <2>2, <2>6, SameCell DEF WalkInv, CellWalks, Answered
    <2>8. RequestWalks(p)'
      BY <2>1, <2>2 DEF RequestWalks, StepPoints, Target
    <2>9. pc[p] \in HoldPoints
      BY <1>1 DEF HoldPoints, DrivePoints
    <2> QED
      BY <1>1, <1>2, <2>2, <2>5, <2>7, <2>8, <2>9, StepWalks
  <1>4. CASE step[<<r, key>>] # "absent"
    BY <1>1, <1>2, <1>4, LeftWalk DEF BeginStep
  <1> QED
    BY <1>3, <1>4

-----------------------------------------------------------------------------
(* The step handlers.                                                      *)

\* What noting an outcome leaves in memory.
LEMMA NotedJob ==
  ASSUME TypeInv, NEW p \in Procs, NEW word, NEW target,
         \/ Outcomes(p, word, target)
         \/ \E tool : CalledTool(p, tool, word, target)
  PROVE  /\ job'[p].outcome = word /\ job'[p].next = target
         /\ job'[p].run = job[p].run /\ job'[p].key = job[p].key /\ job'[p].seen = job[p].seen
  <1>1. CASE Outcomes(p, word, target)
    BY <1>1 DEF Outcomes, TypeInv, TypeOK, Jobs
  <1>2. CASE \E tool : CalledTool(p, tool, word, target)
    <2>1. PICK tool : job' = [job EXCEPT ![p].tool = tool, ![p].outcome = word, ![p].next = target]
      BY <1>2 DEF CalledTool
    <2> DEFINE new == [job[p] EXCEPT !.tool = tool, !.outcome = word, !.next = target]
    <2>2. job \in [Procs -> Jobs]
      BY DEF TypeInv, TypeOK
    <2>3. job'[p] = new
      BY <2>1, <2>2
    <2>4. /\ new.outcome = word /\ new.next = target /\ new.run = job[p].run
          /\ new.key = job[p].key /\ new.seen = job[p].seen
      BY <2>2 DEF Jobs
    <2> QED
      BY <2>3, <2>4
  <1> QED
    BY <1>1, <1>2

\* A request that takes the outcome of its step to the commit: a success leads on, is
\* granted if the step is gated, and is its agent's if the step is an agent's.
LEMMA NotedRequest ==
  ASSUME Inv2, WalkInv, NEW p \in Procs, pc[p] \in {"execute", "resume", "grant"},
         pc'[p] = "finish", UNCHANGED step,
         NEW word, NEW target,
         \/ Outcomes(p, word, target)
         \/ \E tool : CalledTool(p, tool, word, target),
         word = "succeeded" =>
           /\ LeadsOn(job[p].key, target)
           /\ KindOf(p) = "gated" => approval'[Target(p)] = "approved"
           /\ KindOf(p) = "agent" => agent'[Target(p)] = "completed"
  PROVE  RequestWalks(p)'
  <1>1. pc[p] \in StepPoints
    BY DEF StepPoints
  <1>2. step[Target(p)] = "running" /\ job[p].seen = 0 /\ TypeInv
    BY <1>1, InHand DEF RequestWalks
  <1>3. /\ job'[p].outcome = word /\ job'[p].next = target
        /\ job'[p].key = job[p].key /\ job'[p].seen = job[p].seen
        /\ Target(p)' = Target(p) /\ KindOf(p)' = KindOf(p)
    BY <1>2, NotedJob, ZenonT(60) DEF Target, KindOf
  <1> QED
    BY <1>2, <1>3 DEF RequestWalks, LeadsOn

\* A gated tool asks, or fails; another one fails or leads on.
LEMMA ExecuteToolWalks ==
  ASSUME Inv2, WalkInv, NEW p \in Procs, ExecuteTool(p)
  PROVE  WalkInv'
  <1>1. /\ TypeInv /\ Others(p) /\ pc[p] = "execute" /\ pc'[p] = "finish"
        /\ KindOf(p) \in {"tool", "gated"}
        /\ UNCHANGED <<run, step, approval, stamped, agent>>
    BY OthersStay, GotoPoint DEF Inv2, Inv1, Drive, ExecuteTool
  <1>2. PICK tool, word, target :
          /\ CalledTool(p, tool, word, target)
          /\ word = "succeeded" => KindOf(p) # "gated"
          /\ target \in OnSuccess[job[p].key]
    <2>1. PICK tool, word, target :
            /\ CalledTool(p, tool, word, target)
            /\ tool \in {"none", "refused"} => word = "failed"
            /\ (tool = "approval_required") = (word = "awaiting_approval")
            /\ KindOf(p) = "gated" => tool \in {"none", "refused", "approval_required"}
            /\ target \in OnSuccess[job[p].key]
      BY <1>1, ToolOutcomes
    <2> QED
      BY <2>1
  <1>3. RequestWalks(p)'
    BY <1>1, <1>2, NotedRequest DEF LeadsOn
  <1> QED
    BY <1>1, <1>3, QuietWalk

\* A condition leads to one of its two places; an approval step asks.
LEMMA ExecuteOtherWalks ==
  ASSUME Inv2, WalkInv, NEW p \in Procs, ExecuteCondition(p) \/ ExecuteApproval(p)
  PROVE  WalkInv'
  <1>1. /\ TypeInv /\ Others(p) /\ pc[p] = "execute" /\ pc'[p] = "finish"
        /\ KindOf(p) \in {"condition", "approval"}
        /\ UNCHANGED <<run, step, approval, stamped, agent>>
    BY OthersStay, GotoPoint
    DEF Inv2, Inv1, Drive, ExecuteCondition, ExecuteApproval, durable
  <1>2. PICK word, target : /\ Outcomes(p, word, target)
                            /\ word = "succeeded" => target \in OnSuccess[job[p].key]
    BY DEF ExecuteCondition, ExecuteApproval
  <1>3. RequestWalks(p)'
    BY <1>1, <1>2, NotedRequest DEF LeadsOn
  <1> QED
    BY <1>1, <1>3, QuietWalk

\* An agent whose step begins has nothing to take back; its question carries no run yet.
LEMMA ExecuteAgentWalks ==
  ASSUME Inv2, WalkInv, NEW p \in Procs, ExecuteAgent(p)
  PROVE  WalkInv'
  <1>1. /\ TypeInv /\ Others(p) /\ pc[p] = "execute" /\ KindOf(p) = "agent"
        /\ UNCHANGED <<run, step, stamped>> /\ pc[p] \in StepPoints
    BY OthersStay DEF Inv2, Inv1, Drive, ExecuteAgent, StepPoints
  <1>2. PICK c \in Cells : c = Target(p)
    BY <1>1, InHand
  <1>3. /\ Kind[c[2]] = "agent" /\ step[c] = "running" /\ approval[c] = "none"
        /\ ~stamped[c] /\ pc[p] \in HoldPoints
    BY <1>1, <1>2, InHand DEF RequestOK, CellWalks
  <1>4. /\ \A d \in Cells : d # c => agent'[d] = agent[d] /\ approval'[d] = approval[d]
        /\ approval'[c] \in {"none", "pending"}
    <2>1. CASE approval' = approval
      BY <1>1, <1>2, <1>3, <2>1, AgentOutcomes DEF TypeInv, TypeOK
    <2>2. CASE Put(c) /\ agent' = [agent EXCEPT ![c] = "awaiting_approval"]
      BY <1>1, <2>2 DEF Put, TypeInv, TypeOK
    <2> QED
      BY <1>2, <2>1, <2>2, AgentOutcomes
  <1>5. \A d \in Cells : CellWalks(d)' /\ Answered(d)
    BY <1>1, <1>3, <1>4, SameCell DEF CellWalks, Answered, WalkInv
  <1>6. RequestWalks(p)'
    <2>1. CASE /\ agent' = [agent EXCEPT ![c] = "completed"]
               /\ \E word \in {"succeeded", "failed"}, target \in OnSuccess[job[p].key] :
                    Outcomes(p, word, target)
               /\ Goto(p, "finish")
      <3>1. agent'[c] = "completed" /\ pc'[p] = "finish"
        BY <1>1, <2>1, GotoPoint DEF TypeInv, TypeOK
      <3> QED
        BY <1>1, <1>2, <2>1, <3>1, NotedRequest DEF LeadsOn
    <2>2. CASE Goto(p, "view") /\ UNCHANGED job
      <3>1. pc'[p] = "view" /\ Target(p)' = c
        BY <1>1, <1>2, <2>2, GotoPoint DEF Target
      <3> QED
        BY <1>1, <1>3, <3>1 DEF RequestWalks, StepPoints
    <2>3. CASE Leave(p)
      BY <1>1, <2>3, GotoPoint, Nowhere
    <2> QED
      BY <1>2, <2>1, <2>2, <2>3, AgentOutcomes
  <1>7. \A r \in Runs : RunWalks(r)'
    BY <1>1, SameSteps DEF WalkInv
  <1> QED
    BY <1>1, <1>2, <1>3, <1>4, <1>5, <1>6, <1>7, StepWalks

\* What the engine is shown is an approval that was put.
LEMMA ViewAgentWalks ==
  ASSUME Inv2, WalkInv, NEW p \in Procs, ViewAgent(p)
  PROVE  WalkInv'
  <1>1. /\ TypeInv /\ Others(p) /\ pc[p] = "view" /\ pc'[p] = "finish"
        /\ UNCHANGED <<run, step, approval, stamped, agent>> /\ pc[p] \in StepPoints
    BY OthersStay, GotoPoint DEF Inv2, Inv1, Drive, ViewAgent, durable, StepPoints
  <1>2. /\ job'[p].outcome = "awaiting_approval" /\ Target(p)' = Target(p)
        /\ job'[p].seen > 0 => approval[Target(p)] = "pending"
    BY <1>1 DEF ViewAgent, Target, TypeInv, TypeOK, Jobs
  <1>3. RequestWalks(p)'
    BY <1>1, <1>2, InHand DEF RequestWalks
  <1> QED
    BY <1>1, <1>3, QuietWalk

\* The commit of a step closes it and goes on, or leaves it failed, or makes the run
\* and the step wait together.
LEMMA FinishStepWalks ==
  ASSUME Inv2, WalkInv, NEW p \in Procs, FinishStep(p)
  PROVE  WalkInv'
  <1>1. /\ TypeInv /\ Others(p) /\ pc[p] = "finish" /\ pc[p] \in StepPoints
        /\ pc[p] \in HoldPoints /\ UNCHANGED agent /\ RequestWalks(p) /\ RequestOK(p)
    BY OthersStay, InHand DEF Inv2, Inv1, Drive, FinishStep, StepPoints
  <1>2. PICK r \in Runs, key \in Keys : r = job[p].run /\ key = job[p].key
    BY <1>1, InHand
  <1>3. PICK c \in Cells : c = <<r, key>> /\ c = Target(p) /\ c[1] = r /\ c[2] = key
    BY <1>1, <1>2, InHand
  <1>4. PICK word \in StepOutcome : word = job[p].outcome
    BY <1>1, InHand DEF Jobs
  <1>5. /\ Kind[key] = KindOf(p) /\ CellWalks(c) /\ step[c] = "running"
        /\ run[r].status \in {"running", "failed"}
        /\ \A k \in Keys \ {key} : step[<<r, k>>] \in {"absent", "succeeded"}
    BY <1>1, <1>2, <1>3, InHand
  <1> DEFINE asking == word = "awaiting_approval" /\ Kind[key] \in {"gated", "approval"}
             shown == /\ word = "awaiting_approval" /\ job[p].seen > 0
                      /\ job[p].seen = asks[c]
  <1>6. /\ step' = [step EXCEPT ![<<r, key>>] = word]
        /\ stamped' = [stamped EXCEPT ![c] = @ \/ asking \/ shown]
        /\ IF asking THEN Put(c) ELSE UNCHANGED <<approval, asks>>
    BY <1>2, <1>3, <1>4 DEF FinishStep, Stamp
  <1>7. /\ step'[c] = word
        /\ \A s \in Runs, k \in Keys : <<s, k>> # <<r, key>> => step'[<<s, k>>] = step[<<s, k>>]
        /\ \A d \in Cells : d # c => step'[d] = step[d]
    <2>1. /\ step'[<<r, key>>] = word
          /\ \A s \in Runs, k \in Keys : <<s, k>> # <<r, key>> => step'[<<s, k>>] = step[<<s, k>>]
          /\ \A d \in Cells : d # <<r, key>> => step'[d] = step[d]
      BY <1>1, <1>6, OneStep
    <2> QED
      BY <1>3, <2>1
  <1>8. /\ stamped'[c] = (stamped[c] \/ asking \/ shown)
        /\ approval'[c] = IF asking THEN "pending" ELSE approval[c]
        /\ \A d \in Cells : d # c => stamped'[d] = stamped[d] /\ approval'[d] = approval[d]
    BY <1>1, <1>6 DEF Put, TypeInv, TypeOK
  <1>9. /\ run'[r].status = IF word = "awaiting_approval" THEN "awaiting_approval"
                            ELSE IF word = "failed" THEN "failed" ELSE run[r].status
        /\ \A s \in Runs : s # r => run'[s] = run[s]
    <2>1. run' = [run EXCEPT ![r] = FinishedRow(p)]
      BY <1>1, <1>2 DEF FinishStep, FinishedRow, TypeInv, TypeOK
    <2>2. FinishedRow(p).status = IF word = "awaiting_approval" THEN "awaiting_approval"
                                  ELSE IF word = "failed" THEN "failed" ELSE run[r].status
      BY <1>2, <1>4 DEF FinishedRow
    <2> QED
      BY <1>1, <2>1, <2>2 DEF TypeInv, TypeOK
  <1>10. /\ word = "succeeded" /\ Kind[key] = "gated" => approval[c] = "approved"
         /\ word = "succeeded" /\ Kind[key] = "agent" => agent[c] = "completed"
         /\ word = "succeeded" => LeadsOn(key, job[p].next)
         /\ shown => approval[c] # "none"
         /\ asking /\ Kind[key] = "gated" => approval[c] = "none"
    BY <1>1, <1>2, <1>3, <1>4, <1>5 DEF RequestWalks, RequestOK
  <1>11. CellWalks(c)' /\ Answered(c)
    <2>1. approval'[c] = "none" => ~stamped'[c]
      BY <1>5, <1>8, <1>10 DEF CellWalks
    <2>2. approval'[c] = "pending" /\ stamped'[c] => word = "awaiting_approval"
      BY <1>5, <1>8 DEF CellWalks
    <2>3. Kind[key] = "gated" =>
            /\ approval'[c] = "pending" => stamped'[c]
            /\ approval'[c] = "rejected" => word \notin {"absent", "succeeded"}
      BY <1>3, <1>5, <1>8, <1>10 DEF CellWalks, StepOutcome
    <2>4. Kind[key] = "agent" /\ word = "succeeded" => agent'[c] = "completed"
      BY <1>1, <1>10
    <2>5. Answered(c)
      BY <1>3, <1>8, <1>10 DEF Answered
    <2> QED
      BY <1>3, <1>7, <2>1, <2>2, <2>3, <2>4, <2>5 DEF CellWalks
  <1>12. \A d \in Cells : CellWalks(d)' /\ Answered(d)
    BY <1>1, <1>7, <1>8, <1>11, SameCell DEF WalkInv
  <1>13. RunWalks(r)'
    <2>1. \A k \in Keys \ {key} : step'[<<r, k>>] \in {"absent", "succeeded"}
      BY <1>5, <1>7
    <2> QED
      BY <1>3, <1>5, <1>7, <1>9, <2>1, OneOpen
  <1>14. \A s \in Runs : RunWalks(s)'
    BY <1>7, <1>9, <1>13, SameSteps DEF WalkInv
  <1>15. RequestWalks(p)'
    <2>1. CASE word = "succeeded"
      <3>1. /\ pc'[p] = "loop" /\ job'[p].run = r /\ job'[p].next = job[p].next
        BY <1>1, <1>2, <1>4, <2>1, GotoPoint DEF FinishStep, GoesOn, TypeInv, TypeOK, Jobs
      <3>2. \A k \in Keys : ~Open(r, k)'
        BY <1>3, <1>5, <1>7, <2>1 DEF Open
      <3>3. Done(r, key)' /\ LeadsOn(key, job[p].next)
        BY <1>3, <1>7, <1>10, <2>1 DEF Done
      <3> QED
        BY <3>1, <3>2, <3>3 DEF RequestWalks, StepPoints, Open, Done, LeadsOn
    <2>2. CASE word # "succeeded"
      <3>1. pc'[p] = "idle"
        BY <1>1, <1>4, <2>2, GotoPoint DEF FinishStep, GoesOn
      <3> QED
        BY <3>1, Nowhere
    <2> QED
      BY <2>1, <2>2
  <1> QED
    BY <1>1, <1>2, <1>3, <1>7, <1>12, <1>14, <1>15, StepWalks

-----------------------------------------------------------------------------
(* Deciding and resuming.                                                  *)

\* A question of a gated step is refused while the step waits for it.
LEMMA DecideWalks ==
  ASSUME Inv2, WalkInv, NEW p \in Procs, NEW c \in Cells, NEW approve \in BOOLEAN,
         Decide(p, c, approve)
  PROVE  WalkInv'
  <1>1. /\ TypeInv /\ Others(p) /\ pc'[p] = "decided" /\ approval[c] = "pending"
        /\ UNCHANGED <<run, step, stamped, agent>>
        /\ approval' = [approval EXCEPT ![c] = IF approve THEN "approved" ELSE "rejected"]
    BY OthersStay, GotoPoint DEF Inv2, Inv1, Request, Decide
  <1>2. /\ approval'[c] \in {"approved", "rejected"}
        /\ \A d \in Cells : d # c => approval'[d] = approval[d]
    BY <1>1 DEF TypeInv, TypeOK
  <1>3. \A d \in Cells : CellWalks(d)' /\ Answered(d)
    BY <1>1, <1>2, SameCell DEF CellWalks, Answered, WalkInv
  <1>4. job'[p].seen = 0
    BY <1>1 DEF Decide, NoJob, TypeInv, TypeOK
  <1>5. RequestWalks(p)'
    BY <1>1, <1>4 DEF RequestWalks, StepPoints
  <1>6. \A r \in Runs : RunWalks(r)'
    BY <1>1, SameSteps DEF WalkInv
  <1> QED
    BY <1>1, <1>3, <1>5, <1>6, StepWalks

\* The agent that is resumed was paused, so its step has not succeeded.
LEMMA ResumeAgentRunWalks ==
  ASSUME Inv2, WalkInv, NEW p \in Procs, ResumeAgentRun(p)
  PROVE  WalkInv'
  <1>1. /\ TypeInv /\ Others(p) /\ pc[p] = "decided" /\ KindOf(p) = "agent"
        /\ UNCHANGED <<run, step>> /\ RequestWalks(p)
    BY OthersStay DEF Inv2, Inv1, Resume, ResumeAgentRun, WalkInv
  <1>2. PICK c \in Cells : /\ c = Target(p) /\ Kind[c[2]] = "agent"
                           /\ approval[c] # "none" /\ CellWalks(c)
    BY <1>1, Knows DEF RequestOK, WalkInv
  <1>3. RequestWalks(p)'
    <2>1. CASE Goto(p, "workflow") /\ UNCHANGED job
      <3>1. pc'[p] = "workflow"
        BY <1>1, <2>1, GotoPoint
      <3> QED
        BY <1>1, <2>1, <3>1 DEF RequestWalks, StepPoints
    <2>2. CASE Leave(p)
      BY <1>1, <2>2, GotoPoint, Nowhere
    <2> QED
      BY <2>1, <2>2, AgentAnswers
  <1>4. \/ agent' = agent
        \/ agent[c] = "awaiting_approval" /\ \A d \in Cells : d # c => agent'[d] = agent[d]
    BY <1>1, <1>2, AgentAnswers DEF TypeInv, TypeOK
  <1>5. \/ UNCHANGED <<approval, stamped>>
        \/ /\ approval'[c] = "pending" /\ ~stamped'[c]
           /\ \A d \in Cells : d # c => approval'[d] = approval[d] /\ stamped'[d] = stamped[d]
    BY <1>1, <1>2, AgentAnswers DEF Put, TypeInv, TypeOK
  <1>6. CellWalks(c)' /\ Answered(c)
    BY <1>1, <1>2, <1>4, <1>5 DEF CellWalks, Answered
  <1>7. \A d \in Cells : CellWalks(d)' /\ Answered(d)
    BY <1>1, <1>4, <1>5, <1>6, SameCell DEF WalkInv
  <1>8. \A r \in Runs : RunWalks(r)'
    BY <1>1, SameSteps DEF WalkInv
  <1> QED
    BY <1>1, <1>3, <1>4, <1>7, <1>8, StepWalks

\* Run and step leave the pause together, for the request with the last word.
LEMMA ClaimResumeWalks ==
  ASSUME Inv2, WalkInv, AnswerInv, NEW p \in Procs, ClaimResume(p)
  PROVE  WalkInv'
  <1>1. /\ TypeInv /\ Others(p) /\ pc[p] \in {"decided", "workflow"}
        /\ UNCHANGED <<approval, stamped, agent>> /\ RequestWalks(p) /\ AnswerWalks(p)
    BY OthersStay DEF Inv2, Inv1, Resume, ClaimResume, WalkInv, AnswerInv
  <1>2. PICK r \in Runs, key \in Keys : r = job[p].run /\ key = job[p].key
    BY <1>1, TargetType
  <1>3. PICK c \in Cells : c = <<r, key>> /\ c = Target(p)
    BY <1>1, <1>2, TargetType DEF Target
  <1>4. CASE /\ job[p].stamped /\ run[r].status = "awaiting_approval"
             /\ step[c] = "awaiting_approval"
    <2>1. /\ step' = [step EXCEPT ![<<r, key>>] = "running"] /\ pc'[p] = "resume"
          /\ run' = [run EXCEPT ![r].status = "running"]
          /\ job'[p].seen = job[p].seen /\ Target(p)' = c
      BY <1>1, <1>2, <1>3, <1>4, GotoPoint DEF ClaimResume, Target, TypeInv, TypeOK, Jobs
    <2>2. /\ step'[c] = "running"
          /\ \A s \in Runs, k \in Keys : <<s, k>> # <<r, key>> => step'[<<s, k>>] = step[<<s, k>>]
          /\ \A d \in Cells : d # c => step'[d] = step[d]
      <3>1. /\ step'[<<r, key>>] = "running"
            /\ \A s \in Runs, k \in Keys : <<s, k>> # <<r, key>> => step'[<<s, k>>] = step[<<s, k>>]
            /\ \A d \in Cells : d # <<r, key>> => step'[d] = step[d]
        BY <1>1, <2>1, OneStep
      <3> QED
        BY <1>3, <3>1
    <2>3. run'[r].status = "running" /\ \A s \in Runs : s # r => run'[s] = run[s]
      BY <1>1, <2>1 DEF TypeInv, TypeOK, Rows
    <2>4. RunWalks(r)'
      <3>1. \A k \in Keys \ {key} : step'[<<r, k>>] \in {"absent", "succeeded"}
        BY <1>3, <1>4, <2>2 DEF WalkInv, RunWalks, Open
      <3> QED
        BY <1>3, <2>2, <2>3, <3>1, OneOpen
    <2>5. \A s \in Runs : RunWalks(s)'
      BY <2>2, <2>3, <2>4, SameSteps DEF WalkInv
    <2>6. ~(approval[c] = "pending" /\ stamped[c])
      BY <1>1, <1>3, <1>4 DEF AnswerWalks
    <2>7. CellWalks(c)' /\ Answered(c)
      BY <1>1, <1>4, <2>2, <2>6 DEF WalkInv, CellWalks, Answered
    <2>8. \A d \in Cells : CellWalks(d)' /\ Answered(d)
      BY <1>1, <2>2, <2>7, SameCell DEF WalkInv
    <2>9. RequestWalks(p)'
      BY <1>1, <2>1, <2>2 DEF RequestWalks, StepPoints
    <2>10. \A s \in Runs, k \in Keys :
             step'[<<s, k>>] = step[<<s, k>>] \/ run[s].status = "awaiting_approval"
      BY <1>4, <2>2
    <2> QED
      BY <1>1, <2>5, <2>8, <2>9, <2>10, StepWalks
  <1>5. CASE ~(/\ job[p].stamped /\ run[r].status = "awaiting_approval"
               /\ step[c] = "awaiting_approval")
    BY <1>1, <1>2, <1>3, <1>5, LeftWalk DEF ClaimResume
  <1> QED
    BY <1>4, <1>5

\* The claim of an execution, and a claim that is lost.
LEMMA ClaimToolWalks ==
  ASSUME Inv2, WalkInv, NEW p \in Procs, ClaimTool(p)
  PROVE  WalkInv'
  <1>1. /\ TypeInv /\ Others(p) /\ pc[p] = "resume" /\ pc[p] \in StepPoints
        /\ UNCHANGED <<run, step, approval, stamped, agent>> /\ RequestWalks(p)
        /\ step[Target(p)] = "running"
    BY OthersStay, InHand DEF Inv2, Inv1, Resume, ClaimTool, StepPoints
  <1>2. RequestWalks(p)'
    <2>1. CASE Outcomes(p, "failed", End) /\ Goto(p, "finish")
      BY <1>1, <2>1, GotoPoint, NotedRequest
    <2>2. CASE Goto(p, "grant") /\ UNCHANGED job
      <3>1. pc'[p] = "grant" /\ Target(p)' = Target(p)
        BY <1>1, <2>2, GotoPoint DEF Target
      <3> QED
        BY <1>1, <2>2, <3>1 DEF RequestWalks, StepPoints
    <2> QED
      BY <2>1, <2>2 DEF ClaimTool
  <1> QED
    BY <1>1, <1>2, QuietWalk

\* A call under a decision succeeds only if the tool ran, and it runs only if granted.
LEMMA RunGrantedWalks ==
  ASSUME Inv2, WalkInv, NEW p \in Procs, RunGranted(p)
  PROVE  WalkInv'
  <1>1. /\ TypeInv /\ Others(p) /\ pc[p] = "grant" /\ pc[p] \in StepPoints
        /\ UNCHANGED <<run, step, approval, stamped, agent>>
    BY OthersStay DEF Inv2, Inv1, Resume, RunGranted, StepPoints
  <1>2. KindOf(p) = "gated" /\ (job[p].approve => approval[Target(p)] = "approved")
    BY <1>1, InHand DEF RequestOK
  <1>3. PICK tool :
          /\ tool = "ran" => job[p].approve
          /\ \/ /\ Goto(p, "finish")
                /\ \E word, target : /\ CalledTool(p, tool, word, target)
                                     /\ word = "succeeded" => tool = "ran"
                                     /\ target \in OnSuccess[job[p].key]
             \/ Leave(p)
    BY <1>1, GrantedOutcomes
  <1>4. RequestWalks(p)'
    <2>1. CASE Leave(p)
      BY <1>1, <2>1, GotoPoint, Nowhere
    <2>2. ASSUME Goto(p, "finish"), NEW word, NEW target, CalledTool(p, tool, word, target),
                 word = "succeeded" => tool = "ran", target \in OnSuccess[job[p].key]
          PROVE  RequestWalks(p)'
      <3>1. pc'[p] = "finish"
        BY <1>1, <2>2, GotoPoint
      <3>2. word = "succeeded" =>
              /\ LeadsOn(job[p].key, target)
              /\ KindOf(p) = "gated" => approval'[Target(p)] = "approved"
              /\ KindOf(p) = "agent" => agent'[Target(p)] = "completed"
        BY <1>1, <1>2, <1>3, <2>2 DEF LeadsOn
      <3> QED
        BY <1>1, <2>2, <3>1, <3>2, NotedRequest
    <2> QED
      BY <1>3, <2>1, <2>2
  <1> QED
    BY <1>1, <1>4, QuietWalk

\* What became of the agent, and where a decided approval step leads.
LEMMA ResumeOtherWalks ==
  ASSUME Inv2, WalkInv, NEW p \in Procs, ResumeAgentStep(p) \/ ResumeApproval(p)
  PROVE  WalkInv'
  <1>1. /\ TypeInv /\ Others(p) /\ pc[p] = "resume" /\ pc[p] \in StepPoints
        /\ UNCHANGED <<run, step, approval, stamped, agent>>
    BY OthersStay DEF Inv2, Inv1, Resume, ResumeAgentStep, ResumeApproval, StepPoints, durable
  <1>2. PICK c \in Cells : c = Target(p)
    BY <1>1, InHand
  <1>3. \/ Leave(p)
        \/ /\ Goto(p, "finish") /\ KindOf(p) # "gated"
           /\ \E word, target :
                /\ Outcomes(p, word, target)
                /\ word = "succeeded" => /\ LeadsOn(job[p].key, target)
                                         /\ KindOf(p) = "agent" => agent[c] = "completed"
    <2>1. CASE ResumeAgentStep(p)
      <3>1. KindOf(p) = "agent"
        BY <2>1 DEF ResumeAgentStep
      <3>2. CASE agent[c] = "awaiting_approval"
        BY <1>2, <2>1, <3>1, <3>2 DEF ResumeAgentStep
      <3>3. CASE agent[c] = "completed"
        <4>1. \/ Leave(p)
              \/ /\ \E target \in OnSuccess[job[p].key] : Outcomes(p, "succeeded", target)
                 /\ Goto(p, "finish")
          BY <1>2, <2>1, <3>3 DEF ResumeAgentStep
        <4> QED
          BY <3>1, <3>3, <4>1 DEF LeadsOn
      <3>4. CASE agent[c] \notin {"awaiting_approval", "completed"}
        BY <1>2, <2>1, <3>1, <3>4 DEF ResumeAgentStep
      <3> QED
        BY <3>2, <3>3, <3>4
    <2>2. CASE ResumeApproval(p)
      <3>1. KindOf(p) = "approval" /\ Goto(p, "finish")
        BY <2>2 DEF ResumeApproval
      <3>2. CASE job[p].approve
        <4>1. \E target \in OnSuccess[job[p].key] : Outcomes(p, "succeeded", target)
          BY <2>2, <3>2 DEF ResumeApproval
        <4> QED
          BY <3>1, <4>1 DEF LeadsOn
      <3>3. CASE ~job[p].approve /\ OnReject[job[p].key] = End
        <4>1. Outcomes(p, "failed", OnReject[job[p].key])
          BY <2>2, <3>3 DEF ResumeApproval
        <4> QED
          BY <3>1, <4>1
      <3>4. CASE ~job[p].approve /\ OnReject[job[p].key] # End
        <4>1. Outcomes(p, "succeeded", OnReject[job[p].key])
          BY <2>2, <3>4 DEF ResumeApproval
        <4> QED
          BY <3>1, <3>4, <4>1 DEF LeadsOn
      <3> QED
        BY <3>2, <3>3, <3>4
    <2> QED
      BY <2>1, <2>2
  <1>4. RequestWalks(p)'
    <2>1. CASE Leave(p)
      BY <1>1, <2>1, GotoPoint, Nowhere
    <2>2. ASSUME Goto(p, "finish"), KindOf(p) # "gated",
                 NEW word, NEW target, Outcomes(p, word, target),
                 word = "succeeded" => /\ LeadsOn(job[p].key, target)
                                       /\ KindOf(p) = "agent" => agent[c] = "completed"
          PROVE  RequestWalks(p)'
      <3>1. pc'[p] = "finish"
        BY <1>1, <2>2, GotoPoint
      <3> QED
        BY <1>1, <1>2, <2>2, <3>1, NotedRequest
    <2> QED
      BY <1>3, <2>1, <2>2
  <1> QED
    BY <1>1, <1>4, QuietWalk

-----------------------------------------------------------------------------
(* Everybody else.                                                         *)

\* A run whose open steps, if it has any, were closed when it was ended.
LEMMA EndedRun ==
  ASSUME NEW r \in Runs, RunWalks(r), run'[r].status \in {"failed", "cancelled"},
         run[r].status = "awaiting_approval",
         \A k \in Keys : \/ step'[<<r, k>>] = step[<<r, k>>]
                         \/ step[<<r, k>>] = "awaiting_approval",
         \A k \in Keys : step'[<<r, k>>] # "awaiting_approval"
  PROVE  RunWalks(r)'
  <1>1. \A k \in Keys : Open(r, k)' => Open(r, k)
    BY DEF Open
  <1> QED
    BY <1>1 DEF RunWalks

\* cancel_run: the questions, the run and its step together.
LEMMA CancelRunWalks ==
  ASSUME Inv2, WalkInv, NEW s \in Runs, CancelRun(s)
  PROVE  WalkInv'
  <1>1. /\ TypeInv /\ UNCHANGED <<stamped, agent, pc, job>>
        /\ run[s].status = "awaiting_approval"
    BY DEF Inv2, Inv1, CancelRun
  <1>2. /\ \A k \in Keys : step'[<<s, k>>] = IF step[<<s, k>>] = "awaiting_approval"
                                             THEN "cancelled" ELSE step[<<s, k>>]
        /\ \A r \in Runs, k \in Keys : r # s => step'[<<r, k>>] = step[<<r, k>>]
    BY DEF CancelRun, Cells
  <1>3. run'[s].status = "cancelled" /\ \A r \in Runs : r # s => run'[r] = run[r]
    BY <1>1 DEF CancelRun, TypeInv, TypeOK, Rows
  <1>4. \A r \in Runs : RunWalks(r)'
    BY <1>1, <1>2, <1>3, SameSteps, EndedRun DEF WalkInv
  <1>5. ASSUME NEW c \in Cells PROVE CellWalks(c)' /\ Answered(c)
    <2>1. /\ step'[c] \in {step[c], "cancelled"}
          /\ step'[c] # step[c] => step[c] = "awaiting_approval" /\ c[1] = s
          /\ \/ approval'[c] = approval[c] /\ c \notin Questions(s)
             \/ approval[c] = "pending" /\ approval'[c] = "cancelled"
      BY DEF CancelRun, Questions
    <2>2. approval'[c] = "pending" /\ stamped[c] => c[1] # s
      BY <2>1 DEF Questions, Cells
    <2>3. CellWalks(c)
      BY DEF WalkInv
    <2> QED
      BY <1>1, <2>1, <2>2, <2>3 DEF CellWalks, Answered
  <1>6. \A r \in Runs, k \in Keys :
          step'[<<r, k>>] = step[<<r, k>>] \/ run[r].status = "awaiting_approval"
    BY <1>1, <1>2
  <1> QED
    BY <1>1, <1>4, <1>5, <1>6, OutsideWalks

\* The agent that is cancelled was paused.
LEMMA CancelAgentWalks ==
  ASSUME Inv2, WalkInv, NEW s \in Cells, CancelAgent(s)
  PROVE  WalkInv'
  <1>1. /\ TypeInv /\ UNCHANGED <<run, step, stamped, pc, job>>
        /\ agent[s] = "awaiting_approval" /\ approval[s] = "pending"
    BY DEF Inv2, Inv1, CancelAgent
  <1>2. /\ \A c \in Cells : c # s => agent'[c] = agent[c] /\ approval'[c] = approval[c]
        /\ approval'[s] = "cancelled"
    BY <1>1 DEF CancelAgent, TypeInv, TypeOK
  <1>3. \A c \in Cells : CellWalks(c)' /\ Answered(c)
    BY <1>1, <1>2, SameCell DEF WalkInv, CellWalks, Answered
  <1>4. \A r \in Runs : RunWalks(r)'
    BY <1>1, SameSteps DEF WalkInv
  <1> QED
    BY <1>1, <1>2, <1>3, <1>4, OutsideWalks

\* A deadline that carries a run ends its step and, with it, the run.
LEMMA ExpireDueWalks ==
  ASSUME Inv2, WalkInv, NEW overdue \in SUBSET {c \in Cells : approval[c] = "pending"},
         ExpireDue(overdue)
  PROVE  WalkInv'
  <1> DEFINE linked == {c \in overdue : stamped[c]}
             stopped == {r \in Runs : /\ run[r].status = "awaiting_approval"
                                      /\ \E c \in linked : c[1] = r}
  <1>1. TypeInv /\ UNCHANGED <<stamped, pc, job>>
    BY DEF Inv2, Inv1, ExpireDue
  <1>2. \A c \in Cells :
          /\ approval'[c] = IF c \in overdue THEN "expired" ELSE approval[c]
          /\ agent'[c] = IF c \in overdue /\ agent[c] = "awaiting_approval"
                         THEN "failed" ELSE agent[c]
          /\ step'[c] = IF c \in linked /\ step[c] = "awaiting_approval"
                        THEN "failed" ELSE step[c]
    BY DEF ExpireDue
  <1>3. \A r \in Runs : run'[r].status = IF r \in stopped THEN "failed" ELSE run[r].status
    <2>1. run' = [r \in Runs |->
                    IF r \in stopped
                    THEN [run[r] EXCEPT !.status = "failed", !.error = "approval_expired"]
                    ELSE run[r]]
      BY DEF ExpireDue
    <2>2. \A r \in Runs :
            [run[r] EXCEPT !.status = "failed", !.error = "approval_expired"].status = "failed"
      BY <1>1 DEF TypeInv, TypeOK, Rows
    <2> HIDE DEF stopped
    <2> QED
      BY <2>1, <2>2
  <1>4. \A c \in linked : /\ c \in Cells /\ step[c] = "awaiting_approval"
                          /\ c[1] \in Runs /\ c[2] \in Keys /\ c = <<c[1], c[2]>>
    BY DEF WalkInv, CellWalks, Cells
  <1>5. ASSUME NEW r \in Runs PROVE RunWalks(r)'
    <2>1. RunWalks(r)
      BY DEF WalkInv
    <2>2. CASE \E c \in linked : c[1] = r
      <3>1. PICK c \in linked : c[1] = r
        BY <2>2
      <3>2. run[r].status = "awaiting_approval"
        BY <1>4, <2>1, <3>1 DEF RunWalks
      <3>3. run'[r].status = "failed"
        BY <1>3, <3>1, <3>2
      <3>4. \A k \in Keys : step[<<r, k>>] = "awaiting_approval" => k = c[2]
        BY <1>4, <2>1, <3>1 DEF RunWalks, Open
      <3>5. step'[<<r, c[2]>>] = "failed"
        BY <1>2, <1>4, <3>1
      <3>6. \A k \in Keys : /\ \/ step'[<<r, k>>] = step[<<r, k>>]
                               \/ step[<<r, k>>] = "awaiting_approval"
                            /\ step'[<<r, k>>] # "awaiting_approval"
        <4> SUFFICES ASSUME NEW k \in Keys
                     PROVE  /\ \/ step'[<<r, k>>] = step[<<r, k>>]
                               \/ step[<<r, k>>] = "awaiting_approval"
                            /\ step'[<<r, k>>] # "awaiting_approval"
          OBVIOUS
        <4>1. <<r, k>> \in Cells
          BY DEF Cells
        <4> QED
          BY <1>2, <3>4, <3>5, <4>1
      <3> QED
        BY <2>1, <3>2, <3>3, <3>6, EndedRun
    <2>3. CASE ~\E c \in linked : c[1] = r
      <3>1. \A k \in Keys : <<r, k>> \in Cells /\ <<r, k>> \notin linked
        BY <2>3 DEF Cells
      <3>2. \A k \in Keys : step'[<<r, k>>] = step[<<r, k>>]
        BY <1>2, <3>1
      <3>3. run'[r].status = run[r].status
        BY <1>3, <2>3
      <3> QED
        BY <2>1, <3>2, <3>3, SameSteps
    <2> QED
      BY <2>2, <2>3
  <1>6. ASSUME NEW c \in Cells PROVE CellWalks(c)' /\ Answered(c)
    <2>1. CellWalks(c) /\ (c \in overdue => approval[c] = "pending")
      BY DEF WalkInv
    <2>2. CASE c \in overdue
      BY <1>1, <1>2, <2>1, <2>2 DEF CellWalks, Answered
    <2>3. CASE c \notin overdue
      BY <1>1, <1>2, <2>1, <2>3, SameCell
    <2> QED
      BY <2>2, <2>3
  <1>7. ASSUME NEW r \in Runs, NEW k \in Keys
        PROVE  step'[<<r, k>>] = step[<<r, k>>] \/ run[r].status = "awaiting_approval"
    <2>1. <<r, k>> \in Cells
      BY DEF Cells
    <2> QED
      BY <1>2, <2>1 DEF WalkInv, RunWalks
  <1>8. \A c \in Cells : agent[c] = "completed" => agent'[c] = "completed"
    BY <1>2
  <1> QED
    BY <1>1, <1>5, <1>6, <1>7, <1>8, OutsideWalks

-----------------------------------------------------------------------------
(* The last word on a step.                                                *)

\* Nobody who begins a step is ahead of an answer to it: it was never asked about.
LEMMA NobodyAnswers ==
  ASSUME Inv2, WalkInv, NEW q \in Procs, pc[q] = "execute"
  PROVE  /\ ~stamped[Target(q)]
         /\ \A p \in Procs : pc[p] \in {"decided", "workflow"} => Target(p) # Target(q)
  <1>1. pc[q] \in StepPoints
    BY DEF StepPoints
  <1>2. /\ approval[Target(q)] = "none" /\ ~stamped[Target(q)]
    BY <1>1, InHand DEF RequestOK, CellWalks
  <1>3. \A p \in Procs : pc[p] \in {"decided", "workflow"} => approval[Target(p)] # "none"
    BY DEF Inv2, StepInv, RequestOK
  <1> QED
    BY <1>2, <1>3

\* A step that stamps no question and records no decision keeps the last words.
LEMMA AnswersStay ==
  ASSUME Inv2, WalkInv, AnswerInv, NEW p \in Procs, Others(p),
         \A c \in Cells : /\ stamped'[c] => stamped[c]
                          /\ approval'[c] = "pending" /\ stamped'[c] => approval[c] = "pending",
         Fresh(p)' => Target(p)' = Target(p) /\ (Fresh(p) \/ pc[p] = "execute"),
         pc'[p] \in {"decided", "workflow"} /\ job'[p].stamped =>
           /\ Target(p)' = Target(p)
           /\ pc[p] \in {"decided", "workflow"} /\ job[p].stamped
  PROVE  AnswerInv'
  <1> SUFFICES ASSUME NEW q \in Procs PROVE AnswerWalks(q)'
    BY DEF AnswerInv
  <1>1. \A s \in Procs : Fresh(s)' => Target(s)' = Target(s) /\ (Fresh(s) \/ pc[s] = "execute")
    BY DEF Others, Fresh, Target, KindOf
  <1>2. pc'[q] \in {"decided", "workflow"} /\ job'[q].stamped =>
          /\ Target(q)' = Target(q)
          /\ pc[q] \in {"decided", "workflow"} /\ job[q].stamped
    BY DEF Others, Target
  <1>3. AnswerWalks(q) /\ (pc[q] # "idle" => Target(q) \in Cells)
    BY Knows DEF AnswerInv
  <1>4. ASSUME Fresh(q)'
        PROVE  Target(q)' = Target(q) /\ ~stamped'[Target(q)]
    <2>1. Target(q)' = Target(q) /\ ~stamped[Target(q)] /\ pc[q] # "idle"
      BY <1>1, <1>3, <1>4, NobodyAnswers DEF AnswerWalks, Fresh
    <2> QED
      BY <1>3, <2>1
  <1>5. ASSUME pc'[q] \in {"decided", "workflow"}, job'[q].stamped
        PROVE  /\ Target(q)' = Target(q)
               /\ ~(approval'[Target(q)] = "pending" /\ stamped'[Target(q)])
               /\ \A s \in Procs : Fresh(s)' => Target(s)' # Target(q)
    <2>1. /\ Target(q)' = Target(q) /\ Target(q) \in Cells
          /\ ~(approval[Target(q)] = "pending" /\ stamped[Target(q)])
          /\ \A s \in Procs : Fresh(s) => Target(s) # Target(q)
      BY <1>2, <1>3, <1>5 DEF AnswerWalks
    <2>2. \A s \in Procs : Fresh(s)' => Target(s)' # Target(q)
      BY <1>1, <1>2, <1>5, NobodyAnswers, <2>1
    <2> QED
      BY <2>1, <2>2
  <1> QED
    BY <1>4, <1>5 DEF AnswerWalks

\* A request that takes no question to a commit and carries no decision.
LEMMA NoWord ==
  ASSUME Inv2, WalkInv, AnswerInv, NEW p \in Procs, Others(p),
         UNCHANGED <<approval, stamped>>, pc'[p] \notin {"view", "finish", "decided", "workflow"}
  PROVE  AnswerInv'
  BY AnswersStay DEF Fresh

\* Starting, driving and pausing.
LEMMA DriveAnswers ==
  ASSUME Inv2, WalkInv, AnswerInv, NEW p \in Procs, Drive(p), ~FinishStep(p)
  PROVE  AnswerInv'
  <1>1. TypeInv /\ Others(p)
    BY OthersStay DEF Inv2, Inv1
  <1>2. CASE ClaimRun(p)
    BY <1>1, <1>2, GotoPoint, NoWord DEF ClaimRun
  <1>3. CASE Succeed(p) \/ ReachLimit(p)
    BY <1>1, <1>3, GotoPoint, NoWord DEF Succeed, ReachLimit, EndRun
  <1>4. CASE BeginStep(p)
    BY <1>1, <1>4, GotoPoint, NoWord DEF BeginStep
  <1>5. CASE ExecuteTool(p)
    <2>1. /\ pc[p] = "execute" /\ pc'[p] = "finish" /\ Target(p)' = Target(p)
          /\ UNCHANGED <<approval, stamped>>
      BY <1>1, <1>5, GotoPoint, ToolOutcomes, CalledTarget DEF ExecuteTool
    <2> QED
      BY <1>1, <2>1, AnswersStay
  <1>6. CASE ExecuteCondition(p) \/ ExecuteApproval(p)
    <2>1. /\ pc[p] = "execute" /\ pc'[p] = "finish" /\ Target(p)' = Target(p)
          /\ UNCHANGED <<approval, stamped>>
      BY <1>1, <1>6, GotoPoint, NotedTarget DEF ExecuteCondition, ExecuteApproval, durable
    <2> QED
      BY <1>1, <2>1, AnswersStay
  <1>7. CASE ExecuteAgent(p)
    <2>1. pc[p] = "execute" /\ Target(p) \in Cells /\ ~stamped[Target(p)] /\ UNCHANGED stamped
      BY <1>7, Knows, NobodyAnswers DEF ExecuteAgent
    <2>2. \A c \in Cells : c # Target(p) => approval'[c] = approval[c]
      BY <1>1, <1>7, AgentOutcomes DEF Put, TypeInv, TypeOK
    <2>3. /\ pc'[p] \in {"finish", "view", "idle"}
          /\ pc'[p] # "idle" => Target(p)' = Target(p)
      <3>1. CASE Goto(p, "finish") /\ \E word, target : Outcomes(p, word, target)
        BY <1>1, <3>1, GotoPoint, NotedTarget
      <3>2. CASE Goto(p, "view") /\ UNCHANGED job
        BY <1>1, <3>2, GotoPoint DEF Target
      <3>3. CASE Leave(p)
        BY <1>1, <3>3, GotoPoint
      <3> QED
        BY <1>7, <3>1, <3>2, <3>3, AgentOutcomes
    <2> QED
      BY <1>1, <2>1, <2>2, <2>3, AnswersStay DEF Fresh
  <1>8. CASE ViewAgent(p)
    <2>1. /\ pc[p] = "view" /\ pc'[p] = "finish" /\ Target(p)' = Target(p)
          /\ UNCHANGED <<approval, stamped>>
      BY <1>1, <1>8, GotoPoint DEF ViewAgent, durable, Target, TypeInv, TypeOK, Jobs
    <2> QED
      BY <1>1, <2>1, AnswersStay DEF Fresh
  <1> QED
    BY <1>2, <1>3, <1>4, <1>5, <1>6, <1>7, <1>8 DEF Drive

\* Resuming: an agent that asks again takes the stamp off its step, and a claimed step
\* that waits again is not stamped by its commit.
LEMMA ResumeAnswers ==
  ASSUME Inv2, WalkInv, AnswerInv, NEW p \in Procs, Resume(p)
  PROVE  AnswerInv'
  <1>1. TypeInv /\ Others(p)
    BY OthersStay DEF Inv2, Inv1
  <1>2. CASE ResumeAgentRun(p)
    <2>1. pc[p] = "decided"
      BY <1>2 DEF ResumeAgentRun
    <2>2. \/ pc'[p] = "idle"
          \/ /\ pc'[p] = "workflow" /\ Target(p)' = Target(p)
             /\ job'[p].stamped = job[p].stamped
      BY <1>1, <1>2, GotoPoint, AgentAnswers DEF Target
    <2>3. \/ UNCHANGED <<approval, stamped>>
          \/ \A c \in Cells : /\ stamped'[c] = (stamped[c] /\ c # Target(p))
                              /\ c # Target(p) => approval'[c] = approval[c]
      BY <1>1, <1>2, AgentAnswers DEF Put, TypeInv, TypeOK
    <2> QED
      BY <1>1, <2>1, <2>2, <2>3, AnswersStay DEF Fresh
  <1>3. CASE ClaimResume(p)
    BY <1>1, <1>3, GotoPoint, NoWord DEF ClaimResume
  <1>4. ASSUME UNCHANGED <<approval, stamped>>,
               pc'[p] \in {"finish", "grant", "idle"},
               pc'[p] = "finish" => /\ Target(p)' = Target(p)
                                    /\ \/ job'[p].outcome # "awaiting_approval"
                                       \/ job'[p].seen = 0 /\ KindOf(p)' = "agent"
        PROVE  AnswerInv'
    BY <1>1, <1>4, AnswersStay DEF Fresh
  <1>5. CASE ClaimTool(p)
    <2>1. CASE Outcomes(p, "failed", End) /\ Goto(p, "finish")
      BY <1>1, <1>4, <1>5, <2>1, GotoPoint, NotedTarget DEF ClaimTool
    <2>2. CASE Goto(p, "grant")
      BY <1>1, <1>4, <1>5, <2>2, GotoPoint DEF ClaimTool
    <2> QED
      BY <1>5, <2>1, <2>2 DEF ClaimTool
  <1>6. CASE RunGranted(p)
    <2>1. UNCHANGED <<approval, stamped>>
      BY <1>6 DEF RunGranted
    <2>2. \/ Leave(p)
          \/ /\ Goto(p, "finish")
             /\ \E tool, word, target : /\ CalledTool(p, tool, word, target)
                                        /\ word \in {"succeeded", "failed"}
      BY <1>1, <1>6, GrantedOutcomes
    <2> QED
      BY <1>1, <1>4, <2>1, <2>2, GotoPoint, CalledTarget
  <1>7. CASE RaiseGranted(p)
    BY <1>1, <1>4, <1>7, GotoPoint DEF RaiseGranted, durable
  <1>8. CASE ResumeAgentStep(p)
    <2>1. /\ UNCHANGED <<approval, stamped>> /\ job[p].seen = 0 /\ KindOf(p) = "agent"
      BY <1>8 DEF ResumeAgentStep, durable, WalkInv, RequestWalks
    <2>2. \/ Leave(p)
          \/ Goto(p, "finish") /\ \E word, target : Outcomes(p, word, target)
      <3> DEFINE c == Target(p)
      <3>1. CASE agent[c] = "awaiting_approval"
        BY <1>8, <3>1 DEF ResumeAgentStep
      <3>2. CASE agent[c] = "completed"
        BY <1>8, <3>2 DEF ResumeAgentStep
      <3>3. CASE agent[c] \notin {"awaiting_approval", "completed"}
        BY <1>8, <3>3 DEF ResumeAgentStep
      <3> QED
        BY <3>1, <3>2, <3>3
    <2>3. ASSUME Goto(p, "finish"), NEW word, NEW target, Outcomes(p, word, target)
          PROVE  AnswerInv'
      <3>1. /\ pc'[p] = "finish" /\ Target(p)' = Target(p) /\ KindOf(p)' = "agent"
            /\ job'[p].seen = 0
        BY <1>1, <2>1, <2>3, GotoPoint, NotedTarget, NotedJob
      <3> QED
        BY <1>4, <2>1, <3>1
    <2>4. CASE Leave(p)
      BY <1>1, <1>4, <2>1, <2>4, GotoPoint
    <2> QED
      BY <2>2, <2>3, <2>4
  <1>9. CASE ResumeApproval(p)
    <2>1. UNCHANGED <<approval, stamped>> /\ Goto(p, "finish")
      BY <1>9 DEF ResumeApproval, durable
    <2>2. \E word, target : Outcomes(p, word, target) /\ word # "awaiting_approval"
      BY <1>9 DEF ResumeApproval
    <2> QED
      BY <1>1, <1>4, <2>1, <2>2, GotoPoint, NotedTarget
  <1> QED
    BY <1>2, <1>3, <1>5, <1>6, <1>7, <1>8, <1>9 DEF Resume

\* The environment stamps nothing and puts no question.
LEMMA OutsideAnswers ==
  ASSUME Inv2, WalkInv, AnswerInv, UNCHANGED <<pc, job, stamped>>,
         \A c \in Cells : approval'[c] = "pending" => approval[c] = "pending"
  PROVE  AnswerInv'
  <1> SUFFICES ASSUME NEW q \in Procs PROVE AnswerInv'
    BY DEF AnswerInv
  <1>1. Others(q) /\ Target(q)' = Target(q) /\ (Fresh(q)' => Fresh(q))
    BY DEF Others, Target, Fresh, KindOf
  <1> QED
    BY <1>1, AnswersStay

\* A decision that carries its run was put on a question stamped before.
LEMMA DecideAnswers ==
  ASSUME Inv2, WalkInv, AnswerInv, NEW p \in Procs, NEW c \in Cells,
         NEW approve \in BOOLEAN, Decide(p, c, approve)
  PROVE  AnswerInv'
  <1> SUFFICES ASSUME NEW q \in Procs PROVE AnswerWalks(q)'
    BY DEF AnswerInv
  <1>1. /\ TypeInv /\ Others(p) /\ pc'[p] = "decided" /\ UNCHANGED stamped
        /\ job'[p].stamped = stamped[c] /\ Target(p)' = c
        /\ approval' = [approval EXCEPT ![c] = IF approve THEN "approved" ELSE "rejected"]
    <2>1. TypeInv /\ Others(p) /\ pc'[p] = "decided"
      BY OthersStay, GotoPoint DEF Inv2, Inv1, Request, Decide
    <2>2. job'[p].stamped = stamped[c] /\ Target(p)' = c
      BY <2>1 DEF Decide, Target, Cells, NoJob, TypeInv, TypeOK
    <2> QED
      BY <2>1, <2>2 DEF Decide
  <1>2. /\ approval'[c] # "pending"
        /\ \A d \in Cells : d # c => approval'[d] = approval[d]
    BY <1>1 DEF TypeInv, TypeOK
  <1>3. \A s \in Procs : Fresh(s)' => /\ Target(s)' = Target(s) /\ Fresh(s)
                                     /\ ~stamped[Target(s)]
    BY <1>1 DEF Others, Fresh, Target, KindOf, AnswerInv, AnswerWalks
  <1>4. CASE q = p
    BY <1>1, <1>2, <1>3, <1>4 DEF AnswerWalks
  <1>5. CASE q # p
    <2>1. /\ pc'[q] = pc[q] /\ job'[q] = job[q] /\ Target(q)' = Target(q) /\ AnswerWalks(q)
          /\ pc[q] # "idle" => Target(q) \in Cells
      BY <1>1, <1>5, Knows DEF Others, Target, AnswerInv
    <2> QED
      BY <1>1, <1>2, <1>3, <2>1 DEF AnswerWalks
  <1> QED
    BY <1>4, <1>5

\* A commit stamps the question of a fresh step only, and nobody carries a decision
\* about one.
LEMMA FinishStepAnswers ==
  ASSUME Inv2, WalkInv, AnswerInv, NEW p \in Procs, FinishStep(p)
  PROVE  AnswerInv'
  <1> SUFFICES ASSUME NEW q \in Procs PROVE AnswerWalks(q)'
    BY DEF AnswerInv
  <1>1. /\ TypeInv /\ Others(p) /\ pc[p] = "finish" /\ pc'[p] \in {"loop", "idle"}
        /\ pc[p] \in HoldPoints
    BY OthersStay, GotoPoint DEF Inv2, Inv1, Drive, FinishStep, HoldPoints, DrivePoints
  <1>2. PICK c \in Cells : c = Target(p)
    BY <1>1, Knows
  <1> DEFINE asking == /\ job[p].outcome = "awaiting_approval"
                       /\ Kind[job[p].key] \in {"gated", "approval"}
             shown == /\ job[p].outcome = "awaiting_approval" /\ job[p].seen > 0
                      /\ job[p].seen = asks[c]
  <1>3. /\ stamped' = [stamped EXCEPT ![c] = @ \/ asking \/ shown]
        /\ IF asking THEN Put(c) ELSE UNCHANGED <<approval, asks>>
    BY <1>2 DEF FinishStep, Stamp
  <1>4. /\ \A d \in Cells : d # c => stamped'[d] = stamped[d] /\ approval'[d] = approval[d]
        /\ ~Fresh(p) => stamped'[c] = stamped[c] /\ approval'[c] = approval[c]
    BY <1>1, <1>3 DEF Fresh, KindOf, Put, TypeInv, TypeOK
  <1>5. ASSUME NEW s \in Procs, pc'[s] \notin {"loop", "idle"}
        PROVE  /\ s # p /\ pc'[s] = pc[s] /\ job'[s] = job[s] /\ Target(s)' = Target(s)
               /\ Fresh(s)' = Fresh(s) /\ AnswerWalks(s) /\ Target(s) \in Cells
    BY <1>1, <1>5, Knows DEF Others, Target, Fresh, KindOf, AnswerInv
  <1>6. ASSUME Fresh(q)' PROVE Target(q)' = Target(q) /\ ~stamped'[Target(q)]
    <2>1. /\ q # p /\ pc'[q] = pc[q] /\ Target(q)' = Target(q) /\ Fresh(q)
          /\ AnswerWalks(q) /\ Target(q) \in Cells /\ pc[q] \in {"view", "finish"}
      BY <1>5, <1>6 DEF Fresh
    <2>2. Free(p, job[p].run) /\ pc[q] \in HoldPoints
      BY <1>1, <2>1, HolderKnows DEF Inv2, HoldPoints, DrivePoints
    <2>3. Target(q) # c
      BY <1>2, <2>1, <2>2 DEF Free, Target
    <2> QED
      BY <1>4, <2>1, <2>3 DEF AnswerWalks
  <1>7. ASSUME pc'[q] \in {"decided", "workflow"}, job'[q].stamped
        PROVE  /\ Target(q)' = Target(q)
               /\ ~(approval'[Target(q)] = "pending" /\ stamped'[Target(q)])
               /\ \A s \in Procs : Fresh(s)' => Target(s)' # Target(q)
    <2>1. /\ Target(q)' = Target(q) /\ Target(q) \in Cells
          /\ ~(approval[Target(q)] = "pending" /\ stamped[Target(q)])
          /\ \A s \in Procs : Fresh(s) => Target(s) # Target(q)
      BY <1>5, <1>7 DEF AnswerWalks
    <2>2. \A s \in Procs : Fresh(s)' => Fresh(s) /\ Target(s)' = Target(s)
      BY <1>5 DEF Fresh
    <2>3. Target(q) = c => ~Fresh(p)
      BY <1>2, <2>1
    <2> QED
      BY <1>4, <2>1, <2>2, <2>3
  <1> QED
    BY <1>6, <1>7 DEF AnswerWalks

-----------------------------------------------------------------------------
(* The invariant.                                                          *)

\* A step of a request keeps the walk.
LEMMA RequestWalk ==
  ASSUME Inv3, NEW p \in Procs, Request(p) \/ Drive(p) \/ Resume(p)
  PROVE  WalkInv' /\ AnswerInv'
  <1> USE DEF Inv3
  <1>1. TypeInv /\ Others(p)
    BY OthersStay DEF Inv2, Inv1
  <1>2. ASSUME NEW r \in Runs, Create(p, r) PROVE WalkInv' /\ AnswerInv'
    BY <1>1, <1>2, CreateWalks, GotoPoint, NoWord DEF Create
  <1>3. ASSUME NEW c \in Cells, NEW approve \in BOOLEAN, Decide(p, c, approve)
        PROVE  WalkInv' /\ AnswerInv'
    BY <1>3, DecideWalks, DecideAnswers
  <1>4. CASE Drive(p)
    <2>1. AnswerInv'
      BY <1>4, DriveAnswers, FinishStepAnswers
    <2> QED
      BY <1>4, <2>1, ClaimRunWalks, SucceedWalks, ReachLimitWalks, BeginStepWalks,
         ExecuteToolWalks, ExecuteOtherWalks, ExecuteAgentWalks, ViewAgentWalks,
         FinishStepWalks DEF Drive
  <1>5. CASE Resume(p)
    <2>1. CASE RaiseGranted(p)
      BY <1>1, <2>1, LeftWalk, ResumeAnswers DEF RaiseGranted, durable, Resume
    <2> QED
      BY <1>5, <2>1, ResumeAnswers, ResumeAgentRunWalks, ClaimResumeWalks, ClaimToolWalks,
         RunGrantedWalks, ResumeOtherWalks DEF Resume
  <1> QED
    BY <1>2, <1>3, <1>4, <1>5 DEF Request

\* So does a step of anybody else.
LEMMA EnvironmentWalk ==
  ASSUME Inv3, Environment
  PROVE  WalkInv' /\ AnswerInv'
  <1> USE DEF Inv3
  <1>1. TypeInv
    BY DEF Inv2, Inv1
  <1>2. ASSUME NEW r \in Runs, CancelRun(r) PROVE WalkInv' /\ AnswerInv'
    BY <1>2, CancelRunWalks, OutsideAnswers DEF CancelRun
  <1>3. ASSUME NEW r \in Runs, Age(r) PROVE WalkInv' /\ AnswerInv'
    <2>1. UNCHANGED <<run, step, approval, stamped, agent, pc, job>>
      BY <1>3 DEF Age
    <2>2. (\A c \in Cells : CellWalks(c)' /\ Answered(c)) /\ (\A s \in Runs : RunWalks(s)')
      BY <2>1, SameCell, SameSteps DEF WalkInv
    <2> QED
      BY <2>1, <2>2, OutsideWalks, OutsideAnswers
  <1>4. ASSUME NEW c \in Cells, CancelAgent(c) PROVE WalkInv' /\ AnswerInv'
    <2>1. \A d \in Cells : approval'[d] = "pending" => approval[d] = "pending"
      BY <1>1, <1>4 DEF CancelAgent, TypeInv, TypeOK
    <2> QED
      BY <1>4, <2>1, CancelAgentWalks, OutsideAnswers DEF CancelAgent
  <1>5. ASSUME NEW overdue \in SUBSET {c \in Cells : approval[c] = "pending"},
               ExpireDue(overdue)
        PROVE  WalkInv' /\ AnswerInv'
    BY <1>5, ExpireDueWalks, OutsideAnswers DEF ExpireDue
  <1>6. ASSUME NEW p \in Procs, Crash(p) PROVE WalkInv' /\ AnswerInv'
    BY <1>1, <1>6, OthersStay, GotoPoint, LeftWalk, NoWord DEF Crash, Leave, durable
  <1> QED
    BY <1>2, <1>3, <1>4, <1>5, <1>6 DEF Environment

\* Every step keeps the invariant.
LEMMA WalkStep == Inv3 /\ [Next]_vars => Inv3'
  <1> SUFFICES ASSUME Inv3, [Next]_vars PROVE WalkInv' /\ AnswerInv'
    BY StepStep DEF Inv3
  <1>1. CASE UNCHANGED vars
    <2>1. UNCHANGED <<run, step, approval, stamped, agent, pc, job>>
      BY <1>1 DEF vars
    <2>2. (\A c \in Cells : CellWalks(c)' /\ Answered(c)) /\ (\A s \in Runs : RunWalks(s)')
      BY <2>1, SameCell, SameSteps DEF Inv3, WalkInv
    <2> QED
      BY <2>1, <2>2, OutsideWalks, OutsideAnswers DEF Inv3
  <1> QED
    BY <1>1, RequestWalk, EnvironmentWalk DEF Next

\* Before anything happens no run has a step and no request stands anywhere.
LEMMA InitWalk == Init => Inv3
  <1> SUFFICES ASSUME Init PROVE WalkInv /\ AnswerInv
    BY InitStep DEF Inv3
  <1>1. /\ \A r \in Runs : run[r].status = "absent"
        /\ \A r \in Runs, k \in Keys : step[<<r, k>>] = "absent"
        /\ \A c \in Cells : step[c] = "absent" /\ approval[c] = "none" /\ stamped[c] = FALSE
        /\ \A p \in Procs : pc[p] = "idle"
    BY DEF Init, Cells
  <1> QED
    BY <1>1 DEF WalkInv, RunWalks, CellWalks, RequestWalks, AnswerInv, AnswerWalks, Fresh,
       Open, Done, StepPoints

\* How the engine's rows and the requests' memory belong together, in every reachable
\* state.
THEOREM WalkInvariant == Spec => []Inv3
  BY InitWalk, WalkStep, PTL DEF Spec

\* "A run waits for a person exactly when one of its steps does": the pause, the
\* resume, the cancellation and the expiry write both rows or neither.
THEOREM RunsWaitWithTheirSteps == Spec => []RunWaitsWithItsStep
  <1>1. Inv3 => RunWaitsWithItsStep
    BY DEF Inv3, WalkInv, RunWalks, RunWaitsWithItsStep
  <1> QED
    BY <1>1, WalkInvariant, PTL

\* A run that succeeded left no step open or failed behind, and its last step is one
\* where the definition may end (WorkflowEngine._drive returns on a null target only).
THEOREM SucceededRunsAreWhole == Spec => []SucceededRunIsWhole
  <1>1. Inv3 => SucceededRunIsWhole
    BY DEF Inv3, WalkInv, RunWalks, Open, Done, SucceededRunIsWhole
  <1> QED
    BY <1>1, WalkInvariant, PTL

\* An agent step is a success only over an agent run that completed: whatever was
\* decided, cancelled or expired on the way, nothing takes that back.
THEOREM AgentStepsTellTruth == Spec => []AgentStepTellsTruth
  <1>1. Inv3 => AgentStepTellsTruth
    BY DEF Inv3, WalkInv, CellWalks, AgentStepTellsTruth
  <1> QED
    BY <1>1, WalkInvariant, PTL

-----------------------------------------------------------------------------
(* The walk.                                                               *)

\* What the abstract walk sees of a run.
OpenSteps == [r \in Runs |-> {k \in Keys : step[<<r, k>>] \notin {"absent", "succeeded"}}]
DoneSteps == [r \in Runs |-> {k \in Keys : step[<<r, k>>] = "succeeded"}]

\* The step of run r at key begins, and nothing else; or it is the one that succeeds.
Begins(r, key) ==
  /\ step[<<r, key>>] = "absent" /\ step'[<<r, key>>] = "running"
  /\ \A c \in Cells : c # <<r, key>> => step'[c] = step[c]
  /\ \A k \in Keys : ~Open(r, k)
  /\ \/ key = Entry /\ \A k \in Keys : step[<<r, k>>] = "absent"
     \/ \E k \in Keys : Done(r, k) /\ LeadsOn(k, key)

Closes(r, key) ==
  /\ Open(r, key) /\ step'[<<r, key>>] = "succeeded"
  /\ \A c \in Cells : c # <<r, key>> => step'[c] = step[c]
  /\ \A k \in Keys : Open(r, k) => k = key

\* A row that is written without beginning or succeeding is open before and after.
StaysOpen ==
  \A c \in Cells : step'[c] # step[c] =>
    {step[c], step'[c]} \cap {"absent", "succeeded"} = {}

\* BeginStep takes the next step.
LEMMA BeginStepBegins ==
  ASSUME Inv3, NEW p \in Procs, BeginStep(p)
  PROVE  (\E r \in Runs, key \in Keys : Begins(r, key)) \/ StaysOpen
  <1>1. TypeInv /\ pc[p] = "loop" /\ job[p].next # End /\ RequestWalks(p)
    BY DEF Inv3, Inv2, Inv1, WalkInv, BeginStep
  <1>2. PICK r \in Runs, key \in Keys : r = job[p].run /\ key = job[p].next
    BY <1>1, TargetType DEF Jobs
  <1>3. CASE step[<<r, key>>] = "absent"
    <2>1. step' = [step EXCEPT ![<<r, key>>] = "running"]
      BY <1>2, <1>3 DEF BeginStep
    <2>2. /\ step'[<<r, key>>] = "running"
          /\ \A c \in Cells : c # <<r, key>> => step'[c] = step[c]
      BY <1>1, <2>1 DEF TypeInv, TypeOK, Cells
    <2>3. /\ \A k \in Keys : ~Open(r, k)
          /\ \/ key = Entry /\ \A k \in Keys : step[<<r, k>>] = "absent"
             \/ \E k \in Keys : Done(r, k) /\ LeadsOn(k, key)
      BY <1>1, <1>2 DEF RequestWalks
    <2> QED
      BY <1>3, <2>2, <2>3 DEF Begins
  <1>4. CASE step[<<r, key>>] # "absent"
    BY <1>2, <1>4 DEF BeginStep, StaysOpen
  <1> QED
    BY <1>3, <1>4

\* The commit of a step closes it, or leaves it open.
LEMMA FinishStepCloses ==
  ASSUME Inv3, NEW p \in Procs, FinishStep(p)
  PROVE  (\E r \in Runs, key \in Keys : Closes(r, key)) \/ StaysOpen
  <1>1. pc[p] \in StepPoints /\ Inv2 /\ WalkInv
    BY DEF Inv3, FinishStep, StepPoints
  <1>2. PICK r \in Runs, key \in Keys : r = job[p].run /\ key = job[p].key
    BY <1>1, InHand
  <1>3. PICK word \in StepOutcome : word = job[p].outcome
    BY <1>1, InHand DEF Jobs
  <1>4. /\ TypeInv /\ Target(p) = <<r, key>> /\ step[<<r, key>>] = "running"
        /\ step' = [step EXCEPT ![<<r, key>>] = word]
    BY <1>1, <1>2, <1>3, InHand DEF FinishStep, Target
  <1>5. /\ step'[<<r, key>>] = word
        /\ \A c \in Cells : c # <<r, key>> => step'[c] = step[c]
    BY <1>4 DEF TypeInv, TypeOK, Cells
  <1>6. CASE word = "succeeded"
    <2>1. \A k \in Keys : Open(r, k) => k = key
      BY <1>1, <1>4 DEF WalkInv, RunWalks, Open
    <2> QED
      BY <1>4, <1>5, <1>6, <2>1 DEF Closes, Open
  <1>7. CASE word # "succeeded"
    BY <1>4, <1>5, <1>7 DEF StaysOpen, StepOutcome
  <1> QED
    BY <1>6, <1>7

\* What a step of the system does to the rows of the steps.
LEMMA StepRows ==
  ASSUME Inv3, [Next]_vars
  PROVE  \/ \E r \in Runs, key \in Keys : Begins(r, key) \/ Closes(r, key)
         \/ StaysOpen
  <1>1. TypeInv
    BY DEF Inv3, Inv2, Inv1
  <1>2. ASSUME UNCHANGED step PROVE StaysOpen
    BY <1>2 DEF StaysOpen
  <1>3. ASSUME NEW p \in Procs, Request(p) PROVE StaysOpen
    BY <1>2, <1>3, ZenonT(60) DEF Request, Create, Decide
  <1>4. ASSUME NEW p \in Procs, Drive(p), ~BeginStep(p), ~FinishStep(p) PROVE StaysOpen
    BY <1>2, <1>4 DEF Drive, ClaimRun, Succeed, ReachLimit, EndRun, ExecuteTool,
       ExecuteCondition, ExecuteApproval, ExecuteAgent, ViewAgent, durable
  <1>5. ASSUME NEW p \in Procs, Resume(p) PROVE StaysOpen
    <2>1. CASE ClaimResume(p)
      <3>1. \/ UNCHANGED step
            \/ /\ step[Target(p)] = "awaiting_approval"
               /\ step' = [step EXCEPT ![Target(p)] = "running"]
        BY <2>1 DEF ClaimResume
      <3> QED
        BY <1>1, <1>2, <3>1 DEF StaysOpen, TypeInv, TypeOK
    <2> QED
      BY <1>2, <1>5, <2>1 DEF Resume, ResumeAgentRun, ClaimTool, RunGranted, RaiseGranted,
         ResumeAgentStep, ResumeApproval, durable
  <1>6. CASE Environment
    <2>1. ASSUME NEW r \in Runs, CancelRun(r) PROVE StaysOpen
      BY <2>1 DEF CancelRun, StaysOpen
    <2>2. ASSUME NEW overdue, ExpireDue(overdue) PROVE StaysOpen
      BY <2>2 DEF ExpireDue, StaysOpen
    <2>3. ASSUME NEW r \in Runs, Age(r) PROVE StaysOpen
      BY <1>2, <2>3 DEF Age
    <2>4. ASSUME NEW c \in Cells, CancelAgent(c) PROVE StaysOpen
      BY <1>2, <2>4 DEF CancelAgent
    <2>5. ASSUME NEW p \in Procs, Crash(p) PROVE StaysOpen
      BY <1>2, <2>5 DEF Crash, durable
    <2> QED
      BY <1>6, <2>1, <2>2, <2>3, <2>4, <2>5 DEF Environment
  <1>7. CASE UNCHANGED vars
    BY <1>2, <1>7 DEF vars
  <1> QED
    BY <1>3, <1>4, <1>5, <1>6, <1>7, BeginStepBegins, FinishStepCloses DEF Next

\* A step that begins is a step the walk takes.
LEMMA BeginsTakes ==
  ASSUME Inv3, NEW r \in Runs, NEW key \in Keys, Begins(r, key)
  PROVE  Walk!Take(r, key)
  <1>1. /\ OpenSteps[r] = {} /\ key \notin DoneSteps[r]
        /\ \/ key = Entry /\ DoneSteps[r] = {}
           \/ \E l \in DoneSteps[r] : Walk!Leads(l, key)
    BY DEF Begins, OpenSteps, DoneSteps, Open, Done, LeadsOn, Walk!Leads
  <1>2. \A s \in Runs, k \in Keys : <<s, k>> \in Cells /\ (<<s, k>> = <<r, key>> <=> s = r /\ k = key)
    BY DEF Cells
  <1>3. /\ step[<<r, key>>] = "absent" /\ step'[<<r, key>>] = "running"
        /\ \A s \in Runs, k \in Keys : ~(s = r /\ k = key) => step'[<<s, k>>] = step[<<s, k>>]
    BY <1>2 DEF Begins
  <1>4. DoneSteps' = DoneSteps
    BY <1>3 DEF DoneSteps
  <1>5. OpenSteps' = [OpenSteps EXCEPT ![r] = {key}]
    <2>1. \A s \in Runs : s # r => OpenSteps'[s] = OpenSteps[s]
      BY <1>3 DEF OpenSteps
    <2>2. OpenSteps'[r] = {key}
      BY <1>1, <1>3 DEF OpenSteps
    <2> QED
      BY <2>1, <2>2 DEF OpenSteps
  <1> QED
    BY <1>1, <1>4, <1>5 DEF Walk!Take, OpenSteps, DoneSteps

\* The step that succeeds is the one in hand, and goes to the finished ones.
LEMMA ClosesCompletes ==
  ASSUME Inv3, NEW r \in Runs, NEW key \in Keys, Closes(r, key)
  PROVE  Walk!Complete(r)
  <1>1. OpenSteps[r] = {key}
    BY DEF Closes, OpenSteps, Open
  <1>2. \A s \in Runs, k \in Keys : <<s, k>> \in Cells /\ (<<s, k>> = <<r, key>> <=> s = r /\ k = key)
    BY DEF Cells
  <1>3. /\ step'[<<r, key>>] = "succeeded"
        /\ \A s \in Runs, k \in Keys : ~(s = r /\ k = key) => step'[<<s, k>>] = step[<<s, k>>]
    BY <1>2 DEF Closes
  <1>4. OpenSteps' = [OpenSteps EXCEPT ![r] = {}]
    <2>1. \A s \in Runs : s # r => OpenSteps'[s] = OpenSteps[s]
      BY <1>3 DEF OpenSteps
    <2>2. OpenSteps'[r] = {}
      BY <1>1, <1>3 DEF OpenSteps
    <2> QED
      BY <2>1, <2>2 DEF OpenSteps
  <1>5. DoneSteps' = [DoneSteps EXCEPT ![r] = @ \cup OpenSteps[r]]
    <2>1. \A s \in Runs : s # r => DoneSteps'[s] = DoneSteps[s]
      BY <1>3 DEF DoneSteps
    <2>2. DoneSteps'[r] = DoneSteps[r] \cup {key}
      BY <1>3 DEF DoneSteps
    <2> QED
      BY <1>1, <2>1, <2>2 DEF DoneSteps
  <1> QED
    BY <1>1, <1>4, <1>5 DEF Walk!Complete, OpenSteps, DoneSteps

\* Every step of the engine is a step of the walk, or none.
LEMMA StepOfWalk == Inv3 /\ [Next]_vars => [Walk!WalkNext]_Walk!walkVars
  <1> SUFFICES ASSUME Inv3, [Next]_vars PROVE Walk!WalkNext \/ UNCHANGED Walk!walkVars
    OBVIOUS
  <1>1. CASE StaysOpen
    <2>1. \A r \in Runs, k \in Keys :
            /\ step'[<<r, k>>] \in {"absent", "succeeded"} <=>
                 step[<<r, k>>] \in {"absent", "succeeded"}
            /\ step'[<<r, k>>] = "succeeded" <=> step[<<r, k>>] = "succeeded"
      BY <1>1 DEF StaysOpen, Cells
    <2>2. OpenSteps' = OpenSteps /\ DoneSteps' = DoneSteps
      BY <2>1 DEF OpenSteps, DoneSteps
    <2> QED
      BY <2>2 DEF Walk!walkVars, OpenSteps, DoneSteps
  <1>2. ASSUME NEW r \in Runs, NEW key \in Keys, Begins(r, key) \/ Closes(r, key)
        PROVE  Walk!WalkNext
    BY <1>2, BeginsTakes, ClosesCompletes DEF Walk!WalkNext
  <1> QED
    BY <1>1, <1>2, StepRows

\* The engine walks the definition: it begins at the entry, goes on only from a step
\* that is done to where it leads, has one step in hand and takes none twice.
THEOREM EngineWalksDefinition == Spec => WalksDefinition
  <1>1. Init => Walk!WalkInit
    <2> SUFFICES ASSUME Init PROVE Walk!WalkInit
      OBVIOUS
    <2>1. \A r \in Runs, k \in Keys : step[<<r, k>>] = "absent"
      BY DEF Init, Cells
    <2> QED
      BY <2>1 DEF Walk!WalkInit
  <1> QED
    BY <1>1, WalkInvariant, StepOfWalk, PTL DEF Spec, WalksDefinition, Walk!WalkSpec

\* "A process nobody designed a 'no' path for should halt" (engine._rejected): the
\* refused step of a gated tool stays open, and a step begins in a run without one.
THEOREM RejectedToolsStop == Spec => RejectedToolStops
  <1> DEFINE Stops == \A r \in Runs, k \in Keys :
               Kind[k] = "gated" /\ approval[<<r, k>>] = "rejected" =>
                 \A l \in Keys : step[<<r, l>>] = "absent" => step'[<<r, l>>] = "absent"
  <1>1. Inv3 /\ [Next]_vars => [Stops]_vars
    <2> SUFFICES ASSUME Inv3, [Next]_vars, NEW r \in Runs, NEW k \in Keys, NEW l \in Keys,
                        Kind[k] = "gated", approval[<<r, k>>] = "rejected",
                        step[<<r, l>>] = "absent"
                 PROVE  step'[<<r, l>>] = "absent"
      OBVIOUS
    <2>1. <<r, k>> \in Cells /\ <<r, l>> \in Cells
      BY DEF Cells
    <2>2. Open(r, k)
      BY <2>1 DEF Inv3, WalkInv, CellWalks, Open
    <2>3. CASE StaysOpen
      BY <2>1, <2>3 DEF StaysOpen
    <2>4. ASSUME NEW s \in Runs, NEW key \in Keys, Begins(s, key)
          PROVE  step'[<<r, l>>] = "absent"
      BY <2>1, <2>2, <2>4 DEF Begins
    <2>5. ASSUME NEW s \in Runs, NEW key \in Keys, Closes(s, key)
          PROVE  step'[<<r, l>>] = "absent"
      BY <2>1, <2>5 DEF Closes, Open
    <2> QED
      BY <2>3, <2>4, <2>5, StepRows
  <1> QED
    BY <1>1, WalkInvariant, PTL DEF Spec, RejectedToolStops

-----------------------------------------------------------------------------
(* Drivers that are never silent for longer than the sweep's window.       *)

\* A request finds the run it holds fresh and as it left it: nobody took it for dead.
Prompt(p) ==
  pc[p] \in HoldPoints =>
    /\ ~stale[job[p].run]
    /\ run[job[p].run].status = IF pc[p] = "start" THEN "pending" ELSE "running"

PromptInv == \A p \in Procs : Prompt(p)

\* A step that writes no run another request holds keeps their runs as they left them.
LEMMA PromptMove ==
  ASSUME Inv2, PromptInv, NEW p \in Procs, Others(p), Prompt(p)',
         \A r \in Runs : \/ /\ run'[r].status = run[r].status
                            /\ stale'[r] => stale[r]
                         \/ Free(p, r)
  PROVE  PromptInv'
  <1> SUFFICES ASSUME NEW q \in Procs, q # p PROVE Prompt(q)'
    BY DEF PromptInv
  <1>1. pc'[q] = pc[q] /\ job'[q] = job[q] /\ Prompt(q)
    BY DEF Others, PromptInv
  <1>2. CASE pc[q] \in HoldPoints
    <2>1. job[q].run \in Runs /\ ~Free(p, job[q].run)
      BY <1>2, HolderKnows DEF Inv2, Free
    <2> QED
      BY <1>1, <1>2, <2>1 DEF Prompt
  <1>3. CASE pc[q] \notin HoldPoints
    BY <1>1, <1>3 DEF Prompt
  <1> QED
    BY <1>2, <1>3

\* A request that leaves the runs alone and does not come to hold one.
LEMMA PromptQuiet ==
  ASSUME Inv2, PromptInv, NEW p \in Procs, Others(p), UNCHANGED <<run, stale>>,
         \/ pc'[p] \notin HoldPoints
         \/ /\ pc'[p] # "start" /\ pc[p] \in HoldPoints \ {"start"}
            /\ job'[p].run = job[p].run
  PROVE  PromptInv'
  <1>1. Prompt(p)'
    BY DEF Prompt, PromptInv
  <1> QED
    BY <1>1, PromptMove

\* The sweep of a start takes no run that is fresh.
LEMMA PromptCreate ==
  ASSUME Inv2, PromptInv, NEW p \in Procs, NEW s \in Runs, Create(p, s)
  PROVE  PromptInv'
  <1>1. TypeInv /\ Others(p) /\ pc'[p] = "start"
    BY OthersStay, GotoPoint DEF Inv2, Inv1, Request, Create
  <1>2. job'[p].run = s /\ run'[s].status = "pending" /\ stale'[s] = FALSE
    BY <1>1 DEF Create, NoJob, TypeInv, TypeOK
  <1>3. ASSUME NEW r \in Runs, ~Free(p, r)
        PROVE  run'[r].status = run[r].status /\ (stale'[r] => stale[r])
    <2>1. PICK q \in Procs : pc[q] \in HoldPoints /\ job[q].run = r
      BY <1>3 DEF Free
    <2>2. ~stale[r] /\ run[r].status # "absent"
      BY <2>1 DEF PromptInv, Prompt
    <2>3. r # s
      BY <2>2 DEF Create
    <2> QED
      BY <2>2, <2>3 DEF Create, Abandoned, Sweepable
  <1> QED
    BY <1>1, <1>2, <1>3, PromptMove DEF Prompt

\* A driver finds its run running, and writes no other.
LEMMA PromptDrive ==
  ASSUME Inv2, PromptInv, NEW p \in Procs, Drive(p)
  PROVE  PromptInv'
  <1>1. /\ TypeInv /\ Others(p) /\ pc[p] \in HoldPoints /\ Prompt(p)
        /\ pc'[p] # "idle" => job'[p].run = job[p].run
    BY OthersStay, SameRun, ZenonT(60) DEF Inv2, Inv1, Drive, ClaimRun, Succeed, ReachLimit, BeginStep,
       ExecuteTool, ExecuteCondition, ExecuteApproval, ExecuteAgent, ViewAgent, FinishStep,
       HoldPoints, DrivePoints, PromptInv
  <1>2. PICK r \in Runs : r = job[p].run /\ Free(p, r)
    BY <1>1, HolderKnows DEF Inv2
  <1>3. ASSUME \A s \in Runs : s # r => run'[s] = run[s] /\ stale'[s] = stale[s],
               pc'[p] \in HoldPoints => /\ pc'[p] # "start" /\ ~stale'[r]
                                        /\ run'[r].status = "running"
        PROVE  PromptInv'
    BY <1>1, <1>2, <1>3, PromptMove DEF Prompt, HoldPoints, DrivePoints, ResumePoints
  <1>4. CASE ClaimRun(p)
    <2>1. run[r].status = "pending"
      BY <1>1, <1>2, <1>4 DEF Prompt, ClaimRun
    <2>2. /\ run' = [run EXCEPT ![r].status = "running"] /\ stale' = [stale EXCEPT ![r] = FALSE]
          /\ pc'[p] = "loop"
      BY <1>1, <1>2, <1>4, <2>1, GotoPoint DEF ClaimRun
    <2> QED
      BY <1>1, <1>3, <2>2 DEF TypeInv, TypeOK, Rows
  <1>5. CASE Succeed(p) \/ ReachLimit(p)
    <2>1. /\ \A s \in Runs : s # r => run'[s] = run[s] /\ stale'[s] = stale[s]
          /\ pc'[p] = "idle"
      BY <1>1, <1>2, <1>5, GotoPoint DEF Succeed, ReachLimit, EndRun, TypeInv, TypeOK
    <2> QED
      BY <1>3, <2>1 DEF HoldPoints, DrivePoints, ResumePoints
  <1>6. CASE FinishStep(p)
    <2>1. /\ run' = [run EXCEPT ![r] = FinishedRow(p)] /\ stale' = [stale EXCEPT ![r] = FALSE]
          /\ pc[p] = "finish"
      BY <1>1, <1>2, <1>6 DEF FinishStep, FinishedRow, TypeInv, TypeOK
    <2>2. CASE job[p].outcome = "succeeded"
      <3>1. FinishedRow(p).status = "running" /\ pc'[p] = "loop"
        BY <1>1, <1>2, <1>6, <2>1, <2>2, GotoPoint
        DEF FinishedRow, Prompt, FinishStep, GoesOn
      <3> QED
        BY <1>1, <1>3, <2>1, <3>1 DEF TypeInv, TypeOK
    <2>3. CASE job[p].outcome # "succeeded"
      <3>1. pc'[p] = "idle"
        BY <1>1, <1>6, <2>3, GotoPoint DEF FinishStep, GoesOn
      <3> QED
        BY <1>1, <1>3, <2>1, <3>1 DEF TypeInv, TypeOK, HoldPoints, DrivePoints, ResumePoints
    <2> QED
      BY <2>2, <2>3
  <1>7. CASE ~ClaimRun(p) /\ ~Succeed(p) /\ ~ReachLimit(p) /\ ~FinishStep(p)
    <2>1. UNCHANGED <<run, stale>> /\ pc[p] \in DrivePoints
      BY <1>7 DEF Drive, BeginStep, ExecuteTool, ExecuteCondition, ExecuteApproval,
         ExecuteAgent, ViewAgent, durable, DrivePoints
    <2>2. pc'[p] \in {"execute", "finish", "view", "idle"}
      BY <1>1, <1>7, GotoPoint, AgentOutcomes
      DEF Drive, BeginStep, ExecuteTool, ExecuteCondition, ExecuteApproval, ViewAgent
    <2>3. ~stale[r] /\ run[r].status = "running"
      BY <1>1, <1>2, <2>1 DEF Prompt, DrivePoints
    <2> QED
      BY <1>3, <2>1, <2>2, <2>3 DEF HoldPoints, DrivePoints, ResumePoints
  <1> QED
    BY <1>4, <1>5, <1>6, <1>7, SMTT(40)

\* A resume claims a run nobody holds, and is prompt from then on.
LEMMA PromptResume ==
  ASSUME Inv2, PromptInv, NEW p \in Procs, Resume(p)
  PROVE  PromptInv'
  <1>1. /\ TypeInv /\ Others(p)
        /\ pc'[p] # "idle" => job'[p].run = job[p].run
    BY OthersStay, SameRun DEF Inv2, Inv1
  <1>2. CASE ResumeAgentRun(p)
    <2>1. UNCHANGED <<run, stale>> /\ pc'[p] \in {"workflow", "idle"}
      BY <1>1, <1>2, GotoPoint, AgentAnswers DEF ResumeAgentRun
    <2> QED
      BY <1>1, <2>1, PromptQuiet DEF HoldPoints, DrivePoints, ResumePoints
  <1>3. CASE ClaimResume(p)
    <2>1. PICK r \in Runs : r = job[p].run
      BY <1>3, TargetType DEF ClaimResume, Inv2, Inv1
    <2>2. CASE UNCHANGED <<run, stale>> /\ Leave(p)
      BY <1>1, <2>2, GotoPoint, PromptQuiet DEF HoldPoints, DrivePoints, ResumePoints
    <2>3. CASE /\ run[r].status = "awaiting_approval" /\ Goto(p, "resume")
               /\ run' = [run EXCEPT ![r].status = "running"]
               /\ stale' = [stale EXCEPT ![r] = FALSE]
      <3>1. /\ pc'[p] = "resume" /\ Free(p, r)
            /\ run'[r].status = "running" /\ stale'[r] = FALSE
            /\ \A s \in Runs : s # r => run'[s] = run[s] /\ stale'[s] = stale[s]
        BY <1>1, <2>3, GotoPoint, NotHeld DEF Inv2, TypeInv, TypeOK, Rows
      <3>2. Prompt(p)'
        BY <1>1, <2>1, <3>1 DEF Prompt
      <3> QED
        BY <1>1, <3>1, <3>2, PromptMove
    <2> QED
      BY <1>3, <2>1, <2>2, <2>3 DEF ClaimResume
  <1>4. CASE ~ResumeAgentRun(p) /\ ~ClaimResume(p)
    <2>1. pc[p] \in ResumePoints /\ UNCHANGED <<run, stale>>
      BY <1>4 DEF Resume, ClaimTool, RunGranted, RaiseGranted, ResumeAgentStep,
         ResumeApproval, durable, ResumePoints
    <2>2. pc'[p] \in {"finish", "grant", "idle"}
      <3>1. CASE ClaimTool(p)
        BY <1>1, <3>1, GotoPoint DEF ClaimTool
      <3>2. CASE RunGranted(p)
        BY <1>1, <3>2, GotoPoint, GrantedOutcomes
      <3>3. CASE RaiseGranted(p) \/ ResumeApproval(p)
        BY <1>1, <3>3, GotoPoint DEF RaiseGranted, ResumeApproval
      <3>4. CASE ResumeAgentStep(p)
        BY <1>1, <3>4, GotoPoint DEF ResumeAgentStep
      <3> QED
        BY <1>4, <3>1, <3>2, <3>3, <3>4 DEF Resume
    <2> QED
      BY <1>1, <2>1, <2>2, PromptQuiet DEF HoldPoints, DrivePoints, ResumePoints
  <1> QED
    BY <1>2, <1>3, <1>4

\* Nobody else touches a run that is held, or lets it age.
LEMMA PromptEnvironment ==
  ASSUME SlowDrivers = FALSE, Inv2, PromptInv, Environment
  PROVE  PromptInv'
  <1>1. TypeInv
    BY DEF Inv2, Inv1
  <1>2. ASSUME UNCHANGED <<pc, job>>,
               \A r \in Runs : \/ run[r].status = "awaiting_approval"
                               \/ \A q \in Procs : pc[q] = "idle" \/ job[q].run # r
                               \/ run'[r] = run[r] /\ stale'[r] = stale[r]
        PROVE  PromptInv'
    <2> SUFFICES ASSUME NEW q \in Procs, pc[q] \in HoldPoints PROVE Prompt(q)'
      BY <1>2 DEF PromptInv, Prompt
    <2>1. PICK r \in Runs : r = job[q].run
      BY HolderKnows DEF Inv2
    <2>2. Prompt(q) /\ pc[q] # "idle"
      BY DEF PromptInv, HoldPoints, DrivePoints, ResumePoints
    <2>3. run[r].status # "awaiting_approval"
      BY <2>1, <2>2 DEF Prompt
    <2>4. run'[r] = run[r] /\ stale'[r] = stale[r]
      BY <1>2, <2>1, <2>2, <2>3
    <2> QED
      BY <1>2, <2>1, <2>2, <2>4 DEF Prompt
  <1>3. ASSUME NEW s \in Runs, CancelRun(s) PROVE PromptInv'
    BY <1>1, <1>2, <1>3 DEF CancelRun, TypeInv, TypeOK
  <1>4. ASSUME NEW s \in Runs, Age(s) PROVE PromptInv'
    BY <1>1, <1>2, <1>4 DEF Age, TypeInv, TypeOK
  <1>5. ASSUME NEW c \in Cells, CancelAgent(c) PROVE PromptInv'
    BY <1>2, <1>5 DEF CancelAgent
  <1>6. ASSUME NEW overdue, ExpireDue(overdue) PROVE PromptInv'
    BY <1>2, <1>6 DEF ExpireDue
  <1>7. ASSUME NEW p \in Procs, Crash(p) PROVE PromptInv'
    <2>1. UNCHANGED <<run, stale>> /\ Others(p) /\ pc'[p] = "idle"
      BY <1>1, <1>7, OthersStay, GotoPoint DEF Crash, durable
    <2> QED
      BY <2>1, PromptQuiet DEF HoldPoints, DrivePoints, ResumePoints
  <1> QED
    BY <1>3, <1>4, <1>5, <1>6, <1>7 DEF Environment

\* Every request finds the run it holds as it left it, when no live driver is silent
\* for longer than workflow_run_stale_after_seconds.
THEOREM HoldersArePrompt ==
  ASSUME SlowDrivers = FALSE
  PROVE  Spec => [](Inv2 /\ PromptInv)
  <1>1. Init => Inv2 /\ PromptInv
    BY InitStep DEF Init, PromptInv, Prompt, HoldPoints, DrivePoints, ResumePoints
  <1>2. Inv2 /\ PromptInv /\ [Next]_vars => (Inv2 /\ PromptInv)'
    <2> SUFFICES ASSUME Inv2, PromptInv, [Next]_vars PROVE PromptInv'
      BY StepStep
    <2>1. CASE UNCHANGED vars
      BY <2>1 DEF vars, PromptInv, Prompt
    <2>2. ASSUME NEW p \in Procs, Request(p) PROVE PromptInv'
      <3>1. ASSUME NEW c \in Cells, NEW approve \in BOOLEAN, Decide(p, c, approve)
            PROVE  PromptInv'
        <4>1. UNCHANGED <<run, stale>> /\ Others(p) /\ pc'[p] = "decided"
          BY <2>2, <3>1, OthersStay, GotoPoint DEF Decide, Inv2, Inv1
        <4> QED
          BY <4>1, PromptQuiet DEF HoldPoints, DrivePoints, ResumePoints
      <3> QED
        BY <2>2, <3>1, PromptCreate DEF Request
    <2> QED
      BY <2>1, <2>2, PromptDrive, PromptResume, PromptEnvironment DEF Next
  <1> QED
    BY <1>1, <1>2, PTL DEF Spec

\* A run with a driver is running: no sweep, cancellation or expiry takes it away, and
\* no step starts in a run that is over.
THEOREM DrivenRunsAreRunning ==
  ASSUME SlowDrivers = FALSE
  PROVE  Spec => []DrivenRunIsRunning
  <1>1. Inv2 /\ PromptInv => DrivenRunIsRunning
    BY DEF PromptInv, Prompt, DrivenRunIsRunning, Driving, HoldPoints, DrivePoints,
       ResumePoints
  <1> QED
    BY <1>1, HoldersArePrompt, PTL

\* A run that is over stays as it ended: the only writes of a status are a claim's, of
\* a run that is pending or waits, and its driver's, of one that is running.
THEOREM RunsEndOnce ==
  ASSUME SlowDrivers = FALSE
  PROVE  Spec => TerminalForever
  <1>1. Inv2 /\ PromptInv /\ [Next]_vars =>
          [\A r \in Runs : run[r].status \in Terminal => run'[r].status = run[r].status]_vars
    <2> SUFFICES ASSUME Inv2, PromptInv, [Next]_vars, NEW r \in Runs,
                        run[r].status \in Terminal
                 PROVE  run'[r].status = run[r].status
      OBVIOUS
    <2>1. TypeInv
      BY DEF Inv2, Inv1
    <2>2. ASSUME NEW p \in Procs, pc[p] \in HoldPoints
          PROVE  job[p].run # r
      BY <2>2 DEF PromptInv, Prompt, Terminal
    <2>3. ASSUME NEW p \in Procs, Request(p) PROVE run'[r].status = run[r].status
      BY <2>3, ZenonT(60) DEF Request, Create, Decide, Abandoned, Sweepable, Active, Terminal
    <2>4. ASSUME NEW p \in Procs, Drive(p) PROVE run'[r].status = run[r].status
      <3>1. pc[p] \in HoldPoints
        BY <2>4 DEF Drive, ClaimRun, Succeed, ReachLimit, BeginStep, ExecuteTool,
           ExecuteCondition, ExecuteApproval, ExecuteAgent, ViewAgent, FinishStep,
           HoldPoints, DrivePoints
      <3>2. UNCHANGED run \/ \E row : run' = [run EXCEPT ![job[p].run] = row]
        BY <2>1, <2>4 DEF Drive, ClaimRun, Succeed, ReachLimit, EndRun, BeginStep,
           ExecuteTool, ExecuteCondition, ExecuteApproval, ExecuteAgent, ViewAgent,
           FinishStep, durable, TypeInv, TypeOK
      <3> QED
        BY <2>1, <2>2, <3>1, <3>2 DEF TypeInv, TypeOK
    <2>5. ASSUME NEW p \in Procs, Resume(p) PROVE run'[r].status = run[r].status
      <3>1. CASE ClaimResume(p)
        BY <2>1, <3>1 DEF ClaimResume, TypeInv, TypeOK, Terminal
      <3> QED
        BY <2>5, <3>1 DEF Resume, ResumeAgentRun, ClaimTool, RunGranted, RaiseGranted,
           ResumeAgentStep, ResumeApproval, durable
    <2>6. CASE Environment
      BY <2>1, <2>6 DEF Environment, CancelRun, Age, CancelAgent, ExpireDue, Crash, durable,
         TypeInv, TypeOK, Terminal
    <2> QED
      BY <2>3, <2>4, <2>5, <2>6 DEF Next, vars
  <1> QED
    BY <1>1, HoldersArePrompt, PTL DEF Spec, TerminalForever

-----------------------------------------------------------------------------
(* Without crashes a step that is not an agent's waits with an open        *)
(* question that carries its run, or with an answer on its way: the        *)
(* inductive invariant of that, on top of Inv3.                            *)

\* A request whose decision is committed and which is about to claim the step.
OnItsWay(p, c) == pc[p] = "decided" /\ Target(p) = c /\ job[p].stamped

\* Only an agent step has an agent behind it, and a step that is not an agent's waits
\* for a question that will resume it or for the request that answered it.
CellPauses(c) ==
  /\ agent[c] # "absent" => Kind[c[2]] = "agent"
  /\ Kind[c[2]] # "agent" /\ step[c] = "awaiting_approval" =>
       \/ approval[c] = "pending" /\ stamped[c]
       \/ \E p \in Procs : OnItsWay(p, c)

\* What a request is about to commit as a pause is a step that asks.
RequestPauses(p) ==
  pc[p] = "finish" /\ job[p].outcome = "awaiting_approval" =>
    KindOf(p) \in {"gated", "approval", "agent"}

PauseInv ==
  /\ \A c \in Cells : CellPauses(c)
  /\ \A p \in Procs : RequestPauses(p)

Inv4 == Inv3 /\ PauseInv

-----------------------------------------------------------------------------
(* What a step has to show.                                                *)

\* A cell whose step does not come to wait, and whose question and answers stay.
LEMMA CellStays ==
  ASSUME NEW c \in Cells, CellPauses(c),
         agent'[c] = agent[c] \/ Kind[c[2]] = "agent" \/ agent[c] # "absent",
         Kind[c[2]] # "agent" /\ step'[c] = "awaiting_approval" =>
           /\ step[c] = "awaiting_approval" /\ approval'[c] = approval[c]
           /\ stamped'[c] = stamped[c]
           /\ \A q \in Procs : OnItsWay(q, c) => OnItsWay(q, c)'
  PROVE  CellPauses(c)'
  BY DEF CellPauses

\* A request that did not move stands where it stood.
LEMMA StandsStill ==
  ASSUME NEW q \in Procs, pc'[q] = pc[q], job'[q] = job[q]
  PROVE  /\ RequestPauses(q) => RequestPauses(q)'
         /\ \A c \in Cells : OnItsWay(q, c) => OnItsWay(q, c)'
  BY DEF RequestPauses, OnItsWay, Target, KindOf

\* A step of one request keeps the others, and the answers that are not its own.
LEMMA OthersPause ==
  ASSUME PauseInv, NEW p \in Procs, Others(p)
  PROVE  /\ \A q \in Procs \ {p} : RequestPauses(q)'
         /\ \A q \in Procs \ {p}, c \in Cells : OnItsWay(q, c) => OnItsWay(q, c)'
  BY StandsStill DEF PauseInv, Others

\* A step of a request that carries no decision, and lets no step wait or be asked
\* about but an agent's.
LEMMA QuietPause ==
  ASSUME PauseInv, NEW p \in Procs, Others(p), pc[p] # "decided", RequestPauses(p)',
         \A c \in Cells : Kind[c[2]] # "agent" =>
           /\ agent'[c] = agent[c] /\ approval'[c] = approval[c] /\ stamped'[c] = stamped[c]
           /\ step'[c] = "awaiting_approval" => step[c] = "awaiting_approval"
  PROVE  PauseInv'
  <1>1. \A q \in Procs, c \in Cells : OnItsWay(q, c) => OnItsWay(q, c)'
    BY OthersPause DEF OnItsWay
  <1>2. \A c \in Cells : CellPauses(c)'
    BY <1>1, CellStays DEF PauseInv
  <1> QED
    BY <1>2, OthersPause DEF PauseInv

\* The rows of a step that writes none of them but the runs'.
LEMMA QuietRows ==
  ASSUME PauseInv, NEW p \in Procs, Others(p), pc[p] # "decided", RequestPauses(p)',
         UNCHANGED <<step, approval, stamped, agent>>
  PROVE  PauseInv'
  BY QuietPause

\* A request that is not about to commit a pause.
LEMMA NoPause ==
  ASSUME NEW p \in Procs, pc'[p] # "finish" \/ job'[p].outcome # "awaiting_approval"
  PROVE  RequestPauses(p)'
  BY DEF RequestPauses

\* A request that notes the pause of a step that asks, or notes no pause.
LEMMA NotedPause ==
  ASSUME TypeInv, NEW p \in Procs, NEW word, NEW target,
         \/ Outcomes(p, word, target)
         \/ \E tool : CalledTool(p, tool, word, target),
         word = "awaiting_approval" => KindOf(p) \in {"gated", "approval", "agent"}
  PROVE  RequestPauses(p)'
  BY NotedJob DEF RequestPauses, KindOf

-----------------------------------------------------------------------------
(* Starting and driving a run.                                             *)

LEMMA CreatePauses ==
  ASSUME Inv3, PauseInv, NEW p \in Procs, NEW r \in Runs, Create(p, r)
  PROVE  PauseInv'
  <1>1. /\ Others(p) /\ pc[p] = "idle" /\ pc'[p] = "start"
        /\ UNCHANGED <<step, approval, stamped, agent>>
    BY OthersStay, GotoPoint DEF Inv3, Inv2, Inv1, Request, Create
  <1> QED
    BY <1>1, NoPause, QuietRows

\* A gated tool and an approval step pause to ask; no other handler of a first pass
\* does but an agent's.
LEMMA HandlerPauses ==
  ASSUME Inv3, PauseInv, NEW p \in Procs,
         ExecuteTool(p) \/ ExecuteCondition(p) \/ ExecuteApproval(p)
  PROVE  PauseInv'
  <1>1. /\ TypeInv /\ Others(p) /\ pc[p] = "execute"
        /\ UNCHANGED <<step, approval, stamped, agent>>
    BY OthersStay DEF Inv3, Inv2, Inv1, Drive, ExecuteTool, ExecuteCondition,
       ExecuteApproval, durable
  <1>2. CASE ExecuteTool(p)
    <2>1. PICK tool, word, target :
            /\ CalledTool(p, tool, word, target)
            /\ (tool = "approval_required") = (word = "awaiting_approval")
            /\ KindOf(p) # "gated" => tool \in {"none", "refused", "ran"}
      BY <1>1, <1>2, ToolOutcomes
    <2>2. RequestPauses(p)'
      BY <1>1, <2>1, NotedPause
    <2> QED
      BY <1>1, <2>2, QuietRows
  <1>3. CASE ExecuteCondition(p) \/ ExecuteApproval(p)
    <2>1. RequestPauses(p)'
      BY <1>1, <1>3, NotedPause DEF ExecuteCondition, ExecuteApproval
    <2> QED
      BY <1>1, <2>1, QuietRows
  <1> QED
    BY <1>2, <1>3

\* The agent of a step is started, and puts its question, for an agent step.
LEMMA ExecuteAgentPauses ==
  ASSUME Inv3, PauseInv, NEW p \in Procs, ExecuteAgent(p)
  PROVE  PauseInv'
  <1>1. /\ TypeInv /\ Others(p) /\ pc[p] = "execute" /\ KindOf(p) = "agent"
        /\ UNCHANGED <<step, stamped>>
    BY OthersStay DEF Inv3, Inv2, Inv1, Drive, ExecuteAgent
  <1>2. PICK c \in Cells : c = Target(p) /\ Kind[c[2]] = "agent"
    BY <1>1, Knows DEF Inv3
  <1>3. \A d \in Cells : d # c => agent'[d] = agent[d] /\ approval'[d] = approval[d]
    BY <1>1, <1>2, AgentOutcomes DEF Put, TypeInv, TypeOK
  <1>4. RequestPauses(p)'
    <2>1. CASE \E word \in {"succeeded", "failed"}, target \in OnSuccess[job[p].key] :
                 Outcomes(p, word, target)
      BY <1>1, <2>1, NotedPause
    <2>2. CASE Goto(p, "view") \/ Leave(p)
      BY <1>1, <2>2, GotoPoint, NoPause
    <2> QED
      BY <2>1, <2>2, AgentOutcomes
  <1> QED
    BY <1>1, <1>2, <1>3, <1>4, QuietPause

LEMMA ViewAgentPauses ==
  ASSUME Inv3, PauseInv, NEW p \in Procs, ViewAgent(p)
  PROVE  PauseInv'
  <1>1. /\ TypeInv /\ Others(p) /\ pc[p] = "view"
        /\ UNCHANGED <<step, approval, stamped, agent>>
    BY OthersStay DEF Inv3, Inv2, Inv1, Drive, ViewAgent, durable
  <1>2. KindOf(p) = "agent"
    BY <1>1, Knows DEF Inv3, RequestOK
  <1>3. job'[p].key = job[p].key
    BY <1>1 DEF ViewAgent, TypeInv, TypeOK, Jobs
  <1>4. RequestPauses(p)'
    BY <1>2, <1>3 DEF RequestPauses, KindOf
  <1> QED
    BY <1>1, <1>4, QuietRows

\* A step that comes to wait is asked about by the same commit, and the question
\* carries the run, unless an agent asked.
LEMMA FinishStepPauses ==
  ASSUME Inv3, PauseInv, NEW p \in Procs, FinishStep(p)
  PROVE  PauseInv'
  <1>1. /\ TypeInv /\ Others(p) /\ pc[p] = "finish" /\ UNCHANGED agent
        /\ RequestPauses(p) /\ Target(p) \in Cells /\ Kind[Target(p)[2]] = KindOf(p)
    BY OthersStay, Knows DEF Inv3, Inv2, Inv1, Drive, FinishStep, PauseInv
  <1>2. PICK c \in Cells : c = Target(p) /\ Kind[c[2]] = Kind[job[p].key]
    BY <1>1 DEF KindOf
  <1>3. PICK word : word = job[p].outcome
    OBVIOUS
  <1> DEFINE asking == word = "awaiting_approval" /\ Kind[c[2]] \in {"gated", "approval"}
             shown == /\ word = "awaiting_approval" /\ job[p].seen > 0
                      /\ job[p].seen = asks[c]
  <1>4. /\ step' = [step EXCEPT ![c] = word]
        /\ stamped' = [stamped EXCEPT ![c] = @ \/ asking \/ shown]
        /\ IF asking THEN Put(c) ELSE UNCHANGED <<approval, asks>>
    BY <1>2, <1>3 DEF FinishStep, Stamp
  <1>5. /\ step'[c] = word
        /\ stamped'[c] = (stamped[c] \/ asking \/ shown)
        /\ asking => approval'[c] = "pending"
        /\ \A d \in Cells : d # c => /\ step'[d] = step[d] /\ approval'[d] = approval[d]
                                     /\ stamped'[d] = stamped[d]
    BY <1>1, <1>4 DEF Put, TypeInv, TypeOK
  <1>6. CellPauses(c)'
    <2>1. word = "awaiting_approval" => Kind[c[2]] \in {"gated", "approval", "agent"}
      BY <1>1, <1>2, <1>3 DEF RequestPauses, KindOf
    <2>2. Kind[c[2]] # "agent" /\ step'[c] = "awaiting_approval" =>
            approval'[c] = "pending" /\ stamped'[c]
      BY <1>5, <2>1
    <2>3. agent'[c] # "absent" => Kind[c[2]] = "agent"
      BY <1>1 DEF PauseInv, CellPauses
    <2> QED
      BY <2>2, <2>3 DEF CellPauses
  <1>7. \A q \in Procs, d \in Cells : OnItsWay(q, d) => OnItsWay(q, d)'
    BY <1>1, OthersPause DEF OnItsWay
  <1>8. \A d \in Cells : CellPauses(d)'
    BY <1>1, <1>5, <1>6, <1>7, CellStays DEF PauseInv
  <1>9. RequestPauses(p)'
    <2>1. pc'[p] # "finish"
      BY <1>1, GotoPoint DEF FinishStep
    <2> QED
      BY <2>1, NoPause
  <1> QED
    BY <1>1, <1>8, <1>9, OthersPause DEF PauseInv

LEMMA DrivePauses ==
  ASSUME Inv3, PauseInv, NEW p \in Procs, Drive(p)
  PROVE  PauseInv'
  <1>1. TypeInv /\ Others(p)
    BY OthersStay DEF Inv3, Inv2, Inv1
  <1>2. CASE ClaimRun(p) \/ Succeed(p) \/ ReachLimit(p)
    <2>1. /\ UNCHANGED <<step, approval, stamped, agent>> /\ pc[p] # "decided"
          /\ pc'[p] \in {"loop", "idle"}
      BY <1>1, <1>2, GotoPoint DEF ClaimRun, Succeed, ReachLimit, EndRun
    <2> QED
      BY <1>1, <2>1, NoPause, QuietRows
  <1>3. CASE BeginStep(p)
    <2>1. /\ UNCHANGED <<approval, stamped, agent>> /\ pc[p] # "decided"
          /\ pc'[p] \in {"execute", "idle"}
      BY <1>1, <1>3, GotoPoint DEF BeginStep
    <2>2. \A c \in Cells : step'[c] = "awaiting_approval" => step[c] = "awaiting_approval"
      BY <1>1, <1>3 DEF BeginStep, TypeInv, TypeOK
    <2> QED
      BY <1>1, <2>1, <2>2, NoPause, QuietPause
  <1> QED
    BY <1>2, <1>3, HandlerPauses, ExecuteAgentPauses, ViewAgentPauses, FinishStepPauses
    DEF Drive

-----------------------------------------------------------------------------
(* Deciding and resuming.                                                  *)

\* A question that carried its run leaves a request that carries the answer.
LEMMA DecidePauses ==
  ASSUME Inv3, PauseInv, NEW p \in Procs, NEW c \in Cells, NEW approve \in BOOLEAN,
         Decide(p, c, approve)
  PROVE  PauseInv'
  <1>1. /\ TypeInv /\ Others(p) /\ pc[p] = "idle" /\ pc'[p] = "decided"
        /\ UNCHANGED <<step, stamped, agent>>
        /\ \A d \in Cells : d # c => approval'[d] = approval[d]
    BY OthersStay, GotoPoint DEF Inv3, Inv2, Inv1, Request, Decide, TypeInv, TypeOK
  <1>2. job'[p].run = c[1] /\ job'[p].key = c[2] /\ job'[p].stamped = stamped[c]
    BY <1>1 DEF Decide, NoJob, TypeInv, TypeOK
  <1>3. \A q \in Procs, d \in Cells : OnItsWay(q, d) => OnItsWay(q, d)'
    BY <1>1, OthersPause DEF OnItsWay
  <1>4. stamped[c] => OnItsWay(p, c)'
    BY <1>1, <1>2 DEF OnItsWay, Target, Cells
  <1>5. CellPauses(c)'
    BY <1>1, <1>3, <1>4 DEF PauseInv, CellPauses
  <1>6. \A d \in Cells : CellPauses(d)'
    BY <1>1, <1>3, <1>5, CellStays DEF PauseInv
  <1> QED
    BY <1>1, <1>6, NoPause, OthersPause DEF PauseInv

\* What is resumed first, and may ask again, is the agent of an agent step.
LEMMA ResumeAgentRunPauses ==
  ASSUME Inv3, PauseInv, NEW p \in Procs, ResumeAgentRun(p)
  PROVE  PauseInv'
  <1>1. /\ TypeInv /\ Others(p) /\ pc[p] = "decided" /\ KindOf(p) = "agent"
        /\ UNCHANGED step
    BY OthersStay DEF Inv3, Inv2, Inv1, Resume, ResumeAgentRun
  <1>2. PICK c \in Cells : c = Target(p) /\ Kind[c[2]] = "agent"
    BY <1>1, Knows DEF Inv3
  <1>3. \A d \in Cells : d # c => /\ agent'[d] = agent[d] /\ approval'[d] = approval[d]
                                  /\ stamped'[d] = stamped[d]
    BY <1>1, <1>2, AgentAnswers DEF Put, TypeInv, TypeOK
  <1>4. \A q \in Procs, d \in Cells : d # c /\ OnItsWay(q, d) => OnItsWay(q, d)'
    BY <1>1, <1>2, OthersPause DEF OnItsWay
  <1>5. \A d \in Cells : CellPauses(d)'
    BY <1>1, <1>2, <1>3, <1>4, CellStays DEF PauseInv
  <1>6. pc'[p] # "finish"
    BY <1>1, GotoPoint, AgentAnswers
  <1> QED
    BY <1>1, <1>5, <1>6, NoPause, OthersPause DEF PauseInv

\* An answer that carries the run finds the run waiting with its step, and takes both.
LEMMA ClaimResumePauses ==
  ASSUME Inv3, PauseInv, NEW p \in Procs, ClaimResume(p)
  PROVE  PauseInv'
  <1>1. /\ TypeInv /\ Others(p) /\ pc[p] # "idle" /\ UNCHANGED <<approval, stamped, agent>>
    BY OthersStay DEF Inv3, Inv2, Inv1, Resume, ClaimResume
  <1>2. PICK r \in Runs, c \in Cells : r = job[p].run /\ c = Target(p) /\ c[1] = r
    BY <1>1, TargetType DEF Target
  <1>3. step[c] = "awaiting_approval" => run[r].status = "awaiting_approval"
    BY <1>2 DEF Inv3, WalkInv, RunWalks, Cells
  <1>4. /\ pc'[p] \in {"resume", "idle"}
        /\ \A d \in Cells : step'[d] = "awaiting_approval" => step[d] = "awaiting_approval"
        /\ OnItsWay(p, c) => step'[c] # "awaiting_approval"
    <2>1. CASE job[p].stamped /\ step[c] = "awaiting_approval"
      <3>1. step' = [step EXCEPT ![c] = "running"] /\ Goto(p, "resume")
        BY <1>2, <1>3, <2>1 DEF ClaimResume
      <3> QED
        BY <1>1, <3>1, GotoPoint DEF TypeInv, TypeOK
    <2>2. CASE ~(job[p].stamped /\ step[c] = "awaiting_approval")
      <3>1. Leave(p) /\ UNCHANGED step
        BY <1>2, <2>2 DEF ClaimResume
      <3> QED
        BY <1>1, <2>2, <3>1, GotoPoint DEF OnItsWay
    <2> QED
      BY <2>1, <2>2
  <1>5. \A q \in Procs, d \in Cells :
          OnItsWay(q, d) /\ step'[d] = "awaiting_approval" => OnItsWay(q, d)'
    BY <1>1, <1>2, <1>4, OthersPause DEF OnItsWay
  <1>6. \A d \in Cells : CellPauses(d)'
    BY <1>1, <1>4, <1>5, CellStays DEF PauseInv
  <1> QED
    BY <1>1, <1>4, <1>6, NoPause, OthersPause DEF PauseInv

\* A step in hand pauses again only if it is an agent's.
LEMMA HeldPauses ==
  ASSUME Inv3, PauseInv, NEW p \in Procs,
         ClaimTool(p) \/ RunGranted(p) \/ RaiseGranted(p) \/ ResumeAgentStep(p)
           \/ ResumeApproval(p)
  PROVE  PauseInv'
  <1>1. /\ TypeInv /\ Others(p) /\ pc[p] # "decided"
        /\ UNCHANGED <<step, approval, stamped, agent>>
    BY OthersStay, ZenonT(60) DEF Inv3, Inv2, Inv1, Resume, ClaimTool, RunGranted, RaiseGranted,
       ResumeAgentStep, ResumeApproval, durable
  <1>2. CASE ClaimTool(p)
    <2>1. Outcomes(p, "failed", End) \/ Goto(p, "grant")
      BY <1>2 DEF ClaimTool
    <2>2. RequestPauses(p)'
      BY <1>1, <2>1, GotoPoint, NoPause, NotedPause
    <2> QED
      BY <1>1, <2>2, QuietRows
  <1>3. CASE RunGranted(p)
    <2>1. \/ Leave(p)
          \/ \E tool, word, target : /\ CalledTool(p, tool, word, target)
                                     /\ word \in {"succeeded", "failed"}
      BY <1>1, <1>3, GrantedOutcomes
    <2>2. RequestPauses(p)'
      BY <1>1, <2>1, GotoPoint, NoPause, NotedPause
    <2> QED
      BY <1>1, <2>2, QuietRows
  <1>4. CASE RaiseGranted(p)
    <2>1. RequestPauses(p)'
      BY <1>1, <1>4, GotoPoint, NoPause DEF RaiseGranted
    <2> QED
      BY <1>1, <2>1, QuietRows
  <1>5. CASE ResumeAgentStep(p) \/ ResumeApproval(p)
    <2>1. /\ KindOf(p) \in {"agent", "approval"}
          /\ Leave(p) \/ \E word, target : Outcomes(p, word, target)
      BY <1>5 DEF ResumeAgentStep, ResumeApproval
    <2>2. RequestPauses(p)'
      BY <1>1, <2>1, GotoPoint, NoPause, NotedPause
    <2> QED
      BY <1>1, <2>2, QuietRows
  <1> QED
    BY <1>2, <1>3, <1>4, <1>5, SMTT(40)

-----------------------------------------------------------------------------
(* Everybody else.                                                         *)

\* Nobody else lets a step wait, or takes its question and leaves it waiting.
LEMMA EnvironmentPauses ==
  ASSUME Crashes = FALSE, Inv3, PauseInv, Environment
  PROVE  PauseInv'
  <1>1. TypeInv
    BY DEF Inv3, Inv2, Inv1
  <1>2. ASSUME UNCHANGED <<pc, job>>,
               \A c \in Cells :
                 /\ agent'[c] = agent[c] \/ Kind[c[2]] = "agent" \/ agent[c] # "absent"
                 /\ Kind[c[2]] # "agent" /\ step'[c] = "awaiting_approval" =>
                      /\ step[c] = "awaiting_approval" /\ stamped'[c] = stamped[c]
                      /\ \/ approval'[c] = approval[c]
                         \/ ~stamped[c]
        PROVE  PauseInv'
    <2>1. \A q \in Procs : /\ RequestPauses(q)'
                           /\ \A c \in Cells : OnItsWay(q, c) => OnItsWay(q, c)'
      BY <1>2, StandsStill DEF PauseInv
    <2>2. \A c \in Cells : CellPauses(c)'
      BY <1>2, <2>1 DEF PauseInv, CellPauses
    <2> QED
      BY <2>1, <2>2 DEF PauseInv
  <1>3. ASSUME NEW s \in Runs, CancelRun(s) PROVE PauseInv'
    BY <1>2, <1>3 DEF CancelRun, Questions, Cells
  <1>4. ASSUME NEW s \in Runs, Age(s) PROVE PauseInv'
    BY <1>2, <1>4 DEF Age
  <1>5. ASSUME NEW s \in Cells, CancelAgent(s) PROVE PauseInv'
    <2>1. Kind[s[2]] = "agent"
      BY <1>5 DEF CancelAgent, PauseInv, CellPauses
    <2>2. /\ UNCHANGED <<pc, job, step, stamped>>
          /\ \A c \in Cells : c # s => agent'[c] = agent[c] /\ approval'[c] = approval[c]
      BY <1>1, <1>5 DEF CancelAgent, TypeInv, TypeOK
    <2> QED
      BY <1>2, <2>1, <2>2
  <1>6. ASSUME NEW overdue \in SUBSET {c \in Cells : approval[c] = "pending"},
               ExpireDue(overdue)
        PROVE  PauseInv'
    BY <1>2, <1>6 DEF ExpireDue
  <1>7. \A p \in Procs : ~Crash(p)
    BY DEF Crash
  <1> QED
    BY <1>3, <1>4, <1>5, <1>6, <1>7 DEF Environment

-----------------------------------------------------------------------------
(* The theorems.                                                           *)

LEMMA PauseStep ==
  ASSUME Crashes = FALSE, Inv4, [Next]_vars
  PROVE  Inv4'
  <1>1. SUFFICES PauseInv'
    BY WalkStep DEF Inv4
  <1>2. Inv3 /\ PauseInv
    BY DEF Inv4
  <1>3. CASE UNCHANGED vars
    <2>1. UNCHANGED <<step, approval, stamped, agent, pc, job>>
      BY <1>3 DEF vars
    <2> QED
      BY <1>2, <2>1 DEF PauseInv, CellPauses, RequestPauses, OnItsWay, Target, KindOf
  <1>4. ASSUME NEW p \in Procs, Request(p) PROVE PauseInv'
    BY <1>2, <1>4, CreatePauses, DecidePauses DEF Request
  <1>5. ASSUME NEW p \in Procs, Resume(p) PROVE PauseInv'
    BY <1>2, <1>5, ResumeAgentRunPauses, ClaimResumePauses, HeldPauses DEF Resume
  <1>6. ASSUME NEW p \in Procs, Drive(p) PROVE PauseInv'
    BY <1>2, <1>6, DrivePauses
  <1>7. CASE Environment
    BY <1>2, <1>7, EnvironmentPauses
  <1> QED
    BY <1>3, <1>4, <1>5, <1>6, <1>7 DEF Next

LEMMA InitPause == Init => Inv4
  <1> SUFFICES ASSUME Init PROVE PauseInv
    BY InitWalk DEF Inv4
  <1> QED
    BY DEF Init, PauseInv, CellPauses, RequestPauses

\* No process dies: a step that waits and is not an agent's has its question or its
\* answer, whatever is decided, cancelled, swept or expired.
THEOREM StepsWaitForSomeone ==
  ASSUME Crashes = FALSE
  PROVE  Spec => []Inv4
  <1>1. Init => Inv4
    BY InitPause
  <1>2. Inv4 /\ [Next]_vars => Inv4'
    BY PauseStep
  <1> QED
    BY <1>1, <1>2, PTL DEF Spec

\* A run that waits can be moved (nothing else ends a paused run: it is never swept,
\* and cancel_run needs an open question): under a definition without agent steps and
\* without crashes.  A crash can lose an answer between its commit and the resume, and a
\* step that runs an agent can pause without a question of its own to answer
\* (AnsweredAgentResumesStep).
THEOREM PausedRunsCanMove ==
  ASSUME Crashes = FALSE, \A k \in Keys : Kind[k] # "agent"
  PROVE  Spec => []PausedRunCanMove
  <1>1. Inv4 => PausedRunCanMove
    BY DEF Inv4, PauseInv, CellPauses, OnItsWay, PausedRunCanMove, Cells
  <1> QED
    BY <1>1, StepsWaitForSomeone, PTL
=============================================================================
