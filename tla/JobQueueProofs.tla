--------------------------- MODULE JobQueueProofs ---------------------------
(***************************************************************************)
(* What JobQueue guarantees for any number of jobs, processes, retries and *)
(* incarnations.  Type correctness first, then the inductive invariant     *)
(* QueueInv, then the action properties that follow from it.               *)
(***************************************************************************)
EXTENDS JobQueue, TLAPS

\* The enumerations behind TypeOK, expanded everywhere.
USE DEF Terminal, Statuses, Outcomes, EndPcs, Pcs

-----------------------------------------------------------------------------
(* Typing of the operators the actions share.                              *)

\* What an action leaves alone keeps its type.
LEMMA SameTypes ==
    /\ RowTypeOK /\ UNCHANGED rowVars => RowTypeOK'
    /\ OutcomeTypeOK /\ UNCHANGED outcomeVars => OutcomeTypeOK'
    /\ ProcTypeOK /\ UNCHANGED procVars => ProcTypeOK'
    /\ ExecTypeOK /\ UNCHANGED execVars => ExecTypeOK'
    /\ SweepTypeOK /\ UNCHANGED <<sweepVars, reclaimed>> => SweepTypeOK'
    /\ EgressTypeOK /\ UNCHANGED egressVars => EgressTypeOK'
<1>1. RowTypeOK /\ UNCHANGED rowVars => RowTypeOK'
  BY DEF RowTypeOK, rowVars
<1>2. OutcomeTypeOK /\ UNCHANGED outcomeVars => OutcomeTypeOK'
  BY DEF OutcomeTypeOK, outcomeVars
<1>3. ProcTypeOK /\ UNCHANGED procVars => ProcTypeOK'
  BY DEF ProcTypeOK, procVars
<1>4. ExecTypeOK /\ UNCHANGED execVars => ExecTypeOK'
  BY DEF ExecTypeOK, execVars
<1>5. SweepTypeOK /\ UNCHANGED <<sweepVars, reclaimed>> => SweepTypeOK'
  BY DEF SweepTypeOK, sweepVars
<1>6. EgressTypeOK /\ UNCHANGED egressVars => EgressTypeOK'
  BY DEF EgressTypeOK, egressVars
<1>7. QED
  BY <1>1, <1>2, <1>3, <1>4, <1>5, <1>6

\* The value for no job is none of them.
LEMMA NoJobIsNoJob == NoJob \notin Jobs
  BY ConstantsAssumption DEF NoJob, Jobs

LEMMA BumpType ==
    ASSUME NEW n \in 0..QuarantineMaxAttempts
    PROVE  Bump(n) \in 0..QuarantineMaxAttempts
  BY ConstantsAssumption DEF Bump

\* An upsert of a known payload is well typed, whether or not it is lost.
LEMMA RecordOutcomeType ==
    ASSUME OutcomeTypeOK, NEW j \in Jobs, NEW payload \in Outcomes, RecordOutcome(j, payload)
    PROVE  OutcomeTypeOK'
  BY DEF OutcomeTypeOK, RecordOutcome

LEMMA FinishJobType ==
    ASSUME RowTypeOK, NEW j \in Jobs, NEW s \in Statuses, FinishJob(j, s)
    PROVE  RowTypeOK'
<1>1. Bump(attempts[j]) \in 0..QuarantineMaxAttempts
  BY BumpType DEF RowTypeOK
<1>2. QED
  BY <1>1 DEF RowTypeOK, FinishJob

LEMMA RetryJobType ==
    ASSUME RowTypeOK, NEW j \in Jobs, RetryJob(j)
    PROVE  RowTypeOK'
<1>1. Bump(attempts[j]) \in 0..QuarantineMaxAttempts
  BY BumpType DEF RowTypeOK
<1>2. CASE /\ status' = [status EXCEPT ![j] = "failed"]
           /\ UNCHANGED <<attempts, abort_requested, worker_id, due>>
  BY <1>2 DEF RowTypeOK
<1>3. CASE /\ status' = [status EXCEPT ![j] = "todo"]
           /\ attempts' = [attempts EXCEPT ![j] = Bump(@)]
           /\ due' = [due EXCEPT ![j] = FALSE]
           /\ UNCHANGED <<abort_requested, worker_id>>
  BY <1>1, <1>3 DEF RowTypeOK
<1>4. QED
  BY <1>2, <1>3 DEF RetryJob

\* The current worker is a row once a loop was booted.
LEMMA CurrentWorkerType ==
    ASSUME ProcTypeOK, NEW p \in Procs, incarnation[p] # 0
    PROVE  CurrentWorker(p) \in WorkerIds
  BY ConstantsAssumption DEF ProcTypeOK, CurrentWorker, WorkerIds

\* Deleting worker rows only ever clears worker_id.
LEMMA DeleteWorkersType ==
    ASSUME TypeOK, NEW ws, DeleteWorkers(ws)
    PROVE  /\ heartbeat' \in [WorkerIds -> {"none", "fresh", "stale"}]
           /\ worker_id' \in [Jobs -> WorkerIds \cup {NoWorker}]
  BY DEF TypeOK, ProcTypeOK, RowTypeOK, DeleteWorkers

LEMMA DropSweepType ==
    ASSUME TypeOK, NEW p \in Procs, DropSweep(p), UNCHANGED reclaimed
    PROVE  SweepTypeOK' /\ OutcomeTypeOK'
  BY DEF TypeOK, SweepTypeOK, OutcomeTypeOK, DropSweep

\* A sweep only ever visits jobs.
LEMMA StalledJobsType ==
    ASSUME NEW p \in Procs
    PROVE  StalledJobs(p) \subseteq Jobs
  BY ConstantsAssumption DEF StalledJobs

LEMMA EndExecutionType ==
    ASSUME ExecTypeOK, NEW p \in Procs, EndExecution(p)
    PROVE  ExecTypeOK'
  BY ConstantsAssumption DEF ExecTypeOK, EndExecution

LEMMA GotoType ==
    ASSUME ExecTypeOK, NEW p \in Procs, NEW next \in Pcs, Goto(p, next)
    PROVE  ExecTypeOK'
  BY DEF ExecTypeOK, Goto

-----------------------------------------------------------------------------
(* Type correctness.                                                       *)

LEMMA InitType == Init => TypeOK
<1> SUFFICES ASSUME Init PROVE TypeOK
  OBVIOUS
<1>1. RowTypeOK
  BY ConstantsAssumption DEF Init, RowTypeOK
<1>2. OutcomeTypeOK
  BY DEF Init, OutcomeTypeOK
<1>3. ProcTypeOK
  BY ConstantsAssumption DEF Init, ProcTypeOK
<1>4. ExecTypeOK
  BY ConstantsAssumption DEF Init, ExecTypeOK
<1>5. SweepTypeOK
  BY DEF Init, SweepTypeOK
<1>6. EgressTypeOK
  BY DEF Init, EgressTypeOK
<1>7. QED
  BY <1>1, <1>2, <1>3, <1>4, <1>5, <1>6 DEF TypeOK

LEMMA JobStepType ==
    ASSUME TypeOK, NEW j \in Jobs, Defer(j) \/ Cancel(j) \/ BecomeDue(j)
    PROVE  TypeOK'
<1>1. RowTypeOK'
  <2>1. CASE Defer(j)
    BY <2>1, ConstantsAssumption DEF Defer, TypeOK, RowTypeOK
  <2>2. CASE Cancel(j)
    BY <2>2 DEF Cancel, TypeOK, RowTypeOK
  <2>3. CASE BecomeDue(j)
    BY <2>3 DEF BecomeDue, TypeOK, RowTypeOK
  <2>4. QED
    BY <2>1, <2>2, <2>3
<1>2. UNCHANGED <<outcomeVars, procVars, execVars, sweepVars, egressVars, reclaimed>>
  BY DEF Defer, Cancel, BecomeDue
<1>3. QED
  BY <1>1, <1>2, SameTypes DEF TypeOK

LEMMA ExecuteType ==
    ASSUME TypeOK, NEW p \in Procs, Execute(p)
    PROVE  TypeOK'
<1> USE DEF TypeOK
<1>1. CASE Fetch(p)
  <2>1. RowTypeOK'
    <3>1. CurrentWorker(p) \in WorkerIds
      BY <1>1, CurrentWorkerType DEF Fetch, ProcTypeOK
    <3>2. QED
      BY <1>1, <3>1, ConstantsAssumption DEF Fetch, RowTypeOK, Queued
  <2>2. ExecTypeOK'
    <3>1. PICK j \in Queued(p) :
            /\ running' = [running EXCEPT ![p] = j]
            /\ pc' = [pc EXCEPT ![p] = "gate"]
            /\ seen_attempts' = [seen_attempts EXCEPT ![p] = attempts[j]]
      BY <1>1 DEF Fetch
    <3>2. j \in Jobs
      BY ConstantsAssumption DEF Queued
    <3>3. attempts[j] \in 0..QuarantineMaxAttempts
      BY <3>2 DEF RowTypeOK
    <3>4. QED
      BY <3>1, <3>2, <3>3 DEF ExecTypeOK
  <2>3. QED
    BY <1>1, <2>1, <2>2, SameTypes DEF Fetch
<1>2. CASE Gate(p)
  <2>1. UNCHANGED <<rowVars, procVars, sweepVars, egressVars, reclaimed>>
    BY <1>2 DEF Gate
  <2>2. pc[p] = "gate" /\ \E next \in Pcs : Goto(p, next)
    BY <1>2 DEF Gate
  <2>3. ExecTypeOK'
    BY <2>2, GotoType
  <2>4. OutcomeTypeOK'
    <3>1. CASE UNCHANGED outcomeVars
      BY <3>1, SameTypes
    <3>2. CASE RecordOutcome(running[p], "gave_up")
      BY <3>2 DEF RecordOutcome, OutcomeTypeOK
    <3>3. QED
      BY <1>2, <3>1, <3>2 DEF Gate
  <2>5. QED
    BY <2>1, <2>3, <2>4, SameTypes
<1>3. CASE RunHandler(p)
  <2>1. UNCHANGED <<rowVars, procVars, sweepVars, egressVars, reclaimed>>
    BY <1>3 DEF RunHandler
  <2>2. \E next \in Pcs : Goto(p, next)
    BY <1>3 DEF RunHandler
  <2>3. ExecTypeOK'
    BY <2>2, GotoType
  <2>4. OutcomeTypeOK'
    BY <1>3 DEF RunHandler, RecordOutcome, OutcomeTypeOK
  <2>5. QED
    BY <2>1, <2>3, <2>4, SameTypes
<1>4. CASE AbortHandler(p)
  BY <1>4, GotoType, SameTypes DEF AbortHandler
<1>5. CASE Persist(p)
  <2>1. UNCHANGED <<outcomeVars, procVars, sweepVars, egressVars, reclaimed>>
    BY <1>5 DEF Persist
  <2>2. ExecTypeOK'
    BY <1>5, EndExecutionType DEF Persist
  <2>3. RowTypeOK'
    <3>1. CASE UNCHANGED rowVars
      BY <3>1, SameTypes
    <3>2. CASE running[p] \in Jobs
      BY <1>5, <3>1, <3>2, FinishJobType, RetryJobType DEF Persist
    <3>3. CASE running[p] \notin Jobs
      BY <1>5, <3>3 DEF Persist, FinishJob, RetryJob, RowTypeOK, Finishable, rowVars
    <3>4. QED
      BY <3>2, <3>3
  <2>4. QED
    BY <2>1, <2>2, <2>3, SameTypes
<1>6. QED
  BY <1>1, <1>2, <1>3, <1>4, <1>5 DEF Execute

LEMMA SweepType ==
    ASSUME TypeOK, NEW p \in Procs, Sweep(p)
    PROVE  TypeOK'
<1> USE DEF TypeOK
<1>1. CASE SweepRead(p)
  <2>1. SweepTypeOK'
    BY <1>1, StalledJobsType DEF SweepRead, SweepTypeOK
  <2>2. QED
    BY <1>1, <2>1, SameTypes DEF SweepRead
<1>2. ASSUME NEW j \in Jobs, SweepFail(p, j) PROVE TypeOK'
  <2>1. SweepTypeOK'
    BY <1>2 DEF SweepFail, SweepTypeOK
  <2>2. RowTypeOK'
    BY <1>2, FinishJobType, SameTypes DEF SweepFail
  <2>3. QED
    BY <1>2, <2>1, <2>2, SameTypes DEF SweepFail
<1>3. CASE SweepRecord(p)
  <2>1. SweepTypeOK'
    BY <1>3 DEF SweepRecord, SweepTypeOK
  <2>2. OutcomeTypeOK'
    BY <1>3 DEF SweepRecord, RecordOutcome, OutcomeTypeOK
  <2>3. QED
    BY <1>3, <2>1, <2>2, SameTypes DEF SweepRecord
<1>4. QED
  BY <1>1, <1>2, <1>3 DEF Sweep

LEMMA ProcessType ==
    ASSUME TypeOK, NEW p \in Procs,
           Heartbeat(p) \/ Prune(p) \/ Boot(p) \/ StartLoop(p) \/ Pause(p) \/ Crash(p)
    PROVE  TypeOK'
<1> USE DEF TypeOK
<1>1. CASE Heartbeat(p)
  <2>1. ProcTypeOK'
    BY <1>1 DEF Heartbeat, ProcTypeOK
  <2>2. QED
    BY <1>1, <2>1, SameTypes DEF Heartbeat
<1>2. CASE Prune(p)
  <2>1. ProcTypeOK' /\ RowTypeOK'
    BY <1>2, DeleteWorkersType DEF Prune, ProcTypeOK, RowTypeOK
  <2>2. QED
    BY <1>2, <2>1, SameTypes DEF Prune
<1>3. CASE Boot(p)
  <2>1. ProcTypeOK'
    BY <1>3, ConstantsAssumption DEF Boot, ProcTypeOK
  <2>2. SweepTypeOK'
    <3>1. \E found \in SUBSET Jobs : stalled' = [stalled EXCEPT ![p] = found]
      BY <1>3, StalledJobsType DEF Boot
    <3>2. QED
      BY <1>3, <3>1 DEF Boot, SweepTypeOK
  <2>3. QED
    BY <1>3, <2>1, <2>2, SameTypes DEF Boot
<1>4. CASE StartLoop(p)
  <2>1. ProcTypeOK'
    BY <1>4 DEF StartLoop, ProcTypeOK
  <2>2. QED
    BY <1>4, <2>1, SameTypes DEF StartLoop
<1>5. CASE Pause(p)
  <2>1. ProcTypeOK' /\ RowTypeOK'
    BY <1>5, DeleteWorkersType DEF Pause, ProcTypeOK, RowTypeOK
  <2>2. SweepTypeOK' /\ OutcomeTypeOK'
    BY <1>5, DropSweepType DEF Pause
  <2>3. QED
    BY <1>5, <2>1, <2>2, SameTypes DEF Pause
<1>6. CASE Crash(p)
  <2>1. ProcTypeOK'
    BY <1>6 DEF Crash, ProcTypeOK
  <2>2. SweepTypeOK' /\ OutcomeTypeOK'
    BY <1>6, DropSweepType DEF Crash
  <2>3. ExecTypeOK'
    BY <1>6, EndExecutionType DEF Crash
  <2>4. QED
    BY <1>6, <2>1, <2>2, <2>3, SameTypes DEF Crash
<1>7. QED
  BY <1>1, <1>2, <1>3, <1>4, <1>5, <1>6

LEMMA EnvironmentType ==
    ASSUME TypeOK,
           \/ \E w \in WorkerIds : Age(w)
           \/ RestoreBegins \/ RestoreQuarantines \/ RestoreEnds \/ Acknowledge
    PROVE  TypeOK'
<1> USE DEF TypeOK
<1>1. ASSUME NEW w \in WorkerIds, Age(w) PROVE TypeOK'
  <2>1. ProcTypeOK'
    BY <1>1 DEF Age, ProcTypeOK
  <2>2. QED
    BY <1>1, <2>1, SameTypes DEF Age
<1>2. ASSUME NEW m \in BOOLEAN, NEW q \in BOOLEAN, Egress(m, q) PROVE TypeOK'
  <2>1. EgressTypeOK'
    BY <1>2 DEF Egress, EgressTypeOK
  <2>2. QED
    BY <1>2, <2>1, SameTypes DEF Egress
<1>3. QED
  BY <1>1, <1>2 DEF RestoreBegins, RestoreQuarantines, RestoreEnds, Acknowledge, EgressTypeOK

\* One step of the system.
LEMMA NextType == TypeOK /\ [Next]_vars => TypeOK'
<1> SUFFICES ASSUME TypeOK, [Next]_vars PROVE TypeOK'
  OBVIOUS
<1>1. CASE Next
  BY <1>1, JobStepType, ExecuteType, SweepType, ProcessType, EnvironmentType DEF Next
<1>2. CASE UNCHANGED vars
  BY <1>2, SameTypes DEF vars, TypeOK
<1>3. QED
  BY <1>1, <1>2

\* No handler, sweep, crash or sentinel leaves the types of the variables.
THEOREM TypeCorrect == Spec => []TypeOK
  BY InitType, NextType, PTL DEF Spec

-----------------------------------------------------------------------------
(* The inductive invariant.  TypeOK' comes from NextType; what is left are *)
(* the five parts that tie the executions to the rows.                     *)

ExecutionInv ==
    /\ NotTodoAbortRequested
    /\ SingleExecution
    /\ ExecutionHoldsRow
    /\ ExecutionsWellFormed
    /\ AbortedRetryEnds

\* Steps that move no row and no execution disturb none of them.
LEMMA SameExecutions ==
    ASSUME ExecutionInv,
           UNCHANGED <<status, abort_requested, running, pc, phase, reclaimed>>
    PROVE  ExecutionInv'
  BY DEF ExecutionInv, NotTodoAbortRequested, SingleExecution, ExecutionHoldsRow,
         ExecutionsWellFormed, AbortedRetryEnds

LEMMA InitExecutions == Init => ExecutionInv
  BY ConstantsAssumption
  DEF Init, ExecutionInv, NotTodoAbortRequested, SingleExecution, ExecutionHoldsRow,
      ExecutionsWellFormed, AbortedRetryEnds

\* A queued or absent row has no execution: cancelling or inserting one leaves
\* every execution on its row.
LEMMA JobStepExecutions ==
    ASSUME TypeOK, ExecutionInv, NEW j \in Jobs, Defer(j) \/ Cancel(j) \/ BecomeDue(j)
    PROVE  ExecutionInv'
<1> USE DEF ExecutionInv, NotTodoAbortRequested, SingleExecution, ExecutionHoldsRow,
            ExecutionsWellFormed, AbortedRetryEnds
<1>1. CASE Defer(j)
  BY <1>1 DEF Defer, TypeOK, RowTypeOK, ExecTypeOK, execVars, procVars
<1>2. CASE Cancel(j)
  BY <1>2 DEF Cancel, TypeOK, RowTypeOK, ExecTypeOK, execVars, procVars
<1>3. CASE BecomeDue(j)
  BY <1>3, SameExecutions DEF BecomeDue, execVars, procVars
<1>4. QED
  BY <1>1, <1>2, <1>3

\* An execution that ends may leave any status on its own row, but no abort
\* request on a queued one.
LEMMA ExecutionEnds ==
    ASSUME TypeOK, ExecutionInv, NEW p \in Procs, EndExecution(p),
           UNCHANGED reclaimed,
           \A q \in Procs \ {p} : phase'[q] = phase[q],
           \A k \in Jobs \ {running[p]} :
               status'[k] = status[k] /\ abort_requested'[k] = abort_requested[k],
           running[p] \in Jobs =>
               ~(status'[running[p]] = "todo" /\ abort_requested'[running[p]])
    PROVE  ExecutionInv'
<1> USE DEF ExecutionInv
<1>1. running'[p] = NoJob /\ pc'[p] = "idle"
  BY DEF EndExecution, TypeOK, ExecTypeOK
<1>2. \A q \in Procs \ {p} : running'[q] = running[q] /\ pc'[q] = pc[q]
  BY DEF EndExecution, TypeOK, ExecTypeOK
<1>3. \A q \in Procs \ {p} : running[q] # NoJob => running[q] \in Jobs \ {running[p]}
  BY DEF SingleExecution, TypeOK, ExecTypeOK
<1>4. NotTodoAbortRequested'
  BY DEF NotTodoAbortRequested
<1>5. SingleExecution'
  BY <1>1, <1>2 DEF SingleExecution
<1>6. ExecutionHoldsRow'
  BY <1>1, <1>2, <1>3 DEF ExecutionHoldsRow
<1>7. ExecutionsWellFormed'
  BY <1>1, <1>2 DEF ExecutionsWellFormed
<1>8. AbortedRetryEnds'
  BY <1>1, <1>2, <1>3, NoJobIsNoJob DEF AbortedRetryEnds
<1>9. QED
  BY <1>4, <1>5, <1>6, <1>7, <1>8

\* finish_job_v1 clears the abort request; retry_job_v2 queues a row only when
\* none stands, because one that stood when the row failed ended the execution.
LEMMA PersistExecutions ==
    ASSUME TypeOK, ExecutionInv, NEW p \in Procs, Persist(p)
    PROVE  ExecutionInv'
<1> DEFINE j == running[p]
<1>1. EndExecution(p) /\ UNCHANGED <<phase, reclaimed>>
  BY DEF Persist, procVars
<1>2. j \in Jobs
  BY DEF Persist, TypeOK, ExecTypeOK, ExecutionInv, ExecutionsWellFormed
<1>3. \A k \in Jobs \ {j} :
         status'[k] = status[k] /\ abort_requested'[k] = abort_requested[k]
  BY DEF Persist, FinishJob, RetryJob, rowVars, TypeOK, RowTypeOK
<1>4. ~(status'[j] = "todo" /\ abort_requested'[j])
  <2>1. CASE UNCHANGED rowVars
    BY <1>2, <2>1 DEF rowVars, ExecutionInv, NotTodoAbortRequested
  <2>2. CASE FinishJob(j, pc[p])
    BY <1>2, <2>2 DEF FinishJob, TypeOK, RowTypeOK
  <2>3. CASE RetryJob(j)
    <3>1. status[j] = "failed" => ~abort_requested[j]
      BY <1>2 DEF ExecutionInv, AbortedRetryEnds
    <3>2. QED
      BY <1>2, <2>1, <2>3, <3>1 DEF RetryJob, TypeOK, RowTypeOK
  <2>4. QED
    BY <2>1, <2>2, <2>3 DEF Persist
<1>5. QED
  BY <1>1, <1>3, <1>4, ExecutionEnds

LEMMA ExecuteExecutions ==
    ASSUME TypeOK, ExecutionInv, NEW p \in Procs, Execute(p)
    PROVE  ExecutionInv'
<1> USE DEF ExecutionInv, NotTodoAbortRequested, SingleExecution, ExecutionHoldsRow,
            ExecutionsWellFormed, AbortedRetryEnds
<1>1. CASE Fetch(p)
  <2>1. PICK j \in Jobs :
          /\ status[j] = "todo"
          /\ status' = [status EXCEPT ![j] = "doing"]
          /\ running' = [running EXCEPT ![p] = j]
          /\ pc' = [pc EXCEPT ![p] = "gate"]
    BY <1>1, ConstantsAssumption DEF Fetch, Queued
  <2>2. UNCHANGED <<abort_requested, phase, reclaimed>> /\ phase[p] = "run"
    BY <1>1 DEF Fetch, procVars
  <2>3. \A q \in Procs : running[q] # j
    BY <2>1, NoJobIsNoJob
  <2>4. QED
    BY <2>1, <2>2, <2>3, NoJobIsNoJob DEF TypeOK, RowTypeOK, ExecTypeOK
<1>2. CASE Gate(p) \/ RunHandler(p) \/ AbortHandler(p)
  <2>1. PICK next \in Pcs \ {"idle"} : Goto(p, next)
    BY <1>2 DEF Gate, RunHandler, AbortHandler
  <2>2. UNCHANGED <<status, abort_requested, phase, reclaimed>> /\ pc[p] # "idle"
    BY <1>2 DEF Gate, RunHandler, AbortHandler, rowVars, procVars
  <2>3. QED
    BY <2>1, <2>2 DEF Goto, TypeOK, ExecTypeOK
<1>3. QED
  BY <1>1, <1>2, PersistExecutions DEF Execute

\* The sweep fails running rows and marks them: their executions stay allowed,
\* and finish_job_v1 has cleared the abort request.
LEMMA SweepExecutions ==
    ASSUME TypeOK, ExecutionInv, NEW p \in Procs, Sweep(p)
    PROVE  ExecutionInv'
<1>1. CASE SweepRead(p) \/ SweepRecord(p)
  BY <1>1, SameExecutions DEF SweepRead, SweepRecord, rowVars, procVars, execVars
<1>2. ASSUME NEW j \in Jobs, SweepFail(p, j) PROVE ExecutionInv'
  <2>1. CASE UNCHANGED <<rowVars, reclaimed>>
    BY <1>2, <2>1, SameExecutions DEF SweepFail, rowVars, procVars, execVars
  <2>2. CASE FinishJob(j, "failed") /\ reclaimed' = [reclaimed EXCEPT ![j] = TRUE]
    BY <1>2, <2>2
    DEF SweepFail, FinishJob, procVars, execVars, TypeOK, RowTypeOK, ExecTypeOK, SweepTypeOK,
        ExecutionInv, NotTodoAbortRequested, SingleExecution, ExecutionHoldsRow,
        ExecutionsWellFormed, AbortedRetryEnds
  <2>3. QED
    BY <1>2, <2>1, <2>2 DEF SweepFail
<1>3. QED
  BY <1>1, <1>2 DEF Sweep

LEMMA ProcessExecutions ==
    ASSUME TypeOK, ExecutionInv, NEW p \in Procs,
           Heartbeat(p) \/ Prune(p) \/ Boot(p) \/ StartLoop(p) \/ Pause(p) \/ Crash(p)
    PROVE  ExecutionInv'
<1>1. CASE Heartbeat(p) \/ Prune(p)
  BY <1>1, SameExecutions DEF Heartbeat, Prune, rowVars, execVars
<1>2. CASE Boot(p) \/ StartLoop(p) \/ Pause(p)
  BY <1>2
  DEF Boot, StartLoop, Pause, rowVars, execVars, sweepVars, TypeOK, ProcTypeOK,
      ExecutionInv, NotTodoAbortRequested, SingleExecution, ExecutionHoldsRow,
      ExecutionsWellFormed, AbortedRetryEnds
<1>3. CASE Crash(p)
  <2>1. EndExecution(p) /\ UNCHANGED <<status, abort_requested, reclaimed>>
    BY <1>3 DEF Crash, rowVars
  <2>2. \A q \in Procs \ {p} : phase'[q] = phase[q]
    BY <1>3 DEF Crash, TypeOK, ProcTypeOK
  <2>3. QED
    BY <2>1, <2>2, ExecutionEnds DEF ExecutionInv, NotTodoAbortRequested
<1>4. QED
  BY <1>1, <1>2, <1>3

\* Neither time nor the sentinels reach a row or an execution.
LEMMA EnvironmentExecutions ==
    ASSUME ExecutionInv,
           \/ \E w \in WorkerIds : Age(w)
           \/ RestoreBegins \/ RestoreQuarantines \/ RestoreEnds \/ Acknowledge
    PROVE  ExecutionInv'
  BY SameExecutions
  DEF Age, RestoreBegins, RestoreQuarantines, RestoreEnds, Acknowledge, Egress,
      rowVars, execVars, procVars

LEMMA NextExecutions == TypeOK /\ ExecutionInv /\ [Next]_vars => ExecutionInv'
<1> SUFFICES ASSUME TypeOK, ExecutionInv, [Next]_vars PROVE ExecutionInv'
  OBVIOUS
<1>1. CASE Next
  BY <1>1, JobStepExecutions, ExecuteExecutions, SweepExecutions, ProcessExecutions,
     EnvironmentExecutions DEF Next
<1>2. CASE UNCHANGED vars
  BY <1>2, SameExecutions DEF vars, rowVars, execVars, procVars
<1>3. QED
  BY <1>1, <1>2

\* The inductive invariant: a queued row carries no abort request, no two
\* processes execute one job, an execution holds its row, and a retry that met
\* an abort request has ended its execution.
THEOREM Safety == Spec => []QueueInv
<1>1. Init => TypeOK /\ ExecutionInv
  BY InitType, InitExecutions
<1>2. TypeOK /\ ExecutionInv /\ [Next]_vars => TypeOK' /\ ExecutionInv'
  BY NextType, NextExecutions
<1>3. TypeOK /\ ExecutionInv => QueueInv
  BY DEF ExecutionInv, QueueInv
<1>4. QED
  BY <1>1, <1>2, <1>3, PTL DEF Spec

\* One job is never executed by two processes at once (the fetch, the sweep and
\* the late retry of one row).
THEOREM OneExecutionPerJob == Spec => []SingleExecution
<1>1. QueueInv => SingleExecution
  BY DEF QueueInv
<1>2. QED
  BY Safety, <1>1, PTL

\* The table constraint of procrastinate_jobs never refuses an update.
THEOREM ConstraintHolds == Spec => []NotTodoAbortRequested
<1>1. QueueInv => NotTodoAbortRequested
  BY DEF QueueInv
<1>2. QED
  BY Safety, <1>1, PTL

-----------------------------------------------------------------------------
(* What a step may never do.                                               *)

\* A row that is no longer queued changes its status in two ways: it finishes,
\* or its own execution retries it.
LEMMA StatusStep ==
    ASSUME TypeOK, ExecutionInv, [Next]_vars, NEW j \in Jobs, status'[j] # status[j]
    PROVE  \/ status[j] \in {"absent", "todo"}
           \/ status[j] = "doing" /\ status'[j] \in Terminal
           \/ \E p \in Procs : running[p] = j /\ pc[p] = "retry" /\ RetryJob(j)
<1> DEFINE Goal ==
           \/ status[j] \in {"absent", "todo"}
           \/ status[j] = "doing" /\ status'[j] \in Terminal
           \/ \E p \in Procs : running[p] = j /\ pc[p] = "retry" /\ RetryJob(j)
<1>1. ASSUME NEW k \in Jobs, Defer(k) \/ Cancel(k) \/ BecomeDue(k) PROVE Goal
  BY <1>1 DEF Defer, Cancel, BecomeDue, TypeOK, RowTypeOK
<1>2. ASSUME NEW p \in Procs, Execute(p) PROVE Goal
  <2>1. CASE Fetch(p)
    BY <2>1, ConstantsAssumption DEF Fetch, Queued, TypeOK, RowTypeOK
  <2>2. CASE Gate(p) \/ RunHandler(p) \/ AbortHandler(p)
    BY <2>2 DEF Gate, RunHandler, AbortHandler, rowVars
  <2>3. CASE Persist(p)
    <3>1. CASE Finishable(running[p]) /\ FinishJob(running[p], pc[p]) /\ pc[p] \in EndPcs
      BY <3>1 DEF Finishable, FinishJob, TypeOK, RowTypeOK
    <3>2. CASE UNCHANGED rowVars
      BY <3>2 DEF rowVars
    <3>3. CASE pc[p] = "retry" /\ RetryJob(running[p])
      BY <3>3 DEF RetryJob, rowVars, TypeOK, RowTypeOK
    <3>4. QED
      BY <2>3, <3>1, <3>2, <3>3 DEF Persist
  <2>4. QED
    BY <1>2, <2>1, <2>2, <2>3 DEF Execute
<1>3. ASSUME NEW p \in Procs, Sweep(p) PROVE Goal
  BY <1>3 DEF Sweep, SweepRead, SweepFail, SweepRecord, Finishable, FinishJob, rowVars,
              TypeOK, RowTypeOK
<1>4. ASSUME NEW p \in Procs,
             Heartbeat(p) \/ Prune(p) \/ Boot(p) \/ StartLoop(p) \/ Pause(p) \/ Crash(p)
      PROVE  Goal
  BY <1>4 DEF Heartbeat, Prune, Boot, StartLoop, Pause, Crash, rowVars
<1>5. ASSUME \/ \E w \in WorkerIds : Age(w)
             \/ RestoreBegins \/ RestoreQuarantines \/ RestoreEnds \/ Acknowledge
      PROVE  Goal
  BY <1>5 DEF Age, RestoreBegins, RestoreQuarantines, RestoreEnds, Acknowledge, Egress, rowVars
<1>6. CASE UNCHANGED vars
  BY <1>6 DEF vars, rowVars
<1>7. QED
  BY <1>1, <1>2, <1>3, <1>4, <1>5, <1>6 DEF Next

\* A settled job is revived only by the execution the sweep failed it under
\* (retry_job_v2 accepts failed rows).
THEOREM SettledStaysSettled == Spec => SettledOnlyRevivedByItsExecution
<1>1. TypeOK /\ ExecutionInv /\ [Next]_vars => RevivedByItsExecution
  <2> SUFFICES ASSUME TypeOK, ExecutionInv, [Next]_vars,
                      NEW j \in Jobs, status[j] \in Terminal, status'[j] # status[j]
               PROVE  /\ status[j] = "failed" /\ reclaimed[j]
                      /\ \E p \in Procs : running[p] = j /\ pc[p] = "retry"
    BY DEF RevivedByItsExecution
  <2>1. PICK p \in Procs : running[p] = j /\ pc[p] = "retry" /\ RetryJob(j)
    BY StatusStep
  <2>2. status[j] = "failed" /\ reclaimed[j]
    BY <2>1, NoJobIsNoJob DEF ExecutionInv, ExecutionHoldsRow
  <2>3. QED
    BY <2>1, <2>2
<1>2. QueueInv => TypeOK /\ ExecutionInv
  BY DEF QueueInv, ExecutionInv
<1>3. QED
  BY Safety, <1>1, <1>2, PTL DEF Spec, SettledOnlyRevivedByItsExecution

\* A running job whose abort was requested never goes back to the queue (the
\* abort branch of retry_job_v2).
THEOREM AbortEndsTheJob == Spec => AbortNeverRequeued
<1>1. TypeOK /\ ExecutionInv /\ [Next]_vars => AbortNotRequeued
  <2> SUFFICES ASSUME TypeOK, ExecutionInv, [Next]_vars,
                      NEW j \in Jobs, status[j] = "doing", abort_requested[j]
               PROVE  status'[j] # "todo"
    BY DEF AbortNotRequeued
  <2>1. CASE status'[j] = status[j]
    BY <2>1
  <2>2. CASE status'[j] \in Terminal
    BY <2>2
  <2>3. CASE RetryJob(j)
    BY <2>3 DEF RetryJob, TypeOK, RowTypeOK
  <2>4. QED
    BY <2>1, <2>2, <2>3, StatusStep
<1>2. QueueInv => TypeOK /\ ExecutionInv
  BY DEF QueueInv, ExecutionInv
<1>3. QED
  BY Safety, <1>1, <1>2, PTL DEF Spec, AbortNeverRequeued

-----------------------------------------------------------------------------
(* The outcome a client reads.  The wrapper writes the payload before the  *)
(* worker finishes the row, so the invariant follows the payload through   *)
(* the executions, and the sweep's message through the sweeps.             *)

Recorded(p) ==
    CASE pc[p] = "succeeded" -> {"result"}
      [] pc[p] = "failed" -> {"error", "gave_up"}
      [] OTHER -> Outcomes

OutcomeInv ==
    /\ OutcomeMatchesStatus
    /\ \A p \in Procs : running[p] # NoJob =>
           reclaimed[running[p]] \/ lost[running[p]] \/ outcome[running[p]] \in Recorded(p)
    /\ \A p \in Procs : reclaiming[p] # NoJob => reclaimed[reclaiming[p]]

LEMMA InitOutcomes == Init => OutcomeInv
  BY ConstantsAssumption DEF Init, OutcomeInv, OutcomeMatchesStatus, Recorded

LEMMA SameOutcomes ==
    ASSUME OutcomeInv,
           UNCHANGED <<status, abort_requested, outcomeVars, running, pc, reclaiming, reclaimed>>
    PROVE  OutcomeInv'
  BY DEF OutcomeInv, OutcomeMatchesStatus, Recorded, outcomeVars

\* The rows of other jobs are not touched.
LEMMA JobStepOutcomes ==
    ASSUME TypeOK, ExecutionInv, OutcomeInv, NEW j \in Jobs, Defer(j) \/ Cancel(j) \/ BecomeDue(j)
    PROVE  OutcomeInv'
<1>1. UNCHANGED <<outcomeVars, running, pc, reclaiming, reclaimed>>
  BY DEF Defer, Cancel, BecomeDue, execVars, sweepVars
<1>2. OutcomeMatchesStatus'
  BY <1>1 DEF Defer, Cancel, BecomeDue, OutcomeInv, OutcomeMatchesStatus, outcomeVars, TypeOK,
              RowTypeOK
<1>3. QED
  BY <1>1, <1>2 DEF OutcomeInv, Recorded, outcomeVars

LEMMA ExecuteOutcomes ==
    ASSUME TypeOK, ExecutionInv, OutcomeInv, NEW p \in Procs, Execute(p)
    PROVE  OutcomeInv'
<1> USE DEF outcomeVars
<1>1. CASE Fetch(p)
  <2>1. PICK j \in Jobs :
          /\ status[j] = "todo"
          /\ status' = [status EXCEPT ![j] = "doing"]
          /\ running' = [running EXCEPT ![p] = j]
          /\ pc' = [pc EXCEPT ![p] = "gate"]
    BY <1>1, ConstantsAssumption DEF Fetch, Queued
  <2>2. UNCHANGED <<abort_requested, outcomeVars, reclaiming, reclaimed>>
    BY <1>1 DEF Fetch, sweepVars
  <2>3. OutcomeMatchesStatus'
    BY <2>1, <2>2 DEF OutcomeInv, OutcomeMatchesStatus, TypeOK, RowTypeOK
  <2>4. ASSUME NEW q \in Procs, running'[q] # NoJob
        PROVE  \/ reclaimed[running'[q]] \/ lost[running'[q]]
               \/ outcome[running'[q]] \in Recorded(q)'
    <3>1. CASE q = p
      <4>1. Recorded(q)' = Outcomes /\ running'[q] = j
        BY <2>1, <3>1 DEF Recorded, TypeOK, ExecTypeOK
      <4>2. QED
        BY <4>1 DEF TypeOK, OutcomeTypeOK
    <3>2. CASE q # p
      <4>1. running'[q] = running[q] /\ Recorded(q)' = Recorded(q)
        BY <2>1, <3>2 DEF Recorded, TypeOK, ExecTypeOK
      <4>2. QED
        BY <2>4, <4>1 DEF OutcomeInv
    <3>3. QED
      BY <3>1, <3>2
  <2>5. QED
    BY <2>2, <2>3, <2>4 DEF OutcomeInv
<1>2. ASSUME UNCHANGED outcomeVars, NEW next \in {"handler", "retry", "aborted"}, Goto(p, next),
             UNCHANGED <<rowVars, sweepVars, reclaimed>>
      PROVE  OutcomeInv'
  <2>1. OutcomeMatchesStatus'
    BY <1>2 DEF OutcomeInv, OutcomeMatchesStatus, rowVars
  <2>2. \A q \in Procs : Recorded(q)' = Recorded(q) \/ Recorded(q)' = Outcomes
    BY <1>2 DEF Recorded, Goto, TypeOK, ExecTypeOK
  <2>3. \A j \in Jobs : outcome[j] \in Outcomes
    BY DEF TypeOK, OutcomeTypeOK
  <2>4. \A q \in Procs : running[q] # NoJob => running[q] \in Jobs
    BY DEF TypeOK, ExecTypeOK
  <2>5. QED
    BY <1>2, <2>1, <2>2, <2>3, <2>4 DEF OutcomeInv, Goto, sweepVars
<1>3. ASSUME NEW payload \in Outcomes, NEW next \in Pcs, RecordOutcome(running[p], payload),
             Goto(p, next), UNCHANGED <<rowVars, sweepVars, reclaimed>>, running[p] # NoJob,
             next = "succeeded" => payload = "result",
             next = "failed" => payload \in {"error", "gave_up"}
      PROVE  OutcomeInv'
  <2>1. PICK j \in Jobs : j = running[p]
    BY <1>3 DEF TypeOK, ExecTypeOK
  <2>2. \A k \in Jobs \ {j} : outcome'[k] = outcome[k] /\ lost'[k] = lost[k]
    BY <1>3, <2>1 DEF RecordOutcome, TypeOK, OutcomeTypeOK
  <2>3. lost'[j] \/ outcome'[j] = payload
    BY <1>3, <2>1 DEF RecordOutcome, TypeOK, OutcomeTypeOK
  <2>4. status[j] = "doing" \/ reclaimed[j]
    BY <1>3, <2>1 DEF ExecutionInv, ExecutionHoldsRow
  <2>5. OutcomeMatchesStatus'
    BY <1>3, <2>2, <2>4 DEF OutcomeInv, OutcomeMatchesStatus, rowVars
  <2>6. ASSUME NEW q \in Procs, running[q] # NoJob
        PROVE  \/ reclaimed[running[q]] \/ lost'[running[q]]
               \/ outcome'[running[q]] \in Recorded(q)'
    <3>1. CASE q = p
      <4>1. pc'[q] = next
        BY <1>3, <3>1 DEF Goto, TypeOK, ExecTypeOK
      <4>2. payload \in Recorded(q)'
        BY <1>3, <4>1 DEF Recorded
      <4>3. QED
        BY <2>1, <2>3, <3>1, <4>2
    <3>2. CASE q # p
      <4>1. running[q] \in Jobs \ {j}
        BY <2>1, <2>6, <3>2 DEF ExecutionInv, SingleExecution, TypeOK, ExecTypeOK
      <4>2. Recorded(q)' = Recorded(q)
        BY <1>3, <3>2 DEF Recorded, Goto, TypeOK, ExecTypeOK
      <4>3. QED
        BY <2>2, <2>6, <4>1, <4>2 DEF OutcomeInv
    <3>3. QED
      BY <3>1, <3>2
  <2>7. QED
    BY <1>3, <2>5, <2>6 DEF OutcomeInv, Goto, sweepVars
<1>4. CASE Gate(p) \/ RunHandler(p) \/ AbortHandler(p)
  <2>1. running[p] # NoJob /\ UNCHANGED <<rowVars, sweepVars, reclaimed>>
    BY <1>4 DEF Gate, RunHandler, AbortHandler, ExecutionInv, ExecutionsWellFormed
  <2>2. QED
    BY <1>2, <1>3, <1>4, <2>1 DEF Gate, RunHandler, AbortHandler
<1>5. CASE Persist(p)
  <2>1. PICK j \in Jobs : j = running[p]
    BY <1>5 DEF Persist, TypeOK, ExecTypeOK, ExecutionInv, ExecutionsWellFormed
  <2>2. UNCHANGED <<outcomeVars, reclaiming, reclaimed>> /\ EndExecution(p)
    BY <1>5 DEF Persist, sweepVars
  <2>3. reclaimed[j] \/ lost[j] \/ outcome[j] \in Recorded(p)
    BY <2>1, NoJobIsNoJob DEF OutcomeInv
  <2>4. \A k \in Jobs \ {j} : status'[k] = status[k] /\ abort_requested'[k] = abort_requested[k]
    BY <1>5, <2>1 DEF Persist, FinishJob, RetryJob, rowVars, TypeOK, RowTypeOK
  <2>5. \/ UNCHANGED <<status, abort_requested>>
        \/ pc[p] = "aborted" /\ status'[j] = "aborted"
        \/ pc[p] = "succeeded" /\ status'[j] = "succeeded"
        \/ pc[p] = "failed" /\ status'[j] = "failed"
        \/ status'[j] = "todo"
        \/ status'[j] = "failed" /\ abort_requested'[j]
    BY <1>5, <2>1 DEF Persist, FinishJob, RetryJob, rowVars, TypeOK, RowTypeOK
  <2>6. OutcomeMatchesStatus'
    BY <2>2, <2>3, <2>4, <2>5 DEF OutcomeInv, OutcomeMatchesStatus, Recorded
  <2>7. \A q \in Procs : running'[q] # NoJob => /\ running'[q] = running[q]
                                               /\ Recorded(q)' = Recorded(q)
    BY <2>2 DEF EndExecution, Recorded, TypeOK, ExecTypeOK
  <2>8. QED
    BY <2>2, <2>6, <2>7 DEF OutcomeInv
<1>6. QED
  BY <1>1, <1>4, <1>5 DEF Execute

\* What the sweep writes is only shown for jobs that it failed.
LEMMA SweepOutcomes ==
    ASSUME TypeOK, ExecutionInv, OutcomeInv, NEW p \in Procs, Sweep(p)
    PROVE  OutcomeInv'
<1>1. CASE SweepRead(p)
  BY <1>1, SameOutcomes DEF SweepRead, rowVars, execVars
<1>2. ASSUME NEW j \in Jobs, SweepFail(p, j) PROVE OutcomeInv'
  <2>1. UNCHANGED <<outcomeVars, running, pc>>
    BY <1>2 DEF SweepFail, execVars
  <2>2. CASE UNCHANGED <<rowVars, reclaiming, reclaimed>>
    BY <2>1, <2>2, SameOutcomes DEF rowVars
  <2>3. CASE /\ FinishJob(j, "failed")
             /\ reclaiming' = [reclaiming EXCEPT ![p] = j]
             /\ reclaimed' = [reclaimed EXCEPT ![j] = TRUE]
    <3>1. reclaimed'[j] /\ \A k \in Jobs : reclaimed[k] => reclaimed'[k]
      BY <2>3 DEF TypeOK, SweepTypeOK
    <3>2. \A k \in Jobs \ {j} : /\ status'[k] = status[k] /\ reclaimed'[k] = reclaimed[k]
                                /\ abort_requested'[k] = abort_requested[k]
      BY <2>3 DEF FinishJob, TypeOK, RowTypeOK, SweepTypeOK
    <3>3. OutcomeMatchesStatus'
      BY <2>1, <3>1, <3>2 DEF OutcomeInv, OutcomeMatchesStatus, outcomeVars
    <3>4. \A q \in Procs : reclaiming'[q] # NoJob => reclaimed'[reclaiming'[q]]
      BY <2>3, <3>1 DEF OutcomeInv, TypeOK, SweepTypeOK
    <3>5. \A q \in Procs : running[q] # NoJob => running[q] \in Jobs
      BY DEF TypeOK, ExecTypeOK
    <3>6. QED
      BY <2>1, <3>1, <3>3, <3>4, <3>5 DEF OutcomeInv, Recorded, outcomeVars
  <2>4. QED
    BY <1>2, <2>2, <2>3 DEF SweepFail
<1>3. CASE SweepRecord(p)
  <2>1. PICK j \in Jobs : j = reclaiming[p]
    BY <1>3 DEF SweepRecord, TypeOK, SweepTypeOK
  <2>2. reclaimed[j] /\ UNCHANGED <<status, abort_requested, running, pc, reclaimed>>
    BY <1>3, <2>1 DEF SweepRecord, OutcomeInv, rowVars, execVars
  <2>3. \A k \in Jobs \ {j} : outcome'[k] = outcome[k] /\ lost'[k] = lost[k]
    BY <1>3, <2>1 DEF SweepRecord, RecordOutcome, TypeOK, OutcomeTypeOK
  <2>4. OutcomeMatchesStatus'
    BY <2>2, <2>3 DEF OutcomeInv, OutcomeMatchesStatus
  <2>5. \A q \in Procs : reclaiming'[q] # NoJob => reclaimed'[reclaiming'[q]]
    BY <1>3, <2>2 DEF SweepRecord, OutcomeInv, TypeOK, SweepTypeOK
  <2>6. \A q \in Procs : running[q] # NoJob => running[q] \in Jobs
    BY DEF TypeOK, ExecTypeOK
  <2>7. QED
    BY <2>2, <2>3, <2>4, <2>5, <2>6 DEF OutcomeInv, Recorded
<1>4. QED
  BY <1>1, <1>2, <1>3 DEF Sweep

LEMMA ProcessOutcomes ==
    ASSUME TypeOK, ExecutionInv, OutcomeInv, NEW p \in Procs,
           Heartbeat(p) \/ Prune(p) \/ Boot(p) \/ StartLoop(p) \/ Pause(p) \/ Crash(p)
    PROVE  OutcomeInv'
<1>1. CASE Heartbeat(p) \/ Prune(p) \/ Boot(p) \/ StartLoop(p)
  BY <1>1, SameOutcomes DEF Heartbeat, Prune, Boot, StartLoop, rowVars, execVars, sweepVars
<1>2. CASE Pause(p) \/ Crash(p)
  <2>1. UNCHANGED <<status, abort_requested, outcome, reclaimed>> /\ DropSweep(p)
    BY <1>2 DEF Pause, Crash, DropSweep, rowVars
  <2>2. UNCHANGED <<running, pc>> \/ EndExecution(p)
    BY <1>2 DEF Pause, Crash, execVars
  <2>3. \A j \in Jobs : lost[j] => lost'[j]
    BY <2>1 DEF DropSweep
  <2>4. \A j \in Jobs : lost[j] \in BOOLEAN /\ lost'[j] \in BOOLEAN
    BY <2>1 DEF DropSweep, TypeOK, OutcomeTypeOK
  <2>5. OutcomeMatchesStatus'
    BY <2>1, <2>3 DEF OutcomeInv, OutcomeMatchesStatus
  <2>6. \A q \in Procs : running'[q] # NoJob => /\ running'[q] = running[q] /\ running[q] \in Jobs
                                               /\ Recorded(q)' = Recorded(q)
    BY <2>2 DEF EndExecution, Recorded, TypeOK, ExecTypeOK
  <2>7. \A q \in Procs : reclaiming'[q] # NoJob => reclaimed[reclaiming'[q]]
    BY <2>1 DEF DropSweep, OutcomeInv, TypeOK, SweepTypeOK
  <2>8. QED
    BY <2>1, <2>3, <2>5, <2>6, <2>7 DEF OutcomeInv
<1>3. QED
  BY <1>1, <1>2

LEMMA NextOutcomes == TypeOK /\ ExecutionInv /\ OutcomeInv /\ [Next]_vars => OutcomeInv'
<1> SUFFICES ASSUME TypeOK, ExecutionInv, OutcomeInv, [Next]_vars PROVE OutcomeInv'
  OBVIOUS
<1>1. CASE \/ \E w \in WorkerIds : Age(w)
           \/ RestoreBegins \/ RestoreQuarantines \/ RestoreEnds \/ Acknowledge
  BY <1>1, SameOutcomes DEF Age, RestoreBegins, RestoreQuarantines, RestoreEnds, Acknowledge,
     Egress, rowVars, execVars, sweepVars
<1>2. CASE UNCHANGED vars
  BY <1>2, SameOutcomes DEF vars, rowVars, execVars, sweepVars
<1>3. QED
  BY <1>1, <1>2, JobStepOutcomes, ExecuteOutcomes, SweepOutcomes, ProcessOutcomes DEF Next

\* A client that reads a settled job reads the payload of the way it ended: no
\* sweep, late retry or crash of another process puts one over it
\* (_run_handler_with_context, record_job_outcome_v1).
THEOREM OutcomeIsTheEnd == Spec => []OutcomeMatchesStatus
<1>1. QueueInv => TypeOK /\ ExecutionInv
  BY DEF QueueInv, ExecutionInv
<1>2. OutcomeInv => OutcomeMatchesStatus
  BY DEF OutcomeInv
<1>3. QED
  BY Safety, InitOutcomes, NextOutcomes, <1>1, <1>2, PTL DEF Spec

-----------------------------------------------------------------------------
(* JobQueue implements JobPromise.                                         *)

LEMMA HolderOfRunning ==
    ASSUME SingleExecution, NEW p \in Procs, running[p] \in Jobs
    PROVE  Holder[running[p]] = p /\ Holder[running[p]] # NoWorker
<1>1. running[p] # NoJob /\ p # NoWorker
  BY NoJobIsNoJob, ConstantsAssumption
<1>2. \A q \in Procs : running[q] = running[p] => q = p
  BY <1>1 DEF SingleExecution
<1>3. (CHOOSE q \in Procs : running[q] = running[p]) = p
  BY <1>2
<1>4. QED
  BY <1>1, <1>3 DEF Holder

LEMMA HolderOfNone ==
    ASSUME NEW j \in Jobs, \A p \in Procs : running[p] # j
    PROVE  Holder[j] = NoWorker
BY DEF Holder

\* The holder of a job only depends on the executions of that job.
LEMMA SameHolder ==
    ASSUME SingleExecution, NEW k \in Jobs,
           \A q \in Procs : running'[q] = k <=> running[q] = k
    PROVE  Holder'[k] = Holder[k]
<1>1. CASE \A q \in Procs : running[q] # k
  BY <1>1 DEF Holder
<1>2. CASE \E q \in Procs : running[q] = k
  <2>1. PICK q \in Procs : running[q] = k
    BY <1>2
  <2>2. \A r \in Procs : running[r] = k => r = q
    BY <2>1, NoJobIsNoJob DEF SingleExecution
  <2>3. (CHOOSE r \in Procs : running[r] = k) = q /\ (CHOOSE r \in Procs : running'[r] = k) = q
    BY <2>1, <2>2
  <2>4. QED
    BY <2>1, <2>3 DEF Holder
<1>3. QED
  BY <1>1, <1>2

LEMMA HolderMap ==
    ASSUME NEW j \in Jobs, NEW h, Holder'[j] = h, \A k \in Jobs \ {j} : Holder'[k] = Holder[k]
    PROVE  Holder' = [Holder EXCEPT ![j] = h]
<1>1. Holder = [k \in Jobs |-> Holder[k]] /\ Holder' = [k \in Jobs |-> Holder'[k]]
  BY DEF Holder
<1>2. QED
  BY <1>1

\* Most steps show the clients nothing.
LEMMA SameView ==
    ASSUME UNCHANGED <<status, running>>
    PROVE  [Promise!Next]_(Promise!vars)
<1>1. UNCHANGED <<JarvisState, Holder>>
  BY DEF JarvisState, JarvisStatus, Holder
<1>2. QED
  BY <1>1 DEF Promise!vars

\* A step that changes the status of one job and leaves the executions.
LEMMA StatusView ==
    ASSUME TypeOK, NEW j \in Jobs, NEW s \in Statuses, status' = [status EXCEPT ![j] = s],
           UNCHANGED running,
           NEW v, v = CASE s = "todo" -> "queued"
                        [] s = "doing" -> "running"
                        [] s = "aborted" -> "cancelled"
                        [] OTHER -> s
    PROVE  Promise!Become(j, v, Holder[j])
<1>1. JarvisState' = [JarvisState EXCEPT ![j] = v]
  <2>1. status'[j] = s /\ \A k \in Jobs \ {j} : status'[k] = status[k]
    BY DEF TypeOK, RowTypeOK
  <2>2. QED
    BY <2>1 DEF JarvisState, JarvisStatus
<1>2. Holder' = Holder /\ Holder' = [Holder EXCEPT ![j] = Holder[j]]
  BY DEF Holder
<1>3. QED
  BY <1>1, <1>2 DEF Promise!Become

\* A step that ends the execution of a job, with the job's status after it.
LEMMA EndView ==
    ASSUME TypeOK, SingleExecution, NEW p \in Procs, EndExecution(p), NEW j \in Jobs,
           running[p] = j, \A k \in Jobs \ {j} : status'[k] = status[k],
           NEW v, v = JarvisStatus(j)'
    PROVE  Promise!Become(j, v, NoWorker)
<1>1. JarvisState' = [JarvisState EXCEPT ![j] = v]
  <2>1. \A k \in Jobs \ {j} : JarvisStatus(k)' = JarvisStatus(k)
    BY DEF JarvisStatus
  <2>2. QED
    BY <2>1 DEF JarvisState
<1>2. /\ running'[p] = NoJob /\ \A q \in Procs \ {p} : running'[q] = running[q]
      /\ \A q \in Procs \ {p} : running[q] # j
  BY NoJobIsNoJob DEF EndExecution, TypeOK, ExecTypeOK, SingleExecution
<1>3. \A q \in Procs : running'[q] # j
  BY <1>2, NoJobIsNoJob
<1>4. \A k \in Jobs \ {j}, q \in Procs : running'[q] = k <=> running[q] = k
  BY <1>2, NoJobIsNoJob
<1>5. \A k \in Jobs \ {j} : Holder'[k] = Holder[k]
  BY <1>4, SameHolder
<1>6. Holder'[j] = NoWorker
  BY <1>3 DEF Holder
<1>7. Holder' = [Holder EXCEPT ![j] = NoWorker]
  BY <1>5, <1>6, HolderMap
<1>8. QED
  BY <1>1, <1>7 DEF Promise!Become

LEMMA JobStepView ==
    ASSUME TypeOK, ExecutionInv, NEW j \in Jobs, Defer(j) \/ Cancel(j) \/ BecomeDue(j)
    PROVE  [Promise!Next]_(Promise!vars)
<1>1. CASE Defer(j)
  <2>1. Promise!Become(j, "queued", Holder[j])
    BY <1>1, StatusView DEF Defer, execVars
  <2>2. Promise!Submit(j)
    BY <1>1, <2>1 DEF Promise!Submit, Defer, JarvisState, JarvisStatus
  <2>3. QED
    BY <2>2 DEF Promise!Next
<1>2. CASE Cancel(j) /\ status[j] = "todo"
  <2>1. Promise!Become(j, "cancelled", Holder[j])
    BY <1>2, StatusView DEF Cancel, execVars
  <2>2. Promise!Withdraw(j)
    BY <1>2, <2>1 DEF Promise!Withdraw, JarvisState, JarvisStatus
  <2>3. QED
    BY <2>2 DEF Promise!Next
<1>3. CASE (Cancel(j) /\ status[j] # "todo") \/ BecomeDue(j)
  <2>1. UNCHANGED <<status, running>>
    BY <1>3 DEF Cancel, BecomeDue, execVars, TypeOK, RowTypeOK
  <2>2. QED
    BY <2>1, SameView
<1>4. QED
  BY <1>1, <1>2, <1>3

\* A job that is fetched has no holder: it is queued.
LEMMA FetchView ==
    ASSUME TypeOK, ExecutionInv, NEW p \in Procs, Fetch(p)
    PROVE  [Promise!Next]_(Promise!vars)
<1>1. PICK j \in Jobs :
        /\ status[j] = "todo"
        /\ status' = [status EXCEPT ![j] = "doing"]
        /\ running' = [running EXCEPT ![p] = j]
  BY ConstantsAssumption DEF Fetch, Queued
<1>2. running[p] = NoJob /\ \A q \in Procs : running[q] # j
  BY <1>1, NoJobIsNoJob DEF Fetch, ExecutionInv, ExecutionHoldsRow
<1>3. JarvisState' = [JarvisState EXCEPT ![j] = "running"] /\ JarvisState[j] = "queued"
  <2>1. status'[j] = "doing" /\ \A k \in Jobs \ {j} : status'[k] = status[k]
    BY <1>1 DEF TypeOK, RowTypeOK
  <2>2. QED
    BY <1>1, <2>1 DEF JarvisState, JarvisStatus
<1>4. /\ running'[p] = j /\ \A q \in Procs \ {p} : running'[q] = running[q]
  BY <1>1 DEF TypeOK, ExecTypeOK
<1>5. Holder[j] = NoWorker
  BY <1>2, HolderOfNone
<1>6. Holder'[j] = p
  <2>1. \A q \in Procs : running'[q] = j => q = p
    BY <1>2, <1>4
  <2>2. (CHOOSE q \in Procs : running'[q] = j) = p
    BY <1>4, <2>1
  <2>3. QED
    BY <1>4, <2>2 DEF Holder
<1>7. \A k \in Jobs \ {j} : Holder'[k] = Holder[k]
  <2>1. SUFFICES ASSUME NEW k \in Jobs \ {j} PROVE Holder'[k] = Holder[k]
    OBVIOUS
  <2>2. \A q \in Procs : running'[q] = k <=> running[q] = k
    BY <1>2, <1>4, <2>1, NoJobIsNoJob
  <2>3. QED
    BY <2>1, <2>2, SameHolder DEF ExecutionInv
<1>8. Holder' = [Holder EXCEPT ![j] = p]
  BY <1>6, <1>7, HolderMap
<1>9. Promise!Take(j, p)
  BY <1>3, <1>5, <1>8 DEF Promise!Take, Promise!Become
<1>10. QED
  BY <1>9 DEF Promise!Next

\* The worker finishes the row, hands it back, or finds it settled already.
LEMMA PersistView ==
    ASSUME TypeOK, ExecutionInv, NEW p \in Procs, Persist(p)
    PROVE  [Promise!Next]_(Promise!vars)
<1>1. PICK j \in Jobs : j = running[p]
  BY DEF Persist, TypeOK, ExecTypeOK, ExecutionInv, ExecutionsWellFormed
<1>2. EndExecution(p) /\ SingleExecution
  BY DEF Persist, ExecutionInv
<1>3. \A k \in Jobs \ {j} : status'[k] = status[k]
  BY <1>1 DEF Persist, FinishJob, RetryJob, rowVars, TypeOK, RowTypeOK
<1>4. Promise!Become(j, JarvisStatus(j)', NoWorker)
  BY <1>1, <1>2, <1>3, EndView
<1>5. Holder[j] # NoWorker
  BY <1>1, <1>2, HolderOfRunning
<1>6. status[j] \in {"doing", "failed"}
  BY <1>1, NoJobIsNoJob DEF ExecutionInv, ExecutionHoldsRow
<1>7. \/ status'[j] = status[j]
      \/ status[j] = "doing" /\ status'[j] \in EndPcs
      \/ status'[j] = "todo"
  BY <1>1, <1>6 DEF Persist, Finishable, FinishJob, RetryJob, rowVars, TypeOK, RowTypeOK
<1>8. CASE status'[j] = status[j]
  <2>1. JarvisStatus(j)' = JarvisState[j]
    BY <1>8 DEF JarvisState, JarvisStatus
  <2>2. Promise!Drop(j)
    BY <1>4, <1>5, <2>1 DEF Promise!Drop
  <2>3. QED
    BY <2>2 DEF Promise!Next
<1>9. CASE status[j] = "doing" /\ status'[j] \in EndPcs
  <2>1. JarvisStatus(j)' \in {"succeeded", "failed", "cancelled"} /\ JarvisState[j] = "running"
    BY <1>9 DEF JarvisState, JarvisStatus
  <2>2. Promise!Settle(j)
    BY <1>4, <1>5, <2>1 DEF Promise!Settle
  <2>3. QED
    BY <2>2 DEF Promise!Next
<1>10. CASE status'[j] = "todo"
  <2>1. JarvisStatus(j)' = "queued" /\ JarvisState[j] \in {"running", "failed"}
    BY <1>6, <1>10 DEF JarvisState, JarvisStatus
  <2>2. Promise!HandBack(j)
    BY <1>4, <1>5, <2>1 DEF Promise!HandBack
  <2>3. QED
    BY <2>2 DEF Promise!Next
<1>11. QED
  BY <1>7, <1>8, <1>9, <1>10

LEMMA SweepView ==
    ASSUME TypeOK, NEW p \in Procs, Sweep(p)
    PROVE  [Promise!Next]_(Promise!vars)
<1>1. CASE UNCHANGED <<status, running>>
  BY <1>1, SameView
<1>2. ASSUME NEW j \in Jobs, Finishable(j), FinishJob(j, "failed"), UNCHANGED running
      PROVE  [Promise!Next]_(Promise!vars)
  <2>1. Promise!Become(j, "failed", Holder[j])
    BY <1>2, StatusView DEF FinishJob
  <2>2. JarvisState[j] \in {"queued", "running"}
    BY <1>2 DEF Finishable, JarvisState, JarvisStatus
  <2>3. Promise!Expire(j)
    BY <2>1, <2>2 DEF Promise!Expire
  <2>4. QED
    BY <2>3 DEF Promise!Next
<1>3. QED
  BY <1>1, <1>2 DEF Sweep, SweepRead, SweepFail, SweepRecord, rowVars, execVars

\* A crash drops the job that is executed.
LEMMA CrashView ==
    ASSUME TypeOK, ExecutionInv, NEW p \in Procs, Crash(p)
    PROVE  [Promise!Next]_(Promise!vars)
<1>1. EndExecution(p) /\ UNCHANGED status /\ SingleExecution
  BY DEF Crash, rowVars, ExecutionInv
<1>2. CASE running[p] = NoJob
  BY <1>1, <1>2, SameView DEF EndExecution, TypeOK, ExecTypeOK
<1>3. CASE running[p] # NoJob
  <2>1. PICK j \in Jobs : j = running[p]
    BY <1>3 DEF TypeOK, ExecTypeOK
  <2>2. Promise!Become(j, JarvisStatus(j)', NoWorker)
    BY <1>1, <2>1, EndView
  <2>3. JarvisStatus(j)' = JarvisState[j]
    BY <1>1 DEF JarvisState, JarvisStatus
  <2>4. Promise!Drop(j)
    BY <1>1, <2>1, <2>2, <2>3, HolderOfRunning DEF Promise!Drop
  <2>5. QED
    BY <2>4 DEF Promise!Next
<1>4. QED
  BY <1>2, <1>3

LEMMA PromiseStep == TypeOK /\ ExecutionInv /\ [Next]_vars => [Promise!Next]_(Promise!vars)
<1> SUFFICES ASSUME TypeOK, ExecutionInv, [Next]_vars PROVE [Promise!Next]_(Promise!vars)
  OBVIOUS
<1>1. CASE UNCHANGED <<status, running>>
  BY <1>1, SameView
<1>2. ASSUME NEW p \in Procs, Execute(p) PROVE [Promise!Next]_(Promise!vars)
  BY <1>1, <1>2, FetchView, PersistView DEF Execute, Gate, RunHandler, AbortHandler, Goto, rowVars
<1>3. ASSUME NEW p \in Procs, Heartbeat(p) \/ Prune(p) \/ Boot(p) \/ StartLoop(p) \/ Pause(p)
      PROVE  UNCHANGED <<status, running>>
  BY <1>3 DEF Heartbeat, Prune, Boot, StartLoop, Pause, rowVars, execVars
<1>4. ASSUME \/ \E w \in WorkerIds : Age(w)
             \/ RestoreBegins \/ RestoreQuarantines \/ RestoreEnds \/ Acknowledge
             \/ UNCHANGED vars
      PROVE  UNCHANGED <<status, running>>
  BY <1>4 DEF Age, RestoreBegins, RestoreQuarantines, RestoreEnds, Acknowledge, Egress, vars,
              rowVars, execVars
<1>5. QED
  BY <1>1, <1>2, <1>3, <1>4, JobStepView, SweepView, CrashView DEF Next

\* Through all sweeps, prunes, crashes and late retries, what clients observe is
\* a job held by one process at a time that only its holder hands back.
THEOREM PromiseKept == Spec => KeepsPromise
<1>1. Init => Promise!Init
  BY NoJobIsNoJob DEF Init, Promise!Init, JarvisState, JarvisStatus, Holder
<1>2. QueueInv => TypeOK /\ ExecutionInv
  BY DEF QueueInv, ExecutionInv
<1>3. QED
  BY <1>1, <1>2, PromiseStep, Safety, PTL DEF Spec, KeepsPromise, Promise!Spec
=============================================================================
