------------------------------ MODULE JobQueue ------------------------------
(***************************************************************************)
(* The background-job queue: the rows of ops.procrastinate_jobs and        *)
(* ops.job_progress, the service processes whose worker loops execute      *)
(* them, the stalled-job sweep of libs/jarvis_common/app_factory.py, the   *)
(* task wrapper of task_registry.py with its restore/quarantine gate, and  *)
(* the SQL functions of db/init.sql that every status change goes through. *)
(*                                                                         *)
(* A worker row is identified by <<process, incarnation>>: each start of a *)
(* worker loop registers a row of its own.                                 *)
(***************************************************************************)
EXTENDS Naturals, FiniteSets

CONSTANTS
    NJobs,                 \* jobs are 1..NJobs; a smaller id was queued first
    Procs,                 \* service processes
    Serves,                \* the jobs of the queue each process polls and sees
    QuarantineMaxAttempts, \* _QUARANTINE_MAX_ATTEMPTS
    MaxIncarnations,       \* bound: boots and resumes per process
    NoWorker               \* worker_id IS NULL

Jobs == 1..NJobs
NoJob == 0
WorkerIds == Procs \X (1..MaxIncarnations)

ASSUME ConstantsAssumption ==
    /\ NJobs \in Nat
    /\ Serves \in [Procs -> SUBSET Jobs]
    /\ QuarantineMaxAttempts \in Nat
    /\ MaxIncarnations \in Nat
    /\ NoWorker \notin WorkerIds \cup Procs

VARIABLES
    \* the rows of procrastinate_jobs
    status,          \* "absent" before the INSERT
    attempts,        \* saturates at QuarantineMaxAttempts, the only bound read
    abort_requested,
    worker_id,
    due,             \* scheduled_at IS NULL OR scheduled_at <= now()
    \* the result/error columns of job_progress
    outcome,
    \* the processes and the rows of procrastinate_workers
    phase,           \* "down", "boot" (reclaiming), "run", "paused"
    incarnation,     \* worker loops started so far, the booting one included
    heartbeat,       \* "none" (no row), "fresh", "stale"
    \* the one execution a worker loop runs at a time
    running, pc,
    seen_attempts,   \* context.job.attempts: the row as fetched
    \* _reclaim_stalled_jobs of each process
    stalled,         \* jobs returned by get_stalled_jobs, not yet visited
    reclaiming,      \* the job failed by the sweep, outcome still to be written
    \* the sentinel files
    maintenance, quarantine,
    \* history, for the properties only
    reclaimed,       \* the sweep failed this job at least once
    lost             \* the latest outcome write of this job did not reach the table

rowVars == <<status, attempts, abort_requested, worker_id, due>>
procVars == <<phase, incarnation, heartbeat>>
execVars == <<running, pc, seen_attempts>>
sweepVars == <<stalled, reclaiming>>
egressVars == <<maintenance, quarantine>>
outcomeVars == <<outcome, lost>>
vars == <<rowVars, procVars, execVars, sweepVars, egressVars, outcomeVars, reclaimed>>

Terminal == {"succeeded", "failed", "cancelled", "aborted"}
Statuses == {"absent", "todo", "doing"} \cup Terminal
Outcomes == {"none", "result", "error", "gave_up", "interrupted"}
EndPcs == {"succeeded", "failed", "aborted"}
Pcs == {"idle", "gate", "handler", "retry"} \cup EndPcs

RowTypeOK ==
    /\ status \in [Jobs -> Statuses]
    /\ attempts \in [Jobs -> 0..QuarantineMaxAttempts]
    /\ abort_requested \in [Jobs -> BOOLEAN]
    /\ worker_id \in [Jobs -> WorkerIds \cup {NoWorker}]
    /\ due \in [Jobs -> BOOLEAN]

OutcomeTypeOK ==
    /\ outcome \in [Jobs -> Outcomes]
    /\ lost \in [Jobs -> BOOLEAN]

ProcTypeOK ==
    /\ phase \in [Procs -> {"down", "boot", "run", "paused"}]
    /\ incarnation \in [Procs -> 0..MaxIncarnations]
    /\ heartbeat \in [WorkerIds -> {"none", "fresh", "stale"}]
    /\ \A p \in Procs : phase[p] # "down" => incarnation[p] # 0

ExecTypeOK ==
    /\ running \in [Procs -> Jobs \cup {NoJob}]
    /\ pc \in [Procs -> Pcs]
    /\ seen_attempts \in [Procs -> 0..QuarantineMaxAttempts]

SweepTypeOK ==
    /\ stalled \in [Procs -> SUBSET Jobs]
    /\ reclaiming \in [Procs -> Jobs \cup {NoJob}]
    /\ reclaimed \in [Jobs -> BOOLEAN]

EgressTypeOK ==
    /\ maintenance \in BOOLEAN
    /\ quarantine \in BOOLEAN

\* Every variable holds a value of the column, set or flag it stands for.
TypeOK ==
    /\ RowTypeOK
    /\ OutcomeTypeOK
    /\ ProcTypeOK
    /\ ExecTypeOK
    /\ SweepTypeOK
    /\ EgressTypeOK

Init ==
    /\ status = [j \in Jobs |-> "absent"]
    /\ attempts = [j \in Jobs |-> 0]
    /\ abort_requested = [j \in Jobs |-> FALSE]
    /\ worker_id = [j \in Jobs |-> NoWorker]
    /\ due = [j \in Jobs |-> TRUE]
    /\ outcome = [j \in Jobs |-> "none"]
    /\ phase = [p \in Procs |-> "down"]
    /\ incarnation = [p \in Procs |-> 0]
    /\ heartbeat = [w \in WorkerIds |-> "none"]
    /\ running = [p \in Procs |-> NoJob]
    /\ pc = [p \in Procs |-> "idle"]
    /\ seen_attempts = [p \in Procs |-> 0]
    /\ stalled = [p \in Procs |-> {}]
    /\ reclaiming = [p \in Procs |-> NoJob]
    /\ maintenance = FALSE
    /\ quarantine = FALSE
    /\ reclaimed = [j \in Jobs |-> FALSE]
    /\ lost = [j \in Jobs |-> FALSE]

-----------------------------------------------------------------------------
(* The SQL functions.                                                      *)

Bump(n) == IF n >= QuarantineMaxAttempts THEN n ELSE n + 1

\* procrastinate_defer_jobs_v1: one INSERT, the columns take their defaults.
Defer(j) ==
    /\ status[j] = "absent"
    /\ status' = [status EXCEPT ![j] = "todo"]
    /\ attempts' = [attempts EXCEPT ![j] = 0]
    /\ abort_requested' = [abort_requested EXCEPT ![j] = FALSE]
    /\ UNCHANGED <<worker_id, due, outcomeVars, procVars, execVars, sweepVars,
                   egressVars, reclaimed>>

\* jarvis_job_cancel_v1: a queued job is cancelled outright, a running one is
\* only flagged.
Cancel(j) ==
    /\ status[j] \in {"todo", "doing"}
    /\ abort_requested' = [abort_requested EXCEPT ![j] = TRUE]
    /\ status' = [status EXCEPT ![j] = IF @ = "todo" THEN "cancelled" ELSE @]
    /\ UNCHANGED <<attempts, worker_id, due, outcomeVars, procVars, execVars,
                   sweepVars, egressVars, reclaimed>>

\* Mutant: the WHERE clause forgets the status.
AlwaysFinishable(j) == status[j] # "absent"

\* What the WHERE clause of finish_job_v1 lets through; otherwise it raises
\* and the row keeps its values.
Finishable(j) == status[j] \in {"todo", "doing"}

\* procrastinate_finish_job_v1 without deletion.
FinishJob(j, end_status) ==
    /\ attempts' = [attempts EXCEPT ![j] = IF status[j] = "doing" THEN Bump(@) ELSE @]
    /\ status' = [status EXCEPT ![j] = end_status]
    /\ abort_requested' = [abort_requested EXCEPT ![j] = FALSE]
    /\ UNCHANGED <<worker_id, due>>

\* The states retry_job_v2 locks and updates; in others it raises as well.
Retriable(j) == status[j] \in {"doing", "failed"}

\* Mutant: the abort request is not looked at.
RetryJobIgnoringAbort(j) ==
    /\ Retriable(j)
    /\ status' = [status EXCEPT ![j] = "todo"]
    /\ attempts' = [attempts EXCEPT ![j] = Bump(@)]
    /\ due' = [due EXCEPT ![j] = FALSE]
    /\ UNCHANGED <<abort_requested, worker_id>>

\* procrastinate_retry_job_v2, the version the pinned procrastinate calls: a
\* running job that was asked to abort is failed, any other running or failed
\* job goes back to the queue.
RetryJob(j) ==
    \/ /\ status[j] = "doing"
       /\ abort_requested[j]
       /\ status' = [status EXCEPT ![j] = "failed"]
       /\ UNCHANGED <<attempts, abort_requested, worker_id, due>>
    \/ /\ \/ status[j] = "doing" /\ ~abort_requested[j]
          \/ status[j] = "failed"
       /\ status' = [status EXCEPT ![j] = "todo"]
       /\ attempts' = [attempts EXCEPT ![j] = Bump(@)]
       /\ due' = [due EXCEPT ![j] = FALSE]
       /\ UNCHANGED <<abort_requested, worker_id>>

\* scheduled_at of a retried job passes.
BecomeDue(j) ==
    /\ ~due[j]
    /\ due' = [due EXCEPT ![j] = TRUE]
    /\ UNCHANGED <<status, attempts, abort_requested, worker_id, outcomeVars,
                   procVars, execVars, sweepVars, egressVars, reclaimed>>

\* Mutant: the upsert keeps the payload that is there, as it keeps progress.
RecordOutcomeOnce(j, payload) ==
    \/ /\ outcome' = [outcome EXCEPT ![j] = IF @ = "none" THEN payload ELSE @]
       /\ lost' = [lost EXCEPT ![j] = FALSE]
    \/ /\ lost' = [lost EXCEPT ![j] = TRUE]
       /\ UNCHANGED outcome

\* record_job_outcome_v1 through record_terminal_outcome: the upsert replaces
\* result and error; a failed write is swallowed.
RecordOutcome(j, payload) ==
    \/ /\ outcome' = [outcome EXCEPT ![j] = payload]
       /\ lost' = [lost EXCEPT ![j] = FALSE]
    \/ /\ lost' = [lost EXCEPT ![j] = TRUE]
       /\ UNCHANGED outcome

-----------------------------------------------------------------------------
(* Worker rows.                                                            *)

CurrentWorker(p) == <<p, incarnation[p]>>

\* DELETE FROM procrastinate_workers, with ON DELETE SET NULL on worker_id.
DeleteWorkers(ws) ==
    /\ heartbeat' = [w \in WorkerIds |-> IF w \in ws THEN "none" ELSE heartbeat[w]]
    /\ worker_id' = [j \in Jobs |-> IF worker_id[j] \in ws THEN NoWorker ELSE worker_id[j]]

\* Time passes without a heartbeat from w: its process is gone, or its event
\* loop or its database connection is stalled. Both thresholds, 30s for Prune
\* and _STALLED_HEARTBEAT_SECONDS for the sweep, are this one step: whichever
\* of the two comes first, the other may come later or never.
Age(w) ==
    /\ heartbeat[w] = "fresh"
    /\ heartbeat' = [heartbeat EXCEPT ![w] = "stale"]
    /\ UNCHANGED <<rowVars, phase, incarnation, execVars, sweepVars, egressVars,
                   outcomeVars, reclaimed>>

\* procrastinate_update_heartbeat_v1 updates the row; a pruned row stays gone.
Heartbeat(p) ==
    /\ phase[p] = "run"
    /\ heartbeat[CurrentWorker(p)] = "stale"
    /\ heartbeat' = [heartbeat EXCEPT ![CurrentWorker(p)] = "fresh"]
    /\ UNCHANGED <<rowVars, phase, incarnation, execVars, sweepVars, egressVars,
                   outcomeVars, reclaimed>>

\* procrastinate_prune_stalled_workers_v1, run by any worker loop.
Prune(p) ==
    LET dead == {w \in WorkerIds : heartbeat[w] = "stale"} IN
    /\ phase[p] = "run"
    /\ dead # {}
    /\ DeleteWorkers(dead)
    /\ UNCHANGED <<status, attempts, abort_requested, due, phase, incarnation,
                   execVars, sweepVars, egressVars, outcomeVars, reclaimed>>

-----------------------------------------------------------------------------
(* Executions.                                                             *)

Queued(p) == {j \in Serves[p] : status[j] = "todo" /\ due[j]}

\* procrastinate_fetch_job_v2: the oldest due job of the queue. The foreign key
\* of worker_id refuses the update to a worker whose row was pruned.
Fetch(p) ==
    /\ phase[p] = "run"
    /\ running[p] = NoJob
    /\ heartbeat[CurrentWorker(p)] # "none"
    /\ \E j \in Queued(p) :
        /\ \A k \in Queued(p) : j <= k
        /\ status' = [status EXCEPT ![j] = "doing"]
        /\ worker_id' = [worker_id EXCEPT ![j] = CurrentWorker(p)]
        /\ running' = [running EXCEPT ![p] = j]
        /\ pc' = [pc EXCEPT ![p] = "gate"]
        /\ seen_attempts' = [seen_attempts EXCEPT ![p] = attempts[j]]
    /\ UNCHANGED <<attempts, abort_requested, due, outcomeVars, procVars,
                   sweepVars, egressVars, reclaimed>>

Goto(p, next) ==
    /\ pc' = [pc EXCEPT ![p] = next]
    /\ UNCHANGED <<running, seen_attempts>>

\* Mutant: quarantined attempts are not bounded.
GateUnbounded(p) ==
    /\ pc[p] = "gate"
    /\ Goto(p, IF maintenance \/ quarantine THEN "retry" ELSE "handler")
    /\ UNCHANGED <<rowVars, outcomeVars, procVars, sweepVars, egressVars, reclaimed>>

\* _task_wrapper: restore maintenance is tested before quarantine.
Gate(p) ==
    /\ pc[p] = "gate"
    /\ \/ /\ maintenance
          /\ Goto(p, "retry")
          /\ UNCHANGED outcomeVars
       \/ /\ ~maintenance /\ quarantine
          /\ seen_attempts[p] >= QuarantineMaxAttempts
          /\ RecordOutcome(running[p], "gave_up")
          /\ Goto(p, "failed")
       \/ /\ ~maintenance /\ quarantine
          /\ seen_attempts[p] < QuarantineMaxAttempts
          /\ Goto(p, "retry")
          /\ UNCHANGED outcomeVars
       \/ /\ ~maintenance /\ ~quarantine
          /\ Goto(p, "handler")
          /\ UNCHANGED outcomeVars
    /\ UNCHANGED <<rowVars, procVars, sweepVars, egressVars, reclaimed>>

\* _run_handler_with_context: the handler returns, raises, or raises
\* OutboundEgressBlockedError, which is recorded as an error before the retry.
RunHandler(p) ==
    /\ pc[p] = "handler"
    /\ \/ /\ RecordOutcome(running[p], "result")
          /\ Goto(p, "succeeded")
       \/ /\ RecordOutcome(running[p], "error")
          /\ Goto(p, "failed")
       \/ /\ quarantine
          /\ RecordOutcome(running[p], "error")
          /\ Goto(p, "retry")
    /\ UNCHANGED <<rowVars, procVars, sweepVars, egressVars, reclaimed>>

\* The worker sees abort_requested and cancels the task: CancelledError passes
\* the wrapper without persistence.
AbortHandler(p) ==
    /\ pc[p] = "handler"
    /\ abort_requested[running[p]]
    /\ Goto(p, "aborted")
    /\ UNCHANGED <<rowVars, outcomeVars, procVars, sweepVars, egressVars, reclaimed>>

EndExecution(p) ==
    /\ running' = [running EXCEPT ![p] = NoJob]
    /\ pc' = [pc EXCEPT ![p] = "idle"]
    /\ seen_attempts' = [seen_attempts EXCEPT ![p] = 0]

\* The worker persists the end of the execution. When the row is no longer
\* finishable the SQL raises and only the execution ends.
Persist(p) ==
    /\ \/ /\ pc[p] \in EndPcs
          /\ IF Finishable(running[p]) THEN FinishJob(running[p], pc[p])
                                       ELSE UNCHANGED rowVars
       \/ /\ pc[p] = "retry"
          /\ IF Retriable(running[p]) THEN RetryJob(running[p]) ELSE UNCHANGED rowVars
    /\ EndExecution(p)
    /\ UNCHANGED <<outcomeVars, procVars, sweepVars, egressVars, reclaimed>>

-----------------------------------------------------------------------------
(* The stalled-job sweep, at boot, on resume and every 150 seconds.        *)

\* Mutant: a job whose worker row was pruned is not looked for.
StalledUnlessPruned(p) ==
    {j \in Serves[p] :
        /\ status[j] = "doing"
        /\ worker_id[j] # NoWorker
        /\ heartbeat[worker_id[j]] = "stale"}

\* get_stalled_jobs: running jobs without a worker row, or whose worker has
\* not beaten for _STALLED_HEARTBEAT_SECONDS.
StalledJobs(p) ==
    {j \in Serves[p] :
        /\ status[j] = "doing"
        /\ \/ worker_id[j] = NoWorker
           \/ heartbeat[worker_id[j]] = "stale"}

SweepRead(p) ==
    /\ phase[p] = "run"
    /\ stalled[p] = {} /\ reclaiming[p] = NoJob
    /\ StalledJobs(p) # {}
    /\ stalled' = [stalled EXCEPT ![p] = StalledJobs(p)]
    /\ UNCHANGED <<rowVars, outcomeVars, procVars, execVars, reclaiming, egressVars, reclaimed>>

\* Mutant: the sweep queues the job again instead of failing it.
SweepRequeues(p, j) ==
    /\ j \in stalled[p] /\ reclaiming[p] = NoJob
    /\ stalled' = [stalled EXCEPT ![p] = @ \ {j}]
    /\ RetryJob(j)
    /\ UNCHANGED <<outcomeVars, procVars, execVars, egressVars, reclaiming, reclaimed>>

SweepFail(p, j) ==
    /\ j \in stalled[p] /\ reclaiming[p] = NoJob
    /\ stalled' = [stalled EXCEPT ![p] = @ \ {j}]
    /\ \/ /\ Finishable(j)
          /\ FinishJob(j, "failed")
          /\ reclaiming' = [reclaiming EXCEPT ![p] = j]
          /\ reclaimed' = [reclaimed EXCEPT ![j] = TRUE]
       \/ /\ ~Finishable(j)
          /\ UNCHANGED <<rowVars, reclaiming, reclaimed>>
    /\ UNCHANGED <<outcomeVars, procVars, execVars, egressVars>>

SweepRecord(p) ==
    /\ reclaiming[p] # NoJob
    /\ RecordOutcome(reclaiming[p], "interrupted")
    /\ reclaiming' = [reclaiming EXCEPT ![p] = NoJob]
    /\ UNCHANGED <<rowVars, procVars, execVars, stalled, egressVars, reclaimed>>

\* A cancelled or killed sweep leaves its job failed without the message.
DropSweep(p) ==
    /\ stalled' = [stalled EXCEPT ![p] = {}]
    /\ reclaiming' = [reclaiming EXCEPT ![p] = NoJob]
    /\ lost' = [j \in Jobs |-> IF j = reclaiming[p] THEN TRUE ELSE lost[j]]
    /\ UNCHANGED outcome

-----------------------------------------------------------------------------
(* The life of a process.                                                  *)

\* Mutant: nothing resumes a paused loop.
BootWhenDown(p) ==
    /\ phase[p] = "down"
    /\ incarnation[p] < MaxIncarnations
    /\ phase' = [phase EXCEPT ![p] = "boot"]
    /\ incarnation' = [incarnation EXCEPT ![p] = @ + 1]
    /\ stalled' = [stalled EXCEPT ![p] = StalledJobs(p)]
    /\ UNCHANGED <<rowVars, outcomeVars, heartbeat, execVars, reclaiming, egressVars,
                   reclaimed>>

\* make_procrastinate_worker_hook on a start, _resume_after_maintenance on a
\* resume: reclaim first. A failing get_stalled_jobs returns no job.
Boot(p) ==
    /\ \/ phase[p] = "down"
       \/ phase[p] = "paused" /\ ~maintenance
    /\ incarnation[p] < MaxIncarnations
    /\ phase' = [phase EXCEPT ![p] = "boot"]
    /\ incarnation' = [incarnation EXCEPT ![p] = @ + 1]
    /\ \E found \in {StalledJobs(p), {}} : stalled' = [stalled EXCEPT ![p] = found]
    /\ UNCHANGED <<rowVars, outcomeVars, heartbeat, execVars, reclaiming, egressVars,
                   reclaimed>>

\* ... then the worker loop starts and registers its row.
StartLoop(p) ==
    /\ phase[p] = "boot"
    /\ stalled[p] = {} /\ reclaiming[p] = NoJob
    /\ phase' = [phase EXCEPT ![p] = "run"]
    /\ heartbeat' = [heartbeat EXCEPT ![CurrentWorker(p)] = "fresh"]
    /\ UNCHANGED <<rowVars, outcomeVars, incarnation, execVars, sweepVars, egressVars,
                   reclaimed>>

\* _pause_worker_task: the loop finishes the job it runs and unregisters, and
\* the sweep is cancelled wherever it is.
Pause(p) ==
    /\ maintenance
    /\ phase[p] = "run"
    /\ incarnation[p] < MaxIncarnations
    /\ running[p] = NoJob
    /\ phase' = [phase EXCEPT ![p] = "paused"]
    /\ DeleteWorkers({CurrentWorker(p)})
    /\ DropSweep(p)
    /\ UNCHANGED <<status, attempts, abort_requested, due, incarnation, execVars,
                   egressVars, reclaimed>>

Crash(p) ==
    /\ phase[p] # "down"
    /\ incarnation[p] < MaxIncarnations
    /\ phase' = [phase EXCEPT ![p] = "down"]
    /\ EndExecution(p)
    /\ DropSweep(p)
    /\ UNCHANGED <<rowVars, incarnation, heartbeat, egressVars, reclaimed>>

-----------------------------------------------------------------------------
(* The sentinels, written by the restore script and the owner's review.    *)

Egress(m, q) ==
    /\ maintenance' = m
    /\ quarantine' = q
    /\ UNCHANGED <<rowVars, outcomeVars, procVars, execVars, sweepVars, reclaimed>>

RestoreBegins == ~maintenance /\ Egress(TRUE, quarantine)
RestoreQuarantines == maintenance /\ ~quarantine /\ Egress(TRUE, TRUE)
RestoreEnds == maintenance /\ Egress(FALSE, quarantine)
Acknowledge == ~maintenance /\ quarantine /\ Egress(FALSE, FALSE)

-----------------------------------------------------------------------------
Execute(p) == Fetch(p) \/ Gate(p) \/ RunHandler(p) \/ AbortHandler(p) \/ Persist(p)

Sweep(p) == SweepRead(p) \/ (\E j \in Jobs : SweepFail(p, j)) \/ SweepRecord(p)

Next ==
    \/ \E j \in Jobs : Defer(j) \/ Cancel(j) \/ BecomeDue(j)
    \/ \E w \in WorkerIds : Age(w)
    \/ \E p \in Procs :
        \/ Execute(p) \/ Sweep(p)
        \/ Heartbeat(p) \/ Prune(p)
        \/ Boot(p) \/ StartLoop(p) \/ Pause(p) \/ Crash(p)
    \/ RestoreBegins \/ RestoreQuarantines \/ RestoreEnds \/ Acknowledge

Spec == Init /\ [][Next]_vars
-----------------------------------------------------------------------------
(* What a client sees: jarvis_job_read_v1 projected by                     *)
(* procrastinate_row_to_jarvis_row.                                        *)

JarvisStatus(j) ==
    CASE status[j] = "todo" -> "queued"
      [] status[j] = "doing" -> "running"
      [] status[j] = "aborted" -> "cancelled"
      [] OTHER -> status[j]

-----------------------------------------------------------------------------
(* The abstract queue.                                                     *)

JarvisState == [j \in Jobs |-> JarvisStatus(j)]

Holder ==
    [j \in Jobs |->
        IF \E p \in Procs : running[p] = j
        THEN CHOOSE p \in Procs : running[p] = j
        ELSE NoWorker]

Promise == INSTANCE JobPromise WITH
    state <- JarvisState, holder <- Holder, NoProc <- NoWorker

\* Through all sweeps, prunes, crashes and late retries, what clients observe
\* is a job held by one process at a time that only its holder hands back
\* (the whole of the queue SQL and of the worker life cycle).
KeepsPromise == Promise!Spec

-----------------------------------------------------------------------------
(* Safety.                                                                 *)

\* The table constraint check_not_todo_abort_requested never has to refuse an
\* update: no interleaving of cancel, retry, sweep and finish would write a
\* queued row whose abort was requested (db/init.sql, procrastinate_jobs).
NotTodoAbortRequested == \A j \in Jobs : status[j] = "todo" => ~abort_requested[j]

\* No job is executed by two processes at once, although the sweep may fail a
\* job that is still being executed and a late retry may queue it again
\* (procrastinate_fetch_job_v2, _reclaim_stalled_jobs).
SingleExecution ==
    \A p, q \in Procs : running[p] # NoJob /\ running[p] = running[q] => p = q

\* Only a row that is running, or that the sweep failed under its worker, has
\* an execution: in particular a job cancelled while queued is not running
\* anywhere, and neither is a job that a client reads as queued.
ExecutionHoldsRow ==
    \A p \in Procs : running[p] # NoJob =>
        \/ status[running[p]] = "doing"
        \/ status[running[p]] = "failed" /\ reclaimed[running[p]]

\* A job that was never reclaimed and whose last outcome write reached the
\* table shows the payload of the way it ended: a result when it succeeded, an
\* error when it failed, unless it failed because its retry met an abort
\* request (_run_handler_with_context records before the worker finishes).
OutcomeMatchesStatus ==
    \A j \in Jobs : ~reclaimed[j] /\ ~lost[j] =>
        /\ status[j] = "succeeded" => outcome[j] = "result"
        /\ status[j] = "failed" /\ ~abort_requested[j] => outcome[j] \in {"error", "gave_up"}

\* What keeps the three invariants above from one step to the next: an
\* execution has a program counter and a live worker loop, and a job that
\* failed with its abort request standing has no execution left that could
\* retry it.
ExecutionsWellFormed ==
    \A p \in Procs :
        /\ running[p] = NoJob <=> pc[p] = "idle"
        /\ running[p] # NoJob => phase[p] = "run"

AbortedRetryEnds ==
    \A j \in Jobs : status[j] = "failed" /\ abort_requested[j] =>
        \A p \in Procs : running[p] # j

\* The inductive invariant of JobQueueProofs (every status change of the queue).
QueueInv ==
    /\ TypeOK
    /\ NotTodoAbortRequested
    /\ SingleExecution
    /\ ExecutionHoldsRow
    /\ ExecutionsWellFormed
    /\ AbortedRetryEnds

\* A settled job changes only when the sweep had failed it under a live worker
\* and that very execution then asks for a retry (procrastinate_retry_job_v2
\* accepts failed rows).
RevivedByItsExecution ==
    \A j \in Jobs : status[j] \in Terminal /\ status'[j] # status[j] =>
        /\ status[j] = "failed" /\ reclaimed[j]
        /\ \E p \in Procs : running[p] = j /\ pc[p] = "retry"

SettledOnlyRevivedByItsExecution == [][RevivedByItsExecution]_vars

\* A running job whose abort was requested is never queued again while the
\* request stands, whatever retry its execution asks for (the abort branch of
\* procrastinate_retry_job_v2).
AbortNotRequeued ==
    \A j \in Jobs : status[j] = "doing" /\ abort_requested[j] => status'[j] # "todo"

AbortNeverRequeued == [][AbortNotRequeued]_vars

-----------------------------------------------------------------------------
(* Liveness.                                                               *)

\* asyncio runs every task of a live process, handlers are bounded by their
\* timeouts, compose restarts a stopped container, the sweep is periodic, and
\* the rows of worker loops that are gone grow old. Nothing is assumed of
\* users, of crashes, of the restore script or of pruning.
Fairness ==
    /\ \A p \in Procs :
        /\ WF_vars(Execute(p))
        /\ WF_vars(Sweep(p))
        /\ WF_vars(Boot(p))
        /\ WF_vars(StartLoop(p))
    /\ \A w \in WorkerIds :
        WF_vars(Age(w) /\ (phase[w[1]] # "run" \/ incarnation[w[1]] # w[2]))
    /\ \A j \in Jobs : WF_vars(BecomeDue(j))

FairSpec == Spec /\ Fairness

RestoresEnd == <>[]~maintenance

\* A worker loop whose row was pruned can fetch nothing more until its process
\* restarts: the foreign key refuses its updates.
LoopsRegistered ==
    <>[](\A p \in Procs : phase[p] = "run" => heartbeat[CurrentWorker(p)] # "none")

Orphan(j) == status[j] = "doing" /\ \A p \in Procs : running[p] # j

\* A running job whose process died is not left running forever: when restores
\* come to an end some sweep reclaims it, even though its worker row may first
\* be pruned (_reclaim_stalled_jobs).
OrphansReclaimed == RestoresEnd => \A j \in Jobs : Orphan(j) ~> ~Orphan(j)

\* Every queued job settles, also under a quarantine nobody acknowledges: the
\* retries of _task_wrapper are bounded by _QUARANTINE_MAX_ATTEMPTS.
QueuedJobsSettle ==
    RestoresEnd /\ LoopsRegistered =>
        \A j \in Jobs : status[j] = "todo" ~> status[j] \in Terminal

\* Every worker loop that a restore paused runs again after the last restore
\* (_resume_after_maintenance).
LoopsResume == RestoresEnd => \A p \in Procs : phase[p] = "paused" ~> phase[p] = "run"
=============================================================================
