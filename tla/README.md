# Verification of JARVIS RD Assistant

TLA+ models of the stateful core of JARVIS RD Assistant: the job queue, the
erasure of accounts, the delivery of settings, the life of papers and their
vectors, and the restore of backups; model-checked with TLC, and in large part
proved with TLAPS. Paths are relative to the repository; `PROJECT.json` maps
every definition to the lines it models.

## The system

JARVIS is a set of cooperating services over one PostgreSQL database: a platform
service (identity, settings, pairing, erasure, the public job API), a research
service (papers, PDFs, embeddings, RAG, Pulse, Zotero), a learning service
(cards, reviews, projects), a Telegram bot and a React frontend. Each schema has
one owner; other services reach it by `SECURITY DEFINER` functions of
`db/init.sql` or by signed HTTP commands. Host scripts back up, restore and
update the installation and stop the services through sentinel files.

### Inventory

| Component | State it keeps | Operations | What is hard | Correct when |
|---|---|---|---|---|
| Job queue (`libs/jarvis_common`: `app_factory`, `task_registry`, `job_context`, `jobs`; queue SQL) | job rows, worker rows, outcome rows | defer, cancel, fetch, run, retry, finish, reclaim, prune, heartbeat | several worker processes, crashes, stalled event loops, sweeps with stale lists, cancel and retry racing | one execution per job; settled jobs stay settled; outcomes fit the status; nothing stays running or queued for ever |
| Maintenance and quarantine (`maintenance.py`) | two sentinel files | begin, quarantine, end, acknowledge | polled by every process, executions already past the gate | work stops, retries within a bound, and resumes |
| Account erasure (platform `services/erasure.py`, `repos/erasure.py`, `erasure_executor.py`) | account, request, acknowledgements | delete, restore, pass, retry, strand, resume, finalize | concurrent passes, restore at the end of the grace, HTTP commands that time out, crashes between steps | a restorable account is intact; phases have receipts; order of erasure; due accounts are erased |
| Configuration delivery (platform `services/config_delivery.py`; research `services/config_write.py`, `litellm_reconciler.py`) | one delivery row per setting, an in-process lock; the roles that wait for LiteLLM | write, deliver, retry, fail; reconcile, report | superseding writes, restart while a command is under way, late commands, a second loop that changes what LiteLLM runs | the latest value is the one in effect, or shown as waiting |
| Identity, sessions, pairing | users, sessions, pairings, challenges | sign in, refresh, revoke, pair | expiry against refresh | revoked sessions are dead |
| Paper shelf (research `routers/papers_lifecycle.py`, `papers_service.py`) | membership, state, private rows of a paper | save, read, annotate, trash, restore, delete for good | checks and writes are separate statements; two requests of one owner | a deletion keeps what it still needs and nothing else |
| Domain outbox and inbox (research `repos/domain_events.py`, learning `domain_commands.py`) | event rows, awaited deletions; Learning's inbox, counters, cards | record, deliver, retry, dead-letter, requeue, purge; apply once | lost answers, late posts, two deliverers, restarts between application and mark | applied once; purged only when acknowledged; nothing undelivered for ever |
| Paper content (research `pdf_processor.py`, `services/pdf_workflow.py`, `embedding_reconcile.py`, `paper_content_reclaim.py`) | file and backup, chunk rows, vector points, two locks | download, process, save partially, reconcile, promote, reclaim, erase | three stores without a transaction, promotions under no lock, files deleted by name and before the commit | stored rows are of the source their run began with and have their vectors; the pointer names its file |
| Vector visibility (research `ingestion/payload_schema.py`; checkpoint SQL) | checkpoint with generation, progress and lease; points | make the collection, rotate, claim, repair, advance, complete | leases that expire under their holder, rotations in mid-batch, jobs with an earlier generation | no paper is left behind a completed generation |
| Model lifecycle | models of the servers and of the roles | pull, assign, delete | external servers | converges |
| Restore (`scripts/restore.sh`, `jarvis-research.sh restore`) | three copies of two databases, data keys, PDF directories, journals, sentinels, status, request | swap, move, replace keys, recover, complete the authority, expire, acknowledge | killed between any two statements, statements that fail one by one, a timeout, a second process that knows nothing | no data lost; only one complete data set is served; the maintenance can be ended |
| Backup, update, key rotation scripts | archives, images, keys | stage, publish, roll back | crash at any line | recoverable |
| Telegram bot, frontend | caches | render, notify | stream reconnects | eventually shows the server's state |

Interactions: services enqueue jobs by SQL and read them through the platform's
job facade; the platform commands the owners over HTTP and stores their
receipts; the scripts stop and release everyone through sentinels; finalizing an
erasure refuses while the account's jobs are active. Reading or deleting a paper
records an event that the research service posts to the learning service;
whoever finds the vector collection missing makes it again and rotates the
generation that the reconcilers of all processes work on.

The hazards of this code, each at its line and with the properties that watch
it, are listed under `hazards` in `PROJECT.json`.

## Modules

| Module | What it is |
|---|---|
| `JobQueue` | the job queue: rows, workers, executions, the stalled-job sweep, sentinels |
| `JobPromise` | what the job API promises: the abstract queue |
| `JobQueueProofs` | theorems about `JobQueue` |
| `MCJobQueue` | instances of `JobQueue` for TLC |
| `Erasure` | the erasure of one account, every database step of a pass |
| `ErasurePromise` | what erasure promises: the abstract saga |
| `ErasureProofs` | theorems about `Erasure` |
| `MCErasure` | instances of `Erasure` for TLC |
| `ConfigDelivery` | the delivery of one setting from Platform to Research |
| `ConfigDeliveryProofs` | theorems about `ConfigDelivery` |
| `MCConfigDelivery` | instances of `ConfigDelivery` for TLC |
| `PaperOutbox` | the outbox of Research and the inbox of Learning, for one account |
| `PaperShelf` | the owner's requests on the papers, over `PaperOutbox` (the composition) |
| `PaperShelfProofs` | theorems about `PaperShelf` and its outbox |
| `PaperContent` | file, chunk rows and vector points of one paper |
| `PaperContentProofs` | theorems about `PaperContent` |
| `VisibilityCheckpoint` | the generation of the vectors, its lease and its reconcilers |
| `VisibilityCheckpointProofs` | theorems about `VisibilityCheckpoint` |
| `RestoreSwap` | the restore of a backup with its recovery and host commands |
| `RestoreSwapProofs` | theorems about `RestoreSwap` |
| `LeastElements` | lemmas: a set of numbers has a least and a greatest element |
| `MCPaperShelf`, `MCPaperContent`, `MCVisibilityCheckpoint`, `MCRestoreSwap` | their instances for TLC |

### JobQueue

One variable per column that decides anything: `status`, `attempts`,
`abort_requested`, `worker_id`, `due` (the `scheduled_at` test) of
`procrastinate_jobs`, `outcome` of `job_progress`, and `heartbeat` of
`procrastinate_workers`, whose rows are named `<<process, incarnation>>` because
each start of a worker loop registers a new one. A process has a `phase` and at
most one execution (`running`, `pc`); its sweep keeps the jobs it read and has
not visited (`stalled`) and the one whose message it still has to write
(`reclaiming`). `reclaimed` and `lost` are history, read by properties only.

* The SQL functions are operators with the `WHERE` clause as guard
  (`Finishable`, `Retriable`) and the assignments as updates. A function that
  raises leaves the row alone; its caller goes on as the Python code does.
* `Fetch`, `Gate`, `RunHandler`, `AbortHandler`, `Persist` are the steps of an
  execution: the wrapper of `task_registry.py` tests the sentinels, the handler
  ends in one of the ways `_run_handler_with_context` distinguishes, records its
  outcome, and the worker persists the status in a step of its own.
* `SweepRead`, `SweepFail`, `SweepRecord` are `_reclaim_stalled_jobs`; `Boot` is
  a start or a resume, with its first sweep; `Pause` and `Crash` end a loop.
* `Age` and `Heartbeat` abstract the two heartbeat thresholds to fresh and
  stale. Pruning and the sweep look at the same step: which of them comes first
  is left open, as in the code, where they are 30 s and
  `_STALLED_HEARTBEAT_SECONDS` of different processes' clocks.
* procrastinate itself is a pinned dependency outside the repository; its worker
  loop, abort polling and persisting of statuses are external definitions.

### Erasure

`account`, `busy` (its jobs) and `restoring` are the account's side; `request`,
`state`, `resume_state`, `attempts`, `waiting` and `acks` the request row with
its acknowledgements; `erased` and `late` what the owners did or may still do.
Each worker (the coordinator's loop, an administrator's call) runs a pass with
the local variables of `process_request`: the request `held`, its `phase`, the
acknowledgements `known`, the loop's `step`, and the state `seen` between the
read and the update of `transition`. Every call of the database or of an owner
is one step, so passes interleave wherever the code awaits. Domain 1 is qdrant,
2 research, 3 learning; phase i is pending on domain i.

`Unanswered` covers a command that fails for the caller: the owner may have run
it, may run it later (`LateCommand`), or never. `CrashPass` ends a pass anywhere.
`executing` is not a state of the model: it exists only inside the transaction
of `finalize_erasure`. The 30 days are the step `GraceElapses`; a restore reads
the clock at `BeginRestore` and acts at `EndRestore`.

### ConfigDelivery

One setting: `desired` is its value in `user_config`; `version`, `state`,
`attempts`, `due` and `scope_changed` are its row of `config_deliveries` with the
versions numbered in the order of the writes. `lock` is the setting's entry of
`_DELIVERY_LOCKS`. A worker is a PUT handler or the reconciler loop; it runs
`deliver` with `pc`, the delivery id it `held` and the record it `sent`.

* `Put` is `persist_value`; `Find`, `Acquire`, `Recheck`, `Answered`/`Unanswered`,
  `Effects`, `Mark`/`Retry` are the awaits of `deliver` in order. `Current` is the
  `WHERE` clause that three statements share. `DatabaseFails` ends a run at any
  statement, uncounted.
* `Execute` is `write_config` with `apply_effects`. The constant `Library` says
  which of two kinds the setting is: a model setting, whose effect is what LiteLLM
  runs with (`effective`), or one that identifies a Zotero library, whose effect
  is that the paper's identifiers (`cache`) are dropped.
* A command may run on for nobody (`late`): after the 310 s of the timeout, or when
  Platform restarts. `PushReads` and `PushStores` are a push of the paper to the
  library, which awaits Zotero in between.
* `Answered` has two outcomes for a model setting. LiteLLM takes the value, or it
  has no database ("No DB Connected"), in which case `write_config` reports
  `pending_restart`, Research answers 200 and `apply_research_config_effects`
  (`Effects`) puts the role into `llm.delivery_pending` (`pending`) before `deliver`
  marks the row applied. This is `write_config` as it is written. At this commit
  `_apply_litellm_runtime_update` cuts everything after "HTTP 500" off the detail
  that `write_config` then searches for "No DB Connected" (`config_write.py:265-271`),
  so that only a test that replaces that function reaches the outcome
  (`tests/contract/test_settings_contract.py:774-784`); with the real function the
  refusal is a failed command, which is `Unanswered`. The properties hold either way.
* `Reconcile`, `ReconcileFails`, `Report` and `ReportLost` are a pass of
  `_litellm_model_reconciler_loop` over one role: it reads the stored value and
  delivers it under `_config_lock`, which a command holds as well, so that both are
  one step; its report to Platform is another step outside the lock. The loop is
  taken to be enabled (`JARVIS_LITELLM_RECONCILER_ENABLED`). Left out are a report
  that arrives after its own call of 10 s has given up, and a LiteLLM that loses its
  models in a restart, both until the next pass; and the two calls to LiteLLM that
  one delivery consists of.
* The validation before a write has no effect and is left out.

### PaperOutbox and PaperShelf

`events` are the rows of `domain_events`, numbered by `created_at`; `awaiting` is
`pending_paper_deletions`; `inbox`, `read` and `cards` are Learning's
`domain_commands`, `daily_log.papers_read` and what it derived from a paper.
`library`, `state` and `before` are the shelf. `details` stands for all other
private rows of a paper and says whether only a deletion retains them.

* A deliverer (the scheduler, whose runs do not overlap, or a request handler)
  runs `deliver_pending_events`: `ReadBatch`, then for each row `Post`, the answer
  (`Answer`, `Timeout`, `Refused`) and `MarkDelivered` or `MarkFailure`, each a
  transaction of its own. `batch` is the set of rows a run has still to deliver,
  taken in the order of `created_at` (`Current`). `late` are posts Learning may still apply after the
  sender gave up; `Abort` is a restart or a database error that ends a run.
* `ApplyCommand` is Learning's transaction with the look-up of its inbox.
* A request of the owner is two steps, as in the endpoints: `Check`
  (`assert_paper_ownership`, `assert_paper_in_states`) and the write, one action
  per endpoint; endpoints that only write a fixed state share `SetState`.
* `AddToLibrary`, `Project` and `EndFocus` are what other parts of the system do to
  the same rows: results of a search, cards, the end of a focus session.

### PaperContent

A URL stands for the document behind it: `file`, `spare` (the backup of a
publication), the chunk rows and the points record which one they hold. A
document has one chunk, so that a partial save is a row that is not complete.
`download` runs `download_and_store_pdf` (`Stage` without a lock, then `SetAside`,
`Place`, `CommitPointer` or `Rollback` under `publishLock`); `job` runs
`run_process_pdf`, `_reconcile_paper_embeddings_locked` or the reclaim under
`paperLock`. `Promote` (`upsert_verified_public_paper`) takes neither and owes a
reclaim, which a restart forgets. `Fail` ends a job before its next effect.

`Erase` and `EraseFails` are `erase_orphaned_user_papers`, which unlinks the files inside
the transaction that deletes the rows, before the commit. A failing unlink or commit
brings the row and its pointer back over files of which some or all are gone; `torn`
remembers that, until a publication makes the two agree again. Both are one step:
the transaction shows nothing of itself before its end, downloads are kept out by the
publication lock, and a crash inside it leaves what `EraseFails` and `Crash` leave.
`MaxFailures` bounds these failures with the others.

### VisibilityCheckpoint

`generation`, `status`, `last`, `holder` and `expired` are the checkpoint of
`user_config` with its lease, whose SQL functions are operators (`Rotate`,
`Current`, `Claimable`). `point` is the generation of a paper's points, `row` the
identifier of its chunk row, by which the scan walks; a batch is the set of rows a
task has still to do (`todo`), taken by identifier (`First`). A task is the
`run_visibility_reconciler` of one process: `Boot` and `RotateMade` are
`ensure_collection`, then load, claim, scan, lock, probe, write, advance, complete.
The lease is tested before the write and may be lost before it is done. A writer
is an ordinary job with the generation it read when it began. Tokens are never
reused: an abandoned lease is held by `Gone` until its time is over. `missed` and
`intact` are history: papers that a job of an earlier generation wrote last, and
whether points were lost since the rotation.

### RestoreSwap

`catalog` has for each database the copy under its own name, under
`_restore_tmp` and under `_pre_restore`; `journal`, `txn`, `main`, `stage`, `old`,
`status`, `authority`, `request` and the sentinels are the files the script
writes. `job` is the one process that runs: `mode` is the mode of the script, or
`host` for `jarvis-research.sh` between two containers.

* Every SQL statement on a catalog is a step (`Statement`) with the condition under
  which PostgreSQL accepts it (`Allowed`), what it does (`Executed`) and what
  follows (`After`): the script ends at a failing `Required` one and ignores the
  others (`|| true`). `Judge` is the verification that decides between going
  forward and reverting.
* `Keyed` are the backups that carry an archive of secrets. A set from off-host is
  refused without one (`Admissible`); a local one, unencrypted or of an old version, is
  admitted and goes from the rotation of the vectors (`Rotate`) straight to the PDF
  files, whatever keys or interrupted key transaction it finds.
* `KeyStep` is the key transaction, `PdfStep` the journalled moves, `ExitStep` the
  EXIT trap, `HostStep` the host command, `--recover` and `--complete-authority`.
  `Start` is the beginning of any process, which reads the destructive sentinel.
* `Timeout` is the heartbeat that abandons a restore, `Expire` the age at which the
  soft sentinel is ignored, `Crash` a kill between any two steps. A statement
  that could have succeeded fails at the price of a fault (`FaultUnless`).

## Runs

| Run | Instance | Shows |
|---|---|---|
| `queue_safety` | 2 replicas of one service, 1 job, 2 incarnations each, attempts bound 1; replica symmetry, outcomes not told apart (`VIEW`) | one execution per job; no settled job revived but by its own execution; no aborted job queued again; the queue implements `JobPromise` |
| `queue_liveness` | 1 process, 1 job, attempts bound 2, fair | orphans reclaimed, queued jobs settle, loops resume; stored outcomes fit how the job ended |
| `erasure_safety` | 2 administrators (whose passes may start whenever the coordinator's may), 1 request, ceiling 2; symmetry | receipts and their origin, and the implementation of `ErasurePromise` |
| `erasure_liveness` | coordinator, 2 requests, ceiling 3, fair | a due account is erased unless a restore in time wins; a restorable one is intact, also from passes of an earlier request |
| `config_safety` | 1 handler, Platform's reconciler, the LiteLLM reconciler, 2 writes, ceiling 2, 1 late command at a time, fair | an applied value is in effect or its role shown as waiting; effects in order; no delivery stays pending; LiteLLM comes to run with the stored value |
| `config_library` | 2 handlers, Platform's reconciler, 3 writes, ceiling 1, 2 late commands at a time, pushes; handler symmetry | a delivered change drops older identifiers |
| `papers` | 1 public paper, scheduler, 1 handler, 1 request at a time and 3 in all, 2 events, ceiling 2, 1 requeue, 1 restart, fair | readings counted once; one active deletion; cards go once per deletion; retained rows go when, and only when, Learning has acknowledged; every event settles |
| `paper_content` | 2 URLs, 2 jobs and 2 downloads at a time, 4 and 2 in all, 2 promotions, 2 failures, 1 restart, 1 loss | rows are stored only while the URL is the one their run began with; rows have their vectors; the pointer names a file of its URL, or none after an erasure that failed; an erased paper leaves no file |
| `content_partial` | as `paper_content`, 3 jobs in all, 1 failure | a partial save is marked complete (finding) |
| `visibility` | 2 papers, 1 with rows, 2 processes, 1 job, batches of 1, 3 generations, 2 faults, fair | no paper is left behind; repaired points stay; a pending generation is completed |
| `restore` | a backup with keys and one without, 2 files, local and off-host requests, 2 faults, fair | no database, key or file is lost; only one complete data set is served; the maintenance can be ended |
| `restore_lift` | 1 backup with keys, otherwise as `restore`, 1 fault | a recovered PDF move lifts the maintenance without authority (finding) |

### Bounds

* `MaxIncarnations = 2`: a loop can end once by a crash or a pause and be
  followed by a second one, which is enough for a stale execution, a pruned row
  and a row left by an earlier loop. The last incarnation cannot end, so that
  the system does not stop at the bound.
* `QuarantineMaxAttempts` is 1 or 2 instead of 120 (`_QUARANTINE_MAX_ATTEMPTS`). The
  column counts on; the model stops there, for the only thing the code asks of it is
  whether it has reached this bound.
* One job suffices where processes compete: jobs interact only through the fetch
  order and the sweep's list, and the theorems hold for any number of them.
* `MaxAttempts` is 2 or 3 in the erasure and 1 or 2 for the delivery of a setting,
  instead of 8, and 2 in the outbox instead of 12. With 1 a failure ends the
  delivery at once, with more it waits first.
* `MaxRequests` of `Erasure` bounds the deletions of the account. Two, in
  `erasure_liveness`, let a pass of the first request meet the second; the theorems
  cover any number of deletions and passes together.
* `MaxWrites` is 2 in `config_safety`: the second version supersedes the first at any
  point of its delivery, its retry or its late execution. One handler and Platform's
  reconciler are two runs of `deliver`, which is what the lock keeps apart; the theorems
  cover any number of both. In `config_library` a third version can be set back to the
  library of the first. `MaxLate` bounds the commands that run for nobody at a time.
* `MaxEvents = 2` with three requests: a reading and a deletion, or a deletion that
  is dead-lettered and repeated. One requeue and one restart combine with each.
  Papers do not interact except through the order of a batch.
* `MaxPromotions = 2`: the source changes under a run and changes back, or a second
  time. Two jobs of four in all put a reclaim between others, and two failures cut two
  of them short; two downloads contend for the name of the file.
* `MaxGeneration = 3`: the first generation is rotated away in the middle of a batch
  and so is the second. `BatchSize = 1` puts a checkpoint between any two papers.
  The two faults may be an expired lease, a restart and a lost collection in any
  combination.
* `MaxFaults = 2` in `RestoreSwap`: a restore fails or is killed at any step, and so
  is the recovery or the retry. Each faulted run can leave a directory behind, so
  that four `Runs` always leave an identifier for the next one. The data at hand have two
  files, the backup with keys one of the same name, the one without keys none: a move
  meets a file of its name, finds none, or is the only one.
* Deadlock is checked except where the system may stop: a completed erasure or a
  restored account; an applied last write; and, in `papers`, `paper_content`,
  `content_partial` and `visibility`, the end of the bounded requests, jobs and
  downloads with everything delivered.

### Fairness

*Queue.* asyncio runs every ready task of a live process and handlers have
timeouts (`Execute`, `Sweep`, `StartLoop`); compose restarts a stopped container
and the watcher resumes a paused loop (`Boot`); rows of loops that are gone grow
old; a scheduled retry becomes due. Users, crashes, restores and pruning are not
fair. `RestoresEnd` is stated in the properties. `QueuedJobsSettle` also assumes
`LoopsRegistered`: a live loop whose row was pruned fetches nothing until its
process restarts, and no code restarts it.

*Erasure.* The coordinator's and the executor's loops poll for ever, time
passes, jobs settle (that is the queue's liveness), an operator resumes a
stranded request, and an owner that is asked again and again answers at last
(strong fairness of `Answered`). Crashes and administrators' own calls cease
some day; a restore need not happen.

*Configuration.* Handlers and the reconciler run on and a retry's time comes.
Restarts and database failures cease some day; commands may fail for ever, which
the ceiling of attempts ends. The LiteLLM reconciler runs on, LiteLLM does not refuse
every pass, and not every report of a pass that delivered is lost (strong fairness of
`Reconcile` and of that report).

*Outbox.* The scheduler's runs go on (its calls to Learning time out after ten
seconds) and a retry's time comes. Nothing is assumed of Learning's answers, of
request handlers or of the operator, so an event settles as a dead letter if need
be, and `RetainedRowsGo` excludes deletions that are dead letters.

*Visibility.* The event loop runs every reconciler and job, and the clock ends a
lease nobody holds any more. Faults are bounded. `PendingSettles` speaks of times
when some reconciler has not ended: a process whose reconciler saw a complete
checkpoint does not look again before it restarts.

*Restore.* A script that is not killed goes on (`Progress`), and an operator whose
service stays closed keeps trying `restore run` and `restore legacy`, each with some
backup: strong fairness, because each is only possible while nothing else runs. Nothing is
assumed of new requests, of acknowledgements or of the expiry of the soft
sentinel. `MaintenanceEnds` excludes `Stranded`, two states no command repairs.

## Proofs

Every safety invariant, every action property and both refinements that the runs
check are also theorems, for all values of the constants that the named assumptions
admit. Each proof has the same form: an inductive invariant, a lemma per action or
group of actions, and the temporal step.

`JobQueueProofs` proves for any number of jobs, processes, restarts and attempts:

* `TypeCorrect`: `Spec => []TypeOK`;
* `Safety`: `Spec => []QueueInv`, the inductive invariant;
* `OneExecutionPerJob`, `ConstraintHolds`: the invariants `SingleExecution` and
  `NotTodoAbortRequested` that follow;
* `SettledStaysSettled`, `AbortEndsTheJob`: the two action properties, from the
  invariant and a lemma that lists how a row leaves a status;
* `OutcomeIsTheEnd`: `OutcomeMatchesStatus`;
* `PromiseKept`: `JobQueue` implements `JobPromise`.

The only assumption is `ConstantsAssumption`, which TLC evaluates in every run; that
`NoWorker` is no process is part of it. `TypeOK` and the inductive invariants of this
and the next two modules are proved and therefore not invariants of a run.
`SingleExecution` is not inductive: a late retry may queue a reclaimed job while
another process could fetch it. What saves it is that an execution always holds
a row that is `doing`, or `failed` by the sweep (`ExecutionHoldsRow`), so that the
retry that re-queues the row is the same step that ends the execution. The CHECK
constraint needs one more part, `AbortedRetryEnds`: when a retry fails a job
whose abort was requested, no execution is left that could retry it and find the
request standing. `ExecutionsWellFormed` ties the program counter to the loop.

A status and an outcome are written by different statements. `OutcomeInv` therefore
says what an execution that has recorded its outcome is going to persist, and
excuses only jobs that the sweep reclaimed or whose recording failed. The holder of
a job in `JobPromise` is the process that executes it. That there is at most one
is `SingleExecution`; the refinement then goes action by action (`FetchView`,
`PersistView`, `SweepView`, `CrashView`): each is a step of the promise for the one
job it touches, or leaves the view of every job as it was (`SameView`).

`ConfigDeliveryProofs` proves for any number of handlers, reconcilers, values,
writes and attempts, from `ConfigAssumption`:

* `TypeCorrect` and `DeliverySafety`: `Spec => [](TypeOK /\ DeliveryInv)`;
* `ChangesClearIdentifiers`: `OldIdentifiersCleared`, with late commands too;
* `AppliedMeansInEffect`, `EffectsComeInOrder`: `AppliedIsInEffect` and
  `EffectsInOrder`, also with late commands, refusals and the LiteLLM reconciler.

What these two excuse is part of their statements. `EffectsInOrder` excuses a command
whose caller had gone before it took effect. `AppliedIsInEffect` excuses the time when
something superseded was the last to act (`overtaken`): a command that LiteLLM took after
a later version, or a report of a pass that takes the mark of a later version away. A
pass of the reconciler ends it, and `ReconcilerConverges` says that one comes.

None of them is inductive: an acknowledgement is right because the run that
sends it has the lock (`LockHeld`), found its version pending under it and sent
what the row says (`RunsKnowTheRow`), so that no other run executed a command or
settled the row since, and what still runs for nobody is not younger (`SentInOrder`).
The reconciler needs no lock of Platform because it delivers what is stored.
`EffectsFollow` and `IdentifiersFollow` carry this to the moment of the acknowledgement,
or of the report.

`ErasureProofs` proves for any number of coordinators, administrators,
deletions and attempts, from `ErasureAssumption`:

* `TypeCorrect` and `ErasureSafety`: `Spec => [](TypeOK /\ ErasureInv)`;
* `RestorableStaysIntact`, `PhasesHaveReceipts`, `ReceiptsAreEarned`: the
  invariants `RestorableIsIntact`, `PhasesProven` and `AcksEarned`;
* `PromiseKept`: `Erasure` implements `ErasurePromise` under the mapping `Life`.

A pass acts on what it read several steps ago. What it read cannot become wrong
because a request leaves its request phase once, at `begin_erasure_destructive_v1`:
before that nothing is touched and a restore may delete it, after that
(`PastBegin`) no restore can, its acknowledgements only grow
(`PassesHoldTheRequest`), and so the phase a pass works in stays proven however
stale it is (`PassesProven`). Numbers of requests are never used twice, so a pass
of a deleted request finds nothing. The proof follows this: a step either
`Proceeds` or `Replaces` a request that was never begun, passes that do not act
keep their part of the invariant in both cases (`BystanderKeeps`), and the pass
that acts re-establishes its own (`ActingKeeps`).

`PaperContentProofs` proves for any number of jobs, downloads, promotions, failures,
restarts and losses, from `ContentAssumption`:

* `TypeCorrect`, with `JobsInv`: a job that has begun holds the lock of the paper, so
  that the steps of one job leave the others idle (`WorkBehaves`);
* `StoredRowsAreCurrent`: `StoredSourceIsCurrent`, which is inductive by itself, for the
  fence of a commit compares under the lock of the row that a promotion writes;
* `PointerNamesItsFile` and `ErasureLeavesNoFile`: `PointerMatchesFile` and
  `ErasedLeavesNoFile` from `PublicationInv`. In the middle of a publication the file is
  neither, so the invariant speaks of the one that is `Kept`: the file, or while the
  publication lock is held the backup, which a rollback puts back. An erasure that
  failed after it unlinked the file (`torn`) leaves none until the next publication, and
  a promotion in between keeps the pointer over it; that the file is then missing and
  not another one is part of the property;
* `StoredRowsHaveVectors`: `RowsHaveVectors` from `VectorsInv`.

`VectorsInv` follows the one job that works. Rows present during a run were there when
it began and have its source (`RunInv`), so that a commit that is refused finds no rows
whose points its upsert replaced. Rows present during a reconciliation are those it
has seen (`ReconcileInv`), so that its verification fails for present rows only when a
promotion made the paper public in between; and then nothing was embedded for a row
in use, since a private paper never had a second content whose points could differ
(`PrivateHasOneContent`). A reclaim past its premise deletes no points of a chunked
paper, because only a holder of the lock marks one (`PointInv`).

`PaperShelfProofs` proves for any number of papers, events, deliverers, requests,
requeues and restarts, from `OutboxAssumption` and `ShelfAssumption`:

* `TypeCorrect`, `CountsOnce` and `IndexHolds`: `TypeOK`, `ReadsCountedOnce` and
  `OneActiveDeletion`;
* `PurgesAreAcknowledged` and `CardsGoOnce`: the action properties
  `PurgedOnlyAcknowledged` and `CardsGoOncePerDeletion`.

The invariant, `ShelfInv`, says that whatever is posted, awaited or still to be applied
is a recorded event (`OnlyRecorded`) and that an answer a deliverer holds is one that
Learning gave after its transaction (`AnsweredIsApplied`); a row is therefore purged
only when the inbox has the deletion, whichever of two deliverers marks it. Two active
deletions of a paper are the same event (`ActiveDeletionsAgree`), which a requeue
keeps because it revives a deletion only where no sibling would be active. What `Current` and `Newest` choose exists by `LeastElements`.

`VisibilityCheckpointProofs` proves for any number of papers, processes, jobs, rotations,
batches and faults, from `CheckpointAssumption` and `StoredAssumption` (the rows present
at the start are finitely many and have identifiers):

* `TypeCorrect`;
* `LeavesNothingBehind` and `KeepsRepairs`: `NothingLeftBehind` and `RepairIsKept`.

The checkpoint alone says too little: several processes scan, and each will advance it
some day. `PassedInv` therefore speaks of the papers that the checkpoint or any attempt
of the current generation is past (`PassedByAny`). What threatens them is a lock holder
with an earlier generation that is about to write. `LateInv` says that nobody is past
the paper of such a holder, for everybody has to wait for its lock. A batch is a set of
rows, so that being past one is not being in it.

`RestoreSwapProofs` proves for any backups, inventories, runs and number of faults, from
the assumptions of `RestoreSwap` (`NoneAssumption`: `None` is not itself a copy, a request
or a transaction):

* `TypeCorrect`, `CompleteCopies`, `CompleteDatabasesServed`, `OneDataSetServed` and
  `CommittedPdfsStay`: `TypeOK`, `CompleteCopyKept`, `ServesCompleteDatabases`,
  `ServesOneDataSet` and `CommittedPdfsKept`.

The invariant is independent of how the process got to its step: for any catalog the
copies in place are complete and one that was renamed away stays until another is in
place (`CatalogInv`); the sentinel is down only over data of one set, and is up at
each step that replaces something (`HoldInv`). A set without keys is whole with whatever
keys there are, so what the sentinel gives way to is `Steady`: all data of one set, and a
key transaction at most beside a set without keys. A journal or a key transaction found
at the start stands only where the earlier stages are complete (`JournalInv`, `TxnInv`),
and a pending authority only after all of them (`AuthorityInv`). A new run has an
identifier no directory carries (`FreshInv`), so that the trap that drops a run's
directories drops nothing that is needed (`StagedInv`).

Only model-checked: the liveness properties (`OrphansReclaimed`, `QueuedJobsSettle`,
`LoopsResume`, `DueIsErased`, the two `PendingSettles`, `ReconcilerConverges`, `EventsSettle`, `RetainedRowsGo`,
`MaintenanceEnds`), because liveness under fairness and `ENABLED` are outside the
prover's reach; and the two findings, which are counterexamples.

## Where the code departs from what it says

Two runs expect a violation, and `findings` in `PROJECT.json` quotes the lines:
`content_partial` (a reconciliation between a partial save and its retry marks the
paper as completely chunked) and `restore_lift` (the recovery of an interrupted PDF
move ends the maintenance without rebuilding grants and migrations).

Four smaller departures are not runs of their own:

* A restore of a set without keys does not look at the key transaction that an earlier,
  interrupted restore left. It lifts the maintenance over whatever keys that one had
  installed, and a later `restore run` or `--recover` installs the rest while the
  application serves, although the comment at `install_restored_data_keys`
  (`restore.sh:857-859`) has `--recover` complete a stranded transaction before
  maintenance can lift.
* The answer `pending_restart` that `docs/contracts/01-settings.md:293` describes is cut
  off before it is recognised (see `ConfigDelivery` above).
* A report of the LiteLLM reconciler names no version, so that it can take the mark of a
  value away that it has not delivered, until its next pass.
* An erasure that fails after it unlinked files brings the rows back without them.

Some properties are stated for less than one would like, because the code does not
give more; each is noted at its hazard:

* `AppliedIsInEffect` and `EffectsInOrder` without what a superseded command or report
  does after its caller has gone; `OldIdentifiersCleared` for identifiers stored before a
  change whose flag is delivered. What goes wrong beyond that is listed as a hazard
  without a property.
* `PointerMatchesFile` and `ErasedLeavesNoFile` for runs without a restart: nothing
  repairs a publication that was cut short between two renames. Under an erasure that
  failed the file may be missing.
* `ServesOneDataSet` says of a set without keys only that its databases and files are
  together.
* `NothingLeftBehind` without the papers that a job of an earlier generation wrote
  after the reconciler had passed them.
* `MaintenanceEnds` without `Stranded`, two states of the host that no command accepts, and
  for an operator who tries both commands.

## Not modelled

* Queue: progress rows and the SSE stream, queueing locks, priorities and periodic
  defers.
* Erasure: several accounts sharing the executor's list; what owners delete, and
  jobs that write into a domain after it was erased.
* Shelf: stars and ratings, the bulk endpoints, the single-user delete, papers
  shared between accounts, the library command.
* Content: uploads and their deduplication, page images, upserts of search results,
  summaries, parsing.
* Restore: authentication of archives, Qdrant's own recovery, two restores at a time
  (the lifecycle lock excludes them). The HTTP gate and the credential rotation of
  the maintenance watcher.
* Pulse, RAG, extraction, source plugins, FSRS: numeric or model-driven data
  processing with hardly any control state. Most of the repository's lines are of
  this kind, or user interface, request validation and SQL without protocol, which
  is why the mapped share of the lines is small.
* The other components with status `not_modelled` in `PROJECT.json`, each with its
  reason there.

## Plan

1. Proofs: an abstract specification of the outbox (a reading or a deletion takes
   effect at most once, and a purge follows its effect) and of the restore (two
   data sets, one of them served), each with `PaperShelf` and `RestoreSwap` proved to
   implement it from the invariants above.
2. `MaintenanceWatcher`: the watcher's step with credential rotation and failing
   migrations, composed with the sentinels; then database errors at `finish_job`
   in `JobQueue`, and the job stream with the frontend's job store.
3. Backup, update and key rotation as modules over the lifecycle lock of
   `RestoreSwap`; papers shared between accounts in `PaperShelf`; jobs that write
   into an erased domain, in `Erasure`.
