------------------------ MODULE VisibilityCheckpoint ------------------------
(***************************************************************************)
(* The visibility generation of the vector collection and its              *)
(* reconciliation.                                                         *)
(*                                                                         *)
(* Search only serves points of the current generation.  Whoever makes the *)
(* collection anew rotates the generation, and a background task of each   *)
(* process walks the chunk rows by identifier and brings their points into *)
(* it, under a lease on the exact generation.  The lease is read before a  *)
(* write to Qdrant and may be lost before the write; ordinary jobs write   *)
(* the generation they read when they began.  Both hold the paper's lock.  *)
(***************************************************************************)
EXTENDS Naturals, FiniteSets, Functions

CONSTANTS
    Papers,
    Stored,         \* the papers with chunk rows at the start
    Tasks,          \* run_visibility_reconciler, one for each process
    Writers,        \* ordinary jobs
    BatchSize,      \* rows of a scan
    MaxGeneration,  \* bound: rotations
    MaxChunk,       \* bound: chunk rows inserted
    MaxWrites,      \* bound: ordinary jobs started
    MaxFaults       \* bound: leases that expire under a working task, restarts
                    \* of a process and losses of the collection

Nobody == "nobody"
Gone == "gone"   \* a token that no task uses any more

ASSUME CheckpointAssumption ==
    /\ {Nobody, Gone} \cap (Tasks \cup Writers) = {}
    /\ Tasks \cap Writers = {} /\ Stored \subseteq Papers
    /\ {BatchSize, MaxGeneration} \subseteq Nat \ {0}
    /\ {MaxChunk, MaxWrites, MaxFaults} \subseteq Nat

ASSUME StoredAssumption == IsFiniteSet(Stored) /\ Cardinality(Stored) <= MaxChunk

VARIABLES
    generation, status, last,  \* the checkpoint of user_config
    holder, expired,           \* worker_lease_token and lease_expires_at
    collection,                \* whether Qdrant has the collection
    point,                     \* the generation of a paper's points, 0 for none
    row,                       \* the identifier of a paper's chunk row, 0 for none
    inserted,
    lock,                      \* the paper mutation locks
    task, writer,
    missed,                    \* papers that a job of an earlier generation wrote
                               \* last, behind the reconciler (history)
    intact,                    \* no loss of points since the rotation (history)
    writes, faults

checkpointVars == <<generation, status, last, holder, expired>>
qdrantVars == <<collection, point, intact>>
rowVars == <<row, inserted, missed>>
budgets == <<writes, faults>>
vars == <<checkpointVars, qdrantVars, rowVars, lock, task, writer, budgets>>

Actors == Tasks \cup Writers
Generations == 1..MaxGeneration
Chunks == 0..MaxChunk
TaskPcs == {"down", "made", "load", "claim", "scan", "paper", "probe", "remade", "write",
            "advance", "complete", "done"}
WriterPcs == {"idle", "wait", "probe", "remade", "store", "commit"}
Down == [pc |-> "down", gen |-> 0, last |-> 0, todo |-> {}, end |-> 0]
Idle == [pc |-> "idle", paper |-> Nobody, gen |-> 0, early |-> FALSE]

\* The attempt of a reconciler: its generation, its progress, and of its batch the
\* rows <<identifier, paper>> that are left and the last identifier.
TaskStates == [pc : TaskPcs, gen : 0..MaxGeneration, last : Chunks,
               todo : SUBSET (Chunks \X Papers), end : Chunks]
WriterStates == [pc : WriterPcs, paper : Papers \cup {Nobody},
                 gen : 0..MaxGeneration, early : BOOLEAN]

TypeOK ==
    /\ generation \in Generations /\ status \in {"pending", "complete"}
    /\ last \in Chunks
    /\ holder \in Tasks \cup {Nobody, Gone} /\ expired \in BOOLEAN
    /\ collection \in BOOLEAN
    /\ point \in [Papers -> 0..MaxGeneration]
    /\ row \in [Papers -> Chunks] /\ inserted \in Chunks
    /\ lock \in [Papers -> Actors \cup {Nobody}]
    /\ task \in [Tasks -> TaskStates]
    /\ writer \in [Writers -> WriterStates]
    /\ missed \subseteq Papers /\ intact \in BOOLEAN
    /\ writes \in 0..MaxWrites /\ faults \in 0..MaxFaults

\* A database that is restored without its collection: the process that made
\* the collection rotated the checkpoint.
Init ==
    /\ generation = 1 /\ status = "pending" /\ last = 0
    /\ holder = Nobody /\ expired = FALSE
    /\ collection = TRUE /\ intact = TRUE
    /\ point = [p \in Papers |-> 0]
    /\ inserted = Cardinality(Stored)
    /\ \E id \in Injection(Stored, 1..inserted) :
           row = [p \in Papers |-> IF p \in Stored THEN id[p] ELSE 0]
    /\ lock = [p \in Papers |-> Nobody]
    /\ task = [t \in Tasks |-> [Down EXCEPT !.pc = "load"]]
    /\ writer = [w \in Writers |-> Idle]
    /\ missed = {}
    /\ writes = 0 /\ faults = 0

-----------------------------------------------------------------------------
(* The checkpoint *)

\* Mutant: the progress of the earlier generation is kept.
RotateKeepingProgress ==
    /\ generation < MaxGeneration
    /\ generation' = generation + 1
    /\ status' = "pending"
    /\ holder' = Nobody /\ expired' = FALSE
    /\ intact' = TRUE /\ missed' = {}
    /\ UNCHANGED last

\* rotate_visibility_checkpoint_v1
Rotate ==
    /\ generation < MaxGeneration
    /\ generation' = generation + 1
    /\ status' = "pending" /\ last' = 0
    /\ holder' = Nobody /\ expired' = FALSE
    /\ intact' = TRUE /\ missed' = {}

\* visibility_lease_is_current, and the WHERE of advance and complete
Current(t) ==
    generation = task[t].gen /\ status = "pending" /\ holder = t /\ ~expired

\* Mutant: an expired lease is not taken over.
ClaimableIfFree(t) ==
    generation = task[t].gen /\ status = "pending" /\ holder = Nobody

\* claim_visibility_lease_v1, for a token nobody used before
Claimable(t) ==
    generation = task[t].gen /\ status = "pending" /\ (holder = Nobody \/ expired)

Go(t, pc) == task' = [task EXCEPT ![t].pc = pc]

\* An attempt ends: its token is never used again and its lock is released.
Released(a) == [p \in Papers |-> IF lock[p] = a THEN Nobody ELSE lock[p]]
Abandon(t) == holder' = IF holder = t THEN Gone ELSE holder
EndAttempt(t, pc) ==
    /\ task' = [task EXCEPT ![t] = [Down EXCEPT !.pc = pc]]
    /\ lock' = Released(t)

\* run_visibility_reconciler tries again, after a while.
Retry(t) ==
    /\ EndAttempt(t, "load") /\ Abandon(t)
    /\ UNCHANGED <<generation, status, last, expired>>

-----------------------------------------------------------------------------
(* ensure_collection, at the start of a process *)

Mismatch ==   \* validate_checkpoint_collection_pair
    /\ status = "complete"
    /\ \E p \in Papers : row[p] # 0
    /\ \A p \in Papers : point[p] # generation

Boot(t) ==
    /\ task[t].pc = "down"
    /\ \/ /\ ~collection
          /\ collection' = TRUE /\ Go(t, "made")
          /\ UNCHANGED <<checkpointVars, point, intact, missed>>
       \/ /\ collection /\ Mismatch
          /\ Rotate /\ Go(t, "load")
          /\ UNCHANGED <<collection, point>>
       \/ /\ collection /\ ~Mismatch
          /\ Go(t, "load")
          /\ UNCHANGED <<checkpointVars, qdrantVars, missed>>
    /\ UNCHANGED <<row, inserted, lock, writer, budgets>>

\* The rotation comes after the collection was made.
RotateMade(t) ==
    /\ task[t].pc \in {"made", "remade"}
    /\ Rotate
    /\ Go(t, IF task[t].pc = "made" THEN "load" ELSE "probe")
    /\ UNCHANGED <<collection, point, row, inserted, lock, writer, budgets>>

-----------------------------------------------------------------------------
(* run_visibility_reconciler and reconcile_visibility_payloads *)

unseen == <<qdrantVars, rowVars, writer, budgets>>

Load(t) ==
    /\ task[t].pc = "load"
    /\ IF status = "complete" THEN Go(t, "done")
       ELSE task' = [task EXCEPT ![t] = [Down EXCEPT !.pc = "claim", !.gen = generation,
                                                     !.last = last]]
    /\ UNCHANGED <<checkpointVars, lock, unseen>>

Claim(t) ==
    /\ task[t].pc = "claim"
    /\ IF Claimable(t)
       THEN /\ holder' = t /\ expired' = FALSE
            /\ Go(t, "scan")
            /\ UNCHANGED <<generation, status, last, lock>>
       ELSE Retry(t)
    /\ UNCHANGED unseen

\* The rows after the task's own progress, and the first of them.
Ahead(t) == {<<row[p], p>> : p \in {q \in Papers : row[q] > task[t].last}}
Batches(t) ==
    {rows \in SUBSET Ahead(t) :
        /\ Cardinality(rows) = BatchSize \/ (Cardinality(rows) < BatchSize /\ rows = Ahead(t))
        /\ \A e \in rows, f \in Ahead(t) \ rows : e[1] < f[1]}

Scan(t) ==
    /\ task[t].pc = "scan"
    /\ IF ~Current(t) THEN Retry(t)
       ELSE /\ UNCHANGED <<checkpointVars, lock>>
            /\ \/ Ahead(t) = {} /\ Go(t, "complete")
               \/ \E rows \in Batches(t) : \E e \in rows :
                      /\ \A f \in rows : f[1] <= e[1]
                      /\ task' = [task EXCEPT ![t].todo = rows, ![t].end = e[1],
                                              ![t].pc = "paper"]
    /\ UNCHANGED unseen

\* The paper whose turn it is, by the identifiers the scan read.
First(rows) == CHOOSE e \in rows : \A f \in rows : e[1] <= f[1]
Paper(t) == First(task[t].todo)[2]

\* Mutant: the lock of the paper is not waited for.
TakeAnyway(t) ==
    /\ task[t].pc = "paper"
    /\ Go(t, "probe")
    /\ UNCHANGED <<checkpointVars, lock, unseen>>

\* The paper's lock, for which a task waits ten minutes at most.
Take(t) ==
    /\ task[t].pc = "paper"
    /\ IF lock[Paper(t)] = Nobody
       THEN /\ lock' = [lock EXCEPT ![Paper(t)] = t]
            /\ Go(t, "probe")
            /\ UNCHANGED checkpointVars
       ELSE Retry(t)
    /\ UNCHANGED unseen

EndPaper(t) ==
    /\ lock' = Released(t)
    /\ LET rest == task[t].todo \ {First(task[t].todo)}
       IN task' = [task EXCEPT ![t].todo = rest,
                               ![t].pc = IF rest = {} THEN "advance" ELSE "paper"]

\* The probe of the points, and _require_current_worker_lease before a repair.
\* A missing collection is made again by whoever misses it.
Probe(t) ==
    /\ task[t].pc = "probe"
    /\ LET p == Paper(t) IN
       \/ /\ row[p] = 0 \/ (collection /\ point[p] = task[t].gen)
          /\ EndPaper(t) /\ UNCHANGED <<checkpointVars, collection>>
       \/ /\ row[p] # 0 /\ ~collection
          /\ collection' = TRUE
          /\ Go(t, "remade") /\ UNCHANGED <<checkpointVars, lock>>
       \/ /\ row[p] # 0 /\ collection /\ point[p] # task[t].gen
          /\ IF Current(t) THEN Go(t, "write") /\ UNCHANGED <<checkpointVars, lock>>
             ELSE Retry(t)
          /\ UNCHANGED collection
    /\ UNCHANGED <<point, intact, rowVars, writer, budgets>>

\* set_payload or embed_and_store, whatever happened to the lease since.
Write(t) ==
    /\ task[t].pc = "write"
    /\ IF collection
       THEN /\ point' = [point EXCEPT ![Paper(t)] = task[t].gen]
            /\ missed' = missed \ {Paper(t)}
            /\ EndPaper(t)
            /\ UNCHANGED checkpointVars
       ELSE Retry(t) /\ UNCHANGED <<point, missed>>
    /\ UNCHANGED <<collection, intact, row, inserted, writer, budgets>>

\* Mutant: the checkpoint takes the identifier after the batch.
AdvancePast(t) ==
    /\ task[t].pc = "advance"
    /\ IF Current(t)
       THEN /\ last' = task[t].end + 1
            /\ task' = [task EXCEPT ![t].last = task[t].end + 1, ![t].pc = "scan"]
            /\ UNCHANGED <<generation, status, holder, expired, lock>>
       ELSE Retry(t)
    /\ UNCHANGED unseen

\* advance_visibility_checkpoint_v1
Greatest(m, n) == IF m < n THEN n ELSE m
Advance(t) ==
    /\ task[t].pc = "advance"
    /\ IF Current(t)
       THEN /\ last' = Greatest(last, task[t].end)
            /\ task' = [task EXCEPT ![t].last = task[t].end, ![t].pc = "scan"]
            /\ UNCHANGED <<generation, status, holder, expired, lock>>
       ELSE Retry(t)
    /\ UNCHANGED unseen

\* complete_visibility_checkpoint_v1
Complete(t) ==
    /\ task[t].pc = "complete"
    /\ IF Current(t)
       THEN /\ status' = "complete"
            /\ holder' = Nobody /\ expired' = FALSE
            /\ EndAttempt(t, "done")
            /\ UNCHANGED <<generation, last>>
       ELSE Retry(t)
    /\ UNCHANGED unseen

Work(t) ==
    \/ Boot(t) \/ RotateMade(t) \/ Load(t) \/ Claim(t) \/ Scan(t) \/ Take(t)
    \/ Probe(t) \/ Write(t) \/ Advance(t) \/ Complete(t)

-----------------------------------------------------------------------------
(* Ordinary jobs: run_process_pdf, and the reconciliation of process_library *)

At(w, pc) == writer' = [writer EXCEPT ![w].pc = pc]
EndWrite(w) ==
    /\ writer' = [writer EXCEPT ![w] = Idle]
    /\ lock' = Released(w)
Start(w, record) ==
    /\ writer[w].pc = "idle" /\ writes < MaxWrites
    /\ writes' = writes + 1
    /\ writer' = [writer EXCEPT ![w] = record]
    /\ UNCHANGED <<checkpointVars, qdrantVars, rowVars, task, faults>>

\* The premise under the lock.  A paper with chunks is reconciled, or written
\* again by force.
StartProcess(w, p) ==
    /\ lock[p] = Nobody
    /\ lock' = [lock EXCEPT ![p] = w]
    /\ \E pc \in IF row[p] = 0 THEN {"store"} ELSE {"probe", "store"} :
           Start(w, [pc |-> pc, paper |-> p, gen |-> generation, early |-> FALSE])

\* An ordinary reconciliation reads the generation before it has the lock.
StartReconcile(w, p) ==
    /\ row[p] # 0
    /\ Start(w, [pc |-> "wait", paper |-> p, gen |-> generation, early |-> TRUE])
    /\ UNCHANGED lock

Wait(w) ==
    /\ writer[w].pc = "wait"
    /\ lock[writer[w].paper] = Nobody
    /\ lock' = [lock EXCEPT ![writer[w].paper] = w]
    /\ At(w, "probe")
    /\ UNCHANGED <<checkpointVars, qdrantVars, rowVars, task, budgets>>

\* _reconcile_paper_embeddings_locked without a lease.
Stamp(w) ==
    /\ writer[w].pc = "probe"
    /\ LET p == writer[w].paper g == writer[w].gen IN
       \/ /\ row[p] = 0
          /\ EndWrite(w) /\ UNCHANGED <<collection, point, missed>>
       \/ /\ row[p] # 0 /\ ~collection
          /\ collection' = TRUE
          /\ At(w, "remade") /\ UNCHANGED <<point, missed, lock>>
       \/ /\ row[p] # 0 /\ collection
          /\ point' = [point EXCEPT ![p] = g]
          /\ missed' = IF writer[w].early /\ g # generation
                       THEN missed \cup {p} ELSE missed \ {p}
          /\ EndWrite(w) /\ UNCHANGED collection
    /\ UNCHANGED <<checkpointVars, intact, row, inserted, task, budgets>>

RotateRemade(w) ==
    /\ writer[w].pc = "remade"
    /\ Rotate
    /\ At(w, "probe")
    /\ UNCHANGED <<collection, point, row, inserted, lock, task, budgets>>

\* embed_and_store; without the collection the upsert fails.
Store(w) ==
    /\ writer[w].pc = "store"
    /\ IF collection
       THEN /\ point' = [point EXCEPT ![writer[w].paper] = writer[w].gen]
            /\ At(w, "commit") /\ UNCHANGED lock
       ELSE EndWrite(w) /\ UNCHANGED point
    /\ UNCHANGED <<checkpointVars, collection, intact, rowVars, task, budgets>>

\* The rows are kept or replaced.  A first row that names an earlier generation
\* may come after the reconciler went past.
CommitRows(w) ==
    /\ writer[w].pc = "commit"
    /\ LET p == writer[w].paper IN
       /\ \/ row[p] # 0 /\ UNCHANGED <<row, inserted>>
          \/ /\ inserted < MaxChunk
             /\ inserted' = inserted + 1
             /\ row' = [row EXCEPT ![p] = inserted + 1]
       /\ missed' = IF row[p] = 0 /\ writer[w].gen # generation
                    THEN missed \cup {p} ELSE missed \ {p}
    /\ EndWrite(w)
    /\ UNCHANGED <<checkpointVars, qdrantVars, task, budgets>>

\* A job fails, is cancelled or gives up waiting.
FailWrite(w) ==
    /\ writer[w].pc \notin {"idle", "remade"}
    /\ EndWrite(w)
    /\ UNCHANGED <<checkpointVars, qdrantVars, rowVars, task, budgets>>

WriterStep(w) ==
    \/ Wait(w) \/ Stamp(w) \/ RotateRemade(w) \/ Store(w)
    \/ CommitRows(w) \/ FailWrite(w)

-----------------------------------------------------------------------------
(* What happens around them *)

\* A promotion or a reclaim removes the chunk rows of a paper.  The commit of a
\* job it overtakes is refused (PaperContent): such a job fails before.
Discard(p) ==
    /\ row[p] # 0
    /\ \A w \in Writers : writer[w].paper = p => writer[w].pc \notin {"store", "commit"}
    /\ row' = [row EXCEPT ![p] = 0]
    /\ missed' = missed \ {p}
    /\ UNCHANGED <<checkpointVars, qdrantVars, inserted, lock, task, writer, budgets>>

Fault == faults < MaxFaults /\ faults' = faults + 1 /\ UNCHANGED writes

\* A lease runs out under a task that is slow, or after its attempt ended.
Expire ==
    /\ holder \in Tasks /\ ~expired
    /\ expired' = TRUE
    /\ Fault
    /\ UNCHANGED <<generation, status, last, holder, qdrantVars, rowVars, lock, task, writer>>

ExpireGone ==
    /\ holder = Gone /\ ~expired
    /\ expired' = TRUE
    /\ UNCHANGED <<generation, status, last, holder, qdrantVars, rowVars, lock, task, writer,
                   budgets>>

\* A process ends anywhere; PostgreSQL releases its locks.
Crash(t) ==
    /\ task[t].pc # "down"
    /\ Fault
    /\ EndAttempt(t, "down") /\ Abandon(t)
    /\ UNCHANGED <<generation, status, last, expired, qdrantVars, rowVars, writer>>

LoseCollection ==
    /\ collection
    /\ Fault
    /\ collection' = FALSE /\ intact' = FALSE
    /\ point' = [p \in Papers |-> 0]
    /\ UNCHANGED <<checkpointVars, rowVars, lock, task, writer>>

Next ==
    \/ \E t \in Tasks : Work(t) \/ Crash(t)
    \/ \E w \in Writers, p \in Papers : StartProcess(w, p) \/ StartReconcile(w, p)
    \/ \E w \in Writers : WriterStep(w)
    \/ \E p \in Papers : Discard(p)
    \/ Expire \/ ExpireGone \/ LoseCollection

Spec == Init /\ [][Next]_vars

\* The event loop runs every task and job; the clock ends an abandoned lease.
FairSpec ==
    /\ Spec
    /\ \A t \in Tasks : WF_vars(Work(t))
    /\ \A w \in Writers : WF_vars(WriterStep(w))
    /\ WF_vars(ExpireGone)

-----------------------------------------------------------------------------
(* Properties *)

Covered(p) == row[p] # 0 => point[p] = generation
Passed(p) == status = "complete" \/ row[p] <= last

(***************************************************************************)
(* Every chunk row the reconciler went past, and every row once it         *)
(* completed, has its points in the current generation: two reconcilers,   *)
(* an expired lease, a rotation in the middle of a batch, a crash or a job *)
(* that holds the paper's lock leave no paper behind.  The papers a job    *)
(* wrote late with an earlier generation are apart (payload_schema.py:407, *)
(* reconcile_visibility_payloads).                                         *)
(***************************************************************************)
NothingLeftBehind ==
    intact => \A p \in Papers \ missed : Passed(p) => Covered(p)

(***************************************************************************)
(* A reconciler never takes points of the current generation back to an    *)
(* earlier one, though its lease may be revoked between the check and the  *)
(* write (embedding_reconcile.py:153, _require_current_worker_lease).      *)
(***************************************************************************)
RepairIsKept ==
    [][\A t \in Tasks, p \in Papers :
          task[t].pc = "write" /\ task'[t].pc # "write" /\ point[p] = generation
              => point'[p] = generation' \/ ~collection']_vars

(***************************************************************************)
(* A pending generation is completed as long as a reconciler is there: a   *)
(* busy lease, an abandoned lease, a lock held by a job and a missing      *)
(* collection only delay it (payload_schema.py:491,                        *)
(* run_visibility_reconciler).                                             *)
(***************************************************************************)
Reconciling == \E t \in Tasks : task[t].pc # "done"
PendingSettles == status = "pending" /\ Reconciling ~> status = "complete" \/ ~Reconciling
=============================================================================
