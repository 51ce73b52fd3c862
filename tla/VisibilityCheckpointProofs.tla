---------------------- MODULE VisibilityCheckpointProofs ----------------------
(***************************************************************************)
(* What VisibilityCheckpoint guarantees for any papers, processes, jobs,   *)
(* rotations and number of faults: type correctness, that a reconciler     *)
(* leaves no paper behind, and that it never undoes a repair.              *)
(***************************************************************************)
EXTENDS VisibilityCheckpoint, LeastElements, FiniteSetTheorems, TLAPS

USE DEF checkpointVars, qdrantVars, rowVars, budgets, unseen, vars

-----------------------------------------------------------------------------
(* The invariants.                                                         *)

\* Nobody knows of a later generation or of a later row.
GenerationsInv ==
    /\ \A p \in Papers : point[p] <= generation
    /\ \A t \in Tasks : task[t].gen <= generation
    /\ \A w \in Writers : writer[w].gen <= generation

RowsInv ==
    /\ \A p \in Papers : row[p] <= inserted
    /\ last <= inserted
    /\ \A t \in Tasks : task[t].last <= inserted /\ task[t].end <= inserted

\* Whoever reads or writes the points of a paper has its lock.
Holding == {"probe", "remade", "write"}
HoldingJob == {"probe", "remade", "store", "commit"}
LockInv ==
    /\ \A t \in Tasks : /\ task[t].pc \in Holding \cup {"paper"} => task[t].todo # {}
                        /\ task[t].pc = "advance" => task[t].todo = {}
                        /\ task[t].pc \in Holding => lock[Paper(t)] = t
    /\ \A w \in Writers : writer[w].pc \in HoldingJob
           => writer[w].paper \in Papers /\ lock[writer[w].paper] = w

\* What the checkpoint and the attempts of this generation are past.
Batching == Holding \cup {"paper", "advance"}
Past(r, p) ==
    \/ r.pc = "complete"
    \/ row[p] <= r.last
    \/ r.pc \in Batching /\ row[p] <= r.end /\ \A e \in r.todo : e[2] # p
PassedByAny(p) == Passed(p) \/ \E t \in Tasks : task[t].gen = generation /\ Past(task[t], p)

\* Only jobs that read the generation before they have the lock of their paper
\* wait for it, and those do not store.
EarlyInv ==
    \A w \in Writers : /\ writer[w].pc = "wait" => writer[w].early /\ writer[w].paper \in Papers
                       /\ writer[w].pc \in {"store", "commit"} => ~writer[w].early

\* Somebody who holds the lock may write the points of an earlier generation,
\* and the paper will not be recorded as missed.
Late(p) ==
    \/ \E t \in Tasks : task[t].pc = "write" /\ Paper(t) = p /\ task[t].gen # generation
    \/ \E w \in Writers : /\ writer[w].pc \in HoldingJob /\ writer[w].paper = p
                          /\ ~writer[w].early /\ writer[w].gen # generation

\* Nobody is past such a paper: everybody has to wait for the lock.
LateInv == \A p \in Papers : Late(p) /\ row[p] # 0 => ~PassedByAny(p)

\* NothingLeftBehind, for the attempts that are under way as well.
PassedInv == intact => \A p \in Papers \ missed : PassedByAny(p) => Covered(p)

\* What a lock holder knows of the points of its paper.
RepairInv ==
    \A t \in Tasks : task[t].pc = "write" /\ task[t].gen # generation
        => point[Paper(t)] # generation
CommitInv ==
    intact => \A w \in Writers : writer[w].pc = "commit" /\ writer[w].gen = generation
                  => point[writer[w].paper] = generation

ControlInv ==
    /\ GenerationsInv /\ RowsInv /\ LockInv /\ EarlyInv /\ LateInv /\ PassedInv
    /\ RepairInv /\ CommitInv
CheckpointInv == TypeOK /\ ControlInv

USE DEF Holding, HoldingJob, Batching

-----------------------------------------------------------------------------
(* The first row of a batch.                                               *)

LEMMA FirstIsRow ==
    ASSUME NEW rows \in SUBSET (Chunks \X Papers), rows # {}
    PROVE  First(rows) \in rows /\ First(rows)[2] \in Papers
<1> DEFINE Ids == {e[1] + 1 : e \in rows}
<1>1. \A e \in rows : e[1] \in Nat /\ e[2] \in Papers
  BY CheckpointAssumption DEF Chunks
<1>2. Ids \in SUBSET (Nat \ {0}) /\ Ids # {}
  BY <1>1
<1>3. \A e \in rows : e[1] + 1 \in Ids
  OBVIOUS
<1>4. \E i \in Ids : \A j \in Ids : i <= j
  <2> HIDE DEF Ids
  <2> QED
    BY <1>2, LeastOfPositive
<1>5. PICK e \in rows : \A j \in Ids : e[1] + 1 <= j
  BY <1>4
<1>6. \A f \in rows : e[1] <= f[1]
  <2>1. \A f \in rows : e[1] + 1 <= f[1] + 1
    BY <1>3, <1>5
  <2>2. QED
    BY <1>1, <2>1
<1>7. First(rows) \in rows
  BY <1>6 DEF First
<1>8. QED
  BY <1>1, <1>7

\* The sets that the steps take their values from.
LEMMA Ranges ==
    ASSUME TypeOK
    PROVE  /\ generation \in Nat \ {0} /\ generation <= MaxGeneration /\ last \in Nat /\ inserted \in Nat
           /\ \A p \in Papers : point[p] \in Nat /\ row[p] \in Nat
           /\ \A t \in Tasks : /\ task[t] \in TaskStates /\ task[t].gen \in Nat
                               /\ task[t].last \in Nat /\ task[t].end \in Nat
                               /\ task[t].todo \in SUBSET (Chunks \X Papers)
           /\ \A w \in Writers : /\ writer[w] \in WriterStates /\ writer[w].gen \in Nat
                                 /\ writer[w].paper \in Papers \cup {Nobody}
           /\ MaxGeneration \in Nat /\ MaxChunk \in Nat
<1>1. MaxGeneration \in Nat /\ MaxChunk \in Nat
  BY CheckpointAssumption
<1>2. generation \in Nat \ {0} /\ generation <= MaxGeneration /\ last \in Nat /\ inserted \in Nat
  BY <1>1 DEF TypeOK, Generations, Chunks
<1>3. \A p \in Papers : point[p] \in Nat /\ row[p] \in Nat
  BY <1>1 DEF TypeOK, Chunks
<1>4. \A t \in Tasks : /\ task[t] \in TaskStates /\ task[t].gen \in Nat
                       /\ task[t].last \in Nat /\ task[t].end \in Nat
                       /\ task[t].todo \in SUBSET (Chunks \X Papers)
  <2>1. \A t \in Tasks : task[t] \in TaskStates
    BY DEF TypeOK
  <2>2. QED
    BY <1>1, <2>1 DEF TaskStates, Chunks
<1>5. \A w \in Writers : /\ writer[w] \in WriterStates /\ writer[w].gen \in Nat
                         /\ writer[w].paper \in Papers \cup {Nobody}
  <2>1. \A w \in Writers : writer[w] \in WriterStates
    BY DEF TypeOK
  <2>2. QED
    BY <1>1, <2>1 DEF WriterStates
<1>6. QED
  BY <1>1, <1>2, <1>3, <1>4, <1>5

\* A paper with a turn, and the locks of different actors.
LEMMA Turns ==
    ASSUME CheckpointInv
    PROVE  /\ \A t \in Tasks : task[t].todo # {} => Paper(t) \in Papers
           /\ \A t, u \in Tasks : task[t].pc \in Holding /\ task[u].pc \in Holding
                                    /\ Paper(t) = Paper(u) => t = u
           /\ \A v, w \in Writers : writer[v].pc \in HoldingJob /\ writer[w].pc \in HoldingJob
                                      /\ writer[v].paper = writer[w].paper => v = w
           /\ \A t \in Tasks, w \in Writers : task[t].pc \in Holding /\ writer[w].pc \in HoldingJob
                                                => Paper(t) # writer[w].paper
<1>1. \A t \in Tasks : task[t].todo # {} => Paper(t) \in Papers
  BY FirstIsRow, Ranges DEF CheckpointInv, Paper
<1>2. LockInv /\ Tasks \cap Writers = {}
  BY CheckpointAssumption DEF CheckpointInv, ControlInv
<1>3. QED
  BY <1>1, <1>2 DEF LockInv

-----------------------------------------------------------------------------
(* The steps of a reconciler that write no points.                         *)

LEMMA TaskKeeps ==
    ASSUME CheckpointInv, NEW t \in Tasks, NEW r \in TaskStates, task' = [task EXCEPT ![t] = r],
           UNCHANGED <<generation, point, row, inserted, writer, missed, intact>>,
           \A p \in Papers, a \in Actors : a # t /\ lock[p] = a => lock'[p] = a,
           r.gen <= generation, r.last <= inserted, r.end <= inserted, last' <= inserted,
           r.pc \in Holding \cup {"paper"} => r.todo # {},
           r.pc = "advance" => r.todo = {},
           r.pc \in Holding => lock'[First(r.todo)[2]] = t,
           r.pc = "write" => r.gen = generation,
           \A p \in Papers : /\ row[p] # 0
                             /\ \/ status' = "complete" \/ row[p] <= last'
                                \/ r.gen = generation /\ Past(r, p)
               => PassedByAny(p) \/ (point[p] = generation /\ lock[p] = t)
    PROVE  ControlInv'
<1>1. /\ task \in [Tasks -> TaskStates] /\ task'[t] = r
      /\ \A u \in Tasks : u # t => task'[u] = task[u]
  BY DEF CheckpointInv, TypeOK
<1>2. Tasks \cap Writers = {} /\ Tasks \subseteq Actors /\ Writers \subseteq Actors
  BY CheckpointAssumption DEF Actors
<1>3. GenerationsInv' /\ RowsInv' /\ EarlyInv'
  BY <1>1 DEF CheckpointInv, ControlInv, GenerationsInv, RowsInv, EarlyInv
<1>4. \A u \in Tasks : Paper(u)' = First(task'[u].todo)[2]
  BY DEF Paper
<1>5. LockInv'
  <2>1. ASSUME NEW u \in Tasks, u # t, task[u].pc \in Holding
        PROVE  lock'[Paper(u)'] = u
    BY <1>1, <1>2, <1>4, <2>1, Turns DEF CheckpointInv, ControlInv, LockInv, Paper
  <2>2. ASSUME NEW w \in Writers, writer[w].pc \in HoldingJob
        PROVE  writer[w].paper \in Papers /\ lock'[writer[w].paper] = w
    BY <1>2, <2>2 DEF CheckpointInv, ControlInv, LockInv
  <2>3. QED
    BY <1>1, <1>4, <2>1, <2>2 DEF CheckpointInv, ControlInv, LockInv
<1>6. \A p \in Papers : row[p] # 0 /\ PassedByAny(p)'
          => PassedByAny(p) \/ (point[p] = generation /\ lock[p] = t)
  BY <1>1 DEF PassedByAny, Passed, Past
<1>7. \A p \in Papers : Late(p)' => Late(p) /\ lock[p] # t
  <2>1. SUFFICES ASSUME NEW p \in Papers, Late(p)' PROVE Late(p) /\ lock[p] # t
    OBVIOUS
  <2>2. CASE \E u \in Tasks : task'[u].pc = "write" /\ Paper(u)' = p /\ task'[u].gen # generation'
    <3>1. PICK u \in Tasks : task'[u].pc = "write" /\ Paper(u)' = p /\ task'[u].gen # generation'
      BY <2>2
    <3>2. u # t
      BY <1>1, <3>1
    <3>3. task'[u] = task[u] /\ Paper(u) = p
      BY <1>1, <1>4, <3>1, <3>2 DEF Paper
    <3>4. lock[p] = u
      BY <3>1, <3>3 DEF CheckpointInv, ControlInv, LockInv
    <3>5. QED
      BY <3>1, <3>2, <3>3, <3>4 DEF Late
  <2>3. CASE \E w \in Writers : /\ writer'[w].pc \in HoldingJob /\ writer'[w].paper = p
                                /\ ~writer'[w].early /\ writer'[w].gen # generation'
    BY <1>2, <2>3 DEF Late, CheckpointInv, ControlInv, LockInv
  <2>4. QED
    BY <2>1, <2>2, <2>3 DEF Late
<1>8. LateInv'
  BY <1>6, <1>7 DEF CheckpointInv, ControlInv, LateInv
<1>9. PassedInv'
  BY <1>6 DEF CheckpointInv, ControlInv, PassedInv, Covered
<1>10. RepairInv'
  BY <1>1, <1>4 DEF CheckpointInv, ControlInv, RepairInv, Paper
<1>11. CommitInv'
  BY DEF CheckpointInv, ControlInv, CommitInv
<1>12. QED
  BY <1>3, <1>5, <1>8, <1>9, <1>10, <1>11 DEF ControlInv

-----------------------------------------------------------------------------
(* A rotation: nobody is past anything in the new generation.              *)

LEMMA RotateKeeps ==
    ASSUME CheckpointInv, Rotate, UNCHANGED <<point, row, inserted, lock>>,
           \A t \in Tasks :
               /\ task'[t].gen = task[t].gen /\ task'[t].last = task[t].last
               /\ task'[t].end = task[t].end /\ task'[t].todo = task[t].todo
               /\ task'[t].pc = task[t].pc \/ task'[t].pc = "load"
                  \/ (task[t].pc = "remade" /\ task'[t].pc = "probe"),
           \A w \in Writers :
               /\ writer'[w].gen = writer[w].gen /\ writer'[w].paper = writer[w].paper
               /\ writer'[w].early = writer[w].early
               /\ writer'[w].pc = writer[w].pc
                  \/ (writer[w].pc = "remade" /\ writer'[w].pc = "probe")
    PROVE  ControlInv'
<1>1. generation' = generation + 1 /\ status' = "pending" /\ last' = 0
  BY DEF Rotate
<1>2. generation \in Nat /\ \A p \in Papers : point[p] \in Nat /\ row[p] \in Nat
  BY Ranges DEF CheckpointInv
<1>3. /\ \A t \in Tasks : task[t].gen \in Nat /\ task'[t].gen = task[t].gen
      /\ \A w \in Writers : writer[w].gen \in Nat /\ writer'[w].gen = writer[w].gen
  BY Ranges DEF CheckpointInv
<1>4. /\ \A p \in Papers : point[p] <= generation
      /\ \A t \in Tasks : task[t].gen <= generation
      /\ \A w \in Writers : writer[w].gen <= generation
  BY DEF CheckpointInv, ControlInv, GenerationsInv
<1>5. /\ \A p \in Papers : point'[p] < generation'
      /\ \A t \in Tasks : task'[t].gen < generation'
      /\ \A w \in Writers : writer'[w].gen < generation'
  BY <1>1, <1>2, <1>3, <1>4
<1>6. GenerationsInv'
  BY <1>1, <1>2, <1>3, <1>4 DEF GenerationsInv
<1>7. RowsInv'
  <2>1. inserted \in Nat
    BY Ranges DEF CheckpointInv
  <2>2. QED
    BY <1>1, <2>1 DEF CheckpointInv, ControlInv, RowsInv
<1>8. \A t \in Tasks : Paper(t)' = Paper(t)
  BY DEF Paper
<1>9. LockInv' /\ EarlyInv'
  BY <1>8 DEF CheckpointInv, ControlInv, LockInv, EarlyInv
<1>10. \A p \in Papers : PassedByAny(p)' => row[p] = 0
  <2>1. \A t \in Tasks : task'[t].gen # generation'
    BY <1>1, <1>2, <1>3, <1>5
  <2>2. QED
    BY <1>1, <1>2, <2>1 DEF PassedByAny, Passed
<1>11. LateInv' /\ PassedInv'
  BY <1>10 DEF LateInv, PassedInv, Covered
<1>12. RepairInv'
  <2>1. \A t \in Tasks : task'[t].pc = "write" => Paper(t) \in Papers
    BY Turns DEF CheckpointInv, ControlInv, LockInv
  <2>2. \A p \in Papers : point'[p] # generation'
    BY <1>1, <1>2, <1>5
  <2>3. QED
    BY <1>8, <2>1, <2>2 DEF RepairInv
<1>13. CommitInv'
  <2>1. \A w \in Writers : writer'[w].gen # generation'
    BY <1>1, <1>2, <1>3, <1>5
  <2>2. QED
    BY <2>1 DEF CommitInv
<1>14. QED
  BY <1>6, <1>7, <1>9, <1>11, <1>12, <1>13 DEF ControlInv

-----------------------------------------------------------------------------
(* The steps of an ordinary job, which may write to the paper it has locked. *)

\* What a job knows after its step, if it has the lock of its paper.
JobGoes(w, r) ==
    /\ r.gen <= generation
    /\ r.pc = "wait" => r.early /\ r.paper \in Papers
    /\ r.pc \in {"store", "commit"} => ~r.early
    /\ r.pc \in HoldingJob => r.paper \in Papers /\ lock'[r.paper] = w
    /\ r.pc \in HoldingJob /\ ~r.early /\ r.gen # generation
           => /\ writer[w].pc \in HoldingJob /\ writer[w].paper = r.paper
              /\ ~writer[w].early /\ writer[w].gen # generation
    /\ intact /\ r.pc = "commit" /\ r.gen = generation => point'[r.paper] = generation

\* It writes points or the row of that paper, and leaves the other papers alone.
WritesTo(w, r, q) ==
    /\ q \in Papers /\ lock[q] = w
    /\ \A p \in Papers \ {q} : /\ point'[p] = point[p] /\ row'[p] = row[p]
                               /\ p \in missed' <=> p \in missed
    /\ row'[q] = row[q] \/ row'[q] = inserted + 1
    /\ intact /\ q \notin missed' /\ row'[q] # 0 /\ PassedByAny(q) => point'[q] = generation
    /\ row'[q] # 0 /\ r.pc \in HoldingJob /\ r.paper = q /\ r.gen # generation
           => ~PassedByAny(q)

LEMMA WriterKeeps ==
    ASSUME CheckpointInv, NEW w \in Writers, NEW r \in WriterStates,
           writer' = [writer EXCEPT ![w] = r],
           UNCHANGED <<checkpointVars, intact, task>>,
           \A p \in Papers, a \in Actors : a # w /\ lock[p] = a => lock'[p] = a,
           inserted' \in Nat, inserted <= inserted',
           \A p \in Papers : point'[p] <= generation /\ row'[p] <= inserted',
           JobGoes(w, r),
           NEW q, UNCHANGED <<point, row, missed>> \/ WritesTo(w, r, q)
    PROVE  ControlInv'
<1> USE DEF JobGoes, WritesTo
<1>1. /\ writer'[w] = r /\ \A v \in Writers : v # w => writer'[v] = writer[v]
  BY DEF CheckpointInv, TypeOK
<1>2. Tasks \cap Writers = {} /\ Tasks \subseteq Actors /\ Writers \subseteq Actors
  BY CheckpointAssumption DEF Actors
<1>3. LockInv /\ Tasks \cap Writers = {}
  BY <1>2 DEF CheckpointInv, ControlInv
<1>4. \A t \in Tasks : Paper(t)' = Paper(t)
  BY DEF Paper
<1>5. GenerationsInv' /\ EarlyInv'
  BY <1>1 DEF CheckpointInv, ControlInv, GenerationsInv, EarlyInv
<1>6. RowsInv'
  <2>1. \A t \in Tasks : task[t].last \in Nat /\ task[t].end \in Nat
    BY Ranges DEF CheckpointInv
  <2>2. last \in Nat /\ inserted \in Nat
    BY Ranges DEF CheckpointInv
  <2>3. QED
    BY <2>1, <2>2 DEF CheckpointInv, ControlInv, RowsInv
<1>7. LockInv'
  <2>1. \A t \in Tasks : task[t].pc \in Holding => Paper(t) \in Papers /\ lock'[Paper(t)] = t
    BY <1>2, <1>3, Turns DEF LockInv
  <2>2. \A v \in Writers : v # w /\ writer[v].pc \in HoldingJob
            => writer[v].paper \in Papers /\ lock'[writer[v].paper] = v
    BY <1>2, <1>3 DEF LockInv
  <2>3. QED
    BY <1>1, <1>3, <1>4, <2>1, <2>2 DEF LockInv
<1>8. \A p \in Papers : p # q \/ UNCHANGED <<point, row, missed>>
          => /\ point'[p] = point[p] /\ row'[p] = row[p] /\ (p \in missed' <=> p \in missed)
             /\ PassedByAny(p)' <=> PassedByAny(p)
  BY DEF PassedByAny, Passed, Past
<1>9. ~UNCHANGED <<point, row, missed>> /\ PassedByAny(q)' => PassedByAny(q)
  <2>1. CASE row'[q] = row[q]
    BY <2>1 DEF PassedByAny, Passed, Past
  <2>2. CASE row'[q] = inserted + 1
    <3>1. inserted \in Nat /\ last \in Nat /\ last <= inserted
      BY Ranges DEF CheckpointInv, ControlInv, RowsInv
    <3>2. \A t \in Tasks : /\ task[t].last \in Nat /\ task[t].end \in Nat
                           /\ task[t].last <= inserted /\ task[t].end <= inserted
      BY Ranges DEF CheckpointInv, ControlInv, RowsInv
    <3>3. ~(row'[q] <= last)
      BY <2>2, <3>1
    <3>4. \A t \in Tasks : ~(row'[q] <= task[t].last) /\ ~(row'[q] <= task[t].end)
      BY <2>2, <3>1, <3>2
    <3>5. QED
      BY <3>3, <3>4 DEF PassedByAny, Passed, Past
  <2>3. QED
    BY <2>1, <2>2
<1>10. \A p \in Papers : Late(p)' => Late(p)
  BY <1>1, <1>4 DEF Late
<1>11. lock[q] = w =>
           \A t \in Tasks : task[t].pc \in Holding => Paper(t) # q
  BY <1>3 DEF LockInv
<1>12. lock[q] = w =>
           \A v \in Writers : v # w /\ writer[v].pc \in HoldingJob => writer[v].paper # q
  BY <1>3 DEF LockInv
<1>13. LateInv'
  <2>1. SUFFICES ASSUME NEW p \in Papers, Late(p)', row'[p] # 0 PROVE ~PassedByAny(p)'
    BY DEF LateInv
  <2>2. CASE p # q \/ UNCHANGED <<point, row, missed>>
    BY <1>8, <1>10, <2>1, <2>2 DEF CheckpointInv, ControlInv, LateInv
  <2>3. CASE p = q /\ lock[q] = w
    <3>1. r.pc \in HoldingJob /\ r.paper = q /\ r.gen # generation
      BY <1>1, <1>4, <1>11, <1>12, <2>1, <2>3 DEF Late
    <3>2. QED
      BY <1>9, <2>1, <2>2, <2>3, <3>1
  <2>4. QED
    BY <2>2, <2>3
<1>14. PassedInv'
  <2>1. SUFFICES ASSUME intact, NEW p \in Papers, p \notin missed', PassedByAny(p)', row'[p] # 0
                 PROVE  point'[p] = generation
    BY DEF PassedInv, Covered
  <2>2. CASE p # q \/ UNCHANGED <<point, row, missed>>
    BY <1>8, <2>1, <2>2 DEF CheckpointInv, ControlInv, PassedInv, Covered
  <2>3. CASE p = q /\ lock[q] = w
    BY <1>9, <2>1, <2>2, <2>3
  <2>4. QED
    BY <2>2, <2>3
<1>15. RepairInv'
  <2>1. \A t \in Tasks : task[t].pc = "write" => point'[Paper(t)] = point[Paper(t)]
    BY <1>3, <1>11, Turns DEF LockInv
  <2>2. QED
    BY <1>4, <2>1 DEF CheckpointInv, ControlInv, RepairInv
<1>16. CommitInv'
  <2>1. \A v \in Writers : v # w /\ writer[v].pc = "commit"
            => point'[writer[v].paper] = point[writer[v].paper]
    BY <1>3, <1>12 DEF LockInv
  <2>2. QED
    BY <1>1, <2>1 DEF CheckpointInv, ControlInv, CommitInv
<1>17. QED
  BY <1>5, <1>6, <1>7, <1>13, <1>14, <1>15, <1>16 DEF ControlInv

-----------------------------------------------------------------------------
(* The attempts of a reconciler.                                           *)

\* What a step of a reconciler that writes no points may change.
LEMMA TaskTypes ==
    ASSUME TypeOK, NEW t \in Tasks, NEW r \in TaskStates, task' = [task EXCEPT ![t] = r],
           UNCHANGED <<generation, row, inserted, writer, missed, intact, writes>>,
           point' \in [Papers -> 0..MaxGeneration],
           status' \in {"pending", "complete"}, last' \in Chunks,
           holder' \in Tasks \cup {Nobody, Gone}, expired' \in BOOLEAN,
           collection' \in BOOLEAN, lock' \in [Papers -> Actors \cup {Nobody}],
           faults' \in 0..MaxFaults
    PROVE  TypeOK'
BY DEF TypeOK

LEMMA GoRecord ==
    ASSUME TypeOK, NEW t \in Tasks, NEW pc \in TaskPcs, Go(t, pc)
    PROVE  \E r \in TaskStates :
               /\ task' = [task EXCEPT ![t] = r]
               /\ r.pc = pc /\ r.gen = task[t].gen /\ r.last = task[t].last
               /\ r.todo = task[t].todo /\ r.end = task[t].end
<1> DEFINE r == [task[t] EXCEPT !.pc = pc]
<1>1. task[t] \in TaskStates
  BY DEF TypeOK
<1>2. /\ r \in TaskStates
      /\ r.pc = pc /\ r.gen = task[t].gen /\ r.last = task[t].last
      /\ r.todo = task[t].todo /\ r.end = task[t].end
  BY <1>1 DEF TaskStates
<1>3. task' = [task EXCEPT ![t] = r]
  BY DEF Go
<1>4. QED
  BY <1>2, <1>3

LEMMA EndRecord ==
    ASSUME TypeOK, NEW t \in Tasks, NEW pc \in TaskPcs, EndAttempt(t, pc)
    PROVE  \E r \in TaskStates :
               /\ task' = [task EXCEPT ![t] = r]
               /\ r.pc = pc /\ r.gen = 0 /\ r.last = 0 /\ r.todo = {} /\ r.end = 0
<1> DEFINE r == [Down EXCEPT !.pc = pc]
<1>1. 0 \in 0..MaxGeneration /\ 0 \in Chunks
  BY CheckpointAssumption DEF Chunks
<1>2. /\ r \in TaskStates
      /\ r.pc = pc /\ r.gen = 0 /\ r.last = 0 /\ r.todo = {} /\ r.end = 0
  BY <1>1 DEF TaskStates, Down
<1>3. task' = [task EXCEPT ![t] = r]
  BY DEF EndAttempt
<1>4. QED
  BY <1>2, <1>3

\* An actor that releases its locks leaves those of the others.
LEMMA Releases ==
    ASSUME TypeOK, NEW a \in Actors, lock' = Released(a)
    PROVE  /\ lock' \in [Papers -> Actors \cup {Nobody}]
           /\ \A p \in Papers, b \in Actors : b # a /\ lock[p] = b => lock'[p] = b
BY CheckpointAssumption DEF TypeOK, Released, Actors

\* An attempt that ends knows nothing.
LEMMA EndKeeps ==
    ASSUME CheckpointInv, NEW t \in Tasks, NEW pc \in {"load", "down", "done"}, EndAttempt(t, pc),
           UNCHANGED <<generation, last, qdrantVars, rowVars, writer, writes>>,
           status' = status \/ (/\ status' = "complete" /\ task[t].pc = "complete"
                                /\ task[t].gen = generation),
           holder' \in Tasks \cup {Nobody, Gone}, expired' \in BOOLEAN,
           faults' \in 0..MaxFaults
    PROVE  CheckpointInv'
<1>1. TypeOK /\ t \in Actors /\ pc \in TaskPcs
  BY DEF CheckpointInv, Actors, TaskPcs
<1>2. PICK r \in TaskStates :
          /\ task' = [task EXCEPT ![t] = r]
          /\ r.pc = pc /\ r.gen = 0 /\ r.last = 0 /\ r.todo = {} /\ r.end = 0
  BY <1>1, EndRecord
<1>3. /\ lock' \in [Papers -> Actors \cup {Nobody}]
      /\ \A p \in Papers, a \in Actors : a # t /\ lock[p] = a => lock'[p] = a
  BY <1>1, Releases DEF EndAttempt
<1>4. TypeOK'
  <2>1. /\ status' \in {"pending", "complete"} /\ last' \in Chunks /\ collection' \in BOOLEAN
        /\ point' \in [Papers -> 0..MaxGeneration]
    BY <1>1 DEF TypeOK
  <2>2. QED
    BY <1>1, <1>2, <1>3, <2>1, TaskTypes
<1>5. generation \in Nat \ {0} /\ inserted \in Nat /\ last <= inserted
  BY <1>1, Ranges DEF CheckpointInv, ControlInv, RowsInv
<1>6. \A p \in Papers : /\ row[p] # 0
                        /\ \/ status' = "complete" \/ row[p] <= last'
                           \/ r.gen = generation /\ Past(r, p)
          => PassedByAny(p) \/ (point[p] = generation /\ lock[p] = t)
  BY <1>2, <1>5 DEF PassedByAny, Passed, Past
<1>7. r.pc \notin Holding \cup {"paper", "advance", "write"}
  BY <1>2
<1>8. ControlInv'
  <2>1. /\ UNCHANGED <<generation, point, row, inserted, writer, missed, intact>>
        /\ last' <= inserted /\ 0 <= inserted /\ 0 <= generation
    BY <1>5
  <2>2. r.gen <= generation /\ r.last <= inserted /\ r.end <= inserted
    BY <1>2, <2>1
  <2>3. QED
    BY <1>2, <1>3, <1>6, <1>7, <2>1, <2>2, TaskKeeps
<1>9. QED
  BY <1>4, <1>8 DEF CheckpointInv

LEMMA RetryKeeps ==
    ASSUME CheckpointInv, NEW t \in Tasks, Retry(t), UNCHANGED unseen
    PROVE  CheckpointInv'
<1>1. holder' \in Tasks \cup {Nobody, Gone} /\ expired' \in BOOLEAN /\ faults' \in 0..MaxFaults
  BY DEF CheckpointInv, TypeOK, Retry, Abandon
<1>2. QED
  BY <1>1, EndKeeps DEF Retry

LEMMA CrashKeeps ==
    ASSUME CheckpointInv, NEW t \in Tasks, Crash(t)
    PROVE  CheckpointInv'
<1>1. holder' \in Tasks \cup {Nobody, Gone} /\ expired' \in BOOLEAN
  BY DEF CheckpointInv, TypeOK, Crash, Abandon
<1>2. faults' \in 0..MaxFaults
  BY CheckpointAssumption DEF CheckpointInv, TypeOK, Crash, Fault
<1>3. QED
  BY <1>1, <1>2, EndKeeps DEF Crash, Fault

LEMMA CompleteKeeps ==
    ASSUME CheckpointInv, NEW t \in Tasks, Complete(t)
    PROVE  CheckpointInv'
<1>1. CASE Current(t)
  <2>1. /\ UNCHANGED unseen /\ UNCHANGED <<generation, last>> /\ EndAttempt(t, "done")
        /\ status' = "complete" /\ task[t].pc = "complete" /\ task[t].gen = generation
        /\ holder' \in Tasks \cup {Nobody, Gone} /\ expired' \in BOOLEAN
    BY <1>1 DEF Complete, Current
  <2>2. faults' \in 0..MaxFaults
    BY <2>1 DEF CheckpointInv, TypeOK
  <2>3. QED
    BY <2>1, <2>2, EndKeeps
<1>2. CASE ~Current(t)
  BY <1>2, RetryKeeps DEF Complete
<1>3. QED
  BY <1>1, <1>2

\* A step with which an attempt goes on.
LEMMA AttemptKeeps ==
    ASSUME CheckpointInv, NEW t \in Tasks, NEW r \in TaskStates, task' = [task EXCEPT ![t] = r],
           UNCHANGED <<generation, status, point, intact, rowVars, writer, budgets>>,
           last' \in Chunks, last' <= inserted,
           holder' \in Tasks \cup {Nobody, Gone}, expired' \in BOOLEAN, collection' \in BOOLEAN,
           lock' \in [Papers -> Actors \cup {Nobody}],
           \A p \in Papers, a \in Actors : a # t /\ lock[p] = a => lock'[p] = a,
           r.gen <= generation, r.last <= inserted, r.end <= inserted,
           r.pc \in Holding \cup {"paper"} => r.todo # {},
           r.pc = "advance" => r.todo = {},
           r.pc \in Holding => lock'[First(r.todo)[2]] = t,
           r.pc = "write" => r.gen = generation,
           \A p \in Papers : row[p] # 0 /\ (row[p] <= last' \/ (r.gen = generation /\ Past(r, p)))
               => PassedByAny(p) \/ (point[p] = generation /\ lock[p] = t)
    PROVE  CheckpointInv'
<1>1. TypeOK'
  <2>1. /\ status' \in {"pending", "complete"} /\ faults' \in 0..MaxFaults
        /\ point' \in [Papers -> 0..MaxGeneration] /\ TypeOK
    BY DEF CheckpointInv, TypeOK
  <2>2. QED
    BY <2>1, TaskTypes
<1>2. \A p \in Papers : /\ row[p] # 0
                        /\ \/ status' = "complete" \/ row[p] <= last'
                           \/ r.gen = generation /\ Past(r, p)
          => PassedByAny(p) \/ (point[p] = generation /\ lock[p] = t)
  BY DEF PassedByAny, Passed
<1>3. UNCHANGED <<generation, point, row, inserted, writer, missed, intact>>
  OBVIOUS
<1>4. ControlInv'
  BY <1>2, <1>3, TaskKeeps
<1>5. QED
  BY <1>1, <1>4 DEF CheckpointInv

\* A step that leaves the checkpoint's progress and the batch alone.
LEMMA MoveKeeps ==
    ASSUME CheckpointInv, NEW t \in Tasks, NEW pc \in TaskPcs, Go(t, pc),
           UNCHANGED <<generation, status, last, point, intact, rowVars, writer, budgets>>,
           holder' \in Tasks \cup {Nobody, Gone}, expired' \in BOOLEAN, collection' \in BOOLEAN,
           lock' \in [Papers -> Actors \cup {Nobody}],
           \A p \in Papers, a \in Actors : a # t /\ lock[p] = a => lock'[p] = a,
           pc \in Holding \cup {"paper"} => task[t].todo # {},
           pc = "advance" => task[t].todo = {},
           pc \in Holding => lock'[Paper(t)] = t,
           pc = "write" => task[t].gen = generation,
           pc \in Batching => task[t].pc \in Batching,
           pc = "complete" /\ task[t].gen = generation
               => \A p \in Papers : row[p] <= task[t].last
    PROVE  CheckpointInv'
<1>1. TypeOK /\ GenerationsInv /\ RowsInv
  BY DEF CheckpointInv, ControlInv
<1>2. PICK r \in TaskStates :
          /\ task' = [task EXCEPT ![t] = r]
          /\ r.pc = pc /\ r.gen = task[t].gen /\ r.last = task[t].last
          /\ r.todo = task[t].todo /\ r.end = task[t].end
  BY <1>1, GoRecord
<1>3. last' \in Chunks /\ last' <= inserted
  BY <1>1 DEF TypeOK, RowsInv
<1>4. r.gen <= generation /\ r.last <= inserted /\ r.end <= inserted
  BY <1>1, <1>2 DEF GenerationsInv, RowsInv
<1>5. /\ r.pc \in Holding \cup {"paper"} => r.todo # {}
      /\ r.pc = "advance" => r.todo = {}
      /\ r.pc \in Holding => lock'[First(r.todo)[2]] = t
      /\ r.pc = "write" => r.gen = generation
  BY <1>2 DEF Paper
<1>6. \A p \in Papers : row[p] # 0 /\ (row[p] <= last' \/ (r.gen = generation /\ Past(r, p)))
          => PassedByAny(p) \/ (point[p] = generation /\ lock[p] = t)
  BY <1>2 DEF PassedByAny, Passed, Past
<1>7. QED
  BY <1>2, <1>3, <1>4, <1>5, <1>6, AttemptKeeps

\* The locks stay as they are.
LEMMA SameLocks ==
    ASSUME CheckpointInv, UNCHANGED lock
    PROVE  /\ lock' \in [Papers -> Actors \cup {Nobody}]
           /\ \A p \in Papers, a \in Actors : lock[p] = a => lock'[p] = a
BY DEF CheckpointInv, TypeOK

LEMMA SameCheckpoint ==
    ASSUME CheckpointInv
    PROVE  /\ holder \in Tasks \cup {Nobody, Gone} /\ expired \in BOOLEAN /\ collection \in BOOLEAN
           /\ status \in {"pending", "complete"} /\ last \in Chunks /\ last <= inserted
BY DEF CheckpointInv, TypeOK, ControlInv, RowsInv

LEMMA LoadKeeps ==
    ASSUME CheckpointInv, NEW t \in Tasks, Load(t)
    PROVE  CheckpointInv'
<1>1. UNCHANGED <<checkpointVars, lock, unseen>>
  BY DEF Load
<1>2. CASE Go(t, "done")
  BY <1>1, <1>2, MoveKeeps, SameLocks, SameCheckpoint DEF TaskPcs
<1>3. CASE task' = [task EXCEPT ![t] = [Down EXCEPT !.pc = "claim", !.gen = generation,
                                                    !.last = last]]
  <2> DEFINE r == [Down EXCEPT !.pc = "claim", !.gen = generation, !.last = last]
  <2>1. generation \in 0..MaxGeneration /\ last \in Chunks /\ 0 \in Chunks
        /\ generation <= generation /\ last <= inserted /\ 0 <= inserted
    BY Ranges, SameCheckpoint, CheckpointAssumption DEF CheckpointInv, Chunks
  <2>2. /\ r \in TaskStates
        /\ r.pc = "claim" /\ r.gen = generation /\ r.last = last /\ r.todo = {} /\ r.end = 0
    BY <2>1 DEF TaskStates, TaskPcs, Down
  <2>3. PICK s \in TaskStates :
            /\ task' = [task EXCEPT ![t] = s]
            /\ s.pc = "claim" /\ s.gen = generation /\ s.last = last /\ s.todo = {} /\ s.end = 0
    BY <1>3, <2>2
  <2>4. \A p \in Papers : row[p] # 0 /\ (row[p] <= last' \/ (s.gen = generation /\ Past(s, p)))
            => PassedByAny(p) \/ (point[p] = generation /\ lock[p] = t)
    BY <1>1, <2>3 DEF PassedByAny, Passed, Past
  <2>5. QED
    BY <1>1, <2>1, <2>3, <2>4, SameLocks, SameCheckpoint, AttemptKeeps
<1>4. QED
  BY <1>2, <1>3 DEF Load

LEMMA ClaimKeeps ==
    ASSUME CheckpointInv, NEW t \in Tasks, Claim(t)
    PROVE  CheckpointInv'
<1>1. UNCHANGED unseen
  BY DEF Claim
<1>2. CASE Claimable(t)
  <2>1. /\ holder' = t /\ expired' = FALSE /\ Go(t, "scan")
        /\ UNCHANGED <<generation, status, last, lock>>
    BY <1>2 DEF Claim
  <2>2. QED
    BY <1>1, <2>1, MoveKeeps, SameLocks, SameCheckpoint DEF TaskPcs
<1>3. CASE ~Claimable(t)
  BY <1>1, <1>3, RetryKeeps DEF Claim
<1>4. QED
  BY <1>2, <1>3

LEMMA TakeKeeps ==
    ASSUME CheckpointInv, NEW t \in Tasks, Take(t)
    PROVE  CheckpointInv'
<1>1. UNCHANGED unseen /\ task[t].pc = "paper" /\ t \in Actors
  BY DEF Take, Actors
<1>2. task[t].todo # {} /\ Paper(t) \in Papers
  BY <1>1, Turns DEF CheckpointInv, ControlInv, LockInv
<1>3. CASE lock[Paper(t)] = Nobody
  <2>1. /\ lock' = [lock EXCEPT ![Paper(t)] = t]
        /\ Go(t, "probe") /\ UNCHANGED checkpointVars
    BY <1>3 DEF Take
  <2>2. /\ lock' \in [Papers -> Actors \cup {Nobody}] /\ lock'[Paper(t)] = t
        /\ \A p \in Papers, a \in Actors : a # t /\ lock[p] = a => lock'[p] = a
    BY <1>1, <1>2, <1>3, <2>1, CheckpointAssumption DEF CheckpointInv, TypeOK, Actors
  <2>3. QED
    BY <1>1, <1>2, <2>1, <2>2, MoveKeeps, SameCheckpoint DEF TaskPcs
<1>4. CASE lock[Paper(t)] # Nobody
  BY <1>1, <1>4, RetryKeeps DEF Take
<1>5. QED
  BY <1>3, <1>4

\* A batch holds every row up to its last identifier that the task is not past.
LEMMA ScanKeeps ==
    ASSUME CheckpointInv, NEW t \in Tasks, Scan(t)
    PROVE  CheckpointInv'
<1>1. UNCHANGED unseen /\ task[t] \in TaskStates /\ task[t].pc = "scan"
  BY DEF Scan, CheckpointInv, TypeOK
<1>2. CASE ~Current(t)
  BY <1>1, <1>2, RetryKeeps DEF Scan
<1>3. ASSUME Current(t), Ahead(t) = {}, Go(t, "complete"), UNCHANGED <<checkpointVars, lock>>
      PROVE  CheckpointInv'
  <2>1. \A p \in Papers : row[p] \in Nat /\ task[t].last \in Nat
    BY Ranges DEF CheckpointInv
  <2>2. \A p \in Papers : row[p] <= task[t].last
    <3>1. \A p \in Papers : row[p] > task[t].last => <<row[p], p>> \in Ahead(t)
      BY DEF Ahead
    <3>2. QED
      BY <1>3, <2>1, <3>1
  <2>3. QED
    BY <1>1, <1>3, <2>2, MoveKeeps, SameLocks, SameCheckpoint DEF TaskPcs
<1>4. ASSUME Current(t), NEW rows \in Batches(t), NEW e \in rows, \A f \in rows : f[1] <= e[1],
             task' = [task EXCEPT ![t].todo = rows, ![t].end = e[1], ![t].pc = "paper"],
             UNCHANGED <<checkpointVars, lock>>
      PROVE  CheckpointInv'
  <2> DEFINE r == [task[t] EXCEPT !.todo = rows, !.end = e[1], !.pc = "paper"]
  <2>1. /\ \A p \in Papers : row[p] \in Chunks /\ row[p] \in Nat /\ row[p] <= inserted
        /\ task[t].last \in Nat /\ task[t].gen = generation
        /\ task[t].gen <= generation /\ task[t].last <= inserted
    BY <1>4, Ranges DEF CheckpointInv, ControlInv, TypeOK, RowsInv, GenerationsInv, Current
  <2>2. rows \in SUBSET Ahead(t) /\ \A f \in rows, g \in Ahead(t) \ rows : f[1] < g[1]
    BY <1>4 DEF Batches
  <2>3. rows \in SUBSET (Chunks \X Papers) /\ e[1] \in Chunks /\ e[1] \in Nat /\ e[1] <= inserted
    BY <1>4, <2>1, <2>2 DEF Ahead
  <2>4. /\ r \in TaskStates
        /\ r.pc = "paper" /\ r.gen = task[t].gen /\ r.last = task[t].last
        /\ r.todo = rows /\ r.end = e[1]
    BY <1>1, <2>3 DEF TaskStates, TaskPcs
  <2>5. PICK s \in TaskStates :
            /\ task' = [task EXCEPT ![t] = s]
            /\ s.pc = "paper" /\ s.gen = task[t].gen /\ s.last = task[t].last
            /\ s.todo = rows /\ s.end = e[1]
    <3>1. task' = [task EXCEPT ![t] = r]
      BY <1>4
    <3>2. QED
      BY <2>4, <3>1
  <2>6. \A p \in Papers : Past(s, p) => row[p] <= task[t].last
    <3>1. SUFFICES ASSUME NEW p \in Papers, row[p] > task[t].last, row[p] <= e[1],
                          \A f \in rows : f[2] # p
                   PROVE  FALSE
      BY <2>1, <2>5 DEF Past
    <3>2. <<row[p], p>> \in Ahead(t) \ rows
      BY <3>1 DEF Ahead
    <3>3. e[1] < row[p]
      BY <1>4, <2>2, <3>2
    <3>4. QED
      BY <2>1, <2>3, <3>1, <3>3
  <2>7. \A p \in Papers : row[p] # 0 /\ (row[p] <= last' \/ (s.gen = generation /\ Past(s, p)))
            => PassedByAny(p) \/ (point[p] = generation /\ lock[p] = t)
    BY <1>4, <2>1, <2>5, <2>6 DEF PassedByAny, Passed, Past
  <2>8. s.gen <= generation /\ s.last <= inserted /\ s.end <= inserted /\ s.todo # {}
    BY <1>4, <2>1, <2>3, <2>5
  <2>9. s.pc \notin Holding \cup {"advance"} /\ s.pc # "write"
    BY <2>5
  <2>10. /\ UNCHANGED <<generation, status, point, intact, rowVars, writer, budgets>>
         /\ UNCHANGED <<last, holder, expired, collection, lock>>
    BY <1>1, <1>4
  <2>11. QED
    BY <2>5, <2>7, <2>8, <2>9, <2>10, SameLocks, SameCheckpoint, AttemptKeeps
<1>5. QED
  BY <1>2, <1>3, <1>4 DEF Scan

\* The rest of a batch after its first paper.
LEMMA RestRecord ==
    ASSUME CheckpointInv, NEW t \in Tasks, task[t].pc \in Holding, EndPaper(t)
    PROVE  /\ \E r \in TaskStates :
                  /\ task' = [task EXCEPT ![t] = r]
                  /\ r.gen = task[t].gen /\ r.last = task[t].last /\ r.end = task[t].end
                  /\ r.todo = task[t].todo \ {First(task[t].todo)}
                  /\ r.pc = IF r.todo = {} THEN "advance" ELSE "paper"
           /\ lock' \in [Papers -> Actors \cup {Nobody}]
           /\ \A p \in Papers, a \in Actors : a # t /\ lock[p] = a => lock'[p] = a
<1> DEFINE rest == task[t].todo \ {First(task[t].todo)}
           pc == IF rest = {} THEN "advance" ELSE "paper"
           r == [task[t] EXCEPT !.todo = rest, !.pc = pc]
<1>1. task[t] \in TaskStates /\ TypeOK /\ t \in Actors
  BY DEF CheckpointInv, TypeOK, Actors
<1>2. /\ r \in TaskStates
      /\ r.gen = task[t].gen /\ r.last = task[t].last /\ r.end = task[t].end
      /\ r.todo = rest /\ r.pc = pc
  BY <1>1 DEF TaskStates, TaskPcs
<1>3. task' = [task EXCEPT ![t] = r]
  BY DEF EndPaper
<1>4. \E s \in TaskStates :
          /\ task' = [task EXCEPT ![t] = s]
          /\ s.gen = task[t].gen /\ s.last = task[t].last /\ s.end = task[t].end
          /\ s.todo = rest /\ s.pc = IF s.todo = {} THEN "advance" ELSE "paper"
  BY <1>2, <1>3
<1>5. QED
  BY <1>1, <1>4, Releases DEF EndPaper

\* Past the rest of a batch: past the batch, or the paper whose turn it was.
LEMMA PastRest ==
    ASSUME NEW s, NEW r, NEW p, s.pc \in Holding, r.pc \in {"advance", "paper"},
           r.last = s.last, r.end = s.end, r.todo = s.todo \ {First(s.todo)}, Past(r, p)
    PROVE  Past(s, p) \/ First(s.todo)[2] = p
BY DEF Past

LEMMA ProbeKeeps ==
    ASSUME CheckpointInv, NEW t \in Tasks, Probe(t)
    PROVE  CheckpointInv'
<1>1. /\ UNCHANGED <<point, intact, rowVars, writer, budgets>>
      /\ task[t].pc = "probe"
  BY DEF Probe
<1>2. /\ task[t].todo # {} /\ lock[Paper(t)] = t /\ Paper(t) \in Papers
      /\ task[t].gen <= generation /\ task[t].last <= inserted /\ task[t].end <= inserted
  BY <1>1, Turns DEF CheckpointInv, ControlInv, LockInv, GenerationsInv, RowsInv
<1>3. ASSUME row[Paper(t)] = 0 \/ (collection /\ point[Paper(t)] = task[t].gen), EndPaper(t),
             UNCHANGED <<checkpointVars, collection>>
      PROVE  CheckpointInv'
  <2>1. PICK r \in TaskStates :
            /\ task' = [task EXCEPT ![t] = r]
            /\ r.gen = task[t].gen /\ r.last = task[t].last /\ r.end = task[t].end
            /\ r.todo = task[t].todo \ {First(task[t].todo)}
            /\ r.pc = IF r.todo = {} THEN "advance" ELSE "paper"
    BY <1>1, <1>3, RestRecord
  <2>2. /\ lock' \in [Papers -> Actors \cup {Nobody}]
        /\ \A p \in Papers, a \in Actors : a # t /\ lock[p] = a => lock'[p] = a
    BY <1>1, <1>3, RestRecord
  <2>3. \A p \in Papers : row[p] # 0 /\ (row[p] <= last' \/ (r.gen = generation /\ Past(r, p)))
            => PassedByAny(p) \/ (point[p] = generation /\ lock[p] = t)
    <3>1. \A p \in Papers : Past(r, p) => Past(task[t], p) \/ Paper(t) = p
      BY <1>1, <2>1, PastRest DEF Paper
    <3>2. QED
      BY <1>2, <1>3, <2>1, <3>1 DEF PassedByAny, Passed
  <2>4. QED
    BY <1>1, <1>2, <1>3, <2>1, <2>2, <2>3, SameCheckpoint, AttemptKeeps
<1>4. ASSUME collection' = TRUE, Go(t, "remade"), UNCHANGED <<checkpointVars, lock>>
      PROVE  CheckpointInv'
  BY <1>1, <1>2, <1>4, MoveKeeps, SameLocks, SameCheckpoint DEF TaskPcs
<1>5. ASSUME Current(t), Go(t, "write"), UNCHANGED <<checkpointVars, lock, collection>>
      PROVE  CheckpointInv'
  BY <1>1, <1>2, <1>5, MoveKeeps, SameLocks, SameCheckpoint DEF TaskPcs, Current
<1>6. ASSUME Retry(t), UNCHANGED collection
      PROVE  CheckpointInv'
  BY <1>1, <1>6, RetryKeeps
<1>7. QED
  BY <1>3, <1>4, <1>5, <1>6 DEF Probe

LEMMA AdvanceKeeps ==
    ASSUME CheckpointInv, NEW t \in Tasks, Advance(t)
    PROVE  CheckpointInv'
<1>1. UNCHANGED unseen /\ task[t] \in TaskStates /\ task[t].pc = "advance"
  BY DEF Advance, CheckpointInv, TypeOK
<1>2. CASE ~Current(t)
  BY <1>1, <1>2, RetryKeeps DEF Advance
<1>3. CASE Current(t)
  <2> DEFINE r == [task[t] EXCEPT !.last = task[t].end, !.pc = "scan"]
  <2>1. /\ last' = Greatest(last, task[t].end) /\ task' = [task EXCEPT ![t] = r]
        /\ UNCHANGED <<generation, status, holder, expired, lock>>
    BY <1>3 DEF Advance
  <2>2. /\ r \in TaskStates
        /\ r.pc = "scan" /\ r.gen = task[t].gen /\ r.last = task[t].end /\ r.end = task[t].end
    BY <1>1 DEF TaskStates, TaskPcs
  <2>3. PICK s \in TaskStates :
            /\ task' = [task EXCEPT ![t] = s]
            /\ s.pc = "scan" /\ s.gen = task[t].gen /\ s.last = task[t].end /\ s.end = task[t].end
    BY <2>1, <2>2
  <2>4. /\ task[t].gen = generation /\ task[t].gen <= generation
        /\ task[t].end <= inserted /\ task[t].end \in Chunks /\ task[t].todo = {}
    BY <1>1, <1>3 DEF CheckpointInv, ControlInv, GenerationsInv, RowsInv, LockInv, Current,
                      TaskStates
  <2>5. last' \in Chunks /\ last' <= inserted /\ last' \in {last, task[t].end}
    BY <2>1, <2>4, SameCheckpoint DEF Greatest
  <2>6. \A p \in Papers : row[p] <= task[t].end => PassedByAny(p)
    BY <1>1, <2>4 DEF PassedByAny, Past
  <2>7. \A p \in Papers : row[p] # 0 /\ (row[p] <= last' \/ (s.gen = generation /\ Past(s, p)))
            => PassedByAny(p) \/ (point[p] = generation /\ lock[p] = t)
    <3>1. \A p \in Papers : Past(s, p) => row[p] <= task[t].end
      BY <2>3 DEF Past
    <3>2. \A p \in Papers : row[p] <= last => PassedByAny(p)
      BY DEF PassedByAny, Passed
    <3>3. QED
      BY <2>5, <2>6, <3>1, <3>2
  <2>8. QED
    BY <1>1, <2>1, <2>3, <2>4, <2>5, <2>7, SameLocks, SameCheckpoint, AttemptKeeps
<1>4. QED
  BY <1>2, <1>3

-----------------------------------------------------------------------------
(* The rotations, and the repair of a paper.                               *)

LEMMA RotateTypes ==
    ASSUME TypeOK, Rotate, UNCHANGED <<point, row, inserted, lock, budgets>>,
           collection' \in BOOLEAN, task' \in [Tasks -> TaskStates],
           writer' \in [Writers -> WriterStates]
    PROVE  TypeOK'
<1>1. generation' \in Generations /\ 0 \in Chunks
  BY CheckpointAssumption DEF TypeOK, Rotate, Generations, Chunks
<1>2. QED
  BY <1>1 DEF TypeOK, Rotate

LEMMA BootKeeps ==
    ASSUME CheckpointInv, NEW t \in Tasks, Boot(t)
    PROVE  CheckpointInv'
<1>1. UNCHANGED <<row, inserted, lock, writer, budgets>> /\ TypeOK
  BY DEF Boot, CheckpointInv
<1>2. ASSUME collection' = TRUE, Go(t, "made"), UNCHANGED <<checkpointVars, point, intact, missed>>
      PROVE  CheckpointInv'
  BY <1>1, <1>2, MoveKeeps, SameLocks, SameCheckpoint DEF TaskPcs
<1>3. ASSUME Rotate, Go(t, "load"), UNCHANGED <<collection, point>>
      PROVE  CheckpointInv'
  <2>1. "load" \in TaskPcs
    BY DEF TaskPcs
  <2>2. PICK r \in TaskStates :
            /\ task' = [task EXCEPT ![t] = r]
            /\ r.pc = "load" /\ r.gen = task[t].gen /\ r.last = task[t].last
            /\ r.todo = task[t].todo /\ r.end = task[t].end
    BY <1>1, <1>3, <2>1, GoRecord
  <2>3. /\ task' \in [Tasks -> TaskStates] /\ writer' \in [Writers -> WriterStates]
        /\ collection' \in BOOLEAN
    BY <1>1, <1>3, <2>2 DEF TypeOK
  <2>4. TypeOK'
    BY <1>1, <1>3, <2>3, RotateTypes
  <2>5. \A u \in Tasks :
            /\ task'[u].gen = task[u].gen /\ task'[u].last = task[u].last
            /\ task'[u].end = task[u].end /\ task'[u].todo = task[u].todo
            /\ task'[u].pc = task[u].pc \/ task'[u].pc = "load"
    BY <1>1, <2>2 DEF TypeOK
  <2>6. ControlInv'
    BY <1>1, <1>3, <2>5, RotateKeeps
  <2>7. QED
    BY <2>4, <2>6 DEF CheckpointInv
<1>4. ASSUME Go(t, "load"), UNCHANGED <<checkpointVars, qdrantVars, missed>>
      PROVE  CheckpointInv'
  BY <1>1, <1>4, MoveKeeps, SameLocks, SameCheckpoint DEF TaskPcs
<1>5. QED
  BY <1>2, <1>3, <1>4 DEF Boot

LEMMA RotateMadeKeeps ==
    ASSUME CheckpointInv, NEW t \in Tasks, RotateMade(t)
    PROVE  CheckpointInv'
<1> DEFINE pc == IF task[t].pc = "made" THEN "load" ELSE "probe"
<1>1. /\ Rotate /\ Go(t, pc) /\ task[t].pc \in {"made", "remade"} /\ TypeOK
      /\ UNCHANGED <<collection, point, row, inserted, lock, writer, budgets>>
  BY DEF RotateMade, CheckpointInv
<1>2. pc \in TaskPcs
  BY DEF TaskPcs
<1>3. PICK r \in TaskStates :
          /\ task' = [task EXCEPT ![t] = r]
          /\ r.pc = pc /\ r.gen = task[t].gen /\ r.last = task[t].last
          /\ r.todo = task[t].todo /\ r.end = task[t].end
  BY <1>1, <1>2, GoRecord
<1>4. /\ task' \in [Tasks -> TaskStates] /\ writer' \in [Writers -> WriterStates]
      /\ collection' \in BOOLEAN
  BY <1>1, <1>3 DEF TypeOK
<1>5. TypeOK'
  BY <1>1, <1>4, RotateTypes
<1>6. \A u \in Tasks :
          /\ task'[u].gen = task[u].gen /\ task'[u].last = task[u].last
          /\ task'[u].end = task[u].end /\ task'[u].todo = task[u].todo
          /\ \/ task'[u].pc = task[u].pc \/ task'[u].pc = "load"
             \/ (task[u].pc = "remade" /\ task'[u].pc = "probe")
  BY <1>1, <1>3 DEF TypeOK
<1>7. ControlInv'
  BY <1>1, <1>6, RotateKeeps
<1>8. QED
  BY <1>5, <1>7 DEF CheckpointInv

\* With an old lease the task writes an earlier generation, to a paper nobody
\* is past.
LEMMA WriteKeeps ==
    ASSUME CheckpointInv, NEW t \in Tasks, Write(t)
    PROVE  CheckpointInv'
<1> DEFINE q == Paper(t)
           g == task[t].gen
<1>1. /\ UNCHANGED <<collection, intact, row, inserted, writer, budgets>>
      /\ task[t].pc = "write" /\ TypeOK
  BY DEF Write, CheckpointInv
<1>2. CASE ~collection
  <2>1. Retry(t) /\ UNCHANGED <<point, missed>>
    BY <1>2 DEF Write
  <2>2. QED
    BY <1>1, <2>1, RetryKeeps
<1>3. CASE collection
  <2>1. /\ point' = [point EXCEPT ![q] = g] /\ missed' = missed \ {q}
        /\ EndPaper(t) /\ UNCHANGED checkpointVars
    BY <1>3 DEF Write
  <2>2. PICK r \in TaskStates :
            /\ task' = [task EXCEPT ![t] = r]
            /\ r.gen = g /\ r.last = task[t].last /\ r.end = task[t].end
            /\ r.todo = task[t].todo \ {First(task[t].todo)}
            /\ r.pc = IF r.todo = {} THEN "advance" ELSE "paper"
    BY <1>1, <2>1, RestRecord
  <2>3. /\ lock' \in [Papers -> Actors \cup {Nobody}]
        /\ \A p \in Papers, a \in Actors : a # t /\ lock[p] = a => lock'[p] = a
    BY <1>1, <2>1, RestRecord
  <2>4. /\ q \in Papers /\ lock[q] = t /\ g <= generation
        /\ task[t].last <= inserted /\ task[t].end <= inserted
    BY <1>1, Turns DEF CheckpointInv, ControlInv, LockInv, GenerationsInv, RowsInv
  <2>5. /\ point' \in [Papers -> 0..MaxGeneration] /\ point'[q] = g
        /\ \A p \in Papers : p # q => point'[p] = point[p]
    BY <1>1, <2>1, <2>4 DEF TypeOK, TaskStates
  <2>6. TypeOK'
    <3>1. missed' \subseteq Papers /\ task' \in [Tasks -> TaskStates]
      BY <1>1, <2>1, <2>2 DEF TypeOK
    <3>2. QED
      BY <1>1, <2>1, <2>3, <2>5, <3>1 DEF TypeOK
  <2>7. task'[t] = r /\ \A u \in Tasks : u # t => task'[u] = task[u] /\ Paper(u)' = Paper(u)
    BY <1>1, <2>2 DEF TypeOK, Paper
  <2>8. Tasks \cap Writers = {} /\ Tasks \subseteq Actors /\ Writers \subseteq Actors
    BY CheckpointAssumption DEF Actors
  <2>9. GenerationsInv' /\ RowsInv' /\ EarlyInv'
    BY <1>1, <2>1, <2>2, <2>4, <2>5, <2>7
       DEF CheckpointInv, ControlInv, GenerationsInv, RowsInv, EarlyInv
  <2>10. LockInv'
    <3>1. ASSUME NEW u \in Tasks, u # t, task[u].pc \in Holding
          PROVE  lock'[Paper(u)'] = u
      BY <2>3, <2>7, <2>8, <3>1, Turns DEF CheckpointInv, ControlInv, LockInv
    <3>2. ASSUME NEW w \in Writers, writer[w].pc \in HoldingJob
          PROVE  writer[w].paper \in Papers /\ lock'[writer[w].paper] = w
      BY <2>3, <2>8, <3>2 DEF CheckpointInv, ControlInv, LockInv
    <3>3. QED
      BY <1>1, <2>2, <2>7, <3>1, <3>2 DEF CheckpointInv, ControlInv, LockInv
  <2>11. \A p \in Papers : PassedByAny(p)' => PassedByAny(p) \/ (p = q /\ g = generation)
    <3>1. \A p \in Papers : Past(r, p)' => Past(task[t], p) \/ p = q
      <4>1. \A p \in Papers : Past(r, p)' <=> Past(r, p)
        BY <1>1 DEF Past
      <4>2. QED
        BY <1>1, <2>2, <4>1, PastRest DEF Paper
    <3>2. \A u \in Tasks, p \in Papers : Past(task[u], p)' /\ u # t => Past(task[u], p)
      BY <1>1, <2>7 DEF Past
    <3>3. \A p \in Papers : Past(task[t], p)' => Past(r, p)'
      BY <2>7 DEF Past
    <3>4. QED
      BY <1>1, <2>1, <2>2, <2>7, <3>1, <3>2, <3>3 DEF PassedByAny, Passed
  <2>12. /\ \A u \in Tasks : u # t /\ task[u].pc = "write" => Paper(u) # q
         /\ \A w \in Writers : writer[w].pc \in HoldingJob => writer[w].paper # q
    BY <1>1, Turns
  <2>13. \A p \in Papers : Late(p)' => Late(p) /\ p # q
    <3>1. \A u \in Tasks : task'[u].pc = "write" => u # t
      BY <2>2, <2>7
    <3>2. QED
      BY <1>1, <2>1, <2>7, <2>12, <3>1 DEF Late
  <2>14. LateInv'
    BY <1>1, <2>11, <2>13 DEF CheckpointInv, ControlInv, LateInv
  <2>15. PassedInv'
    <3>1. SUFFICES ASSUME intact, NEW p \in Papers, p \notin missed', PassedByAny(p)', row[p] # 0
                   PROVE  point'[p] = generation
      BY <1>1, <2>1 DEF PassedInv, Covered
    <3>2. CASE p # q
      BY <2>1, <2>5, <2>11, <3>1, <3>2 DEF CheckpointInv, ControlInv, PassedInv, Covered
    <3>3. CASE p = q /\ g # generation
      <4>1. Late(p)
        BY <1>1, <3>3 DEF Late
      <4>2. QED
        BY <2>11, <3>1, <3>3, <4>1 DEF CheckpointInv, ControlInv, LateInv
    <3>4. CASE p = q /\ g = generation
      BY <2>5, <3>4
    <3>5. QED
      BY <3>2, <3>3, <3>4
  <2>16. RepairInv'
    <3>1. SUFFICES ASSUME NEW u \in Tasks, task'[u].pc = "write", task'[u].gen # generation
                   PROVE  point'[Paper(u)'] # generation
      BY <2>1 DEF RepairInv
    <3>2. u # t
      BY <2>2, <2>7, <3>1
    <3>3. task'[u] = task[u] /\ Paper(u)' = Paper(u) /\ Paper(u) # q /\ Paper(u) \in Papers
      BY <2>7, <2>12, <3>1, <3>2, Turns DEF CheckpointInv, ControlInv, LockInv
    <3>4. QED
      BY <2>5, <3>1, <3>3 DEF CheckpointInv, ControlInv, RepairInv
  <2>17. CommitInv'
    <3>1. \A w \in Writers : writer[w].pc = "commit" => writer[w].paper \in Papers \ {q}
      BY <2>12 DEF CheckpointInv, ControlInv, LockInv
    <3>2. QED
      BY <1>1, <2>1, <2>5, <3>1 DEF CheckpointInv, ControlInv, CommitInv
  <2>18. QED
    BY <2>6, <2>9, <2>10, <2>14, <2>15, <2>16, <2>17 DEF CheckpointInv, ControlInv
<1>4. QED
  BY <1>2, <1>3

-----------------------------------------------------------------------------
(* Ordinary jobs.                                                          *)

LEMMA WriterTypes ==
    ASSUME TypeOK, NEW w \in Writers, NEW r \in WriterStates, writer' = [writer EXCEPT ![w] = r],
           UNCHANGED <<checkpointVars, intact, task, faults>>,
           collection' \in BOOLEAN, point' \in [Papers -> 0..MaxGeneration],
           row' \in [Papers -> Chunks], inserted' \in Chunks, missed' \subseteq Papers,
           lock' \in [Papers -> Actors \cup {Nobody}], writes' \in 0..MaxWrites
    PROVE  TypeOK'
BY DEF TypeOK

LEMMA AtRecord ==
    ASSUME TypeOK, NEW w \in Writers, NEW pc \in WriterPcs, At(w, pc)
    PROVE  \E r \in WriterStates :
               /\ writer' = [writer EXCEPT ![w] = r]
               /\ r.pc = pc /\ r.paper = writer[w].paper /\ r.gen = writer[w].gen
               /\ r.early = writer[w].early
<1> DEFINE r == [writer[w] EXCEPT !.pc = pc]
<1>1. writer[w] \in WriterStates
  BY DEF TypeOK
<1>2. /\ r \in WriterStates
      /\ r.pc = pc /\ r.paper = writer[w].paper /\ r.gen = writer[w].gen
      /\ r.early = writer[w].early
  BY <1>1 DEF WriterStates
<1>3. writer' = [writer EXCEPT ![w] = r]
  BY DEF At
<1>4. QED
  BY <1>2, <1>3

LEMMA IdleRecord ==
    Idle \in WriterStates /\ Idle.pc = "idle" /\ Idle.gen = 0 /\ Idle.early = FALSE
BY CheckpointAssumption DEF Idle, WriterStates, WriterPcs

\* What a job does without writing.
LEMMA JobMoves ==
    ASSUME CheckpointInv, NEW w \in Writers, NEW r \in WriterStates,
           writer' = [writer EXCEPT ![w] = r],
           UNCHANGED <<checkpointVars, intact, task, faults, point, rowVars>>,
           collection' \in BOOLEAN, writes' \in 0..MaxWrites,
           lock' \in [Papers -> Actors \cup {Nobody}],
           \A p \in Papers, a \in Actors : a # w /\ lock[p] = a => lock'[p] = a,
           r.gen <= generation,
           r.pc = "wait" => r.early /\ r.paper \in Papers,
           r.pc \in {"store", "commit"} => ~r.early,
           r.pc \in HoldingJob => r.paper \in Papers /\ lock'[r.paper] = w,
           r.pc \in HoldingJob => r.early \/ r.gen = generation
                                  \/ (/\ writer[w].pc \in HoldingJob /\ writer[w].paper = r.paper
                                      /\ ~writer[w].early /\ writer[w].gen # generation),
           r.pc # "commit"
    PROVE  CheckpointInv'
<1>1. TypeOK /\ GenerationsInv /\ RowsInv
  BY DEF CheckpointInv, ControlInv
<1>2. TypeOK'
  <2>1. /\ point' \in [Papers -> 0..MaxGeneration] /\ row' \in [Papers -> Chunks]
        /\ inserted' \in Chunks /\ missed' \subseteq Papers
    BY <1>1 DEF TypeOK
  <2>2. QED
    BY <1>1, <2>1, WriterTypes
<1>3. ControlInv'
  <2>1. /\ inserted' \in Nat /\ inserted <= inserted'
        /\ \A p \in Papers : point'[p] <= generation /\ row'[p] <= inserted'
    BY <1>1, Ranges DEF GenerationsInv, RowsInv
  <2>2. JobGoes(w, r)
    BY DEF JobGoes
  <2>3. UNCHANGED <<point, row, missed>> /\ UNCHANGED <<checkpointVars, intact, task>>
    OBVIOUS
  <2>4. QED
    BY <2>1, <2>2, <2>3, WriterKeeps
<1>4. QED
  BY <1>2, <1>3 DEF CheckpointInv

LEMMA EndMoves ==
    ASSUME CheckpointInv, NEW w \in Writers, EndWrite(w),
           UNCHANGED <<checkpointVars, intact, task, faults, point, rowVars, writes>>,
           collection' \in BOOLEAN
    PROVE  CheckpointInv'
<1>1. TypeOK /\ w \in Actors /\ writer' = [writer EXCEPT ![w] = Idle] /\ lock' = Released(w)
  BY DEF CheckpointInv, Actors, EndWrite
<1>2. /\ lock' \in [Papers -> Actors \cup {Nobody}]
      /\ \A p \in Papers, a \in Actors : a # w /\ lock[p] = a => lock'[p] = a
  BY <1>1, Releases
<1>3. Idle.gen <= generation /\ writes' \in 0..MaxWrites
  BY <1>1, IdleRecord, Ranges DEF TypeOK
<1>4. PICK r \in WriterStates : writer' = [writer EXCEPT ![w] = r] /\ r = Idle
  BY <1>1, IdleRecord
<1>5. r.pc = "idle" /\ r.gen <= generation
  BY <1>3, <1>4, IdleRecord
<1>6. QED
  BY <1>2, <1>3, <1>4, <1>5, JobMoves

LEMMA StartProcessKeeps ==
    ASSUME CheckpointInv, NEW w \in Writers, NEW p \in Papers, StartProcess(w, p)
    PROVE  CheckpointInv'
<1> DEFINE R(pc) == [pc |-> pc, paper |-> p, gen |-> generation, early |-> FALSE]
<1>1. TypeOK /\ w \in Actors /\ lock[p] = Nobody /\ lock' = [lock EXCEPT ![p] = w]
  BY DEF CheckpointInv, Actors, StartProcess
<1>2. PICK pc \in {"probe", "store"} : Start(w, R(pc))
  BY DEF StartProcess
<1>3. /\ lock' \in [Papers -> Actors \cup {Nobody}] /\ lock'[p] = w
      /\ \A q \in Papers, a \in Actors : a # w /\ lock[q] = a => lock'[q] = a
  BY <1>1, CheckpointAssumption DEF TypeOK, Actors
<1>4. PICK r \in WriterStates :
          /\ writer' = [writer EXCEPT ![w] = r]
          /\ r.pc = pc /\ r.paper = p /\ r.gen = generation /\ r.early = FALSE
  <2>1. R(pc) \in WriterStates
    BY <1>1 DEF TypeOK, WriterStates, WriterPcs, Generations
  <2>2. QED
    BY <1>2, <2>1 DEF Start
<1>5. /\ UNCHANGED <<checkpointVars, intact, task, faults, point, rowVars>>
      /\ collection' \in BOOLEAN /\ writes' \in 0..MaxWrites
  BY <1>1, <1>2, CheckpointAssumption DEF Start, TypeOK
<1>6. r.gen <= generation
  BY <1>1, <1>4, Ranges
<1>7. QED
  BY <1>3, <1>4, <1>5, <1>6, JobMoves

LEMMA StartReconcileKeeps ==
    ASSUME CheckpointInv, NEW w \in Writers, NEW p \in Papers, StartReconcile(w, p)
    PROVE  CheckpointInv'
<1> DEFINE R == [pc |-> "wait", paper |-> p, gen |-> generation, early |-> TRUE]
<1>1. TypeOK /\ Start(w, R) /\ UNCHANGED lock
  BY DEF CheckpointInv, StartReconcile
<1>2. PICK r \in WriterStates :
          /\ writer' = [writer EXCEPT ![w] = r]
          /\ r.pc = "wait" /\ r.paper = p /\ r.gen = generation /\ r.early = TRUE
  <2>1. R \in WriterStates
    BY <1>1 DEF TypeOK, WriterStates, WriterPcs, Generations
  <2>2. QED
    BY <1>1, <2>1 DEF Start
<1>3. /\ UNCHANGED <<checkpointVars, intact, task, faults, point, rowVars>>
      /\ collection' \in BOOLEAN /\ writes' \in 0..MaxWrites
  BY <1>1, CheckpointAssumption DEF Start, TypeOK
<1>4. r.gen <= generation
  BY <1>1, <1>2, Ranges
<1>5. QED
  BY <1>1, <1>2, <1>3, <1>4, SameLocks, JobMoves

LEMMA WaitKeeps ==
    ASSUME CheckpointInv, NEW w \in Writers, Wait(w)
    PROVE  CheckpointInv'
<1> DEFINE p == writer[w].paper
<1>1. /\ TypeOK /\ w \in Actors /\ writer[w].pc = "wait" /\ lock[p] = Nobody
      /\ lock' = [lock EXCEPT ![p] = w] /\ At(w, "probe") /\ "probe" \in WriterPcs
      /\ UNCHANGED <<checkpointVars, qdrantVars, rowVars, task, budgets>>
  BY DEF CheckpointInv, Actors, Wait, WriterPcs
<1>2. p \in Papers /\ writer[w].early /\ writer[w].gen <= generation
  BY <1>1 DEF CheckpointInv, ControlInv, EarlyInv, GenerationsInv
<1>3. /\ lock' \in [Papers -> Actors \cup {Nobody}] /\ lock'[p] = w
      /\ \A q \in Papers, a \in Actors : a # w /\ lock[q] = a => lock'[q] = a
  BY <1>1, <1>2, CheckpointAssumption DEF TypeOK, Actors
<1>4. PICK r \in WriterStates :
          /\ writer' = [writer EXCEPT ![w] = r]
          /\ r.pc = "probe" /\ r.paper = p /\ r.gen = writer[w].gen /\ r.early = writer[w].early
  BY <1>1, AtRecord
<1>5. collection' \in BOOLEAN /\ writes' \in 0..MaxWrites
  BY <1>1 DEF TypeOK
<1>6. QED
  BY <1>1, <1>2, <1>3, <1>4, <1>5, JobMoves

LEMMA FailWriteKeeps ==
    ASSUME CheckpointInv, NEW w \in Writers, FailWrite(w)
    PROVE  CheckpointInv'
<1>1. /\ EndWrite(w) /\ UNCHANGED <<checkpointVars, qdrantVars, rowVars, task, budgets>>
      /\ collection' \in BOOLEAN
  BY SameCheckpoint DEF FailWrite
<1>2. QED
  BY <1>1, EndMoves

LEMMA RotateRemadeKeeps ==
    ASSUME CheckpointInv, NEW w \in Writers, RotateRemade(w)
    PROVE  CheckpointInv'
<1>1. /\ Rotate /\ At(w, "probe") /\ writer[w].pc = "remade" /\ TypeOK
      /\ "probe" \in WriterPcs
      /\ UNCHANGED <<collection, point, row, inserted, lock, task, budgets>>
  BY DEF RotateRemade, CheckpointInv, WriterPcs
<1>2. PICK r \in WriterStates :
          /\ writer' = [writer EXCEPT ![w] = r]
          /\ r.pc = "probe" /\ r.paper = writer[w].paper /\ r.gen = writer[w].gen
          /\ r.early = writer[w].early
  BY <1>1, AtRecord
<1>3. /\ task' \in [Tasks -> TaskStates] /\ writer' \in [Writers -> WriterStates]
      /\ collection' \in BOOLEAN
  BY <1>1, <1>2 DEF TypeOK
<1>4. TypeOK'
  BY <1>1, <1>3, RotateTypes
<1>5. \A v \in Writers :
          /\ writer'[v].gen = writer[v].gen /\ writer'[v].paper = writer[v].paper
          /\ writer'[v].early = writer[v].early
          /\ \/ writer'[v].pc = writer[v].pc
             \/ (writer[v].pc = "remade" /\ writer'[v].pc = "probe")
  BY <1>1, <1>2 DEF TypeOK
<1>6. ControlInv'
  BY <1>1, <1>5, RotateKeeps
<1>7. QED
  BY <1>4, <1>6 DEF CheckpointInv

\* A job that is not the early one writes only what the reconciler will come to.
LEMMA LateJob ==
    ASSUME CheckpointInv, NEW w \in Writers, writer[w].pc \in HoldingJob, ~writer[w].early,
           writer[w].gen # generation, row[writer[w].paper] # 0
    PROVE  ~PassedByAny(writer[w].paper)
<1>1. writer[w].paper \in Papers /\ LateInv
  BY DEF CheckpointInv, ControlInv, LockInv
<1>2. Late(writer[w].paper)
  BY DEF Late
<1>3. QED
  BY <1>1, <1>2 DEF LateInv

LEMMA StampKeeps ==
    ASSUME CheckpointInv, NEW w \in Writers, NEW p, p = writer[w].paper, Stamp(w)
    PROVE  CheckpointInv'
<1> DEFINE g == writer[w].gen
<1>1. /\ TypeOK /\ w \in Actors /\ writer[w].pc = "probe"
      /\ UNCHANGED <<checkpointVars, intact, row, inserted, task, budgets>>
  BY DEF CheckpointInv, Actors, Stamp
<1>2. p \in Papers /\ lock[p] = w /\ g <= generation
  BY <1>1 DEF CheckpointInv, ControlInv, LockInv, GenerationsInv
<1>3. ASSUME EndWrite(w), UNCHANGED <<collection, point, missed>>
      PROVE  CheckpointInv'
  BY <1>1, <1>3, EndMoves, SameCheckpoint
<1>4. ASSUME collection' = TRUE, At(w, "remade"), UNCHANGED <<point, missed, lock>>
      PROVE  CheckpointInv'
  <2>1. PICK r \in WriterStates :
            /\ writer' = [writer EXCEPT ![w] = r]
            /\ r.pc = "remade" /\ r.paper = p /\ r.gen = g /\ r.early = writer[w].early
    BY <1>1, <1>4, AtRecord DEF WriterPcs
  <2>2. writes' \in 0..MaxWrites
    BY <1>1 DEF TypeOK
  <2>3. QED
    BY <1>1, <1>2, <1>4, <2>1, <2>2, SameLocks, JobMoves
<1>5. ASSUME row[p] # 0, point' = [point EXCEPT ![p] = g],
             missed' = IF writer[w].early /\ g # generation THEN missed \cup {p} ELSE missed \ {p},
             EndWrite(w), UNCHANGED collection
      PROVE  CheckpointInv'
  <2>1. PICK r \in WriterStates :
            writer' = [writer EXCEPT ![w] = r] /\ r.pc = "idle" /\ r.gen = 0
    BY <1>5, IdleRecord DEF EndWrite
  <2>2. /\ lock' \in [Papers -> Actors \cup {Nobody}]
        /\ \A q \in Papers, a \in Actors : a # w /\ lock[q] = a => lock'[q] = a
    BY <1>1, <1>5, Releases DEF EndWrite
  <2>3. /\ point' \in [Papers -> 0..MaxGeneration] /\ point'[p] = g
        /\ \A q \in Papers : q # p => point'[q] = point[q]
    BY <1>1, <1>2, <1>5 DEF TypeOK, WriterStates
  <2>4. /\ missed' \subseteq Papers
        /\ \A q \in Papers : q # p => (q \in missed' <=> q \in missed)
    BY <1>1, <1>2, <1>5 DEF TypeOK
  <2>5. TypeOK'
    <3>1. /\ collection' \in BOOLEAN /\ row' \in [Papers -> Chunks] /\ inserted' \in Chunks
          /\ writes' \in 0..MaxWrites
      BY <1>1, <1>5 DEF TypeOK
    <3>2. QED
      BY <1>1, <2>1, <2>2, <2>3, <2>4, <3>1, WriterTypes
  <2>6. (intact /\ p \notin missed' /\ row'[p] # 0 /\ PassedByAny(p)) => point'[p] = generation
    <3>1. SUFFICES ASSUME p \notin missed', PassedByAny(p), g # generation
                   PROVE  FALSE
      BY <2>3
    <3>2. ~writer[w].early
      BY <1>5, <3>1
    <3>3. QED
      BY <1>1, <1>5, <3>1, <3>2, LateJob
  <2>7. ControlInv'
    <3>1. /\ inserted' \in Nat /\ inserted <= inserted'
          /\ \A q \in Papers : point'[q] <= generation /\ row'[q] <= inserted'
      BY <1>1, <1>2, <2>3, Ranges DEF CheckpointInv, ControlInv, GenerationsInv, RowsInv
    <3>2. r.gen <= generation /\ r.pc \notin HoldingJob \cup {"wait"}
      BY <1>1, <2>1, Ranges
    <3>3. JobGoes(w, r)
      BY <3>2 DEF JobGoes
    <3>4. WritesTo(w, r, p)
      BY <1>1, <1>2, <2>3, <2>4, <2>6, <3>2 DEF WritesTo
    <3>5. UNCHANGED <<checkpointVars, intact, task>>
      BY <1>1
    <3>6. QED
      BY <2>1, <2>2, <3>1, <3>3, <3>4, <3>5, WriterKeeps
  <2>8. QED
    BY <2>5, <2>7 DEF CheckpointInv
<1>6. QED
  BY <1>3, <1>4, <1>5 DEF Stamp

LEMMA StoreKeeps ==
    ASSUME CheckpointInv, NEW w \in Writers, NEW p, p = writer[w].paper, Store(w)
    PROVE  CheckpointInv'
<1> DEFINE g == writer[w].gen
<1>1. /\ TypeOK /\ w \in Actors /\ writer[w].pc = "store" /\ ~writer[w].early
      /\ UNCHANGED <<checkpointVars, collection, intact, rowVars, task, budgets>>
  BY DEF CheckpointInv, ControlInv, EarlyInv, Actors, Store
<1>2. p \in Papers /\ lock[p] = w /\ g <= generation
  BY <1>1 DEF CheckpointInv, ControlInv, LockInv, GenerationsInv
<1>3. ASSUME EndWrite(w), UNCHANGED point
      PROVE  CheckpointInv'
  BY <1>1, <1>3, EndMoves, SameCheckpoint
<1>4. ASSUME point' = [point EXCEPT ![p] = g], At(w, "commit"), UNCHANGED lock
      PROVE  CheckpointInv'
  <2>1. PICK r \in WriterStates :
            /\ writer' = [writer EXCEPT ![w] = r]
            /\ r.pc = "commit" /\ r.paper = p /\ r.gen = g /\ r.early = writer[w].early
    BY <1>1, <1>4, AtRecord DEF WriterPcs
  <2>2. /\ point' \in [Papers -> 0..MaxGeneration] /\ point'[p] = g
        /\ \A q \in Papers : q # p => point'[q] = point[q]
    BY <1>1, <1>2, <1>4 DEF TypeOK, WriterStates
  <2>3. TypeOK'
    <3>1. /\ collection' \in BOOLEAN /\ row' \in [Papers -> Chunks] /\ inserted' \in Chunks
          /\ missed' \subseteq Papers /\ writes' \in 0..MaxWrites
      BY <1>1 DEF TypeOK
    <3>2. QED
      BY <1>1, <1>4, <2>1, <2>2, <3>1, SameLocks, WriterTypes
  <2>4. row[p] # 0 /\ g # generation => ~PassedByAny(p)
    BY <1>1, LateJob
  <2>5. ControlInv'
    <3>1. /\ inserted' \in Nat /\ inserted <= inserted'
          /\ \A q \in Papers : point'[q] <= generation /\ row'[q] <= inserted'
      BY <1>1, <1>2, <2>2, Ranges DEF CheckpointInv, ControlInv, GenerationsInv, RowsInv
    <3>2. JobGoes(w, r)
      BY <1>1, <1>2, <1>4, <2>1, <2>2 DEF JobGoes
    <3>3. WritesTo(w, r, p)
      BY <1>1, <1>2, <2>1, <2>2, <2>4 DEF WritesTo
    <3>4. UNCHANGED <<checkpointVars, intact, task>>
      BY <1>1
    <3>5. \A q \in Papers, a \in Actors : a # w /\ lock[q] = a => lock'[q] = a
      BY <1>4
    <3>6. QED
      BY <2>1, <3>1, <3>2, <3>3, <3>4, <3>5, WriterKeeps
  <2>6. QED
    BY <2>3, <2>5 DEF CheckpointInv
<1>5. QED
  BY <1>3, <1>4 DEF Store

\* A row that comes now is ahead of everybody who has not completed.
LEMMA CommitRowsKeeps ==
    ASSUME CheckpointInv, NEW w \in Writers, NEW p, p = writer[w].paper, CommitRows(w)
    PROVE  CheckpointInv'
<1> DEFINE g == writer[w].gen
<1>1. /\ TypeOK /\ w \in Actors /\ writer[w].pc = "commit" /\ ~writer[w].early
      /\ EndWrite(w) /\ UNCHANGED <<checkpointVars, qdrantVars, task, budgets>>
  BY DEF CheckpointInv, ControlInv, EarlyInv, Actors, CommitRows
<1>2. p \in Papers /\ lock[p] = w
  BY <1>1 DEF CheckpointInv, ControlInv, LockInv
<1>3. missed' = IF row[p] = 0 /\ g # generation THEN missed \cup {p} ELSE missed \ {p}
  BY DEF CommitRows
<1>4. /\ row' \in [Papers -> Chunks] /\ inserted' \in Chunks /\ inserted' \in Nat
      /\ inserted <= inserted' /\ \A q \in Papers : q # p => row'[q] = row[q]
      /\ (row[p] # 0 /\ row'[p] = row[p]) \/ (row'[p] = inserted + 1 /\ inserted' = inserted + 1)
  <2>1. inserted \in Nat /\ MaxChunk \in Nat
    BY <1>1, Ranges
  <2>2. CASE row[p] # 0 /\ UNCHANGED <<row, inserted>>
    BY <1>1, <2>1, <2>2 DEF TypeOK
  <2>3. CASE /\ inserted < MaxChunk
             /\ inserted' = inserted + 1 /\ row' = [row EXCEPT ![p] = inserted + 1]
    <3>1. inserted + 1 \in Chunks
      BY <2>1, <2>3 DEF Chunks
    <3>2. QED
      BY <1>1, <1>2, <2>1, <2>3, <3>1 DEF TypeOK
  <2>4. QED
    BY <2>2, <2>3 DEF CommitRows
<1>5. PICK r \in WriterStates :
          writer' = [writer EXCEPT ![w] = r] /\ r.pc = "idle" /\ r.gen = 0
  BY <1>1, IdleRecord DEF EndWrite
<1>6. /\ lock' \in [Papers -> Actors \cup {Nobody}]
      /\ \A q \in Papers, a \in Actors : a # w /\ lock[q] = a => lock'[q] = a
  BY <1>1, Releases DEF EndWrite
<1>7. missed' \subseteq Papers /\ \A q \in Papers : q # p => (q \in missed' <=> q \in missed)
  BY <1>1, <1>2, <1>3 DEF TypeOK
<1>8. TypeOK'
  <2>1. collection' \in BOOLEAN /\ point' \in [Papers -> 0..MaxGeneration]
        /\ writes' \in 0..MaxWrites
    BY <1>1 DEF TypeOK
  <2>2. QED
    BY <1>1, <1>4, <1>5, <1>6, <1>7, <2>1, WriterTypes
<1>9. (intact /\ p \notin missed' /\ row'[p] # 0 /\ PassedByAny(p)) => point'[p] = generation
  <2>1. CASE g = generation
    BY <1>1, <2>1 DEF CheckpointInv, ControlInv, CommitInv
  <2>2. CASE g # generation /\ row[p] = 0
    BY <1>3, <2>2
  <2>3. CASE g # generation /\ row[p] # 0
    BY <1>1, <2>3, LateJob
  <2>4. QED
    BY <2>1, <2>2, <2>3
<1>10. ControlInv'
  <2>1. \A q \in Papers : point'[q] <= generation /\ row'[q] <= inserted'
    <3>1. inserted \in Nat /\ \A q \in Papers : row[q] \in Nat /\ row[q] <= inserted
      BY Ranges DEF CheckpointInv, ControlInv, RowsInv
    <3>2. QED
      BY <1>1, <1>4, <3>1 DEF CheckpointInv, ControlInv, GenerationsInv
  <2>2. r.gen <= generation /\ r.pc \notin HoldingJob \cup {"wait"}
    BY <1>1, <1>5, Ranges
  <2>3. JobGoes(w, r)
    BY <2>2 DEF JobGoes
  <2>4. WritesTo(w, r, p)
    BY <1>1, <1>2, <1>4, <1>7, <1>9, <2>2 DEF WritesTo
  <2>5. UNCHANGED <<checkpointVars, intact, task>>
    BY <1>1
  <2>6. QED
    BY <1>4, <1>5, <1>6, <2>1, <2>3, <2>4, <2>5, WriterKeeps
<1>11. QED
  BY <1>8, <1>10 DEF CheckpointInv

-----------------------------------------------------------------------------
(* What happens around them.                                               *)

LEMMA DiscardKeeps ==
    ASSUME CheckpointInv, NEW q \in Papers, Discard(q)
    PROVE  CheckpointInv'
<1>1. /\ row' = [row EXCEPT ![q] = 0] /\ missed' = missed \ {q} /\ TypeOK
      /\ UNCHANGED <<checkpointVars, qdrantVars, inserted, lock, task, writer, budgets>>
  BY DEF Discard, CheckpointInv
<1>2. /\ row' \in [Papers -> Chunks] /\ row'[q] = 0
      /\ \A p \in Papers : p # q => row'[p] = row[p] /\ (p \in missed' <=> p \in missed)
  BY <1>1, CheckpointAssumption DEF TypeOK, Chunks
<1>3. TypeOK'
  BY <1>1, <1>2 DEF TypeOK
<1>4. \A p \in Papers : p # q => (PassedByAny(p)' <=> PassedByAny(p))
  BY <1>1, <1>2 DEF PassedByAny, Passed, Past
<1>5. \A t \in Tasks : Paper(t)' = Paper(t)
  BY <1>1 DEF Paper
<1>6. \A p \in Papers : Late(p)' <=> Late(p)
  BY <1>1, <1>5 DEF Late
<1>7. GenerationsInv' /\ LockInv' /\ EarlyInv' /\ RepairInv' /\ CommitInv'
  BY <1>1, <1>5 DEF CheckpointInv, ControlInv, GenerationsInv, LockInv, EarlyInv, RepairInv,
                    CommitInv
<1>8. RowsInv'
  <2>1. inserted \in Nat
    BY <1>1, Ranges
  <2>2. QED
    BY <1>1, <1>2, <2>1 DEF CheckpointInv, ControlInv, RowsInv
<1>9. LateInv'
  BY <1>2, <1>4, <1>6 DEF CheckpointInv, ControlInv, LateInv
<1>10. PassedInv'
  BY <1>1, <1>2, <1>4 DEF CheckpointInv, ControlInv, PassedInv, Covered
<1>11. QED
  BY <1>3, <1>7, <1>8, <1>9, <1>10 DEF CheckpointInv, ControlInv

\* Leases only matter when they are checked.
LEMMA LeaseKeeps ==
    ASSUME CheckpointInv,
           UNCHANGED <<generation, status, last, holder, qdrantVars, rowVars, lock, task, writer,
                       writes>>,
           expired' \in BOOLEAN, faults' \in 0..MaxFaults
    PROVE  CheckpointInv'
<1>1. TypeOK'
  BY DEF CheckpointInv, TypeOK
<1>2. \A t \in Tasks : Paper(t)' = Paper(t)
  BY DEF Paper
<1>3. \A p \in Papers : (PassedByAny(p)' <=> PassedByAny(p)) /\ (Late(p)' <=> Late(p))
  BY <1>2 DEF PassedByAny, Passed, Past, Late
<1>4. GenerationsInv' /\ RowsInv' /\ LockInv' /\ EarlyInv' /\ RepairInv' /\ CommitInv'
  BY <1>2 DEF CheckpointInv, ControlInv, GenerationsInv, RowsInv, LockInv, EarlyInv, RepairInv,
              CommitInv
<1>5. LateInv' /\ PassedInv'
  BY <1>3 DEF CheckpointInv, ControlInv, LateInv, PassedInv, Covered
<1>6. QED
  BY <1>1, <1>4, <1>5 DEF CheckpointInv, ControlInv

LEMMA ExpireKeeps ==
    ASSUME CheckpointInv, Expire \/ ExpireGone
    PROVE  CheckpointInv'
<1>1. faults' \in 0..MaxFaults
  BY CheckpointAssumption DEF CheckpointInv, TypeOK, Expire, ExpireGone, Fault
<1>2. QED
  BY <1>1, LeaseKeeps DEF Expire, ExpireGone, Fault

LEMMA LoseCollectionKeeps ==
    ASSUME CheckpointInv, LoseCollection
    PROVE  CheckpointInv'
<1>1. /\ collection' = FALSE /\ intact' = FALSE /\ point' = [p \in Papers |-> 0] /\ TypeOK
      /\ UNCHANGED <<checkpointVars, rowVars, lock, task, writer>>
  BY DEF LoseCollection, CheckpointInv
<1>2. generation \in Nat \ {0}
  BY <1>1, Ranges
<1>3. TypeOK'
  <2>1. faults' \in 0..MaxFaults /\ writes' \in 0..MaxWrites /\ 0 \in 0..MaxGeneration
    BY <1>1, CheckpointAssumption DEF LoseCollection, Fault, TypeOK
  <2>2. QED
    BY <1>1, <2>1 DEF TypeOK
<1>4. \A t \in Tasks : Paper(t)' = Paper(t)
  BY <1>1 DEF Paper
<1>5. \A p \in Papers : (PassedByAny(p)' <=> PassedByAny(p)) /\ (Late(p)' <=> Late(p))
  BY <1>1, <1>4 DEF PassedByAny, Passed, Past, Late
<1>6. GenerationsInv'
  BY <1>1, <1>2 DEF CheckpointInv, ControlInv, GenerationsInv
<1>7. RowsInv' /\ LockInv' /\ EarlyInv'
  BY <1>1, <1>4 DEF CheckpointInv, ControlInv, RowsInv, LockInv, EarlyInv
<1>8. LateInv' /\ PassedInv' /\ CommitInv'
  BY <1>1, <1>5 DEF CheckpointInv, ControlInv, LateInv, PassedInv, CommitInv
<1>9. RepairInv'
  <2>1. \A t \in Tasks : task[t].pc = "write" => Paper(t) \in Papers
    BY Turns DEF CheckpointInv, ControlInv, LockInv
  <2>2. QED
    BY <1>1, <1>2, <1>4, <2>1 DEF RepairInv
<1>10. QED
  BY <1>3, <1>6, <1>7, <1>8, <1>9 DEF CheckpointInv, ControlInv

-----------------------------------------------------------------------------
(* The invariant.                                                          *)

LEMMA InitInv == Init => CheckpointInv
<1> SUFFICES ASSUME Init PROVE CheckpointInv
  OBVIOUS
<1>1. inserted = Cardinality(Stored) /\ inserted \in Chunks /\ inserted \in Nat
  BY StoredAssumption, CheckpointAssumption, FS_CardinalityType DEF Init, Chunks
<1>2. row \in [Papers -> Chunks] /\ \A p \in Papers : row[p] <= inserted /\ row[p] \in Nat
  <2>1. PICK id \in [Stored -> 1..inserted] :
            row = [p \in Papers |-> IF p \in Stored THEN id[p] ELSE 0]
    BY DEF Init, Injection
  <2>2. \A p \in Papers : row[p] \in 0..inserted
    BY <1>1, <2>1
  <2>3. 0..inserted \subseteq Chunks
    BY <1>1, CheckpointAssumption DEF Chunks
  <2>4. QED
    BY <1>1, <2>1, <2>2, <2>3
<1>3. /\ \A t \in Tasks : /\ task[t].pc = "load" /\ task[t].gen = 0 /\ task[t].last = 0
                          /\ task[t].todo = {} /\ task[t].end = 0
      /\ task \in [Tasks -> TaskStates]
  <2>1. 0 \in 0..MaxGeneration /\ 0 \in Chunks
    BY CheckpointAssumption DEF Chunks
  <2>2. QED
    BY <2>1 DEF Init, Down, TaskStates, TaskPcs
<1>4. /\ \A w \in Writers : writer[w].pc = "idle" /\ writer[w].gen = 0
      /\ writer \in [Writers -> WriterStates]
  BY IdleRecord DEF Init
<1>5. TypeOK
  <2>1. /\ 1 \in Generations /\ 0 \in Chunks /\ 0 \in 0..MaxGeneration /\ 0 \in 0..MaxWrites
        /\ 0 \in 0..MaxFaults
    BY CheckpointAssumption DEF Generations, Chunks
  <2>2. QED
    BY <1>1, <1>2, <1>3, <1>4, <2>1 DEF Init, TypeOK
<1>6. \A p \in Papers : point[p] = 0
  BY DEF Init
<1>7. GenerationsInv /\ RowsInv /\ LockInv /\ EarlyInv
  BY <1>1, <1>2, <1>3, <1>4, <1>6 DEF Init, GenerationsInv, RowsInv, LockInv, EarlyInv
<1>8. \A p \in Papers : PassedByAny(p) => row[p] = 0
  BY <1>2, <1>3 DEF Init, PassedByAny, Passed
<1>9. \A p \in Papers : ~Late(p)
  BY <1>3, <1>4 DEF Late
<1>10. LateInv /\ PassedInv /\ RepairInv /\ CommitInv
  BY <1>3, <1>4, <1>8, <1>9 DEF LateInv, PassedInv, Covered, RepairInv, CommitInv
<1>11. QED
  BY <1>5, <1>7, <1>10 DEF CheckpointInv, ControlInv

LEMMA StepInv == CheckpointInv /\ [Next]_vars => CheckpointInv'
<1> SUFFICES ASSUME CheckpointInv, [Next]_vars PROVE CheckpointInv'
  OBVIOUS
<1>1. ASSUME NEW t \in Tasks, Work(t) PROVE CheckpointInv'
  BY <1>1, BootKeeps, RotateMadeKeeps, LoadKeeps, ClaimKeeps, ScanKeeps, TakeKeeps, ProbeKeeps,
     WriteKeeps, AdvanceKeeps, CompleteKeeps DEF Work
<1>2. ASSUME NEW t \in Tasks, Crash(t) PROVE CheckpointInv'
  BY <1>2, CrashKeeps
<1>3. ASSUME NEW w \in Writers, NEW p \in Papers, StartProcess(w, p) \/ StartReconcile(w, p)
      PROVE  CheckpointInv'
  BY <1>3, StartProcessKeeps, StartReconcileKeeps
<1>4. ASSUME NEW w \in Writers, WriterStep(w) PROVE CheckpointInv'
  <2>1. PICK p : p = writer[w].paper
    OBVIOUS
  <2>2. CASE Stamp(w) \/ Store(w) \/ CommitRows(w)
    BY <2>1, <2>2, StampKeeps, StoreKeeps, CommitRowsKeeps
  <2>3. CASE Wait(w) \/ RotateRemade(w) \/ FailWrite(w)
    BY <2>3, WaitKeeps, RotateRemadeKeeps, FailWriteKeeps
  <2>4. QED
    BY <1>4, <2>2, <2>3 DEF WriterStep
<1>5. ASSUME NEW p \in Papers, Discard(p) PROVE CheckpointInv'
  BY <1>5, DiscardKeeps
<1>6. CASE Expire \/ ExpireGone
  BY <1>6, ExpireKeeps
<1>7. CASE LoseCollection
  BY <1>7, LoseCollectionKeeps
<1>8. CASE UNCHANGED vars
  <2>1. expired' \in BOOLEAN /\ faults' \in 0..MaxFaults
    BY <1>8 DEF CheckpointInv, TypeOK
  <2>2. QED
    BY <1>8, <2>1, LeaseKeeps
<1>9. QED
  BY <1>1, <1>2, <1>3, <1>4, <1>5, <1>6, <1>7, <1>8 DEF Next

THEOREM InvHolds == Spec => []CheckpointInv
<1>1. QED
  BY InitInv, StepInv, PTL DEF Spec

-----------------------------------------------------------------------------
(* The theorems.                                                           *)

(***************************************************************************)
(* The variables have their types: the checkpoint never names a generation *)
(* or a row out of its bounds, whoever rotates or advances it              *)
(* (visibility_checkpoint.py:69, rotate_visibility_checkpoint_v1).         *)
(***************************************************************************)
THEOREM TypeCorrect == Spec => []TypeOK
<1>1. CheckpointInv => TypeOK
  BY DEF CheckpointInv
<1>2. QED
  BY <1>1, InvHolds, PTL

(***************************************************************************)
(* Every chunk row that a reconciler went past has its points in the       *)
(* current generation, whatever the leases, rotations, crashes and jobs in *)
(* between (payload_schema.py:407, reconcile_visibility_payloads).         *)
(***************************************************************************)
THEOREM LeavesNothingBehind == Spec => []NothingLeftBehind
<1>1. CheckpointInv => NothingLeftBehind
  BY DEF CheckpointInv, ControlInv, PassedInv, PassedByAny, NothingLeftBehind
<1>2. QED
  BY <1>1, InvHolds, PTL

(***************************************************************************)
(* A task that writes after it lost its lease never takes the points of    *)
(* the current generation back (embedding_reconcile.py:153,                *)
(* _require_current_worker_lease).                                         *)
(***************************************************************************)
THEOREM KeepsRepairs == Spec => RepairIsKept
<1> DEFINE Kept == \A t \in Tasks, p \in Papers :
                       task[t].pc = "write" /\ task'[t].pc # "write" /\ point[p] = generation
                           => point'[p] = generation' \/ ~collection'
<1>1. CheckpointInv /\ [Next]_vars => [Kept]_vars
  <2>1. SUFFICES ASSUME CheckpointInv, Next, NEW t \in Tasks, NEW p \in Papers,
                        task[t].pc = "write", task'[t].pc # "write", point[p] = generation
                 PROVE  point'[p] = generation' \/ ~collection'
    OBVIOUS
  <2>2. task \in [Tasks -> TaskStates] /\ point \in [Papers -> 0..MaxGeneration]
    BY <2>1 DEF CheckpointInv, TypeOK
  <2>3. ASSUME NEW u \in Tasks, Work(u) \/ Crash(u), u # t PROVE FALSE
    <3>1. task'[t] = task[t]
      BY <2>2, <2>3 DEF Work, Boot, RotateMade, Load, Claim, Scan, Take, Probe, Write, Advance,
                        Complete, Crash, Go, Retry, EndAttempt, EndPaper
    <3>2. QED
      BY <2>1, <3>1
  <2>4. CASE Work(t)
    <3>1. Write(t)
      BY <2>1, <2>4 DEF Work, Boot, RotateMade, Load, Claim, Scan, Take, Probe, Advance, Complete
    <3>2. generation' = generation
      BY <3>1 DEF Write, Retry
    <3>3. CASE point' = point
      BY <2>1, <3>2, <3>3
    <3>4. CASE point' = [point EXCEPT ![Paper(t)] = task[t].gen]
      <4>1. p = Paper(t) => task[t].gen = generation
        BY <2>1 DEF CheckpointInv, ControlInv, RepairInv
      <4>2. QED
        BY <2>1, <2>2, <3>2, <3>4, <4>1
    <3>5. QED
      BY <3>1, <3>3, <3>4 DEF Write
  <2>5. CASE Crash(t)
    BY <2>1, <2>5 DEF Crash
  <2>6. ASSUME UNCHANGED task PROVE FALSE
    BY <2>1, <2>6
  <2>7. CASE \E w \in Writers, q \in Papers : StartProcess(w, q) \/ StartReconcile(w, q)
    BY <2>6, <2>7 DEF StartProcess, StartReconcile, Start
  <2>8. CASE \E w \in Writers : WriterStep(w)
    BY <2>6, <2>8 DEF WriterStep, Wait, Stamp, RotateRemade, Store, CommitRows, FailWrite
  <2>9. CASE (\E q \in Papers : Discard(q)) \/ Expire \/ ExpireGone \/ LoseCollection
    BY <2>6, <2>9 DEF Discard, Expire, ExpireGone, LoseCollection
  <2>10. QED
    BY <2>1, <2>3, <2>4, <2>5, <2>7, <2>8, <2>9 DEF Next
<1>2. QED
  BY <1>1, InvHolds, PTL DEF Spec, RepairIsKept
=============================================================================
