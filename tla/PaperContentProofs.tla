------------------------- MODULE PaperContentProofs -------------------------
(***************************************************************************)
(* What PaperContent guarantees for any number of jobs, downloads,         *)
(* promotions, failures, restarts and losses: type correctness, that rows  *)
(* belong to the current source and have vectors, and that, without a      *)
(* restart, the pointer and an erasure agree with the stored file.         *)
(***************************************************************************)
EXTENDS PaperContent, TLAPS

\* Enumerations and groups of variables, expanded everywhere.
USE DEF paperVars, fileVars, budgets,
        published, publishing, outside, working, environment

-----------------------------------------------------------------------------
(* The invariants.                                                         *)

\* A job that has begun holds the lock of the paper.
WorkersHoldTheLock == \A j \in Jobs : job[j].pc # "idle" => paperLock = j

\* The attempts of a reconciliation are counted when it takes its snapshot.
TriesLeft ==
    \A j \in Jobs : job[j].pc \in {"idle", "source", "ready", "snapshot"}
                        => job[j].tries < MaxAttempts

\* A job that embeds or stores has content.
WorkersHaveContent ==
    \A j \in Jobs : job[j].pc \in {"store", "partial", "commit", "probe", "embed"}
                        => job[j].content \in Urls

ReclaimsAreOwed == owed <= promotions

JobsInv == WorkersHoldTheLock /\ TriesLeft /\ WorkersHaveContent /\ ReclaimsAreOwed

\* A publication under way holds the publication lock, and only it does.
PublishersHoldTheLock ==
    \A d \in Downloads : (download[d].pc \in {"aside", "promoted"}) <=> publishLock = d

PlacedIsTheirs == \A d \in Downloads : download[d].pc = "promoted" => file = download[d].url

\* The file of the last publication that ended: put aside during the next one.
Kept == IF publishLock = Free THEN file ELSE spare

KeptIsCurrent ==
    /\ paper.pointer => Kept = paper.url \/ (torn /\ Kept = Nothing)
    /\ ~paper.exists => Kept = Nothing

PublicationInv ==
    /\ paper.pointer => paper.exists
    /\ crashes = 0 => PublishersHoldTheLock /\ PlacedIsTheirs /\ KeptIsCurrent

-----------------------------------------------------------------------------
(* Types.                                                                  *)

LEMMA SourcesAreTyped ==
    /\ Nothing \in Sources /\ Urls \subseteq Sources /\ Nothing \notin Urls
    /\ NoRows \notin Rows /\ NoPoint \notin Points
  BY ContentAssumption DEF Sources, NoRows, Rows, NoPoint, Points

LEMMA IdleType == Idle \in JobRecords /\ NotDownloading \in DownloadRecords
  BY SourcesAreTyped DEF Idle, JobRecords, Pcs, Scopes, MaxAttempts, NotDownloading, DownloadRecords

\* A job that goes on or ends keeps the type of jobs.
LEMMA GoType ==
    ASSUME TypeOK, NEW j \in Jobs, NEW pc \in Pcs, Go(j, pc)
    PROVE  job' \in [Jobs -> JobRecords] /\ paperLock' \in Jobs \cup {Free}
<1>1. job \in [Jobs -> JobRecords] /\ paperLock \in Jobs \cup {Free}
  BY DEF TypeOK
<1>2. [job[j] EXCEPT !.pc = pc] \in JobRecords
  BY <1>1 DEF JobRecords
<1>3. QED
  BY <1>1, <1>2 DEF Go

LEMMA EndJobType ==
    ASSUME TypeOK, NEW j \in Jobs, EndJob(j)
    PROVE  job' \in [Jobs -> JobRecords] /\ paperLock' \in Jobs \cup {Free}
  BY IdleType DEF TypeOK, EndJob

\* What a run stores are rows, and points.
LEMMA StoredType ==
    ASSUME TypeOK, JobsInv, NEW j \in Jobs,
           job[j].pc \in {"store", "partial", "commit", "probe", "embed"}
    PROVE  /\ job[j].content \in Urls
           /\ [content |-> job[j].content, scope |-> job[j].scope] \in Points
           /\ \A all \in BOOLEAN : SourceUnchanged(j) => StoredBy(j, all) \in Rows
<1>1. job[j] \in JobRecords /\ paper \in PaperRecords
  BY DEF TypeOK
<1>2. job[j].content \in Urls
  BY DEF JobsInv, WorkersHaveContent
<1>3. job[j].scope \in Scopes
  BY <1>1 DEF JobRecords
<1>4. SourceUnchanged(j) => job[j].source \in Urls
  BY <1>1 DEF SourceUnchanged, PaperRecords
<1>5. QED
  BY <1>2, <1>3, <1>4 DEF Points, Rows, StoredBy

\* Publications keep the types.
LEMMA PublishType ==
    ASSUME TypeOK, NEW d \in Downloads, Publish(d)
    PROVE  TypeOK'
<1>1. CASE Stage(d)
  <2>1. paper.url \in Sources
    BY SourcesAreTyped DEF TypeOK, PaperRecords
  <2>2. download' \in [Downloads -> DownloadRecords] /\ downloads' \in 0..MaxDownloads
    BY <1>1, <2>1, ContentAssumption DEF TypeOK, Stage, DownloadRecords
  <2>3. QED
    BY <1>1, <2>2 DEF TypeOK, Stage
<1>2. CASE SetAside(d)
  <2>1. download' \in [Downloads -> DownloadRecords]
    BY <1>2 DEF TypeOK, SetAside, DownloadRecords
  <2>2. QED
    BY <1>2, <2>1, SourcesAreTyped DEF TypeOK, SetAside
<1>3. CASE Place(d)
  <2>1. download' \in [Downloads -> DownloadRecords] /\ file' \in Sources
    BY <1>3 DEF TypeOK, Place, DownloadRecords
  <2>2. QED
    BY <1>3, <2>1 DEF TypeOK, Place
<1>4. CASE CommitPointer(d)
  <2>1. paper' \in PaperRecords
    BY <1>4 DEF TypeOK, CommitPointer, PaperRecords
  <2>2. QED
    BY <1>4, <2>1, SourcesAreTyped, IdleType DEF TypeOK, CommitPointer, EndDownload
<1>5. CASE Rollback(d)
  <2>1. failures' \in 0..MaxFailures
    BY <1>5, ContentAssumption DEF TypeOK, Rollback
  <2>2. QED
    BY <1>5, <2>1, SourcesAreTyped, IdleType DEF TypeOK, Rollback, EndDownload
<1>6. QED
  BY <1>1, <1>2, <1>3, <1>4, <1>5 DEF Publish

\* So do the starts of jobs ...
LEMMA StartType ==
    ASSUME TypeOK, JobsInv, NEW j \in Jobs,
           StartProcess(j) \/ StartReconcile(j) \/ StartReclaim(j)
    PROVE  TypeOK'
<1>1. owed' \in 0..MaxPromotions
  BY ContentAssumption DEF TypeOK, StartProcess, StartReconcile, StartReclaim
<1>2. PICK pc \in Pcs : StartAt(j, pc)
  BY DEF StartProcess, StartReconcile, StartReclaim, Pcs
<1>3. job' \in [Jobs -> JobRecords]
  BY <1>2 DEF TypeOK, StartAt, JobRecords
<1>4. jobs' \in 0..MaxJobs
  BY <1>2, ContentAssumption DEF TypeOK, StartAt
<1>5. QED
  BY <1>1, <1>2, <1>3, <1>4 DEF TypeOK, StartAt

\* ... and the steps of jobs.
LEMMA WorkType ==
    ASSUME TypeOK, JobsInv, NEW j \in Jobs, Work(j) \/ Fail(j)
    PROVE  TypeOK'
<1>a. paper \in PaperRecords /\ job \in [Jobs -> JobRecords] /\ job[j] \in JobRecords
  BY DEF TypeOK
<1>1. CASE ReadSource(j)
  <2>1. paper.url \in Sources
    BY <1>a, SourcesAreTyped DEF PaperRecords
  <2>2. job' \in [Jobs -> JobRecords]
    BY <1>1, <1>a, <2>1, SourcesAreTyped DEF ReadSource, JobRecords, Pcs
  <2>3. QED
    BY <1>1, <2>2 DEF TypeOK, ReadSource
<1>2. CASE CheckReady(j)
  <2>1. job' \in [Jobs -> JobRecords]
    <3>1. CASE paper.exists /\ paper.pointer
      BY <1>2, <1>a, <3>1 DEF CheckReady, PaperRecords, JobRecords, Pcs
    <3>2. CASE ~(paper.exists /\ paper.pointer)
      BY <1>2, <3>2, GoType DEF CheckReady, Pcs
    <3>3. QED
      BY <3>1, <3>2
  <2>2. QED
    BY <1>2, <2>1 DEF TypeOK, CheckReady, Go
<1>3. CASE ReadFile(j)
  <2>1. CASE file = Nothing
    BY <1>3, <2>1, EndJobType DEF TypeOK, ReadFile
  <2>2. CASE file # Nothing
    <3>1. job' \in [Jobs -> JobRecords]
      BY <1>3, <1>a, <2>2 DEF TypeOK, ReadFile, JobRecords, Pcs
    <3>2. QED
      BY <1>3, <2>2, <3>1 DEF TypeOK, ReadFile
  <2>3. QED
    BY <2>1, <2>2
<1>4. CASE Store(j) \/ StorePrefix(j)
  <2>1. point' \in Points
    BY <1>4, StoredType DEF Store, StorePrefix, At
  <2>2. job' \in [Jobs -> JobRecords] /\ paperLock' \in Jobs \cup {Free}
    BY <1>4, GoType DEF Store, StorePrefix, Pcs
  <2>3. failures' \in 0..MaxFailures
    BY <1>4, ContentAssumption DEF TypeOK, Store, StorePrefix
  <2>4. QED
    BY <1>4, <2>1, <2>2, <2>3 DEF TypeOK, Store, StorePrefix
<1>5. CASE SavePartial(j)
  <2>1. chunks' \in Rows \cup {NoRows}
    BY <1>5, StoredType DEF TypeOK, SavePartial, At
  <2>2. job' \in [Jobs -> JobRecords] /\ paperLock' \in Jobs \cup {Free}
    BY <1>5, GoType, EndJobType DEF SavePartial, Pcs
  <2>3. QED
    BY <1>5, <2>1, <2>2 DEF TypeOK, SavePartial
<1>6. CASE Commit(j)
  <2>1. chunks' \in Rows \cup {NoRows} /\ paper' \in PaperRecords
    BY <1>6, <1>a, StoredType DEF TypeOK, Commit, At, PaperRecords
  <2>2. job' \in [Jobs -> JobRecords] /\ paperLock' \in Jobs \cup {Free}
    BY <1>6, GoType, EndJobType DEF Commit, Pcs
  <2>3. QED
    BY <1>6, <2>1, <2>2 DEF TypeOK, Commit
<1>7. CASE Snapshot(j)
  <2>1. CASE chunks = NoRows
    BY <1>7, <2>1, EndJobType DEF TypeOK, Snapshot
  <2>2. CASE chunks # NoRows
    <3>1. chunks \in Rows /\ chunks.content \in Sources
      BY <2>2, SourcesAreTyped DEF TypeOK, Rows
    <3>2. job[j].tries \in 0..MaxAttempts /\ job[j].tries < MaxAttempts
      BY <1>7, <1>a DEF JobsInv, TriesLeft, Snapshot, At, JobRecords
    <3>3. job[j].tries + 1 \in 0..MaxAttempts
      BY <3>2 DEF MaxAttempts
    <3>4. job' \in [Jobs -> JobRecords]
      BY <1>7, <1>a, <2>2, <3>1, <3>3 DEF Snapshot, JobRecords, PaperRecords, Pcs
    <3>5. QED
      BY <1>7, <2>2, <3>4 DEF TypeOK, Snapshot
  <2>3. QED
    BY <2>1, <2>2
<1>8. CASE Probe(j)
  <2>1. point' \in Points \cup {NoPoint}
    <3>1. CASE point.content = job[j].content
      <4>1. job[j].content \in Urls
        BY <1>8, StoredType DEF Probe, At
      <4>2. point \in Points
        BY <3>1, <4>1, SourcesAreTyped DEF TypeOK, NoPoint
      <4>3. job[j].scope \in Scopes
        BY <1>a DEF JobRecords
      <4>4. QED
        BY <1>8, <3>1, <4>2, <4>3 DEF Probe, Points
    <3>2. CASE point.content # job[j].content
      BY <1>8, <3>2 DEF TypeOK, Probe
    <3>3. QED
      BY <3>1, <3>2
  <2>2. job' \in [Jobs -> JobRecords] /\ paperLock' \in Jobs \cup {Free}
    BY <1>8, GoType DEF Probe, Pcs
  <2>3. QED
    BY <1>8, <2>1, <2>2 DEF TypeOK, Probe
<1>9. CASE Embed(j)
  <2>1. point' \in Points
    BY <1>9, StoredType DEF Embed, At
  <2>2. job' \in [Jobs -> JobRecords]
    BY <1>9, <1>a DEF Embed, JobRecords, Pcs
  <2>3. QED
    BY <1>9, <2>1, <2>2 DEF TypeOK, Embed
<1>10. CASE Verify(j)
  <2>1. job' \in [Jobs -> JobRecords] /\ paperLock' \in Jobs \cup {Free}
    BY <1>10, GoType, EndJobType DEF Verify, Pcs
  <2>2. QED
    BY <1>10, <2>1 DEF TypeOK, Verify
<1>11. CASE Mark(j)
  <2>1. paper' \in PaperRecords
    BY <1>11, <1>a DEF Mark, PaperRecords
  <2>2. QED
    BY <1>11, <2>1, EndJobType DEF TypeOK, Mark
<1>12. CASE ReadPremise(j)
  BY <1>12, GoType, EndJobType DEF TypeOK, ReadPremise, Pcs
<1>13. CASE DeleteVectors(j)
  <2>1. failures' \in 0..MaxFailures
    BY <1>13, ContentAssumption DEF TypeOK, DeleteVectors
  <2>2. job' \in [Jobs -> JobRecords] /\ paperLock' \in Jobs \cup {Free}
    BY <1>13, GoType DEF DeleteVectors, Pcs
  <2>3. QED
    BY <1>13, <2>1, <2>2 DEF TypeOK, DeleteVectors
<1>14. CASE DeleteFiles(j)
  BY <1>14, EndJobType, SourcesAreTyped DEF TypeOK, DeleteFiles
<1>15. CASE Fail(j)
  <2>1. failures' \in 0..MaxFailures
    BY <1>15, ContentAssumption DEF TypeOK, Fail
  <2>2. QED
    BY <1>15, <2>1, EndJobType DEF TypeOK, Fail
<1>16. QED
  BY <1>1, <1>2, <1>3, <1>4, <1>5, <1>6, <1>7, <1>8, <1>9, <1>10, <1>11, <1>12,
     <1>13, <1>14, <1>15 DEF Work

\* And what happens around them.
LEMMA PromoteType ==
    ASSUME TypeOK, JobsInv, NEW u \in Urls, Promote(u)
    PROVE  TypeOK'
<1>1. promotions' \in 0..MaxPromotions /\ owed' \in 0..MaxPromotions
  <2>1. promotions \in 0..MaxPromotions /\ owed \in 0..MaxPromotions /\ owed <= promotions
    BY DEF TypeOK, JobsInv, ReclaimsAreOwed
  <2>2. promotions < MaxPromotions /\ promotions' = promotions + 1
    BY DEF Promote
  <2>3. owed' = owed \/ owed' = owed + 1
    BY DEF Promote
  <2>4. MaxPromotions \in Nat
    BY ContentAssumption
  <2>5. QED
    BY <2>1, <2>2, <2>3, <2>4
<1>2. paper' \in PaperRecords
  BY DEF TypeOK, Promote, PaperRecords, Scopes
<1>3. chunks' \in Rows \cup {NoRows}
  BY DEF TypeOK, Promote
<1>4. QED
  BY <1>1, <1>2, <1>3 DEF TypeOK, Promote

LEMMA EnvironmentType ==
    ASSUME TypeOK, JobsInv,
           (\E u \in Urls : Promote(u)) \/ Erase \/ EraseFails \/ LosePoints \/ Crash
    PROVE  TypeOK'
<1>1. ASSUME NEW u \in Urls, Promote(u) PROVE TypeOK'
  BY <1>1, PromoteType
<1>2. CASE Erase
  <2>1. paper' \in PaperRecords
    BY <1>2 DEF TypeOK, Erase, PaperRecords
  <2>2. QED
    BY <1>2, <2>1, SourcesAreTyped DEF TypeOK, Erase
<1>3. CASE LosePoints
  <2>1. losses' \in 0..MaxLosses
    BY <1>3, ContentAssumption DEF TypeOK, LosePoints
  <2>2. QED
    BY <1>3, <2>1 DEF TypeOK, LosePoints
<1>4. CASE Crash
  <2>1. crashes' \in 0..MaxCrashes
    BY <1>4, ContentAssumption DEF TypeOK, Crash
  <2>2. owed' \in 0..MaxPromotions
    BY <1>4, ContentAssumption DEF Crash
  <2>3. QED
    BY <1>4, <2>1, <2>2, IdleType, SourcesAreTyped DEF TypeOK, Crash
<1>5. CASE EraseFails
  <2>1. failures' \in 0..MaxFailures
    BY <1>5, ContentAssumption DEF TypeOK, EraseFails
  <2>2. QED
    BY <1>5, <2>1, SourcesAreTyped DEF TypeOK, EraseFails
<1>6. QED
  BY <1>1, <1>2, <1>3, <1>4, <1>5

LEMMA TypeStep == TypeOK /\ JobsInv /\ [Next]_vars => TypeOK'
<1> SUFFICES ASSUME TypeOK, JobsInv, [Next]_vars PROVE TypeOK'
  OBVIOUS
<1>1. CASE UNCHANGED vars
  BY <1>1 DEF TypeOK, vars
<1>2. QED
  BY <1>1, PublishType, StartType, WorkType, EnvironmentType DEF Next

-----------------------------------------------------------------------------
(* The lock of the paper.                                                  *)

\* A job that begins finds every other one idle.
LEMMA StartKeepsJobs ==
    ASSUME TypeOK, JobsInv, NEW j \in Jobs,
           StartProcess(j) \/ StartReconcile(j) \/ StartReclaim(j)
    PROVE  JobsInv'
<1>1. PICK pc \in {"source", "snapshot", "reclaim"} : StartAt(j, pc)
  BY DEF StartProcess, StartReconcile, StartReclaim
<1>2. \A k \in Jobs : job[k].pc = "idle" /\ job[k].tries < MaxAttempts
  BY <1>1, ContentAssumption DEF JobsInv, WorkersHoldTheLock, TriesLeft, StartAt
<1>3. \A k \in Jobs : /\ k # j => job'[k] = job[k]
                      /\ job'[k].tries = job[k].tries
                      /\ job'[j].pc = pc
  BY <1>1 DEF TypeOK, StartAt, JobRecords
<1>4. owed' <= promotions'
  BY <1>1, ContentAssumption
     DEF TypeOK, JobsInv, ReclaimsAreOwed, StartProcess, StartReconcile, StartReclaim, StartAt
<1>5. paperLock' = j
  BY <1>1 DEF StartAt
<1>6. QED
  BY <1>1, <1>2, <1>3, <1>4, <1>5
     DEF JobsInv, WorkersHoldTheLock, TriesLeft, WorkersHaveContent, ReclaimsAreOwed

\* What a step of job j must respect, so that the others need not be looked at.
Behaves(j) ==
    /\ job'[j].pc # "idle" => paperLock' = j
    /\ job'[j].pc \in {"idle", "source", "ready", "snapshot"} => job'[j].tries < MaxAttempts
    /\ job'[j].pc \in {"store", "partial", "commit", "probe", "embed"} => job'[j].content \in Urls

LEMMA GoBehaves ==
    ASSUME TypeOK, JobsInv, NEW j \in Jobs, NEW pc, Go(j, pc), ~At(j, "idle"),
           pc \in {"source", "ready", "snapshot"} => job[j].tries < MaxAttempts, pc # "idle",
           pc \in {"store", "partial", "commit", "probe", "embed"} => job[j].content \in Urls
    PROVE  /\ Behaves(j)
           /\ \A k \in Jobs \ {j} : job'[k] = job[k]
<1>1. job' = [job EXCEPT ![j] = [job[j] EXCEPT !.pc = pc]] /\ job \in [Jobs -> JobRecords]
  BY DEF Go, TypeOK
<1>2. /\ job'[j].pc = pc
      /\ job'[j].tries = job[j].tries /\ job'[j].content = job[j].content
  BY <1>1 DEF JobRecords
<1>3. paperLock' = j
  BY DEF Go, At, JobsInv, WorkersHoldTheLock
<1>4. QED
  BY <1>1, <1>2, <1>3 DEF Behaves

LEMMA EndJobBehaves ==
    ASSUME TypeOK, NEW j \in Jobs, EndJob(j)
    PROVE  /\ Behaves(j)
           /\ \A k \in Jobs \ {j} : job'[k] = job[k]
<1>1. job'[j] = Idle
  BY DEF TypeOK, EndJob
<1>2. Idle.pc = "idle" /\ Idle.tries < MaxAttempts
  BY DEF Idle, MaxAttempts
<1>3. QED
  BY <1>1, <1>2 DEF TypeOK, EndJob, Behaves

LEMMA WorkBehaves ==
    ASSUME TypeOK, JobsInv, NEW j \in Jobs, Work(j) \/ Fail(j)
    PROVE  /\ Behaves(j)
           /\ \A k \in Jobs \ {j} : job'[k] = job[k]
<1>a. /\ job \in [Jobs -> JobRecords] /\ job[j] \in JobRecords /\ paper \in PaperRecords
      /\ job[j].pc # "idle" => paperLock = j
      /\ job[j].pc \in {"source", "ready", "snapshot"} => job[j].tries < MaxAttempts
      /\ job[j].pc \in {"store", "partial", "commit", "probe", "embed"} => job[j].content \in Urls
  BY DEF TypeOK, JobsInv, WorkersHoldTheLock, TriesLeft, WorkersHaveContent
<1>1. CASE ReadSource(j)
  BY <1>1, <1>a DEF ReadSource, At, Behaves, JobRecords
<1>2. CASE CheckReady(j)
  <2>1. CASE paper.exists /\ paper.pointer
    BY <1>2, <1>a, <2>1 DEF CheckReady, At, Behaves, JobRecords
  <2>2. CASE ~(paper.exists /\ paper.pointer)
    BY <1>2, <2>2, GoBehaves DEF CheckReady, At
  <2>3. QED
    BY <2>1, <2>2
<1>3. CASE ReadFile(j)
  <2>1. CASE file = Nothing
    BY <1>3, <2>1, EndJobBehaves DEF ReadFile
  <2>2. CASE file # Nothing
    <3>1. file \in Urls
      BY <2>2 DEF TypeOK, Sources
    <3>2. QED
      BY <1>3, <1>a, <2>2, <3>1 DEF ReadFile, At, Behaves, JobRecords
  <2>3. QED
    BY <2>1, <2>2
<1>4. CASE Store(j) \/ StorePrefix(j)
  BY <1>4, <1>a, GoBehaves DEF Store, StorePrefix, At
<1>5. CASE SavePartial(j) \/ Commit(j)
  BY <1>5, <1>a, GoBehaves, EndJobBehaves DEF SavePartial, Commit, At
<1>6. CASE Snapshot(j)
  <2>1. CASE chunks = NoRows
    BY <1>6, <2>1, EndJobBehaves DEF Snapshot
  <2>2. CASE chunks # NoRows
    <3>1. chunks.content \in Urls
      BY <2>2 DEF TypeOK, Rows
    <3>2. QED
      BY <1>6, <1>a, <2>2, <3>1 DEF Snapshot, At, Behaves, JobRecords
  <2>3. QED
    BY <2>1, <2>2
<1>7. CASE Probe(j)
  BY <1>7, <1>a, GoBehaves DEF Probe, At
<1>8. CASE Embed(j)
  BY <1>8, <1>a DEF Embed, At, Behaves, JobRecords
<1>9. CASE Verify(j)
  BY <1>9, GoBehaves, EndJobBehaves DEF Verify, At
<1>10. CASE Mark(j) \/ DeleteFiles(j) \/ Fail(j)
  BY <1>10, EndJobBehaves DEF Mark, DeleteFiles, Fail
<1>11. CASE ReadPremise(j) \/ DeleteVectors(j)
  BY <1>11, GoBehaves, EndJobBehaves DEF ReadPremise, DeleteVectors, At
<1>12. QED
  BY <1>1, <1>2, <1>3, <1>4, <1>5, <1>6, <1>7, <1>8, <1>9, <1>10, <1>11 DEF Work

LEMMA WorkKeepsJobs ==
    ASSUME TypeOK, JobsInv, NEW j \in Jobs, Work(j) \/ Fail(j)
    PROVE  JobsInv'
<1>1. owed' = owed /\ promotions' = promotions
  BY DEF Work, Fail, ReadSource, CheckReady, ReadFile, Store, StorePrefix, SavePartial,
         Commit, Snapshot, Probe, Embed, Verify, Mark, ReadPremise, DeleteVectors, DeleteFiles
<1>2. ~At(j, "idle")
  BY DEF Work, Fail, ReadSource, CheckReady, ReadFile, Store, StorePrefix, SavePartial,
         Commit, Snapshot, Probe, Embed, Verify, Mark, ReadPremise, DeleteVectors,
         DeleteFiles, At
<1>3. \A k \in Jobs \ {j} : job[k].pc = "idle"
  BY <1>2 DEF At, JobsInv, WorkersHoldTheLock
<1>4. QED
  BY <1>1, <1>3, WorkBehaves
     DEF Behaves, JobsInv, WorkersHoldTheLock, TriesLeft, WorkersHaveContent, ReclaimsAreOwed

LEMMA JobsStep == TypeOK /\ JobsInv /\ [Next]_vars => JobsInv'
<1> SUFFICES ASSUME TypeOK, JobsInv, [Next]_vars PROVE JobsInv'
  OBVIOUS
<1> USE DEF JobsInv, WorkersHoldTheLock, TriesLeft, WorkersHaveContent, ReclaimsAreOwed
<1>1. ASSUME NEW d \in Downloads, Publish(d) PROVE JobsInv'
  BY <1>1 DEF Publish, Stage, SetAside, Place, CommitPointer, Rollback, EndDownload
<1>2. ASSUME NEW u \in Urls, Promote(u) PROVE JobsInv'
  BY <1>2 DEF Promote, TypeOK
<1>3. CASE Erase \/ EraseFails \/ LosePoints
  BY <1>3 DEF Erase, EraseFails, LosePoints
<1>4. CASE Crash
  BY <1>4 DEF Crash, TypeOK, Idle, MaxAttempts
<1>5. CASE UNCHANGED vars
  BY <1>5 DEF vars
<1>6. QED
  BY <1>1, <1>2, <1>3, <1>4, <1>5, StartKeepsJobs, WorkKeepsJobs DEF Next

ContentTypes == TypeOK /\ JobsInv

LEMMA TypesInvariant == Spec => []ContentTypes
<1>1. Init => ContentTypes
  <2> SUFFICES ASSUME Init PROVE ContentTypes
    OBVIOUS
  <2>1. TypeOK
    <3>1. paper \in PaperRecords
      BY ContentAssumption DEF Init, PaperRecords, Scopes
    <3>2. torn \in BOOLEAN
      BY DEF Init
    <3>3. /\ paperLock \in Jobs \cup {Free} /\ publishLock \in Downloads \cup {Free}
          /\ job \in [Jobs -> JobRecords] /\ download \in [Downloads -> DownloadRecords]
          /\ chunks \in Rows \cup {NoRows} /\ point \in Points \cup {NoPoint}
          /\ file \in Sources /\ spare \in Sources
      BY IdleType, SourcesAreTyped DEF Init
    <3>4. QED
      BY <3>1, <3>2, <3>3, ContentAssumption DEF Init, TypeOK
  <2>2. JobsInv
    BY DEF Init, JobsInv, WorkersHoldTheLock, TriesLeft, WorkersHaveContent,
           ReclaimsAreOwed, Idle, MaxAttempts
  <2>3. QED
    BY <2>1, <2>2 DEF ContentTypes
<1>2. ContentTypes /\ [Next]_vars => ContentTypes'
  BY TypeStep, JobsStep DEF ContentTypes
<1>3. QED
  BY <1>1, <1>2, PTL DEF Spec

\* Every store, job, download and counter keeps its type, through all steps of
\* run_process_pdf, the reconciliation, the reclaim and the publication.
THEOREM TypeCorrect == Spec => []TypeOK
<1>1. ContentTypes => TypeOK
  BY DEF ContentTypes
<1>2. QED
  BY <1>1, TypesInvariant, PTL

-----------------------------------------------------------------------------
(* The fence of the source.                                                *)

\* Rows that are stored have the URL of the paper; everything else that touches
\* the paper or its rows keeps the URL or discards the rows.
LEMMA SourceStep ==
    ASSUME TypeOK, StoredSourceIsCurrent, [Next]_vars
    PROVE  StoredSourceIsCurrent'
<1> USE DEF StoredSourceIsCurrent
<1>a. paper \in PaperRecords
  BY DEF TypeOK
<1>1. ASSUME NEW d \in Downloads, Publish(d) PROVE StoredSourceIsCurrent'
  BY <1>1, <1>a DEF Publish, Stage, SetAside, Place, CommitPointer, Rollback, PaperRecords
<1>2. ASSUME NEW j \in Jobs, StartProcess(j) \/ StartReconcile(j) \/ StartReclaim(j)
      PROVE  StoredSourceIsCurrent'
  BY <1>2 DEF StartProcess, StartReconcile, StartReclaim, StartAt
<1>3. ASSUME NEW j \in Jobs, Work(j) \/ Fail(j) PROVE StoredSourceIsCurrent'
  <2>1. CASE SavePartial(j)
    BY <2>1 DEF SavePartial, SourceUnchanged, StoredBy
  <2>2. CASE Commit(j)
    BY <2>2, <1>a DEF Commit, SourceUnchanged, StoredBy, PaperRecords
  <2>3. CASE Mark(j)
    BY <2>3, <1>a DEF Mark, PaperRecords
  <2>4. CASE ~SavePartial(j) /\ ~Commit(j) /\ ~Mark(j)
    BY <1>3, <2>4 DEF Work, Fail, ReadSource, CheckReady, ReadFile, Store, StorePrefix,
       Snapshot, Probe, Embed, Verify, ReadPremise, DeleteVectors, DeleteFiles
  <2>5. QED
    BY <2>1, <2>2, <2>3, <2>4
<1>4. ASSUME NEW u \in Urls, Promote(u) PROVE StoredSourceIsCurrent'
  BY <1>4, <1>a DEF Promote, PaperRecords
<1>5. CASE Erase \/ EraseFails \/ LosePoints \/ Crash
  BY <1>5 DEF Erase, EraseFails, LosePoints, Crash
<1>6. CASE UNCHANGED vars
  BY <1>6 DEF vars
<1>7. QED
  BY <1>1, <1>2, <1>3, <1>4, <1>5, <1>6 DEF Next

\* Whatever it overlaps with, no commit of run_process_pdf leaves rows of a
\* superseded source: _require_unchanged_source_url refuses it.
THEOREM StoredRowsAreCurrent == Spec => []StoredSourceIsCurrent
<1>1. Init => StoredSourceIsCurrent
  BY DEF Init, StoredSourceIsCurrent
<1>2. TypeOK /\ StoredSourceIsCurrent /\ [Next]_vars => StoredSourceIsCurrent'
  BY SourceStep
<1>3. QED
  BY <1>1, <1>2, TypeCorrect, PTL DEF Spec

-----------------------------------------------------------------------------
(* The publication lock.                                                   *)

\* A publication alone touches the lock, the file and its backup.
LEMMA PublishKeeps ==
    ASSUME TypeOK, PublicationInv, NEW d \in Downloads, Publish(d)
    PROVE  PublicationInv'
<1>a. /\ paper \in PaperRecords /\ download \in [Downloads -> DownloadRecords]
      /\ download[d] \in DownloadRecords
  BY DEF TypeOK
<1>b. crashes' = crashes
  BY DEF Publish, Stage, SetAside, Place, CommitPointer, Rollback
<1>c. Free \notin Downloads
  BY ContentAssumption
<1>1. (paper.pointer => paper.exists)'
  BY <1>a DEF PublicationInv, Publish, Stage, SetAside, Place, CommitPointer, Rollback,
              PaperRecords
<1>2. ASSUME crashes = 0
      PROVE  PublishersHoldTheLock' /\ PlacedIsTheirs' /\ KeptIsCurrent'
  <2>a. PublishersHoldTheLock /\ PlacedIsTheirs /\ KeptIsCurrent
    BY <1>2 DEF PublicationInv
  <2> USE DEF PublishersHoldTheLock, PlacedIsTheirs, KeptIsCurrent, Kept
  <2>1. CASE Stage(d)
    BY <1>a, <2>a, <2>1 DEF Stage, NotDownloading
  <2>2. CASE SetAside(d)
    BY <1>a, <1>c, <2>a, <2>2 DEF SetAside, DownloadRecords
  <2>3. CASE Place(d)
    BY <1>a, <1>c, <2>a, <2>3 DEF Place, DownloadRecords
  <2>4. CASE CommitPointer(d)
    <3>1. publishLock = d /\ file = paper.url /\ paper.exists
      BY <2>a, <2>4 DEF CommitPointer
    <3>2. paper'.url = paper.url /\ paper'.exists = paper.exists
      BY <1>a, <2>4 DEF CommitPointer, PaperRecords
    <3>3. QED
      BY <1>a, <1>c, <2>a, <2>4, <3>1, <3>2 DEF CommitPointer, EndDownload, NotDownloading
  <2>5. CASE Rollback(d)
    BY <1>a, <1>c, <2>a, <2>5 DEF Rollback, EndDownload, NotDownloading
  <2>6. QED
    BY <2>1, <2>2, <2>3, <2>4, <2>5 DEF Publish
<1>3. QED
  BY <1>1, <1>2, <1>b DEF PublicationInv

LEMMA PublicationStep ==
    ASSUME TypeOK, PublicationInv, [Next]_vars
    PROVE  PublicationInv'
<1> USE DEF PublicationInv, PublishersHoldTheLock, PlacedIsTheirs, KeptIsCurrent, Kept
<1>a. paper \in PaperRecords /\ crashes \in Nat
  BY ContentAssumption DEF TypeOK
<1>b. Free \notin Downloads
  BY ContentAssumption
<1>2. ASSUME NEW j \in Jobs, StartProcess(j) \/ StartReconcile(j) \/ StartReclaim(j)
      PROVE  PublicationInv'
  BY <1>2 DEF StartProcess, StartReconcile, StartReclaim, StartAt
<1>3. ASSUME NEW j \in Jobs, Work(j) \/ Fail(j) PROVE PublicationInv'
  <2>1. CASE DeleteFiles(j)
    BY <1>a, <1>b, <2>1 DEF DeleteFiles, Discarded, EndJob
  <2>2. CASE Commit(j)
    BY <1>a, <2>2 DEF Commit, PaperRecords
  <2>3. CASE Mark(j)
    BY <1>a, <2>3 DEF Mark, PaperRecords
  <2>4. CASE ~DeleteFiles(j) /\ ~Commit(j) /\ ~Mark(j)
    BY <1>3, <2>4 DEF Work, Fail, ReadSource, CheckReady, ReadFile, Store, StorePrefix,
       SavePartial, Snapshot, Probe, Embed, Verify, ReadPremise, DeleteVectors
  <2>5. QED
    BY <2>1, <2>2, <2>3, <2>4
<1>4. ASSUME NEW u \in Urls, Promote(u) PROVE PublicationInv'
  BY <1>4, <1>a DEF Promote, PaperRecords
<1>5. CASE Erase \/ EraseFails
  BY <1>5, <1>a, <1>b DEF Erase, EraseFails, PaperRecords
<1>6. CASE LosePoints
  BY <1>6 DEF LosePoints
<1>7. CASE Crash
  BY <1>7, <1>a DEF Crash
<1>8. CASE UNCHANGED vars
  BY <1>8 DEF vars
<1>9. QED
  BY <1>2, <1>3, <1>4, <1>5, <1>6, <1>7, <1>8, PublishKeeps DEF Next

LEMMA PublicationInvariant == Spec => []PublicationInv
<1>1. Init => PublicationInv
  BY ContentAssumption
     DEF Init, PublicationInv, PublishersHoldTheLock, PlacedIsTheirs, KeptIsCurrent, Kept,
         NotDownloading
<1>2. TypeOK /\ PublicationInv /\ [Next]_vars => PublicationInv'
  BY PublicationStep
<1>3. QED
  BY <1>1, <1>2, TypeCorrect, PTL DEF Spec

\* Without a restart the pointer names a file of the current URL between two
\* publications, although a reclaim deletes files by name and a promotion changes
\* the URL in the middle of one (PDFPublishOperation, _reclaim_stored_files).
\* The row of an erasure that was rolled back after an unlink
\* (erase_orphaned_user_papers) has no file until the next publication, and never
\* the file of another URL.
THEOREM PointerNamesItsFile == Spec => []PointerMatchesFile
<1>1. PublicationInv => PointerMatchesFile
  BY DEF PublicationInv, KeptIsCurrent, Kept, PointerMatchesFile
<1>2. QED
  BY <1>1, PublicationInvariant, PTL

\* And a paper erased with its account leaves no file, whatever was being
\* published (erase_orphaned_user_papers).
THEOREM ErasureLeavesNoFile == Spec => []ErasedLeavesNoFile
<1>1. PublicationInv => ErasedLeavesNoFile
  BY DEF PublicationInv, KeptIsCurrent, Kept, ErasedLeavesNoFile
<1>2. QED
  BY <1>1, PublicationInvariant, PTL
-----------------------------------------------------------------------------
(* The vectors of stored rows.                                             *)

Given == {FirstUrl, Nothing}

\* A paper that no verified adapter has touched has only ever had one content.
PrivateHasOneContent ==
    paper.scope = "private" =>
        /\ paper.url = FirstUrl
        /\ file \in Given /\ spare \in Given
        /\ chunks.content \in Given /\ point.content \in Given
        /\ \A d \in Downloads : download[d].url \in Given
        /\ \A j \in Jobs : job[j].content \in Given

\* Rows that are there while a run is under way were there when it began.
RunInv(r) ==
    /\ (r.pc \in {"ready", "read", "store", "partial", "commit"} /\ chunks # NoRows)
           => paper.exists /\ paper.url = r.source
    /\ r.pc = "partial" => failures > 0

\* What a reconciliation holds between two of its reads.  It embeds under an
\* outdated scope only what was no chunked paper yet.
ReconcileInv(r) ==
    /\ r.pc \in {"probe", "embed", "verify", "mark"} =>
           /\ chunks # NoRows => chunks = r.seen /\ r.content = chunks.content
           /\ r.scope = "public" => paper.scope = "public"
    /\ r.pc = "probe" => ~r.wrote
    /\ (r.pc = "probe" /\ r.scope = "private") => r.content \in Given /\ point.content \in Given
    /\ (/\ r.pc = "embed" \/ (r.pc = "verify" /\ r.wrote)
        /\ losses = 0 /\ r.scope = "private" /\ chunks # NoRows) => ~paper.chunked

\* The point after an upsert, and the premise of a deletion.
PointInv(r) ==
    /\ (r.pc \in {"partial", "commit", "verify", "mark"} /\ losses = 0)
           => point.content = r.content
    /\ r.pc = "vectors" => ~paper.chunked

JobVectors(r) == RunInv(r) /\ ReconcileInv(r) /\ PointInv(r)

Served == losses = 0 /\ paper.chunked /\ chunks # NoRows

RowsServed == Served => point # NoPoint

\* The upsert of a run precedes its commit.
RowsMatch ==
    (Served /\ failures = 0 /\ crashes = 0 /\ \A j \in Jobs : job[j].pc # "commit")
        => point.content = chunks.content

VectorsInv ==
    /\ PrivateHasOneContent
    /\ \A j \in Jobs : JobVectors(job[j])
    /\ RowsServed /\ RowsMatch

\* The fields of a job that goes on.
LEMMA GoFields ==
    ASSUME TypeOK, NEW j \in Jobs, NEW pc, Go(j, pc)
    PROVE  /\ job'[j].pc = pc /\ job'[j].source = job[j].source
           /\ job'[j].scope = job[j].scope /\ job'[j].content = job[j].content
           /\ job'[j].seen = job[j].seen /\ job'[j].wrote = job[j].wrote
  BY DEF Go, TypeOK, JobRecords

\* Nothing is promised of a job between two others.
LEMMA IdleVectors ==
    ASSUME NEW r, r.pc \in {"idle", "source", "snapshot", "reclaim", "files"}
    PROVE  JobVectors(r)
  BY DEF JobVectors, RunInv, ReconcileInv, PointInv

LEMMA EndJobVectors ==
    ASSUME TypeOK, NEW j \in Jobs, EndJob(j)
    PROVE  job'[j].pc = "idle" /\ JobVectors(job[j])'
<1>1. job'[j].pc = "idle"
  BY DEF TypeOK, EndJob, Idle
<1>2. QED
  BY <1>1 DEF JobVectors, RunInv, ReconcileInv, PointInv

\* Whatever has not been replaced by a promotion keeps its one content.
LEMMA PrivateStep ==
    ASSUME ContentTypes, PrivateHasOneContent, [Next]_vars
    PROVE  PrivateHasOneContent'
<1> SUFFICES ASSUME paper'.scope = "private"
             PROVE  PrivateHasOneContent'
  BY DEF PrivateHasOneContent
<1> USE DEF PrivateHasOneContent, Given
<1>a. /\ TypeOK /\ paper \in PaperRecords /\ job \in [Jobs -> JobRecords]
      /\ download \in [Downloads -> DownloadRecords]
  BY DEF ContentTypes, TypeOK
<1>b. NoPoint.content = Nothing /\ NoRows.content = Nothing /\ Idle.content = Nothing
      /\ NotDownloading.url = Nothing
  BY DEF NoPoint, NoRows, Idle, NotDownloading
<1>1. ASSUME NEW d \in Downloads, Publish(d) PROVE PrivateHasOneContent'
  <2>1. paper'.scope = paper.scope /\ paper'.url = paper.url
    BY <1>1, <1>a DEF Publish, Stage, SetAside, Place, CommitPointer, Rollback, PaperRecords
  <2>2. \A e \in Downloads : download'[e].url \in Given
    BY <1>1, <1>a, <1>b, <2>1 DEF Publish, Stage, SetAside, Place, CommitPointer, Rollback,
       EndDownload, DownloadRecords
  <2>3. file' \in Given /\ spare' \in Given
    BY <1>1, <1>a, <1>b, <2>1 DEF Publish, Stage, SetAside, Place, CommitPointer, Rollback,
       EndDownload, DownloadRecords
  <2>4. chunks' = chunks /\ point' = point /\ job' = job
    BY <1>1 DEF Publish, Stage, SetAside, Place, CommitPointer, Rollback
  <2>5. QED
    BY <2>1, <2>2, <2>3, <2>4
<1>2. ASSUME NEW j \in Jobs, StartProcess(j) \/ StartReconcile(j) \/ StartReclaim(j)
      PROVE  PrivateHasOneContent'
  <2>1. PICK pc : StartAt(j, pc)
    BY <1>2 DEF StartProcess, StartReconcile, StartReclaim
  <2>2. \A k \in Jobs : job'[k].content = job[k].content
    BY <2>1, <1>a DEF StartAt, JobRecords
  <2>3. QED
    BY <2>1, <2>2 DEF StartAt
<1>3. ASSUME NEW j \in Jobs, Work(j) \/ Fail(j) PROVE PrivateHasOneContent'
  <2>1. paper'.scope = paper.scope /\ paper'.url = paper.url
    BY <1>3, <1>a DEF Work, Fail, ReadSource, CheckReady, ReadFile, Store, StorePrefix,
       SavePartial, Commit, Snapshot, Probe, Embed, Verify, Mark, ReadPremise,
       DeleteVectors, DeleteFiles, PaperRecords
  <2>2. file' \in Given /\ spare' = spare /\ download' = download
    BY <1>3, <1>a, <2>1 DEF Work, Fail, ReadSource, CheckReady, ReadFile, Store, StorePrefix,
       SavePartial, Commit, Snapshot, Probe, Embed, Verify, Mark, ReadPremise,
       DeleteVectors, DeleteFiles
  <2>3. chunks'.content \in Given
    BY <1>3, <1>a, <2>1 DEF Work, Fail, ReadSource, CheckReady, ReadFile, Store, StorePrefix,
       SavePartial, Commit, StoredBy, Snapshot, Probe, Embed, Verify, Mark, ReadPremise,
       DeleteVectors, DeleteFiles
  <2>4. point'.content \in Given
    <3>1. CASE Probe(j)
      <4>1. point' = point \/ point' = [point EXCEPT !.scope = job[j].scope]
        BY <3>1 DEF Probe
      <4>2. point'.content = point.content
        <5>1. point \in Points \/ point = NoPoint
          BY <1>a DEF TypeOK
        <5>2. QED
          BY <4>1, <5>1 DEF Points, NoPoint
      <4>3. QED
        BY <4>2, <2>1
    <3>2. CASE Store(j) \/ StorePrefix(j) \/ Embed(j)
      <4>1. point'.content = job[j].content
        BY <3>2 DEF Store, StorePrefix, Embed
      <4>2. QED
        BY <4>1, <2>1
    <3>3. CASE Verify(j) \/ DeleteVectors(j)
      BY <1>b, <2>1, <3>3 DEF Verify, DeleteVectors
    <3>4. CASE ~Probe(j) /\ ~Store(j) /\ ~StorePrefix(j) /\ ~Embed(j) /\ ~Verify(j) /\ ~DeleteVectors(j)
      <4>1. point' = point
        BY <1>3, <3>4 DEF Work, Fail, ReadSource, CheckReady, ReadFile,
           SavePartial, Commit, Snapshot, Mark, ReadPremise, DeleteFiles
      <4>2. QED
        BY <2>1, <4>1
    <3>5. QED
      BY <3>1, <3>2, <3>3, <3>4
  <2>5. job'[j].content \in Given
    <3>1. CASE ReadFile(j) /\ file # Nothing
      BY <1>a, <2>1, <3>1 DEF ReadFile, JobRecords
    <3>2. CASE Snapshot(j) /\ chunks # NoRows
      BY <1>a, <2>1, <3>2 DEF Snapshot, JobRecords
    <3>3. CASE EndJob(j)
      BY <1>a, <1>b, <3>3 DEF EndJob
    <3>4. CASE \E pc \in Pcs : Go(j, pc)
      BY <1>a, <2>1, <3>4, GoFields
    <3>5. CASE ReadSource(j) \/ CheckReady(j) \/ Embed(j)
      <4>1. job'[j].content = job[j].content
        BY <1>a, <3>5, GoFields DEF ReadSource, CheckReady, Embed, JobRecords
      <4>2. QED
        BY <2>1, <4>1
    <3>6. QED
      BY <1>3, <3>1, <3>2, <3>3, <3>4, <3>5
         DEF Work, Fail, ReadFile, Store, StorePrefix, SavePartial, Commit, Snapshot, Probe,
             Verify, Mark, ReadPremise, DeleteVectors, DeleteFiles, Pcs
  <2>6. QED
    BY <1>3, <2>1, <2>2, <2>3, <2>4, <2>5, WorkBehaves DEF ContentTypes
<1>4. ASSUME NEW u \in Urls, Promote(u) PROVE FALSE
  <2>1. CASE u = paper.url
    BY <1>4, <1>a, <2>1 DEF Promote, PaperRecords
  <2>2. CASE u # paper.url
    <3>1. paper' = [paper EXCEPT !.url = u, !.scope = "public", !.pointer = FALSE,
                                 !.chunked = FALSE]
      BY <1>4, <2>2 DEF Promote
    <3>2. paper'.scope = "public"
      BY <1>a, <3>1 DEF PaperRecords
    <3>3. QED
      BY <3>2
  <2>3. QED
    BY <2>1, <2>2
<1>5. CASE Erase \/ EraseFails \/ LosePoints
  BY <1>5, <1>a, <1>b DEF Erase, EraseFails, LosePoints, PaperRecords
<1>6. CASE Crash
  BY <1>6, <1>a, <1>b DEF Crash
<1>7. CASE UNCHANGED vars
  BY <1>7 DEF vars
<1>8. QED
  BY <1>1, <1>2, <1>3, <1>4, <1>5, <1>6, <1>7 DEF Next

\* A step of a job keeps what is promised of it and of the rows: first the
\* steps of a run ...
Promised(j) == JobVectors(job[j]) /\ RowsServed /\ RowsMatch

LEMMA RunVectors ==
    ASSUME ContentTypes, StoredSourceIsCurrent, VectorsInv, NEW j \in Jobs,
           ReadSource(j) \/ CheckReady(j) \/ ReadFile(j) \/ Store(j) \/ StorePrefix(j)
               \/ SavePartial(j) \/ Commit(j)
    PROVE  Promised(j)'
<1>a. /\ TypeOK /\ paper \in PaperRecords /\ job[j] \in JobRecords
      /\ job \in [Jobs -> JobRecords] /\ failures \in Nat /\ losses \in Nat
  BY ContentAssumption DEF ContentTypes, TypeOK
<1>b. RunInv(job[j]) /\ PointInv(job[j]) /\ RowsServed /\ RowsMatch
  BY DEF VectorsInv, JobVectors
<1>c. \A k \in Jobs \ {j} : job[k].pc # "commit" /\ job'[k] = job[k]
  <2>1. job[j].pc # "idle"
    BY DEF ReadSource, CheckReady, ReadFile, Store, StorePrefix, SavePartial, Commit, At
  <2>2. QED
    BY <2>1, WorkBehaves DEF ContentTypes, JobsInv, WorkersHoldTheLock, Work
<1>d. Served /\ failures = 0 /\ crashes = 0 /\ job[j].pc # "commit"
          => point.content = chunks.content
  BY <1>b, <1>c DEF RowsMatch
<1>1. CASE ReadSource(j)
  <2>1. /\ job'[j].pc = "ready"
        /\ job'[j].source = IF paper.exists THEN paper.url ELSE Nothing
    BY <1>1, <1>a DEF ReadSource, JobRecords
  <2>2. chunks # NoRows => paper.exists
    BY DEF StoredSourceIsCurrent
  <2>3. JobVectors(job[j])'
    BY <1>1, <2>1, <2>2 DEF ReadSource, JobVectors, RunInv, ReconcileInv, PointInv
  <2>4. job[j].pc # "commit"
    BY <1>1 DEF ReadSource, At
  <2>5. QED
    BY <1>1, <1>b, <1>d, <2>3, <2>4 DEF ReadSource, Promised, RowsServed, RowsMatch, Served
<1>2. CASE CheckReady(j)
  <2>1. /\ job'[j].pc \in {"snapshot", "read", "reclaim"}
        /\ job'[j].source = job[j].source
    BY <1>2, <1>a, GoFields DEF CheckReady, JobRecords
  <2>2. JobVectors(job[j])'
    BY <1>2, <1>b, <2>1 DEF CheckReady, At, JobVectors, RunInv, ReconcileInv, PointInv
  <2>3. job[j].pc # "commit"
    BY <1>2 DEF CheckReady, At
  <2>4. QED
    BY <1>2, <1>b, <1>d, <2>2, <2>3 DEF CheckReady, Promised, RowsServed, RowsMatch, Served
<1>3. CASE ReadFile(j)
  <2>1. \/ EndJob(j)
        \/ job'[j].pc = "store" /\ job'[j].source = job[j].source
    BY <1>3, <1>a DEF ReadFile, JobRecords
  <2>2. JobVectors(job[j])'
    <3>1. CASE EndJob(j)
      BY <1>a, <3>1, EndJobVectors
    <3>2. CASE job'[j].pc = "store" /\ job'[j].source = job[j].source
      BY <1>3, <1>b, <3>2 DEF ReadFile, At, JobVectors, RunInv, ReconcileInv, PointInv
    <3>3. QED
      BY <2>1, <3>1, <3>2
  <2>3. job[j].pc # "commit"
    BY <1>3 DEF ReadFile, At
  <2>4. QED
    BY <1>3, <1>b, <1>d, <2>2, <2>3 DEF ReadFile, Promised, RowsServed, RowsMatch, Served
<1>4. CASE Store(j) \/ StorePrefix(j)
  <2>1. /\ job'[j].pc \in {"commit", "partial"} /\ job'[j].source = job[j].source
        /\ job'[j].content = job[j].content
        /\ job'[j].pc = "partial" => failures' > 0
        /\ job'[j].pc # "commit" => failures' # 0
    BY <1>4, <1>a, GoFields DEF Store, StorePrefix
  <2>2. point'.content = job[j].content /\ point' # NoPoint
    <3>1. point' \in Points /\ NoPoint \notin Points
      BY <1>a, <1>4, StoredType, SourcesAreTyped DEF ContentTypes, Store, StorePrefix, At
    <3>2. QED
      BY <1>4, <3>1 DEF Store, StorePrefix
  <2>3. paper' = paper /\ chunks' = chunks /\ losses' = losses /\ job[j].pc = "store"
    BY <1>4 DEF Store, StorePrefix, At
  <2>4. JobVectors(job[j])'
    BY <1>b, <2>1, <2>2, <2>3 DEF JobVectors, RunInv, ReconcileInv, PointInv
  <2>5. QED
    BY <2>1, <2>2, <2>4 DEF Promised, RowsServed, RowsMatch
<1>5. CASE SavePartial(j)
  <2>1. failures > 0 /\ failures' = failures /\ point' = point /\ losses' = losses /\ paper' = paper
    BY <1>5, <1>b DEF SavePartial, At, RunInv
  <2>2. losses = 0 => point # NoPoint
    <3>1. job[j].content # Nothing
      BY <1>a, <1>5, StoredType, SourcesAreTyped DEF ContentTypes, SavePartial, At
    <3>2. losses = 0 => point.content = job[j].content
      BY <1>b, <1>5 DEF SavePartial, At, PointInv
    <3>3. QED
      BY <3>1, <3>2 DEF NoPoint
  <2>3. JobVectors(job[j])'
    <3>1. CASE EndJob(j)
      BY <1>a, <3>1, EndJobVectors
    <3>2. CASE Go(j, "reclaim")
      BY <1>a, <3>2, GoFields DEF JobVectors, RunInv, ReconcileInv, PointInv
    <3>3. QED
      BY <1>5, <3>1, <3>2 DEF SavePartial
  <2>4. QED
    BY <2>1, <2>2, <2>3 DEF Promised, RowsServed, RowsMatch, Served
<1>6. CASE Commit(j)
  <2>1. point' = point /\ losses' = losses /\ failures' = failures /\ crashes' = crashes
    BY <1>6 DEF Commit
  <2>2. job[j].content # Nothing /\ (losses = 0 => point.content = job[j].content)
    BY <1>a, <1>b, <1>6, StoredType, SourcesAreTyped DEF ContentTypes, Commit, At, PointInv
  <2>3. CASE SourceUnchanged(j)
    <3>1. JobVectors(job[j])'
      BY <1>6, <1>a, <2>3, EndJobVectors DEF Commit
    <3>2. chunks'.content = job[j].content
      BY <1>6, <2>3 DEF Commit, StoredBy
    <3>3. losses = 0 => point # NoPoint
      BY <2>2 DEF NoPoint
    <3>4. QED
      BY <2>1, <2>2, <3>1, <3>2, <3>3 DEF Promised, RowsServed, RowsMatch, Served
  <2>4. CASE ~SourceUnchanged(j)
    <3>1. chunks = NoRows
      BY <1>6, <1>b, <2>4 DEF Commit, At, RunInv, SourceUnchanged
    <3>2. chunks' = NoRows /\ job'[j].pc = "reclaim"
      BY <1>6, <1>a, <2>4, <3>1, GoFields DEF Commit
    <3>3. QED
      BY <3>2, IdleVectors
         DEF Promised, JobVectors, RunInv, ReconcileInv, PointInv, RowsServed, RowsMatch, Served
  <2>5. QED
    BY <2>3, <2>4
<1>7. QED
  BY <1>1, <1>2, <1>3, <1>4, <1>5, <1>6

\* ... then those of a reconciliation ...
LEMMA ReconcileVectors ==
    ASSUME ContentTypes, VectorsInv, NEW j \in Jobs,
           Snapshot(j) \/ Probe(j) \/ Embed(j) \/ Verify(j) \/ Mark(j)
    PROVE  Promised(j)'
<1>a. /\ TypeOK /\ paper \in PaperRecords /\ job[j] \in JobRecords
      /\ job \in [Jobs -> JobRecords]
  BY DEF ContentTypes, TypeOK
<1>b. ReconcileInv(job[j]) /\ PointInv(job[j]) /\ RowsServed /\ RowsMatch
  BY DEF VectorsInv, JobVectors
<1>c. \A k \in Jobs : job[k].pc # "commit"
  <2>1. job[j].pc \notin {"idle", "commit"}
    BY DEF Snapshot, Probe, Embed, Verify, Mark, At
  <2>2. QED
    BY <2>1 DEF ContentTypes, JobsInv, WorkersHoldTheLock
<1>d. Served /\ failures = 0 /\ crashes = 0 => point.content = chunks.content
  BY <1>b, <1>c DEF RowsMatch
<1>e. /\ chunks' = chunks /\ losses' = losses /\ failures' = failures /\ crashes' = crashes
      /\ ~Mark(j) => paper' = paper
      /\ Snapshot(j) \/ Mark(j) => point' = point
  BY DEF Snapshot, Probe, Embed, Verify, Mark
<1>f. chunks # NoRows => chunks.content # Nothing
  BY <1>a, SourcesAreTyped DEF TypeOK, Rows
<1>1. CASE Snapshot(j)
  <2>1. JobVectors(job[j])'
    <3>1. CASE chunks = NoRows
      BY <1>1, <1>a, <3>1, EndJobVectors DEF Snapshot
    <3>2. CASE chunks # NoRows
      <4>1. /\ job'[j].pc = "probe" /\ job'[j].seen = chunks
            /\ job'[j].content = chunks.content /\ job'[j].scope = paper.scope
            /\ job'[j].wrote = FALSE
        BY <1>1, <1>a, <3>2 DEF Snapshot, JobRecords
      <4>2. paper.scope = "private" => chunks.content \in Given /\ point.content \in Given
        BY DEF VectorsInv, PrivateHasOneContent
      <4>3. paper' = paper /\ chunks' = chunks /\ point' = point
        BY <1>1 DEF Snapshot
      <4>4. QED
        BY <4>1, <4>2, <4>3 DEF JobVectors, RunInv, ReconcileInv, PointInv
    <3>3. QED
      BY <3>1, <3>2
  <2>2. QED
    BY <1>1, <1>b, <1>d, <1>e, <2>1 DEF Snapshot, Promised, RowsServed, RowsMatch, Served
<1>2. CASE Probe(j)
  <2>a. /\ job[j].pc = "probe" /\ ~job[j].wrote
        /\ job[j].content # Nothing
    BY <1>2, <1>a, <1>b, StoredType, SourcesAreTyped DEF Probe, At, ReconcileInv, ContentTypes
  <2>1. CASE point.content = job[j].content
    <3>1. point \in Points
      BY <1>a, <2>a, <2>1 DEF TypeOK, NoPoint
    <3>2. point' = [point EXCEPT !.scope = job[j].scope] /\ Go(j, "verify")
      BY <1>2, <2>1 DEF Probe
    <3>3. point'.content = point.content
      BY <3>1, <3>2 DEF Points
    <3>4. /\ job'[j].pc = "verify" /\ job'[j].content = job[j].content /\ ~job'[j].wrote
          /\ job'[j].scope = job[j].scope /\ job'[j].seen = job[j].seen
      BY <1>a, <2>a, <3>2, GoFields
    <3>5. JobVectors(job[j])'
      BY <1>2, <1>b, <1>e, <2>a, <2>1, <3>3, <3>4
         DEF Probe, JobVectors, RunInv, ReconcileInv, PointInv
    <3>6. point' # NoPoint
      BY <2>a, <2>1, <3>3 DEF NoPoint
    <3>7. QED
      BY <1>2, <1>d, <1>e, <3>3, <3>5, <3>6 DEF Probe, Promised, RowsServed, RowsMatch, Served
  <2>2. CASE point.content # job[j].content
    <3>1. point' = point /\ paper' = paper /\ Go(j, "embed")
      BY <1>2, <2>2 DEF Probe
    <3>2. /\ job'[j].pc = "embed" /\ job'[j].content = job[j].content
          /\ job'[j].scope = job[j].scope /\ job'[j].seen = job[j].seen
      BY <1>a, <3>1, GoFields
    <3>3. job[j].scope = "private" => point.content = Nothing
      BY <1>b, <2>a, <2>2 DEF ReconcileInv, Given
    <3>4. point.content = Nothing => point = NoPoint
      BY <1>a, SourcesAreTyped DEF TypeOK, Points
    <3>5. losses = 0 /\ job[j].scope = "private" /\ chunks # NoRows => ~paper.chunked
      BY <1>b, <3>3, <3>4 DEF RowsServed, Served
    <3>6. JobVectors(job[j])'
      BY <1>b, <1>e, <2>a, <3>1, <3>2, <3>5 DEF JobVectors, RunInv, ReconcileInv, PointInv
    <3>7. QED
      BY <1>b, <1>d, <1>e, <3>1, <3>6 DEF Promised, RowsServed, RowsMatch, Served
  <2>3. QED
    BY <2>1, <2>2
<1>3. CASE Embed(j)
  <2>1. /\ job'[j].pc = "verify" /\ job'[j].content = job[j].content
        /\ job'[j].scope = job[j].scope /\ job'[j].seen = job[j].seen
    BY <1>3, <1>a DEF Embed, JobRecords
  <2>2. point'.content = job[j].content /\ point' # NoPoint
    <3>1. point' \in Points /\ NoPoint \notin Points
      BY <1>a, <1>3, StoredType, SourcesAreTyped DEF ContentTypes, Embed, At
    <3>2. QED
      BY <1>3, <3>1 DEF Embed
  <2>3. paper' = paper /\ job[j].pc = "embed"
    BY <1>3 DEF Embed, At
  <2>4. JobVectors(job[j])'
    BY <1>b, <1>e, <2>1, <2>2, <2>3 DEF JobVectors, RunInv, ReconcileInv, PointInv
  <2>5. chunks # NoRows => job[j].content = chunks.content
    BY <1>b, <2>3 DEF ReconcileInv
  <2>6. QED
    BY <1>e, <2>2, <2>4, <2>5 DEF Promised, RowsServed, RowsMatch, Served
<1>4. CASE Verify(j)
  <2>a. paper' = paper /\ job[j].pc = "verify"
    BY <1>4 DEF Verify, At
  <2>1. CASE Unchanged(j)
    <3>1. point' = point /\ Go(j, "mark")
      BY <1>4, <2>1 DEF Verify
    <3>2. /\ job'[j].pc = "mark" /\ job'[j].content = job[j].content
          /\ job'[j].scope = job[j].scope /\ job'[j].seen = job[j].seen
      BY <1>a, <3>1, GoFields
    <3>3. JobVectors(job[j])'
      BY <1>b, <1>e, <2>a, <3>1, <3>2 DEF JobVectors, RunInv, ReconcileInv, PointInv
    <3>4. QED
      BY <1>b, <1>d, <1>e, <2>a, <3>1, <3>3 DEF Promised, RowsServed, RowsMatch, Served
  <2>2. CASE ~Unchanged(j)
    <3>1. point' = (IF job[j].wrote THEN NoPoint ELSE point)
          /\ (Go(j, "snapshot") \/ EndJob(j))
      BY <1>4, <2>2 DEF Verify
    <3>2. job'[j].pc \in {"snapshot", "idle"}
      BY <1>a, <3>1, GoFields, EndJobVectors
    <3>3. JobVectors(job[j])'
      BY <3>2 DEF JobVectors, RunInv, ReconcileInv, PointInv
    <3>4. job[j].wrote => ~Served
      <4>1. SUFFICES ASSUME job[j].wrote, Served PROVE FALSE
        OBVIOUS
      <4>2. chunks = job[j].seen /\ (job[j].scope = "public" => paper.scope = "public")
        BY <1>b, <2>a, <4>1 DEF ReconcileInv, Served
      <4>3. job[j].scope = "private"
        BY <1>a, <2>2, <4>2 DEF Unchanged, JobRecords, Scopes
      <4>4. QED
        BY <1>b, <2>a, <4>1, <4>3 DEF ReconcileInv, Served
    <3>5. QED
      BY <1>b, <1>d, <1>e, <2>a, <3>1, <3>3, <3>4 DEF Promised, RowsServed, RowsMatch, Served
  <2>3. QED
    BY <2>1, <2>2
<1>5. CASE Mark(j)
  <2>1. JobVectors(job[j])'
    BY <1>5, <1>a, EndJobVectors DEF Mark
  <2>2. losses = 0 /\ chunks # NoRows => point.content = chunks.content
    BY <1>5, <1>b DEF Mark, At, ReconcileInv, PointInv
  <2>3. losses = 0 /\ chunks # NoRows => point # NoPoint
    BY <1>f, <2>2 DEF NoPoint
  <2>4. QED
    BY <1>5, <1>e, <2>1, <2>2, <2>3 DEF Promised, RowsServed, RowsMatch, Served
<1>6. QED
  BY <1>1, <1>2, <1>3, <1>4, <1>5

\* ... and of a reclaim; or it is cut short.
LEMMA ReclaimVectors ==
    ASSUME ContentTypes, VectorsInv, NEW j \in Jobs,
           ReadPremise(j) \/ DeleteVectors(j) \/ DeleteFiles(j) \/ Fail(j)
    PROVE  Promised(j)'
<1>a. TypeOK /\ failures \in Nat
  BY ContentAssumption DEF ContentTypes, TypeOK
<1>b. PointInv(job[j]) /\ RowsServed /\ RowsMatch
  BY DEF VectorsInv, JobVectors
<1>e. /\ paper' = paper /\ chunks' = chunks /\ losses' = losses /\ crashes' = crashes
      /\ ReadPremise(j) \/ DeleteFiles(j) => failures' = failures
  BY DEF ReadPremise, DeleteVectors, DeleteFiles, Fail
<1>1. CASE ReadPremise(j)
  <2>1. EndJob(j) \/ (Go(j, "vectors") /\ ~paper.chunked)
    BY <1>1 DEF ReadPremise, Discarded
  <2>2. JobVectors(job[j])'
    BY <1>a, <1>e, <2>1, GoFields, EndJobVectors
       DEF JobVectors, RunInv, ReconcileInv, PointInv
  <2>3. job[j].pc = "reclaim" /\ point' = point
    BY <1>1 DEF ReadPremise, At
  <2>4. \A k \in Jobs : job[k].pc # "commit"
    BY <2>3 DEF ContentTypes, JobsInv, WorkersHoldTheLock
  <2>5. QED
    BY <1>1, <1>b, <1>e, <2>2, <2>3, <2>4 DEF Promised, RowsServed, RowsMatch, Served
<1>2. CASE DeleteVectors(j)
  <2>1. ~paper.chunked /\ job'[j].pc = "files"
    BY <1>2, <1>a, <1>b, GoFields DEF DeleteVectors, At, PointInv
  <2>2. QED
    BY <1>e, <2>1 DEF JobVectors, RunInv, ReconcileInv, PointInv, Promised, RowsServed,
       RowsMatch, Served
<1>3. CASE DeleteFiles(j)
  <2>1. JobVectors(job[j])' /\ point' = point
    BY <1>3, <1>a, EndJobVectors DEF DeleteFiles
  <2>2. job[j].pc = "files"
    BY <1>3 DEF DeleteFiles, At
  <2>3. \A k \in Jobs : job[k].pc # "commit"
    BY <2>2 DEF ContentTypes, JobsInv, WorkersHoldTheLock
  <2>4. QED
    BY <1>3, <1>b, <1>e, <2>1, <2>3 DEF Promised, RowsServed, RowsMatch, Served
<1>4. CASE Fail(j)
  <2>1. JobVectors(job[j])'
    BY <1>4, <1>a, EndJobVectors DEF Fail
  <2>2. failures' # 0 /\ point' = point
    BY <1>4, <1>a DEF Fail
  <2>3. QED
    BY <1>b, <1>e, <2>1, <2>2 DEF Promised, RowsServed, RowsMatch, Served
<1>5. QED
  BY <1>1, <1>2, <1>3, <1>4

\* The other jobs are idle.
LEMMA WorkKeepsVectors ==
    ASSUME ContentTypes, StoredSourceIsCurrent, VectorsInv, NEW j \in Jobs, Work(j) \/ Fail(j)
    PROVE  (\A k \in Jobs : JobVectors(job[k]))' /\ RowsServed' /\ RowsMatch'
<1>1. Promised(j)'
  BY RunVectors, ReconcileVectors, ReclaimVectors DEF Work
<1>2. \A k \in Jobs \ {j} : job'[k] = job[k]
  BY WorkBehaves DEF ContentTypes
<1>3. job[j].pc # "idle"
  BY DEF Work, Fail, ReadSource, CheckReady, ReadFile, Store, StorePrefix, SavePartial,
         Commit, Snapshot, Probe, Embed, Verify, Mark, ReadPremise, DeleteVectors,
         DeleteFiles, At
<1>4. \A k \in Jobs \ {j} : job'[k].pc = "idle"
  BY <1>2, <1>3 DEF ContentTypes, JobsInv, WorkersHoldTheLock
<1>5. \A k \in Jobs \ {j} : JobVectors(job[k])'
  BY <1>4 DEF JobVectors, RunInv, ReconcileInv, PointInv
<1>6. QED
  BY <1>1, <1>5 DEF Promised

\* A step that leaves jobs, rows and points alone, and of the paper at most adds
\* the pointer.
LEMMA FrameKeepsVectors ==
    ASSUME VectorsInv, job' = job, chunks' = chunks, point' = point, losses' = losses,
           crashes' = crashes, failures \in Nat, failures' = failures \/ failures' = failures + 1,
           /\ paper'.exists = paper.exists /\ paper'.url = paper.url
           /\ paper'.scope = paper.scope /\ paper'.chunked = paper.chunked
    PROVE  (\A k \in Jobs : JobVectors(job[k]))' /\ RowsServed' /\ RowsMatch'
<1>1. RowsServed' /\ RowsMatch'
  BY DEF VectorsInv, RowsServed, RowsMatch, Served
<1>2. ASSUME NEW k \in Jobs PROVE JobVectors(job[k])'
  <2>1. JobVectors(job[k])
    BY DEF VectorsInv
  <2>2. QED
    BY <2>1 DEF JobVectors, RunInv, ReconcileInv, PointInv
<1>3. QED
  BY <1>1, <1>2

\* A promotion or an erasure that takes the rows away ...
LEMMA DiscardKeepsVectors ==
    ASSUME VectorsInv, job' = job, chunks' = NoRows, point' = point, losses' = losses,
           failures' = failures, ~paper'.chunked,
           paper.scope = "public" => paper'.scope = "public"
    PROVE  (\A k \in Jobs : JobVectors(job[k]))' /\ RowsServed' /\ RowsMatch'
<1>1. RowsServed' /\ RowsMatch'
  BY DEF RowsServed, RowsMatch, Served
<1>2. ASSUME NEW k \in Jobs PROVE JobVectors(job[k])'
  <2>1. JobVectors(job[k])
    BY DEF VectorsInv
  <2>2. QED
    BY <1>2, <2>1 DEF JobVectors, RunInv, ReconcileInv, PointInv
<1>3. QED
  BY <1>1, <1>2

\* ... and a promotion that only publishes the paper.
LEMMA PublicKeepsVectors ==
    ASSUME VectorsInv, job' = job, chunks' = chunks, point' = point, losses' = losses,
           failures' = failures, crashes' = crashes, paper'.scope = "public",
           paper'.exists = paper.exists, paper'.url = paper.url,
           paper'.chunked = paper.chunked
    PROVE  (\A k \in Jobs : JobVectors(job[k]))' /\ RowsServed' /\ RowsMatch'
<1>1. RowsServed' /\ RowsMatch'
  BY DEF VectorsInv, RowsServed, RowsMatch, Served
<1>2. ASSUME NEW k \in Jobs PROVE JobVectors(job[k])'
  <2>1. JobVectors(job[k])
    BY DEF VectorsInv
  <2>2. QED
    BY <2>1 DEF JobVectors, RunInv, ReconcileInv, PointInv
<1>3. QED
  BY <1>1, <1>2

LEMMA VectorsStep ==
    ASSUME ContentTypes, StoredSourceIsCurrent, VectorsInv, [Next]_vars
    PROVE  VectorsInv'
<1> SUFFICES (\A k \in Jobs : JobVectors(job[k]))' /\ RowsServed' /\ RowsMatch'
  BY PrivateStep DEF VectorsInv
<1>a. /\ TypeOK /\ paper \in PaperRecords /\ job \in [Jobs -> JobRecords]
      /\ failures \in Nat /\ losses \in Nat /\ crashes \in Nat
  BY ContentAssumption DEF ContentTypes, TypeOK
<1>1. ASSUME NEW d \in Downloads, Publish(d)
      PROVE  (\A k \in Jobs : JobVectors(job[k]))' /\ RowsServed' /\ RowsMatch'
  <2>1. /\ paper'.exists = paper.exists /\ paper'.url = paper.url
        /\ paper'.scope = paper.scope /\ paper'.chunked = paper.chunked
    BY <1>1, <1>a DEF Publish, Stage, SetAside, Place, CommitPointer, Rollback, PaperRecords
  <2>2. /\ job' = job /\ chunks' = chunks /\ point' = point /\ losses' = losses
        /\ crashes' = crashes /\ (failures' = failures \/ failures' = failures + 1)
    BY <1>1 DEF Publish, Stage, SetAside, Place, CommitPointer, Rollback
  <2>3. QED
    BY <1>a, <2>1, <2>2, FrameKeepsVectors
<1>2. ASSUME NEW j \in Jobs, StartProcess(j) \/ StartReconcile(j) \/ StartReclaim(j)
      PROVE  (\A k \in Jobs : JobVectors(job[k]))' /\ RowsServed' /\ RowsMatch'
  <2>1. PICK pc \in {"source", "snapshot", "reclaim"} : StartAt(j, pc)
    BY <1>2 DEF StartProcess, StartReconcile, StartReclaim
  <2>2. \A k \in Jobs : job[k].pc = "idle"
    BY <2>1, ContentAssumption DEF ContentTypes, JobsInv, WorkersHoldTheLock, StartAt
  <2>3. \A k \in Jobs : job'[k].pc \in {"idle", "source", "snapshot", "reclaim"}
    BY <1>a, <2>1, <2>2 DEF StartAt, JobRecords
  <2>4. (\A k \in Jobs : JobVectors(job[k]))'
    BY <2>3 DEF JobVectors, RunInv, ReconcileInv, PointInv
  <2>5. QED
    BY <2>1, <2>2, <2>4 DEF StartAt, VectorsInv, RowsServed, RowsMatch, Served
<1>3. ASSUME NEW u \in Urls, Promote(u)
      PROVE  (\A k \in Jobs : JobVectors(job[k]))' /\ RowsServed' /\ RowsMatch'
  <2>1. /\ job' = job /\ point' = point /\ losses' = losses
        /\ failures' = failures /\ crashes' = crashes
    BY <1>3 DEF Promote
  <2>2. CASE u = paper.url
    <3>1. paper' = [paper EXCEPT !.scope = "public"] /\ chunks' = chunks
      BY <1>3, <2>2 DEF Promote
    <3>2. /\ paper'.scope = "public" /\ paper'.exists = paper.exists
          /\ paper'.url = paper.url /\ paper'.chunked = paper.chunked
      BY <1>a, <3>1 DEF PaperRecords
    <3>3. QED
      BY <2>1, <3>1, <3>2, PublicKeepsVectors
  <2>3. CASE u # paper.url
    <3>1. /\ paper' = [paper EXCEPT !.url = u, !.scope = "public", !.pointer = FALSE,
                                    !.chunked = FALSE]
          /\ chunks' = NoRows
      BY <1>3, <2>3 DEF Promote
    <3>2. paper'.scope = "public" /\ ~paper'.chunked
      BY <1>a, <3>1 DEF PaperRecords
    <3>3. QED
      BY <2>1, <3>1, <3>2, DiscardKeepsVectors
  <2>4. QED
    BY <2>2, <2>3
<1>4. CASE Erase
  <2>1. /\ job' = job /\ point' = point /\ losses' = losses /\ failures' = failures
        /\ chunks' = NoRows
    BY <1>4 DEF Erase
  <2>2. ~paper'.chunked /\ paper'.scope = paper.scope
    BY <1>4, <1>a DEF Erase, PaperRecords
  <2>3. QED
    BY <2>1, <2>2, DiscardKeepsVectors
<1>5. CASE LosePoints
  <2>1. losses' # 0 /\ job' = job /\ paper' = paper /\ chunks' = chunks /\ failures' = failures
        /\ point'.content = Nothing
    BY <1>5, <1>a DEF LosePoints, NoPoint
  <2>2. ASSUME NEW k \in Jobs PROVE JobVectors(job[k])'
    <3>1. JobVectors(job[k])
      BY DEF VectorsInv
    <3>2. QED
      BY <2>1, <3>1 DEF JobVectors, RunInv, ReconcileInv, PointInv, Given
  <2>3. QED
    BY <2>1, <2>2 DEF RowsServed, RowsMatch, Served
<1>6. CASE Crash
  <2>1. /\ \A k \in Jobs : job'[k].pc = "idle"
        /\ crashes' # 0 /\ losses' = losses /\ paper' = paper /\ chunks' = chunks
        /\ point' = point
    BY <1>6, <1>a DEF Crash, Idle
  <2>2. (\A k \in Jobs : JobVectors(job[k]))'
    BY <2>1 DEF JobVectors, RunInv, ReconcileInv, PointInv
  <2>3. QED
    BY <2>1, <2>2 DEF VectorsInv, RowsServed, RowsMatch, Served
<1>7. CASE UNCHANGED vars
  <2>1. /\ job' = job /\ paper' = paper /\ chunks' = chunks /\ point' = point
        /\ losses' = losses /\ crashes' = crashes /\ failures' = failures
    BY <1>7 DEF vars
  <2>2. QED
    BY <1>a, <2>1, FrameKeepsVectors
<1>8. CASE EraseFails
  <2>1. /\ job' = job /\ paper' = paper /\ chunks' = chunks /\ point' = point
        /\ losses' = losses /\ crashes' = crashes /\ failures' = failures + 1
    BY <1>8 DEF EraseFails
  <2>2. QED
    BY <1>a, <2>1, FrameKeepsVectors
<1>9. QED
  BY <1>1, <1>2, <1>3, <1>4, <1>5, <1>6, <1>7, <1>8, WorkKeepsVectors DEF Next

LEMMA VectorsInvariant == Spec => []VectorsInv
<1>1. Init => VectorsInv
  <2> SUFFICES ASSUME Init PROVE VectorsInv
    OBVIOUS
  <2>1. PrivateHasOneContent
    BY DEF Init, PrivateHasOneContent, Given, NoRows, NoPoint, Idle, NotDownloading
  <2>2. \A j \in Jobs : JobVectors(job[j])
    BY DEF Init, Idle, JobVectors, RunInv, ReconcileInv, PointInv
  <2>3. QED
    BY <2>1, <2>2 DEF Init, VectorsInv, RowsServed, RowsMatch, Served
<1>2. ContentTypes /\ StoredSourceIsCurrent /\ VectorsInv /\ [Next]_vars => VectorsInv'
  BY VectorsStep
<1>3. QED
  BY <1>1, <1>2, TypesInvariant, StoredRowsAreCurrent, PTL DEF Spec

\* Between two jobs every stored row has its vector, however often promotions,
\* runs, reconciliations and reclaims overlapped, and no matter which of them
\* failed: the deletions (reconcile_paper_embeddings, reclaim_discarded_paper_content)
\* never hit what a row still needs.  Without a failure or a restart it is the
\* vector of that row.
THEOREM StoredRowsHaveVectors == Spec => []RowsHaveVectors
<1>1. ContentTypes /\ VectorsInv => RowsHaveVectors
  <2> SUFFICES ASSUME ContentTypes, VectorsInv, paperLock = Free, Served
               PROVE  /\ point # NoPoint
                      /\ failures = 0 /\ crashes = 0 => point.content = chunks.content
    BY DEF RowsHaveVectors, Served
  <2>1. \A j \in Jobs : job[j].pc # "commit"
    BY ContentAssumption DEF ContentTypes, JobsInv, WorkersHoldTheLock
  <2>2. QED
    BY <2>1 DEF VectorsInv, RowsServed, RowsMatch
<1>2. QED
  BY <1>1, TypesInvariant, VectorsInvariant, PTL
=============================================================================
