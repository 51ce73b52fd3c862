---------------------------- MODULE PaperContent ----------------------------
(***************************************************************************)
(* What Research derives from the PDF of one paper: the stored file, the   *)
(* chunk rows and the vector points.                                       *)
(*                                                                         *)
(* Three stores change together without a common transaction.  Jobs that   *)
(* write vectors hold the lock of the paper, publishers of a file hold the *)
(* publication lock, and a promotion, which replaces the source of a paper *)
(* and discards what was derived from the old one, holds neither: its      *)
(* caller reclaims files and vectors afterwards, when nobody may need them.*)
(*                                                                         *)
(* A document has one chunk here, so a partial save is a row that is not   *)
(* complete.  What a file, a row or a point holds is the URL it came from. *)
(***************************************************************************)
EXTENDS Naturals, FiniteSets

CONSTANTS
    Urls,           \* values of papers.pdf_url
    FirstUrl,
    Jobs,           \* process runs, reconciliations and reclaims under way
    Downloads,      \* downloads under way
    MaxPromotions,  \* bound: refreshes by a verified adapter
    MaxJobs,        \* bound: jobs started
    MaxDownloads,   \* bound: downloads started
    MaxFailures,    \* bound: failing embeddings, commits, cleanups and erasures
    MaxCrashes,     \* bound: restarts of the process
    MaxLosses       \* bound: losses of the vector collection

Nothing == "nothing"
Free == "free"
MaxAttempts == 3    \* _RECONCILE_MAX_ATTEMPTS

ASSUME ContentAssumption ==
    /\ FirstUrl \in Urls /\ Nothing \notin Urls
    /\ Free \notin Jobs \cup Downloads
    /\ {MaxPromotions, MaxJobs, MaxDownloads, MaxFailures, MaxCrashes, MaxLosses} \subseteq Nat

VARIABLES
    paper,        \* the row of papers: [url, scope, pointer, chunked, exists]
    chunks,       \* the rows of paper_chunks: content, the source of the run
                  \* that stored them, and whether they are all (the last two
                  \* are history)
    point,        \* the points of Qdrant: content and visibility scope
    file, spare,  \* {paper_id}.pdf and the backup of a publication
    torn,         \* history: an erasure that was rolled back took the file,
                  \* and no publication has put one in its place
    paperLock, publishLock,
    job, download,
    owed,         \* reclaims that promotions have still to start
    promotions, jobs, downloads, failures, crashes, losses

paperVars == <<paper, chunks>>
fileVars == <<file, spare, torn>>
budgets == <<promotions, jobs, downloads, failures, crashes, losses>>
vars == <<paperVars, point, fileVars, paperLock, publishLock, job, download, owed, budgets>>

Sources == Urls \cup {Nothing}
Scopes == {"private", "public"}
Rows == [content : Urls, source : Urls, complete : BOOLEAN]
Points == [content : Urls, scope : Scopes]
NoRows == [content |-> Nothing]
NoPoint == [content |-> Nothing]
Pcs == {"idle", "source", "ready", "read", "store", "partial", "commit",
        "snapshot", "probe", "embed", "verify", "mark", "reclaim", "vectors", "files"}
PaperRecords == [url : Urls, scope : Scopes, pointer : BOOLEAN, chunked : BOOLEAN,
                 exists : BOOLEAN]
JobRecords == [pc : Pcs, source : Sources, scope : Scopes, content : Sources,
               seen : Rows \cup {NoRows}, wrote : BOOLEAN, tries : 0..MaxAttempts]
DownloadRecords == [pc : {"idle", "staged", "aside", "promoted"}, url : Sources]
Idle == [pc |-> "idle", source |-> Nothing, scope |-> "private", content |-> Nothing,
         seen |-> NoRows, wrote |-> FALSE, tries |-> 0]
NotDownloading == [pc |-> "idle", url |-> Nothing]

TypeOK ==
    /\ paper \in PaperRecords
    /\ chunks \in Rows \cup {NoRows}
    /\ point \in Points \cup {NoPoint}
    /\ file \in Sources /\ spare \in Sources /\ torn \in BOOLEAN
    /\ paperLock \in Jobs \cup {Free}
    /\ publishLock \in Downloads \cup {Free}
    /\ job \in [Jobs -> JobRecords]
    /\ download \in [Downloads -> DownloadRecords]
    /\ owed \in 0..MaxPromotions
    /\ promotions \in 0..MaxPromotions /\ jobs \in 0..MaxJobs
    /\ downloads \in 0..MaxDownloads /\ failures \in 0..MaxFailures
    /\ crashes \in 0..MaxCrashes /\ losses \in 0..MaxLosses

Init ==
    /\ paper = [url |-> FirstUrl, scope |-> "private", pointer |-> FALSE,
                chunked |-> FALSE, exists |-> TRUE]
    /\ chunks = NoRows /\ point = NoPoint
    /\ file = Nothing /\ spare = Nothing /\ torn = FALSE
    /\ paperLock = Free /\ publishLock = Free
    /\ job = [j \in Jobs |-> Idle]
    /\ download = [d \in Downloads |-> NotDownloading]
    /\ owed = 0
    /\ promotions = 0 /\ jobs = 0 /\ downloads = 0
    /\ failures = 0 /\ crashes = 0 /\ losses = 0

-----------------------------------------------------------------------------
(* Downloads: download_and_store_pdf and PDFPublishOperation *)

published == <<chunks, point, paperLock, job, owed, promotions, jobs, crashes, losses>>
publishing == <<published, failures>>

\* The URL is read and fetched with no lock held.
Stage(d) ==
    /\ download[d] = NotDownloading
    /\ paper.exists /\ downloads < MaxDownloads
    /\ downloads' = downloads + 1
    /\ download' = [download EXCEPT ![d] = [pc |-> "staged", url |-> paper.url]]
    /\ UNCHANGED <<paper, fileVars, publishLock, publishing>>

\* _promote_sync puts the previous file aside ...
SetAside(d) ==
    /\ download[d].pc = "staged" /\ publishLock = Free
    /\ publishLock' = d
    /\ spare' = file /\ file' = Nothing
    /\ download' = [download EXCEPT ![d].pc = "aside"]
    /\ UNCHANGED <<paper, torn, downloads, publishing>>

\* ... and renames the staged one.
Place(d) ==
    /\ download[d].pc = "aside"
    /\ file' = download[d].url
    /\ download' = [download EXCEPT ![d].pc = "promoted"]
    /\ UNCHANGED <<paper, spare, torn, publishLock, downloads, publishing>>

EndDownload(d) ==
    /\ publishLock' = Free /\ spare' = Nothing
    /\ download' = [download EXCEPT ![d] = NotDownloading]
    /\ UNCHANGED downloads

\* The pointer is written only if the row still has the URL that was fetched.
CommitPointer(d) ==
    /\ download[d].pc = "promoted"
    /\ paper.exists /\ paper.url = download[d].url
    /\ paper' = [paper EXCEPT !.pointer = TRUE]
    /\ torn' = FALSE
    /\ EndDownload(d)
    /\ UNCHANGED <<file, publishing>>

\* _rollback_sync: the row has another URL, or the database fails.
Rollback(d) ==
    /\ download[d].pc = "promoted"
    /\ \/ ~(paper.exists /\ paper.url = download[d].url) /\ UNCHANGED failures
       \/ failures < MaxFailures /\ failures' = failures + 1
    /\ file' = spare
    /\ EndDownload(d)
    /\ UNCHANGED <<paper, torn, published>>

Publish(d) == Stage(d) \/ SetAside(d) \/ Place(d) \/ CommitPointer(d) \/ Rollback(d)

-----------------------------------------------------------------------------
(* Jobs.  The lock of the paper spans each of them. *)

outside == <<fileVars, publishLock, download, owed, promotions, jobs, downloads, crashes, losses>>
working == <<outside, failures>>

StartAt(j, pc) ==
    /\ paperLock = Free /\ jobs < MaxJobs
    /\ paperLock' = j /\ jobs' = jobs + 1
    /\ job' = [job EXCEPT ![j].pc = pc]
    /\ UNCHANGED <<paperVars, point, fileVars, publishLock, download, promotions,
                   downloads, failures, crashes, losses>>

StartProcess(j) == StartAt(j, "source") /\ UNCHANGED owed
StartReconcile(j) == StartAt(j, "snapshot") /\ UNCHANGED owed
\* Mutant: any number of reclaims for a promotion.
StartReclaimAgain(j) ==
    /\ promotions > 0 /\ StartAt(j, "reclaim")
    /\ owed' = owed - 1

StartReclaim(j) == owed > 0 /\ StartAt(j, "reclaim") /\ owed' = owed - 1

At(j, pc) == job[j].pc = pc
Go(j, pc) == job' = [job EXCEPT ![j].pc = pc] /\ UNCHANGED paperLock
EndJob(j) == job' = [job EXCEPT ![j] = Idle] /\ paperLock' = Free

\* An exception or the cancellation of a job, before its next effect.
Fail(j) ==
    /\ ~At(j, "idle") /\ failures < MaxFailures
    /\ failures' = failures + 1
    /\ EndJob(j)
    /\ UNCHANGED <<paperVars, point, outside>>

-----------------------------------------------------------------------------
(* run_process_pdf *)

\* _load_pdf_process_premise reads the URL first ...
ReadSource(j) ==
    /\ At(j, "source")
    /\ job' = [job EXCEPT ![j].source = IF paper.exists THEN paper.url ELSE Nothing,
                          ![j].pc = "ready"]
    /\ UNCHANGED <<paperVars, point, paperLock, working>>

\* ... and then whether the file is the paper's, its scope and its rows.  A
\* complete paper is only reconciled unless the run is forced.
CheckReady(j) ==
    /\ At(j, "ready")
    /\ IF paper.exists /\ paper.pointer
       THEN \E pc \in IF paper.chunked /\ chunks # NoRows THEN {"snapshot", "read"} ELSE {"read"} :
                /\ job' = [job EXCEPT ![j].scope = paper.scope, ![j].pc = pc]
                /\ UNCHANGED paperLock
       ELSE Go(j, "reclaim")
    /\ UNCHANGED <<paperVars, point, working>>

\* The processor opens the file, with no lock on it.
ReadFile(j) ==
    /\ At(j, "read")
    /\ IF file = Nothing THEN EndJob(j)
       ELSE /\ job' = [job EXCEPT ![j].content = file, ![j].pc = "store"]
            /\ UNCHANGED paperLock
    /\ UNCHANGED <<paperVars, point, working>>

\* embed_and_store: a point that can be reused gets the same content and scope.
Store(j) ==
    /\ At(j, "store")
    /\ point' = [content |-> job[j].content, scope |-> job[j].scope]
    /\ Go(j, "commit")
    /\ UNCHANGED <<paperVars, working>>

\* EmbeddingBatchError after the first batches
StorePrefix(j) ==
    /\ At(j, "store") /\ failures < MaxFailures
    /\ failures' = failures + 1
    /\ point' = [content |-> job[j].content, scope |-> job[j].scope]
    /\ Go(j, "partial")
    /\ UNCHANGED <<paperVars, outside>>

\* Mutant: the fence only looks for the row.
RowExists(j) == paper.exists /\ job[j].source # Nothing

\* _require_unchanged_source_url, under the lock of the row
SourceUnchanged(j) == paper.exists /\ paper.url = job[j].source

StoredBy(j, all) == [content |-> job[j].content, source |-> job[j].source, complete |-> all]

\* _persist_resumable_chunks: chunked_at stays as it is.
SavePartial(j) ==
    /\ At(j, "partial")
    /\ IF SourceUnchanged(j)
       THEN chunks' = StoredBy(j, FALSE) /\ EndJob(j)
       ELSE Go(j, "reclaim") /\ UNCHANGED chunks
    /\ UNCHANGED <<paper, point, working>>

\* _persist_processed_pdf
Commit(j) ==
    /\ At(j, "commit")
    /\ IF SourceUnchanged(j)
       THEN /\ chunks' = StoredBy(j, TRUE)
            /\ paper' = [paper EXCEPT !.chunked = TRUE]
            /\ EndJob(j)
       ELSE Go(j, "reclaim") /\ UNCHANGED paperVars
    /\ UNCHANGED <<point, working>>

-----------------------------------------------------------------------------
(* _reconcile_paper_embeddings_locked *)

\* The vector-bearing fields, and the scope of the paper.
Snapshot(j) ==
    /\ At(j, "snapshot")
    /\ IF chunks = NoRows THEN EndJob(j)
       ELSE /\ job' = [job EXCEPT ![j].seen = chunks, ![j].content = chunks.content,
                                  ![j].scope = paper.scope, ![j].wrote = FALSE,
                                  ![j].tries = @ + 1, ![j].pc = "probe"]
            /\ UNCHANGED paperLock
    /\ UNCHANGED <<paperVars, point, working>>

\* _reconcile_resume_content: a point of the same content only gets its scope.
Probe(j) ==
    /\ At(j, "probe")
    /\ IF point.content = job[j].content
       THEN point' = [point EXCEPT !.scope = job[j].scope] /\ Go(j, "verify")
       ELSE Go(j, "embed") /\ UNCHANGED point
    /\ UNCHANGED <<paperVars, working>>

Embed(j) ==
    /\ At(j, "embed")
    /\ point' = [content |-> job[j].content, scope |-> job[j].scope]
    /\ job' = [job EXCEPT ![j].wrote = TRUE, ![j].pc = "verify"]
    /\ UNCHANGED <<paperVars, paperLock, working>>

Unchanged(j) == chunks = job[j].seen /\ paper.scope = job[j].scope

\* The rows are read again.  If they changed, what was written is deleted and
\* the job tries again.
Verify(j) ==
    /\ At(j, "verify")
    /\ IF Unchanged(j) THEN Go(j, "mark") /\ UNCHANGED point
       ELSE /\ point' = IF job[j].wrote THEN NoPoint ELSE point
            /\ IF job[j].tries < MaxAttempts THEN Go(j, "snapshot") ELSE EndJob(j)
    /\ UNCHANGED <<paperVars, working>>

\* The UPDATE of _mark_reconcile_healthy and _commit_reconciled_chunk_metadata:
\* the read before it locked nothing.
Mark(j) ==
    /\ At(j, "mark")
    /\ paper' = [paper EXCEPT !.chunked = @ \/ paper.exists]
    /\ EndJob(j)
    /\ UNCHANGED <<chunks, point, working>>

-----------------------------------------------------------------------------
(* _reclaim_discarded_paper_content_on_connection *)

Discarded == paper.exists /\ ~paper.pointer /\ ~paper.chunked

\* Mutant: the premise of the reclaim is not read.
TrustPremise(j) ==
    /\ At(j, "reclaim")
    /\ Go(j, "vectors")
    /\ UNCHANGED <<paperVars, point, working>>

ReadPremise(j) ==
    /\ At(j, "reclaim")
    /\ IF Discarded THEN Go(j, "vectors") ELSE EndJob(j)
    /\ UNCHANGED <<paperVars, point, working>>

\* Best effort: the files are next in any case.
DeleteVectors(j) ==
    /\ At(j, "vectors")
    /\ \/ point' = NoPoint /\ UNCHANGED failures
       \/ failures < MaxFailures /\ failures' = failures + 1 /\ UNCHANGED point
    /\ Go(j, "files")
    /\ UNCHANGED <<paperVars, outside>>

\* Mutant: the premise is not read again under the publication lock.
DeleteFilesBlindly(j) ==
    /\ At(j, "files") /\ publishLock = Free
    /\ file' = Nothing
    /\ EndJob(j)
    /\ UNCHANGED <<paperVars, point, spare, torn, publishLock, download, owed, budgets>>

\* _reclaim_stored_files reads the premise again under the publication lock.
DeleteFiles(j) ==
    /\ At(j, "files") /\ publishLock = Free
    /\ file' = IF Discarded THEN Nothing ELSE file
    /\ EndJob(j)
    /\ UNCHANGED <<paperVars, point, spare, torn, publishLock, download, owed, budgets>>

Work(j) ==
    \/ ReadSource(j) \/ CheckReady(j) \/ ReadFile(j) \/ Store(j) \/ StorePrefix(j)
    \/ SavePartial(j) \/ Commit(j)
    \/ Snapshot(j) \/ Probe(j) \/ Embed(j) \/ Verify(j) \/ Mark(j)
    \/ ReadPremise(j) \/ DeleteVectors(j) \/ DeleteFiles(j)

-----------------------------------------------------------------------------
(* The environment *)

environment == <<paperLock, job, jobs, downloads, failures>>

\* upsert_verified_public_paper: one transaction, and a reclaim by its caller.
Promote(u) ==
    /\ paper.exists /\ promotions < MaxPromotions
    /\ promotions' = promotions + 1
    /\ IF u = paper.url
       THEN paper' = [paper EXCEPT !.scope = "public"] /\ UNCHANGED <<chunks, owed>>
       ELSE /\ paper' = [paper EXCEPT !.url = u, !.scope = "public",
                                     !.pointer = FALSE, !.chunked = FALSE]
            /\ chunks' = NoRows
            /\ owed' = owed + 1
    /\ UNCHANGED <<point, fileVars, publishLock, download, crashes, losses, environment>>

\* Mutant: the publication lock is not taken.
EraseUnlocked ==
    /\ paper.exists /\ paper.scope = "private"
    /\ paper' = [paper EXCEPT !.exists = FALSE, !.pointer = FALSE, !.chunked = FALSE]
    /\ chunks' = NoRows
    /\ file' = Nothing
    /\ UNCHANGED <<point, spare, torn, publishLock, download, owed, promotions, crashes, losses,
                   environment>>

\* erase_orphaned_user_papers: the row, the rows of its chunks and its files in
\* one transaction, under the publication lock.
Erase ==
    /\ paper.exists /\ paper.scope = "private" /\ publishLock = Free
    /\ paper' = [paper EXCEPT !.exists = FALSE, !.pointer = FALSE, !.chunked = FALSE]
    /\ chunks' = NoRows
    /\ file' = Nothing
    /\ UNCHANGED <<point, spare, torn, publishLock, download, owed, promotions, crashes, losses,
                   environment>>

\* The files go before that transaction commits (_remove_stored_paper_files): when
\* the cleanup of another file, of the page images, or the commit fails, the rows
\* come back and what was unlinked does not.  One that fails before it has
\* unlinked this file changes nothing.
EraseFails ==
    /\ paper.exists /\ paper.scope = "private" /\ publishLock = Free
    /\ failures < MaxFailures /\ failures' = failures + 1
    /\ file' = Nothing /\ torn' = TRUE
    /\ UNCHANGED <<paperVars, point, spare, publishLock, download, owed, promotions, crashes,
                   losses, paperLock, job, jobs, downloads>>

\* The collection is lost and made again, empty.
LosePoints ==
    /\ losses < MaxLosses /\ point # NoPoint
    /\ losses' = losses + 1 /\ point' = NoPoint
    /\ UNCHANGED <<paperVars, fileVars, publishLock, download, owed, promotions, crashes,
                   environment>>

\* The process restarts: its locks go, its files and vectors stay, and nobody
\* starts the reclaims that were owed.
Crash ==
    /\ crashes < MaxCrashes
    /\ crashes' = crashes + 1
    /\ paperLock' = Free /\ publishLock' = Free
    /\ job' = [j \in Jobs |-> Idle]
    /\ download' = [d \in Downloads |-> NotDownloading]
    /\ owed' = 0 /\ spare' = Nothing
    /\ UNCHANGED <<paperVars, point, file, torn, promotions, jobs, downloads, failures, losses>>

Next ==
    \/ \E d \in Downloads : Publish(d)
    \/ \E j \in Jobs : \/ StartProcess(j) \/ StartReconcile(j) \/ StartReclaim(j)
                      \/ Work(j) \/ Fail(j)
    \/ \E u \in Urls : Promote(u)
    \/ Erase \/ EraseFails \/ LosePoints \/ Crash

Spec == Init /\ [][Next]_vars

-----------------------------------------------------------------------------
(* Safety *)

\* The fence of a commit (_require_unchanged_source_url) and the transaction of a
\* promotion (upsert_verified_public_paper): whatever they overlap with, stored
\* rows belong to a run that began with the current URL.
StoredSourceIsCurrent == chunks # NoRows => paper.exists /\ chunks.source = paper.url

\* No reclaim (reclaim_discarded_paper_content), rebuild, repair
\* (reconcile_paper_embeddings) or rejected run takes away the vector of a row
\* that is stored, unless the collection itself was lost; and unless a job was
\* cut short after its upsert, the vector has the content of the row.
RowsHaveVectors ==
    (paperLock = Free /\ losses = 0 /\ paper.chunked /\ chunks # NoRows) =>
        /\ point # NoPoint
        /\ failures = 0 /\ crashes = 0 => point.content = chunks.content

\* Between publications (PDFPublishOperation) the pointer names a file of the
\* current URL, whatever a reclaim of the same name deletes (_reclaim_stored_files).
\* An erasure that is rolled back (erase_orphaned_user_papers) may leave the row
\* without its file, until the next publication; never with another file.
PointerMatchesFile ==
    (publishLock = Free /\ crashes = 0 /\ paper.pointer) =>
        file = paper.url \/ (torn /\ file = Nothing)

\* A paper erased with its account (erase_orphaned_user_papers) leaves no file
\* behind, whatever was being published.
ErasedLeavesNoFile ==
    (publishLock = Free /\ crashes = 0 /\ ~paper.exists) => file = Nothing

-----------------------------------------------------------------------------
(* What the code says of itself, and does not do *)

\* A partial save (_persist_resumable_chunks) is to be resumed by the next run.  A
\* reconciliation in between (_mark_reconcile_healthy) marks the paper as chunked,
\* and the next run finds it processed already.
ChunkedIsComplete == (paper.chunked /\ chunks # NoRows) => chunks.complete
=============================================================================
