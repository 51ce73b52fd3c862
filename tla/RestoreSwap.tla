---------------------------- MODULE RestoreSwap ----------------------------
(***************************************************************************)
(* The restore of a backup set (src/scripts/restore.sh), driven on the     *)
(* host by `jarvis-research restore run` and `restore legacy`.  It         *)
(* replaces two databases by renaming, three data keys as one transaction  *)
(* and the PDF files under a journal, and it may be killed between any two *)
(* of these steps; `restore.sh --recover` then finishes or reverts the     *)
(* replacement that was under way.  Two sentinels keep the application     *)
(* closed meanwhile: .maintenance expires when the heartbeat stops,        *)
(* .destructive does not.                                                  *)
(***************************************************************************)
EXTENDS Naturals, FiniteSets

CONSTANTS
    None,        \* no copy, no request, no key transaction
    Mixed,       \* some keys of one data set and some of another
    Backups,     \* the data sets that can be restored; 0 is the data at hand
    Keyed,       \* those that carry an archive of their data keys
    Files,       \* names of PDF files
    Inventory,   \* the PDF files of each data set
    Sources,     \* where the archives of each data set can be requested from
    Runs,        \* identifiers of requests; one is used again when free
    MaxFaults    \* bound on crashes, failing statements and timeouts

Databases == {"jarvis", "litellm"}
DataSets == Backups \cup {0}

ASSUME BackupsAssumption == Backups \subseteq Nat \ {0}
ASSUME KeyedAssumption == Keyed \subseteq Backups
ASSUME InventoryAssumption == Inventory \in [DataSets -> SUBSET Files]
ASSUME SourcesAssumption == Sources \in [Backups -> SUBSET {"local", "inbox"}]
ASSUME RunsAssumption == Runs \subseteq Nat \ {0}
ASSUME MaxFaultsAssumption == MaxFaults \in Nat

VARIABLES
    catalog,      \* per database: its live, _restore_tmp and _pre_restore copy
    journal,      \* restore-swap-state.json, of a database or of the PDFs
    keys,         \* the data set of the installed data keys
    txn,          \* the directory data-key-restore
    main,         \* the PDF files in place, each with its data set
    stage,        \* .restore-stage-<run>
    old,          \* .restore-old-<run>
    maintenance,  \* .maintenance: "off", "fresh" or "stale"
    destructive,  \* .destructive
    lifecycle,    \* operation.state holds "restore"
    status,       \* .restore_status.json
    authority,    \* restore-authority.json: the run, or 0
    quarantine,   \* .outbound-quarantine.json
    request,      \* .restore_request.json
    job,          \* the script or host command that is running
    faults,       \* faults so far
    committed     \* history: the data set whose PDFs were committed last

dbVars    == <<catalog>>
keyVars   == <<keys, txn>>
pdfVars   == <<main, stage, old, committed>>
holdVars  == <<maintenance, destructive, lifecycle>>
fileVars  == <<status, authority, quarantine, request>>
vars == <<dbVars, keyVars, pdfVars, holdVars, fileVars, journal, job, faults>>

-----------------------------------------------------------------------------
(* Types.  A copy of a database is whole when its schema verifies, open     *)
(* when it accepts connections, and ready when its ownership, grants and    *)
(* migrations are those of the installed code.                              *)

Copy == [set : DataSets, whole : BOOLEAN, open : BOOLEAN, ready : BOOLEAN]
Slot == Copy \cup {None}
Pdf == Files \X DataSets
Content(s) == Inventory[s] \X {s}
Request == [id : Runs, set : Backups, source : {"local", "inbox"}]
Txn == [full : BOOLEAN, old : DataSets \cup {Mixed}, new : DataSets]
Copies == [live : Slot, tmp : Slot, pre : Slot]
Statuses == [state : {"none", "running", "done", "failed"},
             authority : BOOLEAN, id : Runs \cup {0}]

ASSUME MixedAssumption == Mixed \notin DataSets
ASSUME NoneAssumption == None \notin Copy \cup Request \cup Txn

JournalOf == {"none", "pdfs"} \cup Databases
PdfPhases == {"move_old", "move_new", "verify", "cleanup"}
NoJournal == [of |-> "none", run |-> 0, set |-> 0, phase |-> "move_old"]
DbJournal(d) == [NoJournal EXCEPT !.of = d]
PdfJournal(r, s, p) == [of |-> "pdfs", run |-> r, set |-> s, phase |-> p]

NoJob == [mode |-> "none", pc |-> "idle", id |-> 0, set |-> 0,
          source |-> "local", db |-> "jarvis", swapping |-> FALSE,
          state |-> "running", clean |-> FALSE, dropped |-> FALSE,
          staged |-> FALSE]
Modes == {"none", "recover", "request", "complete", "host"}

\* Where a request or a recovery can be.
DbSteps == {"reconcile", "heal", "dropStale", "cleared", "forward", "judge",
            "dropOld", "park1", "park2", "reopen", "putBack", "dropParked",
            "reverted", "create", "note", "reload", "mark", "disallow",
            "renameOut", "renameIn", "verify", "dropPre", "swapped"}
KeySteps == {"keys", "copyKeys", "replace", "replaced", "rmTxn"}
PdfSteps == {"pdfs", "pdf", "rmDirs"}
HandoverSteps == {"handover", "quarantine", "authority"}
EarlySteps == {"consume", "admit", "preflight", "raise"}
ExitSteps == {"tidy", "report", "lift", "finish"}
HostSteps == {"decide", "rebuild"}
CompleteSteps == {"complete", "forget"}
Steps == DbSteps \cup KeySteps \cup PdfSteps \cup HandoverSteps
         \cup EarlySteps \cup ExitSteps \cup HostSteps \cup CompleteSteps
         \cup {"idle", "recover", "safety", "rotate"}

Journals == [of : JournalOf, run : Runs \cup {0}, set : DataSets, phase : PdfPhases]
Processes == [mode : Modes, pc : Steps, id : Runs \cup {0}, set : DataSets,
              source : {"local", "inbox"}, db : Databases,
              swapping : BOOLEAN, state : {"running", "done", "failed"},
              clean : BOOLEAN, dropped : BOOLEAN, staged : BOOLEAN]

TypeOK ==
    /\ catalog \in [Databases -> Copies]
    /\ journal \in Journals
    /\ keys \in DataSets \cup {Mixed}
    /\ txn \in Txn \cup {None}
    /\ main \subseteq Pdf
    /\ stage \in [Runs -> SUBSET Pdf] /\ old \in [Runs -> SUBSET Pdf]
    /\ maintenance \in {"off", "fresh", "stale"}
    /\ destructive \in BOOLEAN /\ lifecycle \in BOOLEAN /\ quarantine \in BOOLEAN
    /\ status \in Statuses
    /\ authority \in Runs \cup {0}
    /\ request \in Request \cup {None}
    /\ job \in Processes
    /\ faults \in 0..MaxFaults
    /\ committed \in DataSets

Original == [set |-> 0, whole |-> TRUE, open |-> TRUE, ready |-> TRUE]

Init ==
    /\ catalog = [d \in Databases |->
                    [live |-> Original, tmp |-> None, pre |-> None]]
    /\ journal = NoJournal
    /\ keys = 0 /\ txn = None
    /\ main = Content(0)
    /\ stage = [r \in Runs |-> {}] /\ old = [r \in Runs |-> {}]
    /\ maintenance = "off" /\ destructive = FALSE /\ lifecycle = FALSE
    /\ status = [state |-> "none", authority |-> FALSE, id |-> 0]
    /\ authority = 0 /\ quarantine = FALSE /\ request = None
    /\ job = NoJob /\ faults = 0 /\ committed = 0

-----------------------------------------------------------------------------
(* The running script.                                                      *)

At(p) == job.pc = p
Go(p) == job' = [job EXCEPT !.pc = p]
FaultUnless(c) == /\ c \/ faults < MaxFaults
                  /\ faults' = IF c THEN faults ELSE faults + 1
Fault == FaultUnless(FALSE)

\* Every terminal failure goes through the EXIT trap; whether maintenance is
\* lifted there depends on job.dropped.
Fail == job' = [job EXCEPT !.state = "failed", !.pc = "tidy"]

\* A step that goes on, or fails at the price of a fault.
GoOrFail(p) ==
    \/ Go(p) /\ UNCHANGED faults
    \/ Fault /\ Fail

\* A new process of the script: the durable sentinel is read back before
\* anything else, so that a failure keeps the hold of an earlier process.
Start(m, p, r) ==
    job' = [NoJob EXCEPT !.mode = m, !.pc = p, !.dropped = destructive,
                         !.id = r.id, !.set = r.set, !.source = r.source]
NoRequest == [id |-> 0, set |-> 0, source |-> "local"]

Held == destructive \/ maintenance = "fresh"
Serving == ~Held

-----------------------------------------------------------------------------
(* Statements on the two catalogs, named by the place they are made from.   *)

\* PostgreSQL refuses to rename onto an existing database, to create one that
\* exists and to alter one that does not.
Allowed(p, c) ==
    CASE p \in {"heal", "park1", "disallow"} -> c.live # None
      [] p \in {"forward", "renameIn"}       -> c.tmp # None /\ c.live = None
      [] p = "renameOut"                     -> c.live # None /\ c.pre = None
      [] p = "park2"                         -> c.live # None /\ c.tmp = None
      [] p = "reopen"                        -> c.pre # None
      [] p = "putBack"                       -> c.pre # None /\ c.live = None
      [] p \in {"dropStale", "dropParked"}   -> c.tmp # None
      [] p \in {"dropOld", "dropPre"}        -> c.pre # None
      [] p = "create"                        -> c.tmp = None

Executed(p, c) ==
    CASE p = "heal"                        -> [c EXCEPT !.live.open = TRUE]
      [] p \in {"park1", "disallow"}       -> [c EXCEPT !.live.open = FALSE]
      [] p \in {"forward", "renameIn"}     -> [c EXCEPT !.live = c.tmp, !.tmp = None]
      [] p = "renameOut"                   -> [c EXCEPT !.pre = c.live, !.live = None]
      [] p = "park2"                       -> [c EXCEPT !.tmp = c.live, !.live = None]
      [] p = "reopen"                      -> [c EXCEPT !.pre.open = TRUE]
      [] p = "putBack"                     -> [c EXCEPT !.live = c.pre, !.pre = None]
      [] p \in {"dropStale", "dropParked"} -> [c EXCEPT !.tmp = None]
      [] p \in {"dropOld", "dropPre"}      -> [c EXCEPT !.pre = None]
      [] p = "create" ->
           [c EXCEPT !.tmp = [set |-> job.set, whole |-> FALSE,
                              open |-> TRUE, ready |-> FALSE]]

\* The statement that follows; the others' failures are ignored (|| true).
After == [heal |-> "dropStale", dropStale |-> "cleared", forward |-> "judge",
          dropOld |-> "dropStale", park1 |-> "park2", park2 |-> "reopen",
          reopen |-> "putBack", putBack |-> "dropParked",
          dropParked |-> "reverted", create |-> "note",
          disallow |-> "renameOut", renameOut |-> "renameIn",
          renameIn |-> "verify", dropPre |-> "swapped"]
Required == {"forward", "create", "disallow", "renameOut", "renameIn", "dropPre"}

Here == catalog[job.db]

Statement ==
    /\ job.pc \in DOMAIN After
    /\ \/ /\ Allowed(job.pc, Here)
          /\ catalog' = [catalog EXCEPT ![job.db] = Executed(job.pc, Here)]
          /\ Go(After[job.pc]) /\ UNCHANGED faults
       \/ /\ FaultUnless(~Allowed(job.pc, Here))
          /\ IF job.pc \in Required THEN Fail ELSE Go(After[job.pc])
          /\ UNCHANGED catalog
    /\ UNCHANGED <<keyVars, pdfVars, holdVars, fileVars, journal>>

\* verify_db_structural needs a connection.
Verifies(c) == c # None /\ c.whole /\ c.open

\* Mutant: a swap that was renamed counts as finished.
ReconcileAsFinished ==
    /\ At("reconcile")
    /\ Go(IF Here.pre = None THEN "heal" ELSE "dropOld")
    /\ UNCHANGED <<dbVars, keyVars, pdfVars, holdVars, fileVars, journal, faults>>

(* reconcile_leftover: without a _pre_restore copy nothing was renamed; with *)
(* one, the swap is finished forward when possible and reverted otherwise.   *)
Reconcile ==
    /\ At("reconcile")
    /\ Go(IF Here.pre = None THEN "heal"
          ELSE IF Here.live = None /\ Here.tmp # None THEN "forward" ELSE "judge")
    /\ UNCHANGED <<dbVars, keyVars, pdfVars, holdVars, fileVars, journal, faults>>

Judge(p, good) ==
    /\ At(p)
    /\ \/ Verifies(Here.live) /\ Go(good) /\ UNCHANGED faults
       \/ FaultUnless(~Verifies(Here.live)) /\ Go("park1")
    /\ UNCHANGED <<dbVars, keyVars, pdfVars, holdVars, fileVars, journal>>

\* The end of reconcile_leftover: the journal is cleared, whatever it was of.
Reconciled ==
    /\ At("cleared")
    /\ journal' = NoJournal
    /\ IF job.mode = "recover"
       THEN job' = [job EXCEPT !.state = "done", !.pc = "tidy"]
       ELSE job' = [job EXCEPT !.swapping = TRUE, !.pc = "create"]
    /\ UNCHANGED <<dbVars, keyVars, pdfVars, holdVars, fileVars, faults>>

\* After a revert the swap itself returns with its journal in place.
Reverted ==
    /\ At("reverted")
    /\ journal' = IF job.swapping THEN journal ELSE NoJournal
    /\ Fail
    /\ UNCHANGED <<dbVars, keyVars, pdfVars, holdVars, fileVars, faults>>

(* restore_one_db_swap, the steps that are not statements on the catalogs.   *)
NoteReload ==
    /\ At("note")
    /\ journal' = DbJournal(job.db)
    /\ Go("reload")
    /\ UNCHANGED <<dbVars, keyVars, pdfVars, holdVars, fileVars, faults>>

Reload ==
    /\ At("reload")
    /\ \/ /\ catalog' = [catalog EXCEPT ![job.db].tmp.whole = TRUE]
          /\ Go("mark") /\ UNCHANGED faults
       \/ Fault /\ Fail /\ UNCHANGED catalog
    /\ UNCHANGED <<keyVars, pdfVars, holdVars, fileVars, journal>>

\* Mutant: only the process knows that data are being replaced.
MarkInMemory ==
    /\ At("mark")
    /\ job' = [job EXCEPT !.dropped = TRUE, !.pc = "disallow"]
    /\ UNCHANGED <<dbVars, keyVars, pdfVars, holdVars, fileVars, journal, faults>>

MarkDestructive ==
    /\ At("mark")
    /\ destructive' = TRUE
    /\ job' = [job EXCEPT !.dropped = TRUE, !.pc = "disallow"]
    /\ UNCHANGED <<dbVars, keyVars, pdfVars, maintenance, lifecycle, fileVars,
                   journal, faults>>

Swapped ==
    /\ At("swapped")
    /\ journal' = NoJournal
    /\ job' = IF job.db = "jarvis"
              THEN [job EXCEPT !.db = "litellm", !.swapping = FALSE,
                               !.pc = "reconcile"]
              ELSE [job EXCEPT !.swapping = FALSE, !.pc = "rotate"]
    /\ UNCHANGED <<dbVars, keyVars, pdfVars, holdVars, fileVars, faults>>

\* Mutant: the PDFs come next although keys were staged.
RotateSkippingKeys ==
    /\ At("rotate")
    /\ GoOrFail("pdfs")
    /\ UNCHANGED <<dbVars, keyVars, pdfVars, holdVars, fileVars, journal>>

\* Qdrant is best effort; the visibility checkpoint must be rotated.  The keys are
\* next when an archive of them was staged (DATA_KEYS_STAGED); a local set may have
\* none, and then those in place stay.
Rotate ==
    /\ At("rotate")
    /\ GoOrFail(IF job.set \in Keyed THEN "keys" ELSE "pdfs")
    /\ UNCHANGED <<dbVars, keyVars, pdfVars, holdVars, fileVars, journal>>

DatabaseStep ==
    \/ Statement \/ Reconcile \/ Judge("judge", "dropOld")
    \/ Judge("verify", "dropPre") \/ Reconciled \/ Reverted \/ NoteReload
    \/ Reload \/ MarkDestructive \/ Swapped \/ Rotate

-----------------------------------------------------------------------------
(* The data keys.  Recovery replays the transaction whatever its recorded   *)
(* state is, so that only its existence and its completeness matter.        *)

\* mkdir succeeds once; no other place makes or repairs the directory.
OpenKeys ==
    /\ At("keys")
    /\ IF txn = None
       THEN /\ txn' = [full |-> FALSE, old |-> keys, new |-> job.set]
            /\ Go("copyKeys")
       ELSE Fail /\ UNCHANGED txn
    /\ UNCHANGED <<dbVars, keys, pdfVars, holdVars, fileVars, journal, faults>>

CopyKeys ==
    /\ At("copyKeys")
    /\ \/ txn' = [txn EXCEPT !.full = TRUE] /\ Go("replace") /\ UNCHANGED faults
       \/ txn' = None /\ Fault /\ Fail
    /\ UNCHANGED <<dbVars, keys, pdfVars, holdVars, fileVars, journal>>

\* Mutant: the keys in place are removed before the new ones are installed.
RemoveKeysFirst ==
    /\ At("replace")
    /\ keys' = None /\ Go("replaced")
    /\ UNCHANGED <<dbVars, txn, pdfVars, holdVars, fileVars, journal, faults>>

\* Three files, one after the other.
ReplaceKeys ==
    /\ At("replace")
    /\ keys' = Mixed /\ Go("replaced")
    /\ UNCHANGED <<dbVars, txn, pdfVars, holdVars, fileVars, journal, faults>>

\* A replacement that fails is rolled back; the rollback may fail as well, and
\* so may the markers written after a complete replacement.
ReplacedKeys ==
    /\ At("replaced")
    /\ \/ keys' = txn.new /\ Go("rmTxn") /\ UNCHANGED <<txn, faults>>
       \/ /\ Fault /\ Fail
          /\ \/ /\ keys' = txn.old
                /\ txn' = IF job.mode = "recover" THEN txn ELSE None
             \/ keys' \in {Mixed, txn.new} /\ UNCHANGED txn
    /\ UNCHANGED <<dbVars, pdfVars, holdVars, fileVars, journal>>

\* Mutant: a recovered transaction stays.
CloseKeysOfRequests ==
    /\ At("rmTxn")
    /\ IF job.mode = "recover" THEN Fail /\ UNCHANGED txn ELSE Go("pdfs") /\ txn' = None
    /\ UNCHANGED <<dbVars, keys, pdfVars, holdVars, fileVars, journal, faults>>

\* A recovery of the keys always ends as failed.
CloseKeys ==
    /\ At("rmTxn")
    /\ txn' = None
    /\ IF job.mode = "recover" THEN Fail ELSE Go("pdfs")
    /\ UNCHANGED <<dbVars, keys, pdfVars, holdVars, fileVars, journal, faults>>

KeyStep == OpenKeys \/ CopyKeys \/ ReplaceKeys \/ ReplacedKeys \/ CloseKeys

-----------------------------------------------------------------------------
(* The PDF files, moved one at a time under the journal.                    *)

Named(n, S) == \E p \in S : p[1] = n

BeginPdfs ==
    /\ At("pdfs")
    /\ \/ /\ journal' = PdfJournal(job.id, job.set, "move_old")
          /\ Go("pdf") /\ UNCHANGED faults
       \/ Fault /\ Fail /\ UNCHANGED journal
    /\ UNCHANGED <<dbVars, keyVars, pdfVars, holdVars, fileVars>>

Advance(p) == journal' = [journal EXCEPT !.phase = p]

MoveOld ==
    /\ At("pdf") /\ journal.phase = "move_old"
    /\ \/ /\ \E p \in main :
               /\ ~Named(p[1], old[job.id])
               /\ main' = main \ {p}
               /\ old' = [old EXCEPT ![job.id] = @ \cup {p}]
          /\ UNCHANGED journal
       \/ main = {} /\ Advance("move_new") /\ UNCHANGED <<main, old>>
    /\ UNCHANGED <<dbVars, keyVars, stage, committed, holdVars, fileVars, job,
                   faults>>

MoveNew ==
    /\ At("pdf") /\ journal.phase = "move_new"
    /\ \/ /\ \E p \in stage[job.id] :
               /\ ~Named(p[1], main)
               /\ stage' = [stage EXCEPT ![job.id] = @ \ {p}]
               /\ main' = main \cup {p}
          /\ UNCHANGED journal
       \/ stage[job.id] = {} /\ Advance("verify") /\ UNCHANGED <<main, stage>>
    /\ UNCHANGED <<dbVars, keyVars, old, committed, holdVars, fileVars, job,
                   faults>>

\* The inventory is compared before the phase is recorded and again before
\* the journal is cleared; clearing it commits the files.
VerifyPdfs ==
    /\ At("pdf") /\ journal.phase \in {"verify", "cleanup"}
    /\ main = Content(job.set)
    /\ IF journal.phase = "verify"
       THEN Advance("cleanup") /\ UNCHANGED <<job, committed>>
       ELSE /\ journal' = NoJournal /\ Go("rmDirs")
            /\ committed' = job.set
    /\ UNCHANGED <<dbVars, keyVars, main, stage, old, holdVars, fileVars, faults>>

\* A file of the same name is never overwritten.
Obstructed ==
    CASE journal.phase = "move_old" -> \E p \in main : Named(p[1], old[job.id])
      [] journal.phase = "move_new" -> \E p \in stage[job.id] : Named(p[1], main)
      [] OTHER                      -> main # Content(job.set)

PdfFails ==
    /\ At("pdf") /\ FaultUnless(Obstructed) /\ Fail
    /\ UNCHANGED <<dbVars, keyVars, pdfVars, holdVars, fileVars, journal>>

\* In a recovery the PDFs are the last thing that was missing: it is clean.
RemoveDirs ==
    /\ At("rmDirs")
    /\ old' = [old EXCEPT ![job.id] = {}]
    /\ stage' = [stage EXCEPT ![job.id] = {}]
    /\ IF job.mode = "recover"
       THEN job' = [job EXCEPT !.clean = TRUE, !.state = "done", !.pc = "tidy"]
       ELSE job' = [job EXCEPT !.staged = FALSE, !.pc = "handover"]
    /\ UNCHANGED <<dbVars, keyVars, main, committed, holdVars, fileVars, journal,
                   faults>>

PdfStep == BeginPdfs \/ MoveOld \/ MoveNew \/ VerifyPdfs \/ PdfFails \/ RemoveDirs

-----------------------------------------------------------------------------
(* A request, before and after the replacement.                             *)

Status(s, a, r) == status' = [state |-> s, authority |-> a, id |-> r]

Consume ==
    /\ At("consume")
    /\ request' = None /\ Go("admit")
    /\ UNCHANGED <<dbVars, keyVars, pdfVars, holdVars, status, authority,
                   quarantine, journal, faults>>

Admit ==
    /\ At("admit")
    /\ IF quarantine
       THEN Fail /\ UNCHANGED status
       ELSE Go("preflight") /\ Status("running", FALSE, job.id)
    /\ UNCHANGED <<dbVars, keyVars, pdfVars, holdVars, authority, quarantine,
                   request, journal, faults>>

Admissible == job.source = "inbox" => job.set \in Keyed

\* The archives are authenticated and the PDFs staged before maintenance.  A set
\* from off-host must have its keys.
Preflight ==
    /\ At("preflight")
    /\ \/ /\ Admissible
          /\ stage' = [stage EXCEPT ![job.id] = Content(job.set)]
          /\ job' = [job EXCEPT !.staged = TRUE, !.pc = "raise"]
          /\ UNCHANGED faults
       \/ FaultUnless(~Admissible) /\ Fail /\ UNCHANGED stage
    /\ UNCHANGED <<dbVars, keyVars, main, old, committed, holdVars, fileVars,
                   journal>>

RaiseMaintenance ==
    /\ At("raise")
    /\ maintenance' = "fresh" /\ Go("safety")
    /\ UNCHANGED <<dbVars, keyVars, pdfVars, destructive, lifecycle, fileVars,
                   journal, faults>>

SafetyBackup ==
    /\ At("safety")
    /\ GoOrFail("reconcile")
    /\ UNCHANGED <<dbVars, keyVars, pdfVars, holdVars, fileVars, journal>>

(* STEP 9: the request ends with maintenance held and its authority pending. *)
HandOver ==
    /\ At("handover")
    /\ Status("running", TRUE, job.id)
    /\ Go(IF job.source = "inbox" THEN "quarantine" ELSE "authority")
    /\ UNCHANGED <<dbVars, keyVars, pdfVars, holdVars, authority, quarantine,
                   request, journal, faults>>

RaiseQuarantine ==
    /\ At("quarantine")
    /\ \/ ~quarantine /\ quarantine' = TRUE /\ Go("authority") /\ UNCHANGED faults
       \/ FaultUnless(quarantine) /\ Fail /\ UNCHANGED quarantine
    /\ UNCHANGED <<dbVars, keyVars, pdfVars, holdVars, status, authority,
                   request, journal>>

\* The process exits with AUTHORITY_PENDING; the host command goes on.
AwaitAuthority ==
    /\ At("authority")
    /\ authority' = job.id
    /\ job' = [job EXCEPT !.mode = "host", !.pc = "rebuild"]
    /\ UNCHANGED <<dbVars, keyVars, pdfVars, holdVars, status, quarantine,
                   request, journal, faults>>

RequestStep ==
    \/ Consume \/ Admit \/ Preflight \/ RaiseMaintenance \/ SafetyBackup
    \/ HandOver \/ RaiseQuarantine \/ AwaitAuthority

-----------------------------------------------------------------------------
(* The EXIT trap.                                                           *)

\* Mutant: the journal is not looked at.
TidyAnyway ==
    /\ At("tidy")
    /\ IF job.staged
       THEN /\ stage' = [stage EXCEPT ![job.id] = {}]
            /\ old' = [old EXCEPT ![job.id] = {}]
       ELSE UNCHANGED <<stage, old>>
    /\ Go("report")
    /\ UNCHANGED <<dbVars, keyVars, main, committed, holdVars, fileVars, journal,
                   faults>>

\* A staged set is dropped unless a journal says that PDFs are being moved.
Tidy ==
    /\ At("tidy")
    /\ IF job.staged /\ journal.of # "pdfs"
       THEN /\ stage' = [stage EXCEPT ![job.id] = {}]
            /\ old' = [old EXCEPT ![job.id] = {}]
       ELSE UNCHANGED <<stage, old>>
    /\ Go("report")
    /\ UNCHANGED <<dbVars, keyVars, main, committed, holdVars, fileVars, journal,
                   faults>>

\* --recover and a failed --complete-authority know no request.
Report ==
    /\ At("report")
    /\ Status(job.state, FALSE,
              IF job.mode = "request" \/ (job.state = "done" /\ job.mode = "complete")
              THEN job.id ELSE 0)
    /\ Go(IF job.clean \/ ~job.dropped THEN "lift" ELSE "finish")
    /\ UNCHANGED <<dbVars, keyVars, pdfVars, holdVars, authority, quarantine,
                   request, journal, faults>>

\* What the host command does after a container has ended.
Ended == IF job.mode = "recover" /\ job.state = "done"
         THEN job' = [NoJob EXCEPT !.mode = "host", !.pc = "decide"]
         ELSE job' = NoJob

LiftMaintenance ==
    /\ At("lift")
    /\ maintenance' = "off" /\ destructive' = FALSE
    /\ Go("finish")
    /\ UNCHANGED <<dbVars, keyVars, pdfVars, lifecycle, fileVars, journal, faults>>

\* The lifecycle operation is given up only with the maintenance.
Finish ==
    /\ At("finish")
    /\ lifecycle' = (lifecycle /\ ~(job.clean \/ ~job.dropped))
    /\ Ended
    /\ UNCHANGED <<dbVars, keyVars, pdfVars, maintenance, destructive, fileVars,
                   journal, faults>>

ExitStep == Tidy \/ Report \/ LiftMaintenance \/ Finish

-----------------------------------------------------------------------------
(* --recover, --complete-authority and the host commands around them.       *)

Recover ==
    /\ At("recover")
    /\ \/ /\ txn # None /\ ~txn.full /\ Fail
       \/ /\ txn # None /\ txn.full /\ Go("replace")
       \/ /\ txn = None /\ journal.of = "pdfs"
          /\ job' = [job EXCEPT !.id = journal.run, !.set = journal.set,
                                !.staged = TRUE, !.pc = "pdf"]
       \/ /\ txn = None /\ journal.of \in Databases
          /\ job' = [job EXCEPT !.db = journal.of, !.pc = "reconcile"]
    /\ UNCHANGED <<dbVars, keyVars, pdfVars, holdVars, fileVars, journal, faults>>

\* With nothing to recover the process ends without a status.
RecoverNothing ==
    /\ At("recover") /\ txn = None /\ journal.of = "none"
    /\ lifecycle' = (lifecycle /\ destructive)
    /\ job' = [NoJob EXCEPT !.mode = "host", !.pc = "decide"]
    /\ UNCHANGED <<dbVars, keyVars, pdfVars, maintenance, destructive, fileVars,
                   journal, faults>>

\* `restore run` executes the request only behind an honest status, and
\* resumes only an authority that is pending.
Decide ==
    /\ At("decide")
    /\ LET honest == status.state \in {"none", "done"}
           pending == status.state = "running" /\ status.authority
       IN \/ /\ honest /\ request # None
             /\ Start("request", "consume", request) /\ lifecycle' = TRUE
          \/ /\ ~honest /\ pending
             /\ job' = [NoJob EXCEPT !.mode = "host", !.pc = "rebuild",
                                     !.id = status.id]
             /\ UNCHANGED lifecycle
          \/ /\ ~(honest /\ request # None) /\ ~(~honest /\ pending)
             /\ job' = NoJob /\ UNCHANGED lifecycle
    /\ UNCHANGED <<dbVars, keyVars, pdfVars, maintenance, destructive, fileVars,
                   journal, faults>>

\* cluster-bootstrap and the two migrators; a failure ends the host command.
Rebuild ==
    /\ At("rebuild")
    /\ \/ /\ catalog' = [d \in Databases |->
                           IF catalog[d].live = None THEN catalog[d]
                           ELSE [catalog[d] EXCEPT !.live.ready = TRUE]]
          /\ Start("complete", "complete", [NoRequest EXCEPT !.id = job.id])
          /\ lifecycle' = TRUE
          /\ UNCHANGED faults
       \/ Fault /\ job' = NoJob /\ UNCHANGED <<catalog, lifecycle>>
    /\ UNCHANGED <<keyVars, pdfVars, maintenance, destructive, fileVars, journal>>

CompleteAuthority ==
    /\ At("complete")
    /\ LET matches == /\ authority = job.id /\ status.id = authority
                      /\ status.state = "running" /\ status.authority
       IN \/ /\ matches /\ Status("done", FALSE, job.id)
             /\ job' = [job EXCEPT !.state = "done", !.clean = TRUE,
                                   !.pc = "forget"]
             /\ UNCHANGED faults
          \/ FaultUnless(~matches) /\ Fail /\ UNCHANGED status
    /\ UNCHANGED <<dbVars, keyVars, pdfVars, holdVars, authority, quarantine,
                   request, journal>>

ForgetAuthority ==
    /\ At("forget")
    /\ authority' = 0 /\ Go("tidy")
    /\ UNCHANGED <<dbVars, keyVars, pdfVars, holdVars, status, quarantine,
                   request, journal, faults>>

HostStep == Recover \/ RecoverNothing \/ Decide \/ Rebuild
            \/ CompleteAuthority \/ ForgetAuthority

-----------------------------------------------------------------------------
(* The operator, time and faults.                                           *)

\* An identifier nothing on disk refers to, but for a request, which both users
\* of the identifier find absent or overwrite.
Free == {r \in Runs : /\ r \notin {status.id, authority, journal.run}
                      /\ stage[r] = {} /\ old[r] = {}}
NewId == CHOOSE r \in Free : \A q \in Free : r <= q

Idle == job = NoJob

\* POST /restore, which is closed with the application, by a quarantine and by a
\* retained operation, or the file written by hand for an off-host restore.
Submit(b, s) ==
    /\ Idle /\ request = None /\ Free # {}
    /\ s = "local" => Serving /\ ~quarantine /\ ~lifecycle
    /\ request' = [id |-> NewId, set |-> b, source |-> s]
    /\ UNCHANGED <<dbVars, keyVars, pdfVars, holdVars, status, authority,
                   quarantine, journal, job, faults>>

RestoreRun ==
    /\ Idle
    /\ Start("recover", "recover", NoRequest)
    /\ UNCHANGED <<dbVars, keyVars, pdfVars, holdVars, fileVars, journal, faults>>

\* Writes a request of its own over any other and executes it directly.
RestoreLegacy(b) ==
    /\ Idle /\ Free # {}
    /\ request' = [id |-> NewId, set |-> b, source |-> "local"]
    /\ Start("request", "consume", request') /\ lifecycle' = TRUE
    /\ UNCHANGED <<dbVars, keyVars, pdfVars, maintenance, destructive, status,
                   authority, quarantine, journal, faults>>

\* In the browser once the application serves; on the host once no other
\* lifecycle operation is retained.
Acknowledge ==
    /\ quarantine /\ (Serving \/ (Idle /\ ~lifecycle))
    /\ quarantine' = FALSE
    /\ UNCHANGED <<dbVars, keyVars, pdfVars, holdVars, status, authority,
                   request, journal, job, faults>>

\* Without a heartbeat .maintenance is ignored after MAINTENANCE_MAX_AGE_S;
\* its age makes no difference while .destructive holds.
Expire ==
    /\ maintenance = "fresh" /\ ~destructive /\ job.mode # "request"
    /\ maintenance' = "stale"
    /\ UNCHANGED <<dbVars, keyVars, pdfVars, destructive, lifecycle, fileVars,
                   journal, job, faults>>

\* The heartbeat abandons a restore that exceeds its time limit.
Timeout ==
    /\ job.mode = "request" /\ job.pc \notin EarlySteps \cup ExitSteps
    /\ Fault /\ Fail
    /\ maintenance' = IF destructive THEN maintenance ELSE "off"
    /\ UNCHANGED <<dbVars, keyVars, pdfVars, destructive, lifecycle, fileVars,
                   journal>>

\* SIGKILL or a power loss: the EXIT trap does not run.
Crash ==
    /\ ~Idle /\ Fault
    /\ job' = NoJob
    /\ UNCHANGED <<dbVars, keyVars, pdfVars, holdVars, fileVars, journal>>

Progress == DatabaseStep \/ KeyStep \/ PdfStep \/ RequestStep \/ ExitStep \/ HostStep
Operator == \/ \E b \in Backups : \E s \in Sources[b] : Submit(b, s)
            \/ RestoreRun
            \/ \E b \in Backups : RestoreLegacy(b)
            \/ Acknowledge
Environment == Expire \/ Timeout \/ Crash
Next == Progress \/ Operator \/ Environment

(* Fairness: a process that is not killed goes on, and an operator whose    *)
(* service stays closed keeps trying both commands of the manual.           *)
Fairness == /\ WF_vars(Progress)
            /\ SF_vars(RestoreRun)
            /\ SF_vars(\E b \in Backups : RestoreLegacy(b))
Spec == Init /\ [][Next]_vars
FairSpec == Spec /\ Fairness

-----------------------------------------------------------------------------
(* Properties.                                                              *)

\* Whatever is killed and whatever statement fails in restore_one_db_swap,
\* revert_swap and reconcile_leftover, the cluster keeps a complete copy of
\* each database under one of its three names.
CompleteCopyKept ==
    \A d \in Databases : \E c \in {catalog[d].live, catalog[d].tmp, catalog[d].pre} :
        c # None /\ c.whole

\* Whenever neither sentinel is in force the two databases are there, complete
\* and accepting connections: .destructive is written before the first
\* ALTER DATABASE, read back by every later process and lifted only by a
\* restore that ended clean.
ServesCompleteDatabases ==
    Serving => \A d \in Databases : Verifies(catalog[d].live)

\* The data sets whose own keys belong to them: the data at hand and the backups
\* with an archive of their keys.
WithKeys == Keyed \cup {0}

\* What is served belongs together: both databases and the exact PDF files are of
\* one data set, and so are the data keys that decrypt its settings if the set has
\* them, also after a recovery of the PDFs alone (recover_pdf_swap) has lifted the
\* maintenance.  Under a set without keys those of another set stay installed
\* (STEP 8 is skipped); they are the keys of one set unless an interrupted
\* transaction of an earlier restore still stands.
ServesOneDataSet ==
    Serving => \E s \in DataSets :
                   /\ \A d \in Databases : /\ catalog[d].live # None
                                          /\ catalog[d].live.set = s
                   /\ s \in WithKeys => keys = s
                   /\ keys = Mixed => s \notin WithKeys /\ txn # None
                   /\ main = Content(s)

\* The PDF files committed last are all in place or set aside until the files
\* that replace them are verified: the journal is cleared before
\* .restore-old-<run> is removed, and _cleanup keeps what a journal needs.
CommittedPdfsKept ==
    Content(committed) \subseteq main \cup UNION {old[r] : r \in Runs}

\* What no command of the repository repairs: a key transaction whose making was
\* interrupted, which stops every later restore with keys, and a quarantine that
\* blocks every retry while the retained restore operation blocks its
\* acknowledgement.
Stranded == destructive /\ ((txn # None /\ ~txn.full) \/ quarantine)

\* A restore that failed or was killed after .destructive was written does not
\* keep the application closed for ever when the operator retries, unless it
\* is stranded.
MaintenanceEnds == []<>~destructive \/ <>[]Stranded

\* docs/manual/backup-and-restore.md:156 promises that maintenance is lifted
\* only after ownership, grants and migrations were verified, and the comment at
\* STEP 9 of restore.sh that only --complete-authority may mark success.
\* recover_pdf_swap marks its own success and the trap lifts the maintenance.
ServesWithAuthority ==
    Serving => \A d \in Databases : catalog[d].live.ready

=============================================================================
