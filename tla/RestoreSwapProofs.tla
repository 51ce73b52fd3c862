-------------------------- MODULE RestoreSwapProofs --------------------------
(***************************************************************************)
(* What RestoreSwap guarantees for any backups, files, runs and number of  *)
(* faults: type correctness, a complete copy of each database at every     *)
(* moment, that what is served is complete and of one data set, and that   *)
(* committed PDF files stay until their replacement is committed.          *)
(***************************************************************************)
EXTENDS RestoreSwap, LeastElements, TLAPS

\* Groups of variables, expanded everywhere.
USE DEF dbVars, keyVars, pdfVars, holdVars, fileVars, vars

-----------------------------------------------------------------------------
(* The invariants.                                                         *)

\* Which processes of the script are at which step.
RequestSteps ==
    EarlySteps \cup {"safety", "create", "note", "reload", "mark", "disallow", "renameOut",
                     "renameIn", "verify", "dropPre", "swapped", "rotate", "keys", "copyKeys",
                     "pdfs"} \cup HandoverSteps
ModesInv ==
    /\ job.pc \in RequestSteps => job.mode = "request"
    /\ job.pc \in DbSteps \cup KeySteps \cup PdfSteps => job.mode \in {"request", "recover"}
    /\ job.pc \in EarlySteps \cup {"safety"} => job.db = "jarvis"
    /\ job.pc = "recover" => job.mode = "recover"
    /\ job.pc \in {"idle", "decide", "rebuild"} => job.mode \in {"none", "host"}
    /\ job.mode = "request" => job.id \in Runs /\ job.set \in Backups

\* What is in place of a database is complete, and what was renamed away stays
\* until something is in place again; a copy that is being filled is never the
\* only one.
Sound(c) ==
    /\ c.live # None => c.live.whole
    /\ c.pre # None => c.pre.whole
    /\ c.live = None => c.pre # None
    /\ c.live = None /\ c.tmp # None => c.tmp.whole

CatalogInv ==
    /\ \A d \in Databases : Sound(catalog[d])
    /\ job.pc \in {"heal", "dropOld", "dropStale", "cleared", "create", "note", "reload",
                   "mark", "disallow", "renameOut", "dropPre"} => Here.live # None
    /\ job.pc \in {"forward", "judge", "park1", "park2", "renameIn", "verify"}
           => Here.pre # None
    /\ job.pc \in {"note", "reload", "mark", "disallow", "renameOut", "renameIn"}
           => Here.tmp # None /\ Here.tmp.set = job.set
    /\ job.pc \in {"mark", "disallow", "renameOut", "renameIn"} => Here.tmp.whole

\* A database, both databases with the keys that go with them, and all the data at
\* data set s.
Settled(d, s) ==
    Verifies(catalog[d].live) /\ catalog[d].pre = None /\ catalog[d].live.set = s
Together(s) == (\A d \in Databases : Settled(d, s)) /\ (s \in WithKeys => keys = s)
Consistent(s) == Together(s) /\ main = Content(s)
AllConsistent == \E s \in DataSets : Consistent(s)

\* Only a data set without keys of its own can be whole beside a key transaction:
\* whatever becomes of that, the set stays whole.
Keyless == \E s \in DataSets \ WithKeys : Consistent(s)
Steady == AllConsistent /\ (txn = None \/ Keyless)

\* What a request has replaced so far.
ReplacedInv ==
    /\ job.pc \in {"verify", "dropPre"} => Here.live # None /\ Here.live.set = job.set
    /\ job.pc = "dropPre" => Verifies(Here.live)
    /\ job.pc = "swapped" => Settled(job.db, job.set)
    /\ (job.mode = "request" /\ job.pc \in DbSteps /\ job.db = "litellm")
           => Settled("jarvis", job.set)
    /\ (job.mode = "request" /\ job.pc \in {"rotate"} \cup KeySteps)
           => \A d \in Databases : Settled(d, job.set)
    /\ (job.mode = "request" /\ job.pc = "rmTxn") => keys = job.set
    /\ job.pc = "pdfs" => Together(job.set)
    /\ job.pc \in {"rmDirs"} \cup HandoverSteps => Consistent(job.set)

\* The key transaction and the journal at the steps that rely on them.
TxnInv ==
    /\ job.pc \in {"copyKeys", "replace", "replaced", "rmTxn"}
           => txn # None /\ (job.mode = "request" => txn.new = job.set)
    /\ job.pc \in PdfSteps \cup HandoverSteps => txn = None \/ job.set \notin WithKeys
    /\ job.pc \in {"copyKeys", "rmTxn"} => keys # Mixed
    /\ txn # None => txn.old # Mixed
    /\ keys = Mixed => txn # None

JournalInv ==
    /\ journal.of = "pdfs" => /\ Together(journal.set) /\ destructive
                              /\ txn = None \/ journal.set \notin WithKeys
                              /\ journal.run \in Runs
    /\ job.pc = "pdf" => /\ journal.of = "pdfs" /\ journal.run = job.id
                         /\ journal.set = job.set
    /\ job.pc \in (DbSteps \ {"reconcile", "heal", "dropStale", "cleared"})
                      \cup {"rotate", "pdfs"} => journal.of # "pdfs"
    /\ (job.mode = "request" /\ job.pc \in KeySteps) => journal.of # "pdfs"
    /\ job.pc \in {"rmDirs"} \cup HandoverSteps => journal.of = "none"

\* Nothing is replaced without the sentinel, and it is lifted over data of one set.
SafeSteps == {"reconcile", "heal", "dropStale", "cleared", "create", "note", "reload", "mark"}
HoldInv ==
    /\ ~destructive => Steady
    /\ job.pc \in (DbSteps \ SafeSteps) \cup {"rotate", "pdfs", "pdf"} => destructive
    /\ (job.mode = "request" /\ job.pc \in KeySteps) => destructive
    /\ (job.pc \notin {"idle", "decide", "rebuild", "finish"} /\ destructive) => job.dropped
    /\ job.pc = "lift" => job.clean \/ ~job.dropped
    /\ job.clean => /\ job.pc \in {"forget"} \cup ExitSteps
                    /\ Steady /\ journal.of # "pdfs"

\* A pending authority is that of a restore that replaced everything.
AuthorityInv ==
    /\ status.authority => Steady /\ journal.of = "none"
    /\ job.pc \in DbSteps \cup PdfSteps
                  \cup {"preflight", "raise", "safety", "rotate", "handover"}
           => ~status.authority
    /\ (job.mode = "request" /\ job.pc \in KeySteps) => ~status.authority

\* Identifiers of requests are new to the directories and to the journal.
FreshInv ==
    /\ (job.mode = "request" /\ job.pc # "consume") => request = None
    /\ request # None => old[request.id] = {} /\ journal.run # request.id
    /\ job.pc \in {"consume", "admit", "preflight"} => old[job.id] = {}

\* A process that drops its directories has nothing in them that is needed.
StagedInv ==
    /\ job.staged => \/ /\ journal.of = "pdfs" /\ journal.run = job.id
                        /\ job.pc \in {"pdf"} \cup ExitSteps
                     \/ old[job.id] = {}
                     \/ Content(committed) \subseteq main
    /\ job.pc = "rmDirs" => Content(committed) \subseteq main

\* Everything but the types.
ControlInv ==
    /\ ModesInv /\ CatalogInv /\ ReplacedInv /\ TxnInv /\ JournalInv /\ HoldInv
    /\ AuthorityInv /\ FreshInv /\ StagedInv /\ CommittedPdfsKept

RestoreInv == TypeOK /\ ControlInv

\* Groups of steps.
USE DEF DbSteps, KeySteps, PdfSteps, HandoverSteps, EarlySteps, ExitSteps, RequestSteps, SafeSteps, At

-----------------------------------------------------------------------------
(* The process: going on, failing, starting and ending.                    *)

\* What the invariants tell of is as before.
data == <<catalog, keys, txn, main, old, committed, destructive, journal, status, request>>

KeepsJob ==
    /\ job'.mode = job.mode /\ job'.id = job.id /\ job'.set = job.set /\ job'.db = job.db
    /\ job'.clean = job.clean /\ job'.dropped = job.dropped /\ job'.staged = job.staged

LEMMA JobFields ==
    ASSUME TypeOK
    PROVE  /\ \A p \in Steps : Go(p) => job' \in Processes /\ job'.pc = p /\ KeepsJob
           /\ Fail => job' \in Processes /\ job'.pc = "tidy" /\ KeepsJob
           /\ job \in Processes /\ job.set \in DataSets
<1>1. job \in Processes
  BY DEF TypeOK
<1>2. ASSUME NEW p \in Steps, Go(p) PROVE job' \in Processes /\ job'.pc = p /\ KeepsJob
  BY <1>1, <1>2 DEF Processes, Go, KeepsJob
<1>3. ASSUME Fail PROVE job' \in Processes /\ job'.pc = "tidy" /\ KeepsJob
  <2>1. "tidy" \in Steps
    BY DEF Steps
  <2>2. QED
    BY <1>1, <1>3, <2>1 DEF Processes, Fail, KeepsJob
<1>4. job.set \in DataSets
  BY <1>1 DEF Processes
<1>5. QED
  BY <1>1, <1>2, <1>3, <1>4

LEMMA DataUnchanged ==
    ASSUME UNCHANGED <<catalog, keys, main>>
    PROVE  /\ \A d \in Databases, s \in DataSets : Settled(d, s)' <=> Settled(d, s)
           /\ \A s \in DataSets : Together(s)' <=> Together(s)
           /\ \A s \in DataSets : Consistent(s)' <=> Consistent(s)
           /\ AllConsistent' <=> AllConsistent
           /\ Keyless' <=> Keyless
           /\ UNCHANGED txn => (Steady' <=> Steady)
  BY DEF Steady, Keyless, AllConsistent, Consistent, Together, Settled, Verifies

LEMMA JournalType ==
    ASSUME TypeOK
    PROVE  journal.set \in DataSets /\ job.set \in DataSets
  BY DEF TypeOK, Journals, Processes

\* Where the data are of one set, nothing was renamed.
LEMMA ConsistentIsSettled ==
    /\ AllConsistent => \A d \in Databases : catalog[d].pre = None /\ Verifies(catalog[d].live)
    /\ Steady => AllConsistent
    /\ \A s \in DataSets : Together(s) => \A d \in Databases : catalog[d].pre = None
  BY DEF Steady, AllConsistent, Consistent, Together, Settled

\* The moves of a process that only decide, and those that fail.
QuietMove ==
    \/ job.pc \notin {"idle", "consume", "decide", "rebuild", "finish"} /\ job'.pc = "tidy"
    \/ job.pc = "reconcile" /\ job'.pc = "heal" /\ Here.pre = None
    \/ job.pc = "reconcile" /\ job'.pc \in {"forward", "judge"} /\ Here.pre # None
    \/ job.pc = "judge" /\ job'.pc = "dropOld" /\ Verifies(Here.live)
    \/ job.pc = "verify" /\ job'.pc = "dropPre" /\ Verifies(Here.live)
    \/ job.pc \in {"judge", "verify"} /\ job'.pc = "park1"
    \/ job.pc = "rotate" /\ job'.pc = "keys"
    \/ job.pc = "rotate" /\ job'.pc = "pdfs" /\ job.set \notin WithKeys
    \/ job.pc = "raise" /\ job'.pc = "safety"
    \/ job.pc = "safety" /\ job'.pc = "reconcile"
    \/ job.pc = "quarantine" /\ job'.pc = "authority"
    \/ job.pc = "recover" /\ job'.pc = "replace" /\ txn # None

LEMMA QuietKeeps ==
    ASSUME RestoreInv, UNCHANGED data, KeepsJob, QuietMove
    PROVE  ControlInv'
<1> USE DEF data, KeepsJob
<1>1. job.db \in Databases /\ job.set \in DataSets /\ journal.set \in DataSets
  BY DEF RestoreInv, TypeOK, Processes, Journals
<1>2. job.pc = "reconcile" /\ Here.pre # None => destructive /\ journal.of # "pdfs"
  BY <1>1, ConsistentIsSettled DEF RestoreInv, ControlInv, HoldInv, JournalInv, Here
<1>3. ModesInv' /\ CatalogInv'
  BY <1>1 DEF RestoreInv, ControlInv, QuietMove, ModesInv, CatalogInv, Here, Sound, Verifies
<1>4. ReplacedInv'
  BY <1>1, DataUnchanged
     DEF RestoreInv, ControlInv, QuietMove, ModesInv, ReplacedInv, Here, Verifies, Databases, Together
<1>5. TxnInv' /\ JournalInv'
  BY <1>1, <1>2, DataUnchanged DEF RestoreInv, ControlInv, QuietMove, ModesInv, TxnInv, JournalInv
<1>6. HoldInv' /\ AuthorityInv'
  BY <1>1, <1>2, DataUnchanged
     DEF RestoreInv, ControlInv, QuietMove, ModesInv, TxnInv, HoldInv, AuthorityInv
<1>7. FreshInv' /\ StagedInv' /\ CommittedPdfsKept'
  BY DEF RestoreInv, ControlInv, QuietMove, FreshInv, StagedInv, CommittedPdfsKept, Content
<1>8. QED
  BY <1>3, <1>4, <1>5, <1>6, <1>7 DEF ControlInv

\* Nothing that the invariants tell of changes.
LEMMA StutterKeeps ==
    ASSUME RestoreInv, UNCHANGED <<data, job>>
    PROVE  ControlInv'
<1> USE DEF data
<1>1. job.db \in Databases /\ job.set \in DataSets /\ journal.set \in DataSets
  BY DEF RestoreInv, TypeOK, Processes, Journals
<1>2. ModesInv' /\ CatalogInv'
  BY DEF RestoreInv, ControlInv, ModesInv, CatalogInv, Here, Sound
<1>3. ReplacedInv' /\ TxnInv' /\ JournalInv'
  BY <1>1, DataUnchanged
     DEF RestoreInv, ControlInv, ReplacedInv, TxnInv, JournalInv, Here, Verifies, Databases
<1>4. HoldInv' /\ AuthorityInv'
  BY <1>1, DataUnchanged DEF RestoreInv, ControlInv, HoldInv, AuthorityInv
<1>5. FreshInv' /\ StagedInv' /\ CommittedPdfsKept'
  BY DEF RestoreInv, ControlInv, FreshInv, StagedInv, CommittedPdfsKept, Content
<1>6. QED
  BY <1>2, <1>3, <1>4, <1>5 DEF ControlInv

\* A process ends, and a command of the host may go on.
LEMMA EndKeeps ==
    ASSUME RestoreInv, UNCHANGED data,
           job'.pc \in {"idle", "decide", "rebuild"}, job'.mode \in {"none", "host"},
           ~job'.clean, ~job'.staged
    PROVE  ControlInv'
<1> USE DEF data
<1>1. journal.set \in DataSets
  BY DEF RestoreInv, TypeOK, Journals
<1>2. ModesInv' /\ CatalogInv'
  BY DEF RestoreInv, ControlInv, ModesInv, CatalogInv, Sound
<1>3. ReplacedInv' /\ TxnInv' /\ JournalInv'
  BY <1>1, DataUnchanged DEF RestoreInv, ControlInv, ReplacedInv, TxnInv, JournalInv
<1>4. HoldInv' /\ AuthorityInv'
  BY DataUnchanged DEF RestoreInv, ControlInv, HoldInv, AuthorityInv
<1>5. FreshInv' /\ StagedInv' /\ CommittedPdfsKept'
  BY DEF RestoreInv, ControlInv, FreshInv, StagedInv, CommittedPdfsKept, Content
<1>6. QED
  BY <1>2, <1>3, <1>4, <1>5 DEF ControlInv

\* A process that has read the sentinel back and done nothing yet.
LEMMA StartKeeps ==
    ASSUME RestoreInv, UNCHANGED <<catalog, keys, txn, main, old, committed, destructive,
                                   journal, status>>,
           NEW m, NEW p, NEW r, Start(m, p, r),
           \/ UNCHANGED request /\ <<m, p>> \in {<<"recover", "recover">>, <<"complete", "complete">>}
           \/ /\ m = "request" /\ p = "consume" /\ r.id \in Runs /\ request' = r
              /\ r.set \in Backups /\ old[r.id] = {} /\ journal.run # r.id
    PROVE  ControlInv'
<1>1. journal.set \in DataSets
  BY DEF RestoreInv, TypeOK, Journals
<1>2. /\ job'.pc = p /\ job'.mode = m /\ job'.id = r.id /\ job'.db = "jarvis"
      /\ job'.set = r.set
      /\ job'.dropped = destructive /\ ~job'.clean /\ ~job'.staged
  BY DEF Start, NoJob
<1>3. ModesInv' /\ CatalogInv'
  BY <1>2 DEF RestoreInv, ControlInv, ModesInv, CatalogInv, Sound
<1>4. ReplacedInv' /\ TxnInv' /\ JournalInv'
  BY <1>1, <1>2, DataUnchanged DEF RestoreInv, ControlInv, ReplacedInv, TxnInv, JournalInv
<1>5. HoldInv' /\ AuthorityInv'
  BY <1>2, DataUnchanged DEF RestoreInv, ControlInv, HoldInv, AuthorityInv
<1>6. FreshInv' /\ StagedInv' /\ CommittedPdfsKept'
  BY <1>2 DEF RestoreInv, ControlInv, FreshInv, StagedInv, CommittedPdfsKept, Content
<1>7. QED
  BY <1>3, <1>4, <1>5, <1>6 DEF ControlInv

-----------------------------------------------------------------------------
(* Types of what the steps change.                                         *)

LEMMA FaultType ==
    ASSUME TypeOK, UNCHANGED faults \/ (faults < MaxFaults /\ faults' = faults + 1)
    PROVE  faults' \in 0..MaxFaults
  BY MaxFaultsAssumption DEF TypeOK

LEMMA QuietType ==
    ASSUME TypeOK, UNCHANGED <<catalog, keys, txn, pdfVars, destructive, journal>>,
           job' \in Processes, faults' \in 0..MaxFaults, maintenance' \in {"off", "fresh", "stale"},
           lifecycle' \in BOOLEAN, quarantine' \in BOOLEAN, authority' \in Runs \cup {0},
           status' \in Statuses, request' \in Request \cup {None}
    PROVE  TypeOK'
  BY DEF TypeOK

LEMMA StartType ==
    ASSUME TypeOK, NEW m \in Modes, NEW p \in Steps, NEW r, Start(m, p, r),
           r.id \in Runs \cup {0}, r.set \in DataSets, r.source \in {"local", "inbox"}
    PROVE  job' \in Processes
<1>1. destructive \in BOOLEAN
  BY DEF TypeOK
<1>2. job' = [mode |-> m, pc |-> p, id |-> r.id, set |-> r.set, source |-> r.source,
              db |-> "jarvis", swapping |-> FALSE, state |-> "running", clean |-> FALSE,
              dropped |-> destructive, staged |-> FALSE]
  BY DEF Start, NoJob
<1>3. QED
  BY <1>1, <1>2 DEF Processes, Databases

\* No process, and the commands of the host.
LEMMA NoJobFields ==
    ASSUME NEW i, NEW j,
           \/ j = NoJob
           \/ j = [NoJob EXCEPT !.mode = "host", !.pc = "decide"]
           \/ j = [NoJob EXCEPT !.mode = "host", !.pc = "rebuild", !.id = i]
    PROVE  /\ j.pc \in {"idle", "decide", "rebuild"} /\ j.mode \in {"none", "host"}
           /\ ~j.clean /\ ~j.staged
<1>1. CASE j = NoJob
  BY <1>1 DEF NoJob
<1>2. CASE j = [NoJob EXCEPT !.mode = "host", !.pc = "decide"]
  <2>1. j.pc = "decide" /\ j.mode = "host" /\ j.clean = FALSE /\ j.staged = FALSE
    BY <1>2 DEF NoJob
  <2>2. QED
    BY <2>1
<1>3. CASE j = [NoJob EXCEPT !.mode = "host", !.pc = "rebuild", !.id = i]
  <2>1. j.pc = "rebuild" /\ j.mode = "host" /\ j.clean = FALSE /\ j.staged = FALSE
    BY <1>3 DEF NoJob
  <2>2. QED
    BY <2>1
<1>4. QED
  BY <1>1, <1>2, <1>3

LEMMA NoJobType ==
    /\ NoJob \in Processes
    /\ [NoJob EXCEPT !.mode = "host", !.pc = "decide"] \in Processes
    /\ \A i \in Runs \cup {0} :
           [NoJob EXCEPT !.mode = "host", !.pc = "rebuild", !.id = i] \in Processes
  BY DEF NoJob, Processes, Modes, Steps, HostSteps, DataSets, Databases

-----------------------------------------------------------------------------
(* The steps.                                                              *)

\* Steps that decide, that are refused, or that only touch maintenance.
LEMMA QuietSteps ==
    ASSUME RestoreInv,
           \/ Reconcile \/ Judge("judge", "dropOld") \/ Judge("verify", "dropPre") \/ Rotate
           \/ RaiseMaintenance \/ SafetyBackup \/ RaiseQuarantine \/ PdfFails \/ Timeout
    PROVE  RestoreInv'
<1>1. TypeOK
  BY DEF RestoreInv
<1>2. UNCHANGED data /\ UNCHANGED <<pdfVars, authority, lifecycle>>
  BY DEF data, Reconcile, Judge, Rotate, RaiseMaintenance, SafetyBackup, RaiseQuarantine,
         PdfFails, Timeout
<1>3. \/ Fail /\ job.pc \notin {"idle", "consume", "decide", "rebuild", "finish"}
      \/ \E p \in Steps : Go(p) /\ (KeepsJob /\ job'.pc = p => QuietMove)
  <2>1. CASE Reconcile
    BY <2>1 DEF Reconcile, QuietMove, Steps
  <2>2. CASE Judge("judge", "dropOld") \/ Judge("verify", "dropPre")
    BY <2>2 DEF Judge, QuietMove, Steps
  <2>3. CASE RaiseMaintenance \/ SafetyBackup \/ RaiseQuarantine
    BY <2>3 DEF RaiseMaintenance, SafetyBackup, RaiseQuarantine, GoOrFail, QuietMove, Steps
  <2>4. CASE Rotate
    <3>1. job.pc = "rotate" /\ job.set \in Backups
      BY <2>4 DEF Rotate, RestoreInv, ControlInv, ModesInv
    <3>2. CASE job.set \in Keyed
      BY <2>4, <3>1, <3>2 DEF Rotate, GoOrFail, QuietMove, Steps
    <3>3. CASE job.set \notin Keyed
      <4>1. job.set \notin WithKeys
        BY <3>1, <3>3, BackupsAssumption DEF WithKeys
      <4>2. QED
        BY <2>4, <3>1, <3>3, <4>1 DEF Rotate, GoOrFail, QuietMove, Steps
    <3>4. QED
      BY <3>2, <3>3
  <2>5. CASE PdfFails \/ Timeout
    <3>1. Timeout => job.pc \notin {"idle", "decide", "rebuild"}
      BY DEF Timeout, RestoreInv, ControlInv, HoldInv, ModesInv
    <3>2. QED
      BY <2>5, <3>1 DEF PdfFails, Timeout
  <2>6. QED
    BY <2>1, <2>2, <2>3, <2>4, <2>5
<1>4. job' \in Processes /\ KeepsJob /\ QuietMove
  BY <1>1, <1>3, JobFields DEF QuietMove
<1>5. ControlInv'
  BY <1>2, <1>4, QuietKeeps
<1>6. TypeOK'
  <2>1. faults' \in 0..MaxFaults
    BY <1>1, FaultType DEF Reconcile, Judge, Rotate, RaiseMaintenance, SafetyBackup,
       RaiseQuarantine, PdfFails, Timeout, GoOrFail, Fault, FaultUnless
  <2>2. maintenance' \in {"off", "fresh", "stale"} /\ quarantine' \in BOOLEAN
    BY <1>1 DEF TypeOK, Reconcile, Judge, Rotate, RaiseMaintenance, SafetyBackup,
       RaiseQuarantine, PdfFails, Timeout
  <2>3. QED
    BY <1>1, <1>2, <1>4, <2>1, <2>2, QuietType DEF data, TypeOK
<1>7. QED
  BY <1>5, <1>6 DEF RestoreInv

\* Commands of the operator and of the host, and processes that end or are killed.
LEMMA OperatorSteps ==
    ASSUME RestoreInv,
           \/ \E b \in Backups : \E s \in Sources[b] : Submit(b, s)
           \/ RestoreRun \/ Acknowledge \/ Expire \/ Crash \/ RecoverNothing \/ Finish
           \/ \E b \in Backups : RestoreLegacy(b)
           \/ Decide
    PROVE  RestoreInv'
<1>1. TypeOK /\ job \in Processes
  BY DEF RestoreInv, TypeOK
<1>2. Free # {} => NewId \in Free /\ NewId \in Runs /\ old[NewId] = {} /\ journal.run # NewId
  <2>1. Free \subseteq Nat \ {0}
    BY RunsAssumption DEF Free
  <2>2. Free # {} => \E r \in Free : \A q \in Free : r <= q
    BY <2>1, LeastOfPositive
  <2>3. Free # {} => NewId \in Free
    BY <2>2 DEF NewId
  <2>4. QED
    BY <2>3 DEF Free
<1>3. ASSUME NEW b \in Backups, NEW s \in Sources[b], Submit(b, s)
      PROVE  RestoreInv'
  <2>1. NewId \in Runs /\ old[NewId] = {} /\ journal.run # NewId /\ Idle /\ job' = job
    BY <1>2, <1>3 DEF Submit
  <2>2. request' = [id |-> NewId, set |-> b, source |-> s] /\ request' \in Request
    BY <1>3, <2>1, SourcesAssumption DEF Submit, Request
  <2>3. job.pc = "idle" /\ job.mode = "none" /\ ~job.clean /\ ~job.staged
    BY <2>1 DEF Idle, NoJob
  <2>4. TypeOK'
    BY <1>1, <1>3, <2>2, QuietType DEF Submit, TypeOK
  <2>5. ModesInv' /\ CatalogInv'
    BY <1>3, <2>3 DEF Submit, RestoreInv, ControlInv, ModesInv, CatalogInv, Sound
  <2>6. ReplacedInv' /\ TxnInv' /\ JournalInv'
    BY <1>1, <1>3, <2>3, DataUnchanged, JournalType
       DEF Submit, RestoreInv, ControlInv, ReplacedInv, TxnInv, JournalInv
  <2>7. HoldInv' /\ AuthorityInv'
    BY <1>3, <2>3, DataUnchanged DEF Submit, RestoreInv, ControlInv, HoldInv, AuthorityInv
  <2>8. FreshInv' /\ StagedInv' /\ CommittedPdfsKept'
    BY <1>3, <2>1, <2>2, <2>3
       DEF Submit, RestoreInv, ControlInv, FreshInv, StagedInv, CommittedPdfsKept, Content
  <2>9. QED
    BY <2>4, <2>5, <2>6, <2>7, <2>8 DEF RestoreInv, ControlInv
<1>4. CASE RestoreRun
  <2>1. job' \in Processes
    BY <1>1, <1>4, StartType DEF RestoreRun, NoRequest, Modes, Steps, DataSets
  <2>2. TypeOK'
    BY <1>1, <1>4, <2>1, QuietType DEF RestoreRun, TypeOK
  <2>3. ControlInv'
    BY <1>4, StartKeeps DEF RestoreRun
  <2>4. QED
    BY <2>2, <2>3 DEF RestoreInv
<1>5. CASE Acknowledge \/ Expire
  <2>1. UNCHANGED <<data, job>>
    BY <1>5 DEF Acknowledge, Expire, data
  <2>2. TypeOK'
    BY <1>1, <1>5, QuietType DEF Acknowledge, Expire, TypeOK
  <2>3. QED
    BY <2>1, <2>2, StutterKeeps DEF RestoreInv
<1>6. CASE Crash \/ RecoverNothing \/ Finish
  <2>1. UNCHANGED data
    BY <1>6 DEF Crash, RecoverNothing, Finish, data
  <2>2. job' \in {NoJob, [NoJob EXCEPT !.mode = "host", !.pc = "decide"]}
    BY <1>6 DEF Crash, RecoverNothing, Finish, Ended
  <2>3. /\ job'.pc \in {"idle", "decide", "rebuild"} /\ job'.mode \in {"none", "host"}
        /\ ~job'.clean /\ ~job'.staged
    BY <2>2, NoJobFields
  <2>4. ControlInv'
    BY <2>1, <2>3, EndKeeps
  <2>5. faults' \in 0..MaxFaults /\ lifecycle' \in BOOLEAN
    BY <1>1, <1>6, FaultType DEF Crash, RecoverNothing, Finish, Fault, FaultUnless, TypeOK
  <2>6. TypeOK'
    BY <1>1, <1>6, <2>2, <2>5, NoJobType, QuietType DEF Crash, RecoverNothing, Finish, TypeOK
  <2>7. QED
    BY <2>4, <2>6 DEF RestoreInv
<1>7. ASSUME NEW b \in Backups, RestoreLegacy(b)
      PROVE  RestoreInv'
  <2>1. NewId \in Runs /\ old[NewId] = {} /\ journal.run # NewId
    BY <1>2, <1>7 DEF RestoreLegacy
  <2>2. /\ request' = [id |-> NewId, set |-> b, source |-> "local"]
        /\ Start("request", "consume", [id |-> NewId, set |-> b, source |-> "local"])
    BY <1>7 DEF RestoreLegacy
  <2>3. job' \in Processes
    BY <1>1, <2>1, <2>2, StartType DEF Modes, Steps, DataSets
  <2>4. TypeOK'
    BY <1>1, <1>7, <2>1, <2>3 DEF RestoreLegacy, TypeOK, Request
  <2>5. ControlInv'
    BY <1>7, <2>1, <2>2, StartKeeps DEF RestoreLegacy
  <2>6. QED
    BY <2>4, <2>5 DEF RestoreInv
<1>8. CASE Decide
  <2>1. /\ UNCHANGED data
        /\ UNCHANGED <<pdfVars, maintenance, authority, quarantine, faults>>
    BY <1>8 DEF Decide, data
  <2>2. CASE request # None /\ Start("request", "consume", request) /\ lifecycle' = TRUE
    <3>1. /\ request \in Request /\ request.id \in Runs /\ request.set \in Backups
          /\ old[request.id] = {} /\ journal.run # request.id
      BY <1>1, <2>2 DEF RestoreInv, ControlInv, FreshInv, TypeOK, Request
    <3>2. job' \in Processes
      BY <1>1, <2>2, <3>1, StartType, SourcesAssumption DEF Modes, Steps, DataSets, Request
    <3>3. ControlInv'
      BY <2>1, <2>2, <3>1, StartKeeps DEF data
    <3>4. TypeOK'
      BY <1>1, <2>1, <2>2, <3>2, QuietType DEF data, TypeOK
    <3>5. QED
      BY <3>3, <3>4 DEF RestoreInv
  <2>3. CASE /\ UNCHANGED lifecycle
             /\ job' \in {NoJob, [NoJob EXCEPT !.mode = "host", !.pc = "rebuild", !.id = status.id]}
    <3>1. status.id \in Runs \cup {0}
      BY <1>1 DEF TypeOK, Statuses
    <3>2. job' \in Processes
      BY <2>3, <3>1, NoJobType
    <3>3. /\ job'.pc \in {"idle", "decide", "rebuild"} /\ job'.mode \in {"none", "host"}
          /\ ~job'.clean /\ ~job'.staged
      BY <2>3, NoJobFields
    <3>4. ControlInv'
      BY <2>1, <3>3, EndKeeps
    <3>5. TypeOK'
      BY <1>1, <2>1, <2>3, <3>2, QuietType DEF data, TypeOK
    <3>6. QED
      BY <3>4, <3>5 DEF RestoreInv
  <2>4. QED
    BY <1>8, <2>2, <2>3 DEF Decide
<1>9. QED
  BY <1>3, <1>4, <1>5, <1>6, <1>7, <1>8

\* A recovery that goes on with what was under way.
LEMMA RecoverStep ==
    ASSUME RestoreInv, Recover
    PROVE  RestoreInv'
<1>1. TypeOK /\ job \in Processes /\ journal \in Journals /\ job.set \in DataSets
      /\ journal.set \in DataSets
  BY DEF RestoreInv, TypeOK, Journals, Processes
<1>2. job.pc = "recover" /\ job.mode = "recover" /\ UNCHANGED data
      /\ UNCHANGED <<pdfVars, holdVars, fileVars, faults>>
  BY DEF Recover, data, RestoreInv, ControlInv, ModesInv
<1>3. CASE Fail \/ (txn # None /\ Go("replace"))
  <2>1. job' \in Processes /\ KeepsJob /\ QuietMove
    BY <1>1, <1>2, <1>3, JobFields DEF QuietMove, Steps
  <2>2. QED
    BY <1>1, <1>2, <2>1, QuietKeeps, QuietType DEF RestoreInv, TypeOK, data
<1>4. CASE /\ txn = None /\ journal.of = "pdfs"
           /\ job' = [job EXCEPT !.id = journal.run, !.set = journal.set,
                                 !.staged = TRUE, !.pc = "pdf"]
  <2>1. /\ job' \in Processes /\ job'.pc = "pdf" /\ job'.mode = "recover" /\ job'.staged
        /\ job'.id = journal.run /\ job'.set = journal.set /\ job'.clean = job.clean
        /\ job'.dropped = job.dropped
    BY <1>1, <1>2, <1>4 DEF Processes, Journals, Steps
  <2>2. TypeOK'
    BY <1>1, <1>2, <2>1, QuietType DEF TypeOK, data
  <2>3. ModesInv' /\ CatalogInv'
    BY <1>2, <2>1 DEF data, RestoreInv, ControlInv, ModesInv, CatalogInv, Sound
  <2>4. ReplacedInv' /\ TxnInv' /\ JournalInv'
    BY <1>1, <1>2, <1>4, <2>1, DataUnchanged
       DEF data, RestoreInv, ControlInv, ReplacedInv, TxnInv, JournalInv
  <2>5. HoldInv' /\ AuthorityInv'
    BY <1>2, <1>4, <2>1, DataUnchanged
       DEF data, RestoreInv, ControlInv, HoldInv, AuthorityInv, JournalInv
  <2>6. FreshInv' /\ StagedInv' /\ CommittedPdfsKept'
    BY <1>2, <1>4, <2>1
       DEF data, RestoreInv, ControlInv, FreshInv, StagedInv, CommittedPdfsKept, Content
  <2>7. QED
    BY <2>2, <2>3, <2>4, <2>5, <2>6 DEF RestoreInv, ControlInv
<1>5. CASE /\ txn = None /\ journal.of \in Databases
           /\ job' = [job EXCEPT !.db = journal.of, !.pc = "reconcile"]
  <2>1. /\ job' \in Processes /\ job'.pc = "reconcile" /\ job'.mode = "recover"
        /\ job'.set = job.set /\ job'.id = job.id /\ job'.clean = job.clean
        /\ job'.dropped = job.dropped /\ job'.staged = job.staged
    BY <1>1, <1>2, <1>5 DEF Processes, Steps
  <2>2. journal.of # "none" /\ journal.of # "pdfs"
    BY <1>5 DEF Databases
  <2>3. TypeOK'
    BY <1>1, <1>2, <2>1, QuietType DEF TypeOK, data
  <2>4. ModesInv' /\ CatalogInv'
    BY <1>2, <2>1 DEF data, RestoreInv, ControlInv, ModesInv, CatalogInv, Sound
  <2>5. ReplacedInv' /\ TxnInv' /\ JournalInv'
    BY <1>1, <1>2, <2>1, DataUnchanged
       DEF data, RestoreInv, ControlInv, ReplacedInv, TxnInv, JournalInv
  <2>6. HoldInv' /\ AuthorityInv'
    BY <1>2, <2>1, <2>2, DataUnchanged DEF data, RestoreInv, ControlInv, HoldInv, AuthorityInv
  <2>7. FreshInv' /\ StagedInv' /\ CommittedPdfsKept'
    BY <1>2, <2>1
       DEF data, RestoreInv, ControlInv, FreshInv, StagedInv, CommittedPdfsKept, Content
  <2>8. QED
    BY <2>3, <2>4, <2>5, <2>6, <2>7 DEF RestoreInv, ControlInv
<1>6. QED
  BY <1>3, <1>4, <1>5 DEF Recover

\* The host rebuilds roles and grants and starts --complete-authority.
LEMMA RebuildStep ==
    ASSUME RestoreInv, Rebuild
    PROVE  RestoreInv'
<1>1. TypeOK /\ job \in Processes /\ catalog \in [Databases -> Copies] /\ journal.set \in DataSets
      /\ job.id \in Runs \cup {0}
  BY DEF RestoreInv, TypeOK, Processes, Journals
<1>2. CASE Fault /\ job' = NoJob /\ UNCHANGED <<catalog, lifecycle>>
  <2>1. UNCHANGED data
    BY <1>2 DEF Rebuild, data
  <2>2. ControlInv'
    BY <1>2, <2>1, NoJobFields, EndKeeps
  <2>3. TypeOK'
    BY <1>1, <1>2, NoJobType, FaultType, QuietType DEF Rebuild, Fault, FaultUnless, TypeOK
  <2>4. QED
    BY <2>2, <2>3 DEF RestoreInv
<1>3. CASE /\ catalog' = [d \in Databases |->
                            IF catalog[d].live = None THEN catalog[d]
                            ELSE [catalog[d] EXCEPT !.live.ready = TRUE]]
           /\ Start("complete", "complete", [NoRequest EXCEPT !.id = job.id])
           /\ lifecycle' = TRUE /\ UNCHANGED faults
  <2>1. \A d \in Databases :
            /\ catalog'[d] \in Copies
            /\ catalog'[d].pre = catalog[d].pre /\ catalog'[d].tmp = catalog[d].tmp
            /\ catalog'[d].live = None <=> catalog[d].live = None
            /\ catalog[d].live # None =>
                   /\ catalog'[d].live.whole = catalog[d].live.whole
                   /\ catalog'[d].live.open = catalog[d].live.open
                   /\ catalog'[d].live.set = catalog[d].live.set
    BY <1>1, <1>3, NoneAssumption DEF Copies, Slot, Copy
  <2>2. UNCHANGED <<keys, txn, pdfVars, maintenance, destructive, fileVars, journal>>
    BY DEF Rebuild
  <2>3. \A d \in Databases, s \in DataSets : Settled(d, s)' <=> Settled(d, s)
    BY <2>1 DEF Settled, Verifies
  <2>4. /\ \A s \in DataSets : Together(s)' <=> Together(s)
        /\ \A s \in DataSets : Consistent(s)' <=> Consistent(s)
        /\ AllConsistent' <=> AllConsistent
        /\ Steady' <=> Steady
    BY <2>2, <2>3 DEF Together, Consistent, AllConsistent, Keyless, Steady
  <2>5. /\ job'.pc = "complete" /\ job'.mode = "complete" /\ job'.dropped = destructive
        /\ ~job'.clean /\ ~job'.staged
    BY <1>3 DEF Start, NoJob
  <2>6. job' \in Processes
    <3>1. [NoRequest EXCEPT !.id = job.id] = [id |-> job.id, set |-> 0, source |-> "local"]
      BY DEF NoRequest
    <3>2. QED
      BY <1>1, <1>3, <3>1, StartType DEF Modes, Steps, CompleteSteps, DataSets
  <2>7. TypeOK'
    <3>1. catalog' \in [Databases -> Copies]
      BY <1>3, <2>1
    <3>2. QED
      BY <1>1, <1>3, <2>2, <2>6, <3>1 DEF TypeOK
  <2>8. ModesInv' /\ CatalogInv'
    BY <2>1, <2>2, <2>5 DEF RestoreInv, ControlInv, ModesInv, CatalogInv, Sound
  <2>9. ReplacedInv' /\ TxnInv' /\ JournalInv'
    BY <1>1, <2>2, <2>4, <2>5 DEF RestoreInv, ControlInv, ReplacedInv, TxnInv, JournalInv
  <2>10. HoldInv' /\ AuthorityInv'
    BY <2>2, <2>4, <2>5 DEF RestoreInv, ControlInv, HoldInv, AuthorityInv
  <2>11. FreshInv' /\ StagedInv' /\ CommittedPdfsKept'
    BY <2>2, <2>5 DEF RestoreInv, ControlInv, FreshInv, StagedInv, CommittedPdfsKept, Content
  <2>12. QED
    BY <2>7, <2>8, <2>9, <2>10, <2>11 DEF RestoreInv, ControlInv
<1>4. QED
  BY <1>2, <1>3 DEF Rebuild

\* Steps that change the request, the status or the authority.
LEMMA FileSteps ==
    ASSUME RestoreInv, Consume \/ Admit \/ HandOver \/ AwaitAuthority \/ CompleteAuthority
                       \/ ForgetAuthority \/ Report
    PROVE  RestoreInv'
<1>1. TypeOK /\ job \in Processes /\ job.set \in DataSets /\ journal.set \in DataSets
      /\ job.id \in Runs \cup {0} /\ status \in Statuses
  BY DEF RestoreInv, TypeOK, Processes, Journals
<1>2. UNCHANGED <<catalog, keys, txn, pdfVars, destructive, journal>>
  BY DEF Consume, Admit, HandOver, AwaitAuthority, CompleteAuthority, ForgetAuthority, Report
<1>3. \A s \in {"none", "running", "done", "failed"}, a \in BOOLEAN, i \in Runs \cup {0} :
          Status(s, a, i) => status' \in Statuses /\ status'.authority = a
  BY DEF Status, Statuses
<1>4. CASE Consume
  <2>1. job' \in Processes /\ job'.pc = "admit" /\ KeepsJob
    BY <1>1, <1>4, JobFields DEF Consume, Steps
  <2>2. job.pc = "consume" /\ request' = None /\ UNCHANGED status
    BY <1>4 DEF Consume
  <2>3. TypeOK'
    BY <1>1, <1>2, <1>4, <2>1, QuietType DEF Consume, TypeOK
  <2>4. ModesInv' /\ CatalogInv'
    BY <1>2, <2>1, <2>2 DEF KeepsJob, RestoreInv, ControlInv, ModesInv, CatalogInv, Sound
  <2>5. ReplacedInv' /\ TxnInv' /\ JournalInv'
    BY <1>1, <1>2, <2>1, <2>2, DataUnchanged
       DEF KeepsJob, RestoreInv, ControlInv, ReplacedInv, TxnInv, JournalInv
  <2>6. HoldInv' /\ AuthorityInv'
    BY <1>2, <2>1, <2>2, DataUnchanged DEF KeepsJob, RestoreInv, ControlInv, HoldInv, AuthorityInv
  <2>7. FreshInv' /\ StagedInv' /\ CommittedPdfsKept'
    BY <1>2, <2>1, <2>2
       DEF KeepsJob, RestoreInv, ControlInv, FreshInv, StagedInv, CommittedPdfsKept, Content
  <2>8. QED
    BY <2>3, <2>4, <2>5, <2>6, <2>7 DEF RestoreInv, ControlInv
<1>5. CASE Admit
  <2>1. CASE Fail /\ UNCHANGED status
    <3>1. job' \in Processes /\ KeepsJob /\ QuietMove
      BY <1>1, <1>5, <2>1, JobFields DEF Admit, QuietMove
    <3>2. UNCHANGED data
      BY <1>2, <1>5, <2>1 DEF Admit, data
    <3>3. QED
      BY <1>1, <1>2, <1>5, <2>1, <3>1, <3>2, QuietKeeps, QuietType DEF Admit, RestoreInv, TypeOK
  <2>2. CASE Go("preflight") /\ Status("running", FALSE, job.id)
    <3>1. job' \in Processes /\ job'.pc = "preflight" /\ KeepsJob
      BY <1>1, <2>2, JobFields DEF Steps
    <3>2. job.pc = "admit" /\ status' \in Statuses /\ ~status'.authority /\ UNCHANGED request
      BY <1>1, <1>3, <1>5, <2>2 DEF Admit
    <3>3. TypeOK'
      BY <1>1, <1>2, <1>5, <3>1, <3>2, QuietType DEF Admit, TypeOK
    <3>4. ModesInv' /\ CatalogInv'
      BY <1>2, <3>1, <3>2 DEF KeepsJob, RestoreInv, ControlInv, ModesInv, CatalogInv, Sound
    <3>5. ReplacedInv' /\ TxnInv' /\ JournalInv'
      BY <1>1, <1>2, <3>1, <3>2, DataUnchanged
         DEF KeepsJob, RestoreInv, ControlInv, ReplacedInv, TxnInv, JournalInv
    <3>6. HoldInv' /\ AuthorityInv'
      BY <1>2, <3>1, <3>2, DataUnchanged DEF KeepsJob, RestoreInv, ControlInv, HoldInv, AuthorityInv
    <3>7. FreshInv' /\ StagedInv' /\ CommittedPdfsKept'
      BY <1>2, <3>1, <3>2
         DEF KeepsJob, RestoreInv, ControlInv, FreshInv, StagedInv, CommittedPdfsKept, Content
    <3>8. QED
      BY <3>3, <3>4, <3>5, <3>6, <3>7 DEF RestoreInv, ControlInv
  <2>3. QED
    BY <1>5, <2>1, <2>2 DEF Admit
<1>6. CASE HandOver
  <2>1. \E p \in {"quarantine", "authority"} : Go(p) /\ p \in Steps
    BY <1>6 DEF HandOver, Steps
  <2>2. job' \in Processes /\ job'.pc \in {"quarantine", "authority"} /\ KeepsJob
    BY <1>1, <2>1, JobFields
  <2>3. job.pc = "handover" /\ status' \in Statuses /\ UNCHANGED request
    BY <1>1, <1>3, <1>6 DEF HandOver
  <2>4. Steady /\ journal.of = "none"
    BY <1>1, <2>3
       DEF RestoreInv, ControlInv, ReplacedInv, TxnInv, JournalInv, AllConsistent, Keyless, Steady
  <2>5. TypeOK'
    BY <1>1, <1>2, <1>6, <2>2, <2>3, QuietType DEF HandOver, TypeOK
  <2>6. ModesInv' /\ CatalogInv'
    BY <1>2, <2>2, <2>3 DEF KeepsJob, RestoreInv, ControlInv, ModesInv, CatalogInv, Sound
  <2>7. ReplacedInv' /\ TxnInv' /\ JournalInv'
    BY <1>1, <1>2, <2>2, <2>3, DataUnchanged
       DEF KeepsJob, RestoreInv, ControlInv, ReplacedInv, TxnInv, JournalInv
  <2>8. HoldInv' /\ AuthorityInv'
    BY <1>2, <2>2, <2>3, <2>4, DataUnchanged
       DEF KeepsJob, RestoreInv, ControlInv, HoldInv, AuthorityInv
  <2>9. FreshInv' /\ StagedInv' /\ CommittedPdfsKept'
    BY <1>2, <2>2, <2>3
       DEF KeepsJob, RestoreInv, ControlInv, FreshInv, StagedInv, CommittedPdfsKept, Content
  <2>10. QED
    BY <2>5, <2>6, <2>7, <2>8, <2>9 DEF RestoreInv, ControlInv
<1>7. CASE AwaitAuthority
  <2>1. /\ job' \in Processes /\ job'.pc = "rebuild" /\ job'.mode = "host"
        /\ job'.clean = job.clean /\ job'.staged = job.staged /\ job'.id = job.id
    BY <1>1, <1>7 DEF AwaitAuthority, Processes, Modes, Steps, HostSteps
  <2>2. job.pc = "authority" /\ UNCHANGED <<status, request>>
    BY <1>7 DEF AwaitAuthority
  <2>3. TypeOK'
    BY <1>1, <1>2, <1>7, <2>1, QuietType DEF AwaitAuthority, TypeOK
  <2>4. ModesInv' /\ CatalogInv'
    BY <1>2, <2>1, <2>2 DEF RestoreInv, ControlInv, ModesInv, CatalogInv, Sound
  <2>5. ReplacedInv' /\ TxnInv' /\ JournalInv'
    BY <1>1, <1>2, <2>1, DataUnchanged
       DEF RestoreInv, ControlInv, ReplacedInv, TxnInv, JournalInv
  <2>6. HoldInv' /\ AuthorityInv'
    BY <1>2, <2>1, <2>2, DataUnchanged DEF RestoreInv, ControlInv, HoldInv, AuthorityInv
  <2>7. FreshInv' /\ StagedInv' /\ CommittedPdfsKept'
    BY <1>2, <2>1, <2>2
       DEF RestoreInv, ControlInv, FreshInv, StagedInv, CommittedPdfsKept, Content
  <2>8. QED
    BY <2>3, <2>4, <2>5, <2>6, <2>7 DEF RestoreInv, ControlInv
<1>8. CASE CompleteAuthority
  <2>1. CASE Fail /\ UNCHANGED status
    <3>1. job' \in Processes /\ KeepsJob /\ QuietMove
      BY <1>1, <1>8, <2>1, JobFields DEF CompleteAuthority, QuietMove
    <3>2. UNCHANGED data
      BY <1>2, <1>8, <2>1 DEF CompleteAuthority, data
    <3>3. faults' \in 0..MaxFaults
      BY <1>1, <1>8, FaultType DEF CompleteAuthority, FaultUnless
    <3>4. QED
      BY <1>1, <1>2, <1>8, <2>1, <3>1, <3>2, <3>3, QuietKeeps, QuietType
         DEF CompleteAuthority, RestoreInv, TypeOK
  <2>2. CASE /\ status.authority /\ Status("done", FALSE, job.id) /\ UNCHANGED faults
             /\ job' = [job EXCEPT !.state = "done", !.clean = TRUE, !.pc = "forget"]
    <3>1. /\ job' \in Processes /\ job'.pc = "forget" /\ job'.mode = job.mode
          /\ job'.dropped = job.dropped /\ job'.staged = job.staged /\ job'.id = job.id
          /\ job'.set = job.set
      BY <1>1, <2>2 DEF Processes, Steps, CompleteSteps
    <3>2. job.pc = "complete" /\ status' \in Statuses /\ ~status'.authority /\ UNCHANGED request
      BY <1>1, <1>3, <1>8, <2>2 DEF CompleteAuthority
    <3>3. Steady /\ journal.of = "none"
      BY <2>2 DEF RestoreInv, ControlInv, AuthorityInv
    <3>4. TypeOK'
      BY <1>1, <1>2, <1>8, <2>2, <3>1, <3>2, QuietType DEF CompleteAuthority, TypeOK
    <3>5. ModesInv' /\ CatalogInv'
      BY <1>2, <3>1, <3>2 DEF RestoreInv, ControlInv, ModesInv, CatalogInv, Sound
    <3>6. ReplacedInv' /\ TxnInv' /\ JournalInv'
      BY <1>1, <1>2, <3>1, DataUnchanged
         DEF RestoreInv, ControlInv, ReplacedInv, TxnInv, JournalInv
    <3>7. HoldInv' /\ AuthorityInv'
      BY <1>2, <3>1, <3>2, <3>3, DataUnchanged DEF RestoreInv, ControlInv, HoldInv, AuthorityInv
    <3>8. FreshInv' /\ StagedInv' /\ CommittedPdfsKept'
      BY <1>2, <3>1, <3>2
         DEF RestoreInv, ControlInv, FreshInv, StagedInv, CommittedPdfsKept, Content
    <3>9. QED
      BY <3>4, <3>5, <3>6, <3>7, <3>8 DEF RestoreInv, ControlInv
  <2>3. QED
    BY <1>8, <2>1, <2>2 DEF CompleteAuthority
<1>9. CASE ForgetAuthority
  <2>1. job' \in Processes /\ KeepsJob /\ QuietMove
    BY <1>1, <1>9, JobFields DEF ForgetAuthority, QuietMove, Steps
  <2>2. UNCHANGED data
    BY <1>2, <1>9 DEF ForgetAuthority, data
  <2>3. QED
    BY <1>1, <1>2, <1>9, <2>1, <2>2, QuietKeeps, QuietType DEF ForgetAuthority, RestoreInv, TypeOK
<1>10. CASE Report
  <2>1. \E p \in {"lift", "finish"} : Go(p) /\ p \in Steps /\ (p = "lift" => job.clean \/ ~job.dropped)
    BY <1>10 DEF Report, Steps
  <2>2. /\ job' \in Processes /\ job'.pc \in {"lift", "finish"} /\ KeepsJob
        /\ job'.pc = "lift" => job.clean \/ ~job.dropped
    BY <1>1, <2>1, JobFields
  <2>3. job.pc = "report" /\ status' \in Statuses /\ ~status'.authority /\ UNCHANGED request
    <3>1. job.state \in {"running", "done", "failed"}
      BY <1>1 DEF Processes
    <3>2. QED
      BY <1>1, <1>3, <1>10, <3>1 DEF Report
  <2>4. TypeOK'
    BY <1>1, <1>2, <1>10, <2>2, <2>3, QuietType DEF Report, TypeOK
  <2>5. ModesInv' /\ CatalogInv'
    BY <1>2, <2>2, <2>3 DEF KeepsJob, RestoreInv, ControlInv, ModesInv, CatalogInv, Sound
  <2>6. ReplacedInv' /\ TxnInv' /\ JournalInv'
    BY <1>1, <1>2, <2>2, <2>3, DataUnchanged
       DEF KeepsJob, RestoreInv, ControlInv, ReplacedInv, TxnInv, JournalInv
  <2>7. HoldInv' /\ AuthorityInv'
    BY <1>2, <2>2, <2>3, DataUnchanged DEF KeepsJob, RestoreInv, ControlInv, HoldInv, AuthorityInv
  <2>8. FreshInv' /\ StagedInv' /\ CommittedPdfsKept'
    BY <1>2, <2>2, <2>3
       DEF KeepsJob, RestoreInv, ControlInv, FreshInv, StagedInv, CommittedPdfsKept, Content
  <2>9. QED
    BY <2>4, <2>5, <2>6, <2>7, <2>8 DEF RestoreInv, ControlInv
<1>11. QED
  BY <1>4, <1>5, <1>6, <1>7, <1>8, <1>9, <1>10


\* Preparing and tidying, and lifting the maintenance.
LEMMA HoldSteps ==
    ASSUME RestoreInv, Preflight \/ Tidy \/ LiftMaintenance
    PROVE  RestoreInv'
<1>1. /\ TypeOK /\ job \in Processes /\ job.set \in DataSets /\ journal.set \in DataSets
      /\ job.id \in Runs \cup {0}
  BY DEF RestoreInv, TypeOK, Processes, Journals
<1>2. CASE Preflight
  <2>1. CASE Fail /\ UNCHANGED stage
    <3>1. job' \in Processes /\ KeepsJob /\ QuietMove
      BY <1>1, <1>2, <2>1, JobFields DEF Preflight, QuietMove
    <3>2. UNCHANGED data
      BY <1>2 DEF Preflight, data
    <3>3. faults' \in 0..MaxFaults
      BY <1>1, <1>2, FaultType DEF Preflight, Fault, FaultUnless
    <3>4. QED
      BY <1>1, <1>2, <2>1, <3>1, <3>2, <3>3, QuietKeeps, QuietType DEF Preflight, RestoreInv, TypeOK
  <2>2. CASE /\ stage' = [stage EXCEPT ![job.id] = Content(job.set)]
             /\ job' = [job EXCEPT !.staged = TRUE, !.pc = "raise"] /\ UNCHANGED faults
    <3>1. /\ job' \in Processes /\ job'.pc = "raise" /\ job'.mode = job.mode /\ job'.id = job.id
          /\ job'.set = job.set /\ job'.db = job.db /\ job'.clean = job.clean
          /\ job'.dropped = job.dropped
      BY <1>1, <2>2 DEF Processes, Steps
    <3>2. /\ job.pc = "preflight"
          /\ UNCHANGED <<catalog, keys, txn, main, old, committed, destructive, journal,
                         status, request>>
      BY <1>2 DEF Preflight
    <3>3. TypeOK'
      <4>1. stage' \in [Runs -> SUBSET Pdf]
        BY <1>1, <2>2, InventoryAssumption DEF TypeOK, Content, Pdf
      <4>2. QED
        BY <1>1, <1>2, <2>2, <3>1, <4>1 DEF Preflight, TypeOK
    <3>4. ModesInv' /\ CatalogInv'
      BY <3>1, <3>2 DEF RestoreInv, ControlInv, ModesInv, CatalogInv, Sound
    <3>5. ReplacedInv' /\ TxnInv' /\ JournalInv'
      BY <1>1, <3>1, <3>2, DataUnchanged
         DEF RestoreInv, ControlInv, ReplacedInv, TxnInv, JournalInv
    <3>6. HoldInv' /\ AuthorityInv'
      BY <3>1, <3>2, DataUnchanged DEF RestoreInv, ControlInv, HoldInv, AuthorityInv
    <3>7. FreshInv' /\ StagedInv' /\ CommittedPdfsKept'
      BY <3>1, <3>2 DEF RestoreInv, ControlInv, FreshInv, StagedInv, CommittedPdfsKept, Content
    <3>8. QED
      BY <3>3, <3>4, <3>5, <3>6, <3>7 DEF RestoreInv, ControlInv
  <2>3. QED
    BY <1>2, <2>1, <2>2 DEF Preflight
<1>3. CASE Tidy
  <2>1. job' \in Processes /\ job'.pc = "report" /\ KeepsJob
    BY <1>1, <1>3, JobFields DEF Tidy, Steps, ExitSteps
  <2>2. /\ job.pc = "tidy"
        /\ UNCHANGED <<catalog, keys, txn, main, committed, destructive, journal,
                       status, request>>
    BY <1>3 DEF Tidy
  <2>3. \/ UNCHANGED old
        \/ /\ job.staged /\ journal.of # "pdfs"
           /\ old' = [old EXCEPT ![job.id] = {}]
    BY <1>3 DEF Tidy
  <2>4. TypeOK'
    <3>1. stage' \in [Runs -> SUBSET Pdf] /\ old' \in [Runs -> SUBSET Pdf]
      BY <1>1, <1>3 DEF Tidy, TypeOK
    <3>2. QED
      BY <1>1, <1>3, <2>1, <3>1 DEF Tidy, TypeOK
  <2>5. ModesInv' /\ CatalogInv'
    BY <2>1, <2>2 DEF KeepsJob, RestoreInv, ControlInv, ModesInv, CatalogInv, Sound
  <2>6. ReplacedInv' /\ TxnInv' /\ JournalInv'
    BY <1>1, <2>1, <2>2, DataUnchanged
       DEF KeepsJob, RestoreInv, ControlInv, ReplacedInv, TxnInv, JournalInv
  <2>7. HoldInv' /\ AuthorityInv'
    BY <2>1, <2>2, DataUnchanged DEF KeepsJob, RestoreInv, ControlInv, HoldInv, AuthorityInv
  <2>8. old \in [Runs -> SUBSET Pdf] /\ (request # None => request.id \in Runs)
    BY <1>1 DEF TypeOK, Request
  <2>9. FreshInv'
    BY <2>1, <2>2, <2>3, <2>8 DEF KeepsJob, RestoreInv, ControlInv, FreshInv
  <2>10. \A r \in Runs : old'[r] = old[r] \/ (r = job.id /\ old'[r] = {})
    BY <2>3, <2>8
  <2>11. job.id \in Runs => old'[job.id] = old[job.id] \/ old'[job.id] = {}
    BY <2>10
  <2>12. job.staged /\ journal.of # "pdfs"
           => old[job.id] = {} \/ Content(committed) \subseteq main
    BY DEF RestoreInv, ControlInv, StagedInv
  <2>13. CommittedPdfsKept'
    <3>1. CASE Content(committed) \subseteq main \/ UNCHANGED old
      BY <2>2, <3>1 DEF RestoreInv, ControlInv, CommittedPdfsKept, Content
    <3>2. CASE old[job.id] = {} /\ old' = [old EXCEPT ![job.id] = {}]
      <4>1. \A r \in Runs : old'[r] = old[r]
        BY <2>8, <3>2
      <4>2. QED
        BY <2>2, <4>1 DEF RestoreInv, ControlInv, CommittedPdfsKept, Content
    <3>3. QED
      BY <2>3, <2>12, <3>1, <3>2
  <2>14. StagedInv'
    <3>1. old' = old \/ old' = [old EXCEPT ![job.id] = {}]
      BY <2>3
    <3>2. old[job.id] = {} => old'[job.id] = {}
      BY <2>8, <3>1
    <3>3. QED
      BY <2>1, <2>2, <3>2 DEF KeepsJob, RestoreInv, ControlInv, StagedInv, Content
  <2>15. QED
    BY <2>4, <2>5, <2>6, <2>7, <2>9, <2>13, <2>14 DEF RestoreInv, ControlInv
<1>4. CASE LiftMaintenance
  <2>1. job' \in Processes /\ job'.pc = "finish" /\ KeepsJob
    BY <1>1, <1>4, JobFields DEF LiftMaintenance, Steps, ExitSteps
  <2>2. /\ job.pc = "lift" /\ destructive' = FALSE
        /\ UNCHANGED <<catalog, keys, txn, main, old, committed, journal, status, request>>
    BY <1>4 DEF LiftMaintenance
  <2>3. Steady /\ journal.of # "pdfs"
    <3>1. job.clean \/ ~destructive
      BY <2>2 DEF RestoreInv, ControlInv, HoldInv
    <3>2. QED
      BY <3>1 DEF RestoreInv, ControlInv, HoldInv, TxnInv, JournalInv
  <2>4. TypeOK'
    BY <1>1, <1>4, <2>1, <2>2 DEF LiftMaintenance, TypeOK
  <2>5. ModesInv' /\ CatalogInv'
    BY <2>1, <2>2 DEF KeepsJob, RestoreInv, ControlInv, ModesInv, CatalogInv, Sound
  <2>6. ReplacedInv' /\ TxnInv' /\ JournalInv'
    BY <1>1, <2>1, <2>2, <2>3, DataUnchanged
       DEF KeepsJob, RestoreInv, ControlInv, ReplacedInv, TxnInv, JournalInv
  <2>7. HoldInv' /\ AuthorityInv'
    BY <2>1, <2>2, <2>3, DataUnchanged DEF KeepsJob, RestoreInv, ControlInv, HoldInv, AuthorityInv
  <2>8. FreshInv' /\ StagedInv' /\ CommittedPdfsKept'
    BY <2>1, <2>2
       DEF KeepsJob, RestoreInv, ControlInv, FreshInv, StagedInv, CommittedPdfsKept, Content
  <2>9. QED
    BY <2>4, <2>5, <2>6, <2>7, <2>8 DEF RestoreInv, ControlInv
<1>5. QED
  BY <1>2, <1>3, <1>4

-----------------------------------------------------------------------------
(* The data keys.                                                          *)

\* A step of the key transaction: in a request everything else waits under the
\* sentinel, and a recovery is the business of no set but those with keys.
LEMMA KeysKeep ==
    ASSUME RestoreInv, KeepsJob, job.pc \in KeySteps,
           UNCHANGED <<catalog, main, old, committed, destructive, journal, status, request>>,
           txn' # None => txn'.old # Mixed,
           keys' = Mixed => txn' # None,
           \/ job'.pc = "tidy"
           \/ /\ job'.pc \in {"copyKeys", "replace", "replaced", "rmTxn"} /\ txn' # None
              /\ job.mode = "request" => txn'.new = job.set
              /\ (job.mode = "request" /\ job'.pc = "rmTxn") => keys' = job.set
              /\ job'.pc \in {"copyKeys", "rmTxn"} => keys' # Mixed
              /\ job'.pc = "copyKeys" => job.mode = "request"
           \/ job'.pc = "pdfs" /\ job.mode = "request" /\ txn' = None /\ keys' = job.set
    PROVE  ControlInv'
<1> USE DEF KeepsJob
<1>1. /\ job.set \in DataSets /\ journal.set \in DataSets /\ ~job.clean
      /\ job.mode = "request" => destructive /\ ~status.authority /\ journal.of # "pdfs"
  BY DEF RestoreInv, TypeOK, Processes, Journals, ControlInv, HoldInv, AuthorityInv, JournalInv
<1>2. job.mode # "request" => txn # None
  BY DEF RestoreInv, ControlInv, ModesInv, TxnInv
<1>3. \A d \in Databases, s \in DataSets : Settled(d, s)' <=> Settled(d, s)
  BY DEF Settled, Verifies
<1>4. \A s \in DataSets \ WithKeys : /\ Together(s)' <=> Together(s)
                                     /\ Consistent(s)' <=> Consistent(s)
  BY <1>3 DEF Together, Consistent
<1>5. job.mode # "request" /\ Steady => Steady'
  BY <1>2, <1>4 DEF Steady, Keyless, AllConsistent
<1>6. ModesInv' /\ CatalogInv'
  BY DEF RestoreInv, ControlInv, ModesInv, CatalogInv, Sound
<1>7. ReplacedInv'
  BY <1>1, <1>3 DEF RestoreInv, ControlInv, ModesInv, ReplacedInv, Together
<1>8. TxnInv'
  BY DEF RestoreInv, ControlInv, TxnInv
<1>9. JournalInv'
  <2>1. journal.of = "pdfs" => journal.set \notin WithKeys /\ Together(journal.set)
    BY <1>1, <1>2 DEF RestoreInv, ControlInv, JournalInv
  <2>2. journal.of = "pdfs" => Together(journal.set)'
    BY <1>1, <1>4, <2>1
  <2>3. QED
    BY <1>1, <2>1, <2>2 DEF RestoreInv, ControlInv, JournalInv
<1>10. HoldInv' /\ AuthorityInv'
  BY <1>1, <1>5 DEF RestoreInv, ControlInv, HoldInv, AuthorityInv
<1>11. FreshInv' /\ StagedInv' /\ CommittedPdfsKept'
  BY DEF RestoreInv, ControlInv, FreshInv, StagedInv, CommittedPdfsKept, Content
<1>12. QED
  BY <1>6, <1>7, <1>8, <1>9, <1>10, <1>11 DEF ControlInv

LEMMA KeyStepKeeps ==
    ASSUME RestoreInv, KeyStep
    PROVE  RestoreInv'
<1>1. /\ TypeOK /\ job \in Processes /\ job.set \in DataSets /\ job.mode \in {"request", "recover"}
      /\ txn \in Txn \cup {None} /\ keys \in DataSets \cup {Mixed}
  BY DEF RestoreInv, TypeOK, Processes, ControlInv, ModesInv, KeyStep, OpenKeys, CopyKeys,
         ReplaceKeys, ReplacedKeys, CloseKeys
<1>2. /\ UNCHANGED <<dbVars, pdfVars, holdVars, fileVars, journal>>
      /\ job.pc \in KeySteps
  BY DEF KeyStep, OpenKeys, CopyKeys, ReplaceKeys, ReplacedKeys, CloseKeys
<1>3. /\ job.pc \in {"copyKeys", "replace", "replaced", "rmTxn"}
           => txn # None /\ (job.mode = "request" => txn.new = job.set)
      /\ job.pc \in {"keys", "copyKeys"} => job.mode = "request"
      /\ job.pc \in {"copyKeys", "rmTxn"} => keys # Mixed
      /\ txn # None => txn.old # Mixed
      /\ keys = Mixed => txn # None
  BY DEF RestoreInv, ControlInv, ModesInv, TxnInv
<1>4. /\ faults' \in 0..MaxFaults /\ job' \in Processes /\ KeepsJob
      /\ txn' \in Txn \cup {None} /\ keys' \in DataSets \cup {Mixed}
      /\ txn' # None => txn'.old # Mixed
      /\ keys' = Mixed => txn' # None
      /\ \/ job'.pc = "tidy"
         \/ /\ job'.pc \in {"copyKeys", "replace", "replaced", "rmTxn"} /\ txn' # None
            /\ job.mode = "request" => txn'.new = job.set
            /\ (job.mode = "request" /\ job'.pc = "rmTxn") => keys' = job.set
            /\ job'.pc \in {"copyKeys", "rmTxn"} => keys' # Mixed
            /\ job'.pc = "copyKeys" => job.mode = "request"
         \/ job'.pc = "pdfs" /\ job.mode = "request" /\ txn' = None /\ keys' = job.set
  <2>1. CASE OpenKeys
    <3>1. CASE txn # None
      BY <1>1, <1>3, <2>1, <3>1, JobFields DEF OpenKeys, TypeOK
    <3>2. CASE txn = None
      <4>1. /\ txn' = [full |-> FALSE, old |-> keys, new |-> job.set] /\ Go("copyKeys")
            /\ UNCHANGED <<keys, faults>>
        BY <2>1, <3>2 DEF OpenKeys
      <4>2. txn' \in Txn /\ txn'.new = job.set /\ txn'.old = keys
        BY <1>1, <4>1 DEF Txn
      <4>3. txn' # None
        BY <4>2, NoneAssumption
      <4>4. job' \in Processes /\ KeepsJob /\ job'.pc = "copyKeys"
        BY <1>1, <4>1, JobFields DEF Steps
      <4>5. QED
        BY <1>1, <1>3, <2>1, <3>2, <4>1, <4>2, <4>3, <4>4 DEF OpenKeys, TypeOK
    <3>3. QED
      BY <3>1, <3>2
  <2>2. CASE CopyKeys
    <3>1. CASE txn' = [txn EXCEPT !.full = TRUE] /\ Go("replace") /\ UNCHANGED faults
      <4>1. txn \in Txn
        BY <1>1, <1>3, <2>2 DEF CopyKeys
      <4>2. txn' \in Txn /\ txn'.new = txn.new /\ txn'.old = txn.old
        BY <3>1, <4>1 DEF Txn
      <4>3. txn' # None
        BY <4>2, NoneAssumption
      <4>4. job' \in Processes /\ KeepsJob /\ job'.pc = "replace"
        BY <1>1, <3>1, JobFields DEF Steps
      <4>5. QED
        BY <1>1, <1>3, <2>2, <3>1, <4>2, <4>3, <4>4 DEF CopyKeys, TypeOK
    <3>2. CASE txn' = None /\ Fault /\ Fail
      <4>1. faults' \in 0..MaxFaults
        BY <1>1, <3>2, FaultType DEF Fault, FaultUnless
      <4>2. QED
        BY <1>1, <1>3, <2>2, <3>2, <4>1, JobFields DEF CopyKeys
    <3>3. QED
      BY <2>2, <3>1, <3>2 DEF CopyKeys
  <2>3. CASE ReplaceKeys
    <3>1. job' \in Processes /\ KeepsJob /\ job'.pc = "replaced"
      BY <1>1, <2>3, JobFields DEF ReplaceKeys, Steps
    <3>2. QED
      BY <1>1, <1>3, <2>3, <3>1 DEF ReplaceKeys, TypeOK
  <2>4. CASE ReplacedKeys
    <3>1. txn \in Txn /\ txn # None /\ (job.mode = "request" => txn.new = job.set)
      BY <1>1, <1>3, <2>4 DEF ReplacedKeys
    <3>2. /\ txn.new \in DataSets /\ txn.new # Mixed
          /\ txn.old \in DataSets \cup {Mixed} /\ txn.old # Mixed
      BY <1>3, <3>1, MixedAssumption DEF Txn
    <3>3. CASE keys' = txn.new /\ Go("rmTxn") /\ UNCHANGED <<txn, faults>>
      <4>1. job' \in Processes /\ KeepsJob /\ job'.pc = "rmTxn"
        BY <1>1, <3>3, JobFields DEF Steps
      <4>2. QED
        BY <1>1, <1>3, <2>4, <3>1, <3>2, <3>3, <4>1 DEF ReplacedKeys, TypeOK
    <3>4. CASE /\ Fault /\ Fail
               /\ \/ /\ keys' = txn.old
                     /\ txn' = IF job.mode = "recover" THEN txn ELSE None
                  \/ keys' \in {Mixed, txn.new} /\ UNCHANGED txn
      <4>1. faults' \in 0..MaxFaults
        BY <1>1, <3>4, FaultType DEF Fault, FaultUnless
      <4>2. job' \in Processes /\ KeepsJob /\ job'.pc = "tidy"
        BY <1>1, <3>4, JobFields
      <4>3. QED
        BY <1>1, <3>1, <3>2, <3>4, <4>1, <4>2
    <3>5. QED
      BY <2>4, <3>3, <3>4 DEF ReplacedKeys
  <2>5. CASE CloseKeys
    <3>1. txn' = None /\ UNCHANGED <<keys, faults>> /\ keys # Mixed
      BY <1>3, <2>5 DEF CloseKeys
    <3>2. CASE job.mode = "recover"
      BY <1>1, <2>5, <3>1, <3>2, JobFields DEF CloseKeys, TypeOK
    <3>3. CASE job.mode = "request"
      <4>1. keys = job.set
        BY <2>5, <3>3 DEF CloseKeys, RestoreInv, ControlInv, ReplacedInv
      <4>2. job' \in Processes /\ KeepsJob /\ job'.pc = "pdfs"
        BY <1>1, <2>5, <3>3, JobFields DEF CloseKeys, Steps
      <4>3. QED
        BY <1>1, <3>1, <3>3, <4>1, <4>2 DEF TypeOK
    <3>4. QED
      BY <1>1, <3>2, <3>3
  <2>6. QED
    BY <2>1, <2>2, <2>3, <2>4, <2>5 DEF KeyStep
<1>5. ControlInv'
  BY <1>2, <1>4, KeysKeep
<1>6. TypeOK'
  BY <1>1, <1>2, <1>4 DEF TypeOK
<1>7. QED
  BY <1>5, <1>6 DEF RestoreInv

-----------------------------------------------------------------------------
(* The PDF files.                                                          *)

\* What holds while the files are being moved.
LEMMA PdfsMoving ==
    ASSUME RestoreInv, job.pc = "pdf"
    PROVE  /\ journal.of = "pdfs" /\ journal.run = job.id /\ journal.set = job.set
           /\ journal.set \in DataSets /\ job.id \in Runs /\ Together(job.set)
           /\ txn = None \/ job.set \notin WithKeys
           /\ destructive /\ ~job.clean /\ ~status.authority
           /\ main \subseteq Pdf /\ old \in [Runs -> SUBSET Pdf] /\ stage \in [Runs -> SUBSET Pdf]
           /\ job \in Processes /\ journal \in Journals
           /\ request # None => request.id \in Runs /\ request.id # job.id /\ request.id # 0
<1>1. TypeOK
  BY DEF RestoreInv
<1>2. /\ journal.of = "pdfs" /\ journal.run = job.id /\ journal.set = job.set
      /\ journal.set \in DataSets /\ job.id \in Runs /\ Together(job.set)
      /\ txn = None \/ job.set \notin WithKeys
      /\ destructive /\ ~job.clean /\ ~status.authority
  BY <1>1, JournalType DEF RestoreInv, ControlInv, JournalInv, HoldInv, AuthorityInv
<1>3. request # None => request.id \in Runs /\ request.id # job.id /\ request.id # 0
  <2>1. request # None => request.id \in Runs
    BY <1>1 DEF TypeOK, Request
  <2>2. request # None => request.id # journal.run
    BY DEF RestoreInv, ControlInv, FreshInv
  <2>3. QED
    BY <1>2, <2>1, <2>2, RunsAssumption
<1>4. QED
  BY <1>1, <1>2, <1>3 DEF TypeOK

\* A move of a file, or a new phase of the journal.
LEMMA MovingKeeps ==
    ASSUME RestoreInv, job.pc = "pdf",
           UNCHANGED <<catalog, keys, txn, committed, destructive, status, request, job>>,
           journal'.of = "pdfs", journal'.run = journal.run, journal'.set = journal.set,
           \A r \in Runs : r # job.id => old'[r] = old[r],
           CommittedPdfsKept'
    PROVE  ControlInv'
<1>1. /\ journal.of = "pdfs" /\ journal.run = job.id /\ journal.set = job.set
      /\ job.set \in DataSets /\ job.id \in Runs /\ Together(job.set)
      /\ txn = None \/ job.set \notin WithKeys
      /\ destructive /\ ~job.clean /\ ~status.authority
      /\ request # None => request.id \in Runs /\ request.id # job.id
  BY PdfsMoving
<1>2. Together(job.set)'
  BY <1>1 DEF Together, Settled, Verifies
<1>3. ModesInv' /\ CatalogInv'
  BY DEF RestoreInv, ControlInv, ModesInv, CatalogInv, Sound
<1>4. ReplacedInv' /\ TxnInv' /\ JournalInv'
  BY <1>1, <1>2 DEF RestoreInv, ControlInv, ReplacedInv, TxnInv, JournalInv
<1>5. HoldInv' /\ AuthorityInv'
  BY <1>1 DEF RestoreInv, ControlInv, HoldInv, AuthorityInv
<1>6. FreshInv' /\ StagedInv'
  BY <1>1 DEF RestoreInv, ControlInv, FreshInv, StagedInv
<1>7. QED
  BY <1>3, <1>4, <1>5, <1>6 DEF ControlInv

LEMMA MoveKeeps ==
    ASSUME RestoreInv, MoveOld \/ MoveNew
    PROVE  RestoreInv'
<1>1. /\ TypeOK /\ job.pc = "pdf"
      /\ UNCHANGED <<dbVars, keyVars, committed, holdVars, fileVars, job, faults>>
  BY DEF RestoreInv, MoveOld, MoveNew
<1>2. /\ journal.of = "pdfs" /\ job.id \in Runs
      /\ main \subseteq Pdf /\ old \in [Runs -> SUBSET Pdf] /\ stage \in [Runs -> SUBSET Pdf]
      /\ journal \in Journals
  BY <1>1, PdfsMoving
<1>3. CommittedPdfsKept
  BY DEF RestoreInv, ControlInv
<1>4. \A p \in PdfPhases : Advance(p) =>
          journal' \in Journals /\ journal'.of = "pdfs" /\ journal'.run = journal.run
          /\ journal'.set = journal.set
  BY <1>2 DEF Advance, Journals
<1>5. /\ journal' \in Journals /\ journal'.of = "pdfs" /\ journal'.run = journal.run
      /\ journal'.set = journal.set
  BY <1>2, <1>4 DEF MoveOld, MoveNew, PdfPhases
<1>6. /\ main' \subseteq Pdf /\ old' \in [Runs -> SUBSET Pdf] /\ stage' \in [Runs -> SUBSET Pdf]
      /\ \A r \in Runs : r # job.id => old'[r] = old[r]
      /\ main \cup UNION {old[r] : r \in Runs} \subseteq main' \cup UNION {old'[r] : r \in Runs}
  <2>1. CASE \E p \in main : /\ main' = main \ {p}
                             /\ old' = [old EXCEPT ![job.id] = @ \cup {p}]
                             /\ UNCHANGED stage
    <3>1. PICK p \in main : /\ main' = main \ {p}
                            /\ old' = [old EXCEPT ![job.id] = @ \cup {p}]
                            /\ UNCHANGED stage
      BY <2>1
    <3>2. old' \in [Runs -> SUBSET Pdf]
      BY <1>2, <3>1
    <3>3. \A r \in Runs : old'[r] = IF r = job.id THEN old[r] \cup {p} ELSE old[r]
      BY <1>2, <3>1
    <3>4. \A r \in Runs : old[r] \subseteq old'[r]
      BY <3>3
    <3>5. p \in old'[job.id]
      BY <1>2, <3>3
    <3>6. main \subseteq main' \cup UNION {old'[r] : r \in Runs}
      BY <1>2, <3>1, <3>5
    <3>7. UNION {old[r] : r \in Runs} \subseteq UNION {old'[r] : r \in Runs}
      BY <3>4
    <3>8. QED
      BY <1>2, <3>1, <3>2, <3>3, <3>6, <3>7
  <2>2. CASE \E p \in stage[job.id] : /\ stage' = [stage EXCEPT ![job.id] = @ \ {p}]
                                      /\ main' = main \cup {p}
                                      /\ UNCHANGED old
    <3>1. PICK p \in stage[job.id] : /\ stage' = [stage EXCEPT ![job.id] = @ \ {p}]
                                     /\ main' = main \cup {p}
                                     /\ UNCHANGED old
      BY <2>2
    <3>2. p \in Pdf /\ stage' \in [Runs -> SUBSET Pdf]
      BY <1>2, <3>1
    <3>3. QED
      BY <1>2, <3>1, <3>2
  <2>3. CASE UNCHANGED <<main, old, stage>>
    BY <1>2, <2>3
  <2>4. QED
    BY <2>1, <2>2, <2>3 DEF MoveOld, MoveNew
<1>7. CommittedPdfsKept'
  <2>1. Content(committed)' = Content(committed)
    BY <1>1 DEF Content
  <2>2. QED
    BY <1>3, <1>6, <2>1 DEF CommittedPdfsKept
<1>8. ControlInv'
  BY <1>1, <1>5, <1>6, <1>7, MovingKeeps
<1>9. TypeOK'
  BY <1>1, <1>5, <1>6 DEF TypeOK
<1>10. QED
  BY <1>8, <1>9 DEF RestoreInv

LEMMA BeginKeeps ==
    ASSUME RestoreInv, BeginPdfs
    PROVE  RestoreInv'
<1>1. /\ TypeOK /\ job.pc = "pdfs" /\ job.set \in DataSets
      /\ UNCHANGED <<dbVars, keyVars, pdfVars, holdVars, fileVars>>
  BY DEF RestoreInv, TypeOK, Processes, BeginPdfs
<1>2. CASE Fail /\ UNCHANGED journal
  <2>1. job' \in Processes /\ KeepsJob /\ QuietMove
    BY <1>1, <1>2, JobFields DEF QuietMove
  <2>2. UNCHANGED data
    BY <1>1, <1>2 DEF data
  <2>3. faults' \in 0..MaxFaults
    BY <1>1, FaultType DEF BeginPdfs, Fault, FaultUnless
  <2>4. QED
    BY <1>1, <1>2, <2>1, <2>2, <2>3, QuietKeeps, QuietType DEF RestoreInv, TypeOK
<1>3. CASE /\ journal' = PdfJournal(job.id, job.set, "move_old")
           /\ Go("pdf") /\ UNCHANGED faults
  <2>1. /\ job.mode = "request" /\ job.id \in Runs /\ request = None
        /\ Together(job.set) /\ (txn = None \/ job.set \notin WithKeys)
        /\ destructive /\ ~job.clean /\ ~status.authority
    BY <1>1 DEF RestoreInv, ControlInv, ModesInv, FreshInv, ReplacedInv, TxnInv, HoldInv,
                AuthorityInv
  <2>2. job' \in Processes /\ job'.pc = "pdf" /\ KeepsJob
    BY <1>1, <1>3, JobFields DEF Steps
  <2>3. /\ journal'.of = "pdfs" /\ journal'.run = job.id /\ journal'.set = job.set
        /\ journal' \in Journals
    BY <1>1, <1>3, <2>1 DEF PdfJournal, Journals, JournalOf, PdfPhases
  <2>4. Together(job.set)'
    BY <1>1, <2>1, <2>2 DEF KeepsJob, Together, Settled, Verifies
  <2>5. ModesInv' /\ CatalogInv'
    BY <1>1, <2>1, <2>2 DEF KeepsJob, RestoreInv, ControlInv, ModesInv, CatalogInv, Sound
  <2>6. ReplacedInv' /\ TxnInv' /\ JournalInv'
    BY <1>1, <2>1, <2>2, <2>3, <2>4
       DEF KeepsJob, RestoreInv, ControlInv, ReplacedInv, TxnInv, JournalInv
  <2>7. HoldInv' /\ AuthorityInv'
    BY <1>1, <2>1, <2>2 DEF KeepsJob, RestoreInv, ControlInv, HoldInv, AuthorityInv
  <2>8. FreshInv' /\ StagedInv' /\ CommittedPdfsKept'
    BY <1>1, <2>1, <2>2, <2>3
       DEF KeepsJob, RestoreInv, ControlInv, FreshInv, StagedInv, CommittedPdfsKept, Content
  <2>9. TypeOK'
    BY <1>1, <1>3, <2>2, <2>3 DEF TypeOK
  <2>10. QED
    BY <2>5, <2>6, <2>7, <2>8, <2>9 DEF RestoreInv, ControlInv
<1>4. QED
  BY <1>2, <1>3 DEF BeginPdfs

LEMMA VerifyKeeps ==
    ASSUME RestoreInv, VerifyPdfs
    PROVE  RestoreInv'
<1>1. /\ TypeOK /\ job.pc = "pdf" /\ main = Content(job.set)
      /\ UNCHANGED <<dbVars, keyVars, main, stage, old, holdVars, fileVars, faults>>
  BY DEF RestoreInv, VerifyPdfs
<1>2. /\ journal.of = "pdfs" /\ journal.run = job.id /\ journal.set = job.set
      /\ journal.set \in DataSets /\ job.id \in Runs /\ Together(job.set)
      /\ txn = None \/ job.set \notin WithKeys
      /\ destructive /\ ~job.clean /\ ~status.authority
      /\ job \in Processes /\ journal \in Journals
      /\ request # None => request.id \in Runs /\ request.id # job.id /\ request.id # 0
  BY <1>1, PdfsMoving
<1>3. CASE Advance("cleanup") /\ UNCHANGED <<job, committed>>
  <2>1. /\ journal' \in Journals /\ journal'.of = "pdfs" /\ journal'.run = journal.run
        /\ journal'.set = journal.set
    BY <1>2, <1>3 DEF Advance, Journals, PdfPhases
  <2>2. CommittedPdfsKept'
    BY <1>1, <1>3 DEF RestoreInv, ControlInv, CommittedPdfsKept, Content
  <2>3. ControlInv'
    BY <1>1, <1>3, <2>1, <2>2, MovingKeeps
  <2>4. QED
    BY <1>1, <1>3, <2>1, <2>3 DEF RestoreInv, TypeOK
<1>4. CASE journal' = NoJournal /\ Go("rmDirs") /\ committed' = job.set
  <2>1. job' \in Processes /\ job'.pc = "rmDirs" /\ KeepsJob
    BY <1>1, <1>4, JobFields DEF Steps
  <2>2. journal' \in Journals /\ journal'.of = "none" /\ journal'.run = 0
    BY <1>4 DEF NoJournal, Journals, JournalOf, PdfPhases, DataSets
  <2>3. Consistent(job.set)'
    <3>1. Together(job.set)' /\ main' = main /\ Content(job.set)' = Content(job.set)
      BY <1>1, <1>2, <2>1 DEF KeepsJob, Together, Settled, Verifies, Content
    <3>2. QED
      BY <1>1, <3>1 DEF Consistent
  <2>4. Content(committed)' = main'
    BY <1>1, <1>4 DEF Content
  <2>5. ModesInv' /\ CatalogInv'
    BY <1>1, <2>1 DEF KeepsJob, RestoreInv, ControlInv, ModesInv, CatalogInv, Sound
  <2>6. ReplacedInv' /\ TxnInv' /\ JournalInv'
    BY <1>1, <1>2, <2>1, <2>2, <2>3
       DEF KeepsJob, RestoreInv, ControlInv, ReplacedInv, TxnInv, JournalInv
  <2>7. HoldInv' /\ AuthorityInv'
    BY <1>1, <1>2, <2>1 DEF KeepsJob, RestoreInv, ControlInv, HoldInv, AuthorityInv
  <2>8. FreshInv'
    BY <1>1, <1>2, <2>1, <2>2 DEF KeepsJob, RestoreInv, ControlInv, FreshInv
  <2>9. StagedInv' /\ CommittedPdfsKept'
    BY <1>1, <2>1, <2>4 DEF StagedInv, CommittedPdfsKept
  <2>10. TypeOK'
    BY <1>1, <1>2, <1>4, <2>1, <2>2 DEF TypeOK
  <2>11. QED
    BY <2>5, <2>6, <2>7, <2>8, <2>9, <2>10 DEF RestoreInv, ControlInv
<1>5. QED
  BY <1>3, <1>4 DEF VerifyPdfs

LEMMA RemoveKeeps ==
    ASSUME RestoreInv, RemoveDirs
    PROVE  RestoreInv'
<1>1. /\ TypeOK /\ job \in Processes /\ job.pc = "rmDirs" /\ job.set \in DataSets
      /\ UNCHANGED <<dbVars, keyVars, main, committed, holdVars, fileVars, journal, faults>>
  BY DEF RestoreInv, TypeOK, Processes, RemoveDirs
<1>2. /\ Consistent(job.set) /\ Steady /\ journal.of = "none"
      /\ ~status.authority /\ ~job.clean /\ job.mode \in {"request", "recover"}
      /\ Content(committed) \subseteq main
  BY <1>1 DEF RestoreInv, ControlInv, ReplacedInv, TxnInv, JournalInv, AuthorityInv, HoldInv,
              ModesInv, StagedInv, AllConsistent, Keyless, Steady
<1>3. /\ old' \in [Runs -> SUBSET Pdf] /\ stage' \in [Runs -> SUBSET Pdf]
      /\ \A r \in Runs : old[r] = {} => old'[r] = {}
      /\ request # None => request.id \in Runs
  BY <1>1 DEF RemoveDirs, TypeOK, Request
<1>4. /\ job' \in Processes /\ job'.mode = job.mode /\ job'.id = job.id /\ job'.set = job.set
      /\ job'.db = job.db /\ job'.dropped = job.dropped
      /\ \/ job.mode = "recover" /\ job'.pc = "tidy" /\ job'.clean /\ job'.staged = job.staged
         \/ job.mode = "request" /\ job'.pc = "handover" /\ job'.clean = job.clean /\ ~job'.staged
  <2>1. CASE job.mode = "recover"
    <3>1. job' = [job EXCEPT !.clean = TRUE, !.state = "done", !.pc = "tidy"]
      BY <2>1 DEF RemoveDirs
    <3>2. QED
      BY <1>1, <2>1, <3>1 DEF Processes, Steps, ExitSteps
  <2>2. CASE job.mode = "request"
    <3>1. job' = [job EXCEPT !.staged = FALSE, !.pc = "handover"]
      BY <2>2 DEF RemoveDirs
    <3>2. QED
      BY <1>1, <2>2, <3>1 DEF Processes, Steps, HandoverSteps
  <2>3. QED
    BY <1>2, <2>1, <2>2
<1>5. ModesInv' /\ CatalogInv'
  BY <1>1, <1>4 DEF RestoreInv, ControlInv, ModesInv, CatalogInv, Sound
<1>6. ReplacedInv' /\ TxnInv' /\ JournalInv'
  BY <1>1, <1>2, <1>4, DataUnchanged DEF RestoreInv, ControlInv, ReplacedInv, TxnInv, JournalInv
<1>7. HoldInv' /\ AuthorityInv'
  BY <1>1, <1>2, <1>4, DataUnchanged DEF RestoreInv, ControlInv, HoldInv, AuthorityInv
<1>8. FreshInv'
  BY <1>1, <1>3, <1>4 DEF RestoreInv, ControlInv, FreshInv
<1>9. StagedInv' /\ CommittedPdfsKept'
  BY <1>1, <1>2, <1>4 DEF StagedInv, CommittedPdfsKept, Content
<1>10. TypeOK'
  BY <1>1, <1>3, <1>4 DEF TypeOK
<1>11. QED
  BY <1>5, <1>6, <1>7, <1>8, <1>9, <1>10 DEF RestoreInv, ControlInv

-----------------------------------------------------------------------------
(* The statements on the catalogs.                                         *)

\* The statement that follows each one.
Follows ==
    {<<"heal", "dropStale">>, <<"dropStale", "cleared">>, <<"forward", "judge">>,
     <<"dropOld", "dropStale">>, <<"park1", "park2">>, <<"park2", "reopen">>,
     <<"reopen", "putBack">>, <<"putBack", "dropParked">>, <<"dropParked", "reverted">>,
     <<"create", "note">>, <<"disallow", "renameOut">>, <<"renameOut", "renameIn">>,
     <<"renameIn", "verify">>, <<"dropPre", "swapped">>}

LEMMA AfterIsFollows ==
    ASSUME NEW p \in DOMAIN After
    PROVE  <<p, After[p]>> \in Follows
  BY DEF After, Follows

LEMMA CopyFields ==
    ASSUME NEW c \in Slot, c # None
    PROVE  /\ c \in Copy
           /\ \A b \in BOOLEAN : /\ [c EXCEPT !.open = b] \in Copy
                                 /\ [c EXCEPT !.open = b].set = c.set
                                 /\ [c EXCEPT !.open = b].whole = c.whole
                                 /\ [c EXCEPT !.open = b].open = b
           /\ [c EXCEPT !.whole = TRUE] \in Copy
           /\ [c EXCEPT !.whole = TRUE].set = c.set
           /\ [c EXCEPT !.whole = TRUE].whole = TRUE
  BY DEF Slot, Copy

LEMMA CopiesFields ==
    ASSUME NEW c \in Copies
    PROVE  /\ c.live \in Slot /\ c.tmp \in Slot /\ c.pre \in Slot
           /\ \A l \in Slot : /\ [c EXCEPT !.live = l] \in Copies
                              /\ [c EXCEPT !.live = l].live = l
                              /\ [c EXCEPT !.live = l].tmp = c.tmp
                              /\ [c EXCEPT !.live = l].pre = c.pre
           /\ \A l \in Slot : /\ [c EXCEPT !.tmp = l] \in Copies
                              /\ [c EXCEPT !.tmp = l].live = c.live
                              /\ [c EXCEPT !.tmp = l].tmp = l
                              /\ [c EXCEPT !.tmp = l].pre = c.pre
           /\ \A l \in Slot : /\ [c EXCEPT !.pre = l] \in Copies
                              /\ [c EXCEPT !.pre = l].live = c.live
                              /\ [c EXCEPT !.pre = l].tmp = c.tmp
                              /\ [c EXCEPT !.pre = l].pre = l
  BY DEF Copies

LEMMA NoneInSlot == None \in Slot /\ \A c \in Copy : c # None /\ c \in Slot
  BY NoneAssumption DEF Slot

\* What a statement does to the three copies of a database.
LEMMA ExecutedCopies ==
    ASSUME NEW p, NEW c \in Copies, Allowed(p, c), p \in DOMAIN After, job.set \in DataSets,
           NEW e, e = Executed(p, c)
    PROVE  /\ e \in Copies
           /\ p \in {"heal", "park1", "disallow"}
                => /\ c.live # None /\ e.live # None
                   /\ e.live.set = c.live.set /\ e.live.whole = c.live.whole
                   /\ e.live.open = (p = "heal") /\ e.tmp = c.tmp /\ e.pre = c.pre
           /\ p \in {"forward", "renameIn"}
                => c.tmp # None /\ c.live = None /\ e.live = c.tmp /\ e.tmp = None /\ e.pre = c.pre
           /\ p = "renameOut"
                => c.live # None /\ c.pre = None /\ e.pre = c.live /\ e.live = None /\ e.tmp = c.tmp
           /\ p = "park2"
                => c.live # None /\ c.tmp = None /\ e.tmp = c.live /\ e.live = None /\ e.pre = c.pre
           /\ p = "reopen"
                => /\ c.pre # None /\ e.pre # None /\ e.pre.whole = c.pre.whole
                   /\ e.live = c.live /\ e.tmp = c.tmp
           /\ p = "putBack"
                => c.pre # None /\ c.live = None /\ e.live = c.pre /\ e.pre = None /\ e.tmp = c.tmp
           /\ p \in {"dropStale", "dropParked"} => e.tmp = None /\ e.live = c.live /\ e.pre = c.pre
           /\ p \in {"dropOld", "dropPre"} => e.pre = None /\ e.live = c.live /\ e.tmp = c.tmp
           /\ p = "create"
                => /\ e.tmp # None /\ e.tmp.set = job.set
                   /\ e.live = c.live /\ e.pre = c.pre
<1>1. CASE p \in {"heal", "park1", "disallow"}
  <2>1. PICK b \in BOOLEAN : b = (p = "heal") /\ e = [c EXCEPT !.live.open = b]
    BY <1>1 DEF Executed
  <2>2. e = [c EXCEPT !.live = [c.live EXCEPT !.open = b]]
    BY <2>1
  <2>3. c.live # None /\ c.live \in Slot
    BY <1>1, CopiesFields DEF Allowed
  <2>4. [c.live EXCEPT !.open = b] \in Slot /\ [c.live EXCEPT !.open = b] # None
    BY <2>3, CopyFields, NoneInSlot
  <2>5. e.live = [c.live EXCEPT !.open = b] /\ e.tmp = c.tmp /\ e.pre = c.pre /\ e \in Copies
    BY <2>2, <2>4, CopiesFields
  <2>6. e.live.set = c.live.set /\ e.live.whole = c.live.whole /\ e.live.open = b
    BY <2>3, <2>5, CopyFields
  <2>7. QED
    BY <1>1, <2>1, <2>3, <2>4, <2>5, <2>6
<1>2. CASE p \in {"forward", "renameIn"}
  <2>1. c.tmp # None /\ c.live = None /\ e = [c EXCEPT !.live = c.tmp, !.tmp = None]
    BY <1>2 DEF Allowed, Executed
  <2>2. e \in Copies /\ e.live = c.tmp /\ e.tmp = None /\ e.pre = c.pre
    BY <2>1, NoneInSlot DEF Copies
  <2>3. QED
    BY <1>2, <2>1, <2>2
<1>3. CASE p = "renameOut"
  <2>1. c.live # None /\ c.pre = None /\ e = [c EXCEPT !.pre = c.live, !.live = None]
    BY <1>3 DEF Allowed, Executed
  <2>2. e \in Copies /\ e.pre = c.live /\ e.live = None /\ e.tmp = c.tmp
    BY <2>1, NoneInSlot DEF Copies
  <2>3. QED
    BY <1>3, <2>1, <2>2
<1>4. CASE p = "park2"
  <2>1. c.live # None /\ c.tmp = None /\ e = [c EXCEPT !.tmp = c.live, !.live = None]
    BY <1>4 DEF Allowed, Executed
  <2>2. e \in Copies /\ e.tmp = c.live /\ e.live = None /\ e.pre = c.pre
    BY <2>1, NoneInSlot DEF Copies
  <2>3. QED
    BY <1>4, <2>1, <2>2
<1>5. CASE p = "reopen"
  <2>1. c.pre # None /\ c.pre \in Slot /\ e = [c EXCEPT !.pre = [c.pre EXCEPT !.open = TRUE]]
    BY <1>5, CopiesFields DEF Allowed, Executed
  <2>2. PICK l \in Slot : /\ l = [c.pre EXCEPT !.open = TRUE] /\ l # None
                          /\ l.whole = c.pre.whole
    BY <2>1, CopyFields, NoneInSlot
  <2>3. e = [c EXCEPT !.pre = l]
    BY <2>1, <2>2
  <2>4. e \in Copies /\ e.pre = l /\ e.live = c.live /\ e.tmp = c.tmp
    BY <2>3, CopiesFields
  <2>5. QED
    BY <1>5, <2>1, <2>2, <2>4
<1>6. CASE p = "putBack"
  <2>1. c.pre # None /\ c.live = None /\ e = [c EXCEPT !.live = c.pre, !.pre = None]
    BY <1>6 DEF Allowed, Executed
  <2>2. e \in Copies /\ e.live = c.pre /\ e.pre = None /\ e.tmp = c.tmp
    BY <2>1, NoneInSlot DEF Copies
  <2>3. QED
    BY <1>6, <2>1, <2>2
<1>7. CASE p \in {"dropStale", "dropParked"}
  <2>1. e = [c EXCEPT !.tmp = None]
    BY <1>7 DEF Executed
  <2>2. QED
    BY <1>7, <2>1, CopiesFields, NoneInSlot
<1>8. CASE p \in {"dropOld", "dropPre"}
  <2>1. e = [c EXCEPT !.pre = None]
    BY <1>8 DEF Executed
  <2>2. QED
    BY <1>8, <2>1, CopiesFields, NoneInSlot
<1>9. CASE p = "create"
  <2>1. PICK l : l = [set |-> job.set, whole |-> FALSE, open |-> TRUE, ready |-> FALSE]
    OBVIOUS
  <2>2. l \in Copy /\ l.set = job.set
    BY <2>1 DEF Copy
  <2>3. l # None /\ l \in Slot
    BY <2>2, NoneInSlot
  <2>4. e = [c EXCEPT !.tmp = l]
    BY <1>9, <2>1 DEF Executed
  <2>5. e \in Copies /\ e.tmp = l /\ e.live = c.live /\ e.pre = c.pre
    BY <2>3, <2>4, CopiesFields
  <2>6. QED
    BY <1>9, <2>2, <2>3, <2>5
<1>10. QED
  <2>1. p \in {"heal", "dropStale", "forward", "dropOld", "park1", "park2", "reopen", "putBack",
              "dropParked", "create", "disallow", "renameOut", "renameIn", "dropPre"}
    BY DEF After
  <2>2. QED
    BY <1>1, <1>2, <1>3, <1>4, <1>5, <1>6, <1>7, <1>8, <1>9, <2>1

\* What a step asks of the copies of its database.
Suits(p, c) ==
    /\ p \in {"heal", "dropOld", "dropStale", "cleared", "create", "note", "reload",
              "mark", "disallow", "renameOut", "dropPre"} => c.live # None
    /\ p \in {"forward", "judge", "park1", "park2", "renameIn", "verify"} => c.pre # None
    /\ p \in {"note", "reload", "mark", "disallow", "renameOut", "renameIn"}
           => c.tmp # None /\ c.tmp.set = job.set
    /\ p \in {"mark", "disallow", "renameOut", "renameIn"} => c.tmp.whole
    /\ p \in {"verify", "dropPre"} => c.live # None /\ c.live.set = job.set
    /\ p = "dropPre" => Verifies(c.live)
    /\ p = "swapped" => Verifies(c.live) /\ c.pre = None /\ c.live.set = job.set

LEMMA HereSuits ==
    ASSUME RestoreInv
    PROVE  /\ Suits(job.pc, Here) /\ Sound(Here)
           /\ job.db \in Databases /\ Here \in Copies /\ catalog \in [Databases -> Copies]
           /\ job.set \in DataSets /\ job \in Processes
<1>1. job.db \in Databases /\ job.set \in DataSets /\ job \in Processes
      /\ catalog \in [Databases -> Copies]
  BY DEF RestoreInv, TypeOK, Processes
<1>2. Here \in Copies /\ Sound(Here)
  BY <1>1 DEF Here, RestoreInv, ControlInv, CatalogInv
<1>3. Suits(job.pc, Here)
  BY DEF RestoreInv, ControlInv, CatalogInv, ReplacedInv, Suits, Settled, Here
<1>4. QED
  BY <1>1, <1>2, <1>3

\* A statement, executed or not, leaves the copies complete and as the next
\* one asks for them.
LEMMA StatementSuits ==
    ASSUME RestoreInv, NEW e, job.pc \in DOMAIN After,
           \/ Allowed(job.pc, Here) /\ e = Executed(job.pc, Here)
           \/ job.pc \notin Required /\ e = Here
    PROVE  e \in Copies /\ Sound(e) /\ Suits(After[job.pc], e)
<1>1. Suits(job.pc, Here) /\ Sound(Here) /\ Here \in Copies /\ job.set \in DataSets
  BY HereSuits
<1>2. <<job.pc, After[job.pc]>> \in Follows
  BY AfterIsFollows
<1>3. CASE Allowed(job.pc, Here) /\ e = Executed(job.pc, Here)
  <2>1. PICK c, p, q : c = Here /\ p = job.pc /\ q = After[job.pc]
    OBVIOUS
  <2>2. /\ e \in Copies
        /\ p \in {"heal", "park1", "disallow"}
             => /\ c.live # None /\ e.live # None
                /\ e.live.set = c.live.set /\ e.live.whole = c.live.whole
                /\ e.live.open = (p = "heal") /\ e.tmp = c.tmp /\ e.pre = c.pre
        /\ p \in {"forward", "renameIn"}
             => c.tmp # None /\ c.live = None /\ e.live = c.tmp /\ e.tmp = None /\ e.pre = c.pre
        /\ p = "renameOut"
             => c.live # None /\ c.pre = None /\ e.pre = c.live /\ e.live = None /\ e.tmp = c.tmp
        /\ p = "park2"
             => c.live # None /\ c.tmp = None /\ e.tmp = c.live /\ e.live = None /\ e.pre = c.pre
        /\ p = "reopen"
             => /\ c.pre # None /\ e.pre # None /\ e.pre.whole = c.pre.whole
                /\ e.live = c.live /\ e.tmp = c.tmp
        /\ p = "putBack"
             => c.pre # None /\ c.live = None /\ e.live = c.pre /\ e.pre = None /\ e.tmp = c.tmp
        /\ p \in {"dropStale", "dropParked"} => e.tmp = None /\ e.live = c.live /\ e.pre = c.pre
        /\ p \in {"dropOld", "dropPre"} => e.pre = None /\ e.live = c.live /\ e.tmp = c.tmp
        /\ p = "create"
             => e.tmp # None /\ e.tmp.set = job.set /\ e.live = c.live /\ e.pre = c.pre
    BY <1>1, <1>3, <2>1, ExecutedCopies
  <2>3. Suits(p, c) /\ Sound(c) /\ <<p, q>> \in Follows
    BY <1>1, <1>2, <2>1
  <2>4. SUFFICES e \in Copies /\ Sound(e) /\ Suits(q, e)
    BY <2>1
  <2>5. CASE p \in {"heal", "park1", "disallow"}
    BY <2>2, <2>3, <2>5 DEF Suits, Sound, Follows
  <2>6. CASE p \in {"forward", "renameIn"}
    BY <2>2, <2>3, <2>6 DEF Suits, Sound, Follows
  <2>7. CASE p \in {"renameOut", "park2", "reopen", "putBack"}
    BY <2>2, <2>3, <2>7 DEF Suits, Sound, Follows
  <2>8. CASE p \in {"dropStale", "dropParked", "dropOld"}
    BY <2>2, <2>3, <2>8 DEF Suits, Sound, Follows
  <2>9. CASE p = "dropPre"
    BY <2>2, <2>3, <2>9 DEF Suits, Sound, Follows
  <2>10. CASE p = "create"
    BY <2>2, <2>3, <2>10 DEF Suits, Sound, Follows
  <2>11. QED
    BY <2>3, <2>5, <2>6, <2>7, <2>8, <2>9, <2>10 DEF Follows
<1>4. CASE job.pc \notin Required /\ e = Here
  <2>1. /\ Suits(After[job.pc], e)
    BY <1>1, <1>2, <1>4 DEF Suits, Follows, Required
  <2>2. QED
    BY <1>1, <1>4, <2>1
<1>5. QED
  BY <1>3, <1>4

\* Before the sentinel is written a step leaves alone what the data consist of.
LEMMA StatementHarmless ==
    ASSUME RestoreInv, NEW e, job.pc \in DOMAIN After, job.pc \in SafeSteps,
           e = Here \/ (Allowed(job.pc, Here) /\ e = Executed(job.pc, Here))
    PROVE  /\ e.pre = Here.pre
           /\ Verifies(Here.live) => Verifies(e.live)
           /\ Here.live # None => e.live # None /\ e.live.set = Here.live.set
<1>1. Here \in Copies /\ job.set \in DataSets
  BY HereSuits
<1>2. CASE e = Here
  BY <1>2
<1>3. CASE Allowed(job.pc, Here) /\ e = Executed(job.pc, Here)
  <2>1. job.pc \in {"heal", "dropStale", "create"}
    BY DEF After
  <2>2. /\ job.pc = "heal"
             => /\ Here.live # None /\ e.live # None
                /\ e.live.set = Here.live.set /\ e.live.whole = Here.live.whole
                /\ e.live.open = (job.pc = "heal") /\ e.pre = Here.pre
        /\ job.pc = "dropStale" => e.live = Here.live /\ e.pre = Here.pre
        /\ job.pc = "create" => e.live = Here.live /\ e.pre = Here.pre
    BY <1>1, <1>3, ExecutedCopies
  <2>3. QED
    BY <2>1, <2>2 DEF Verifies
<1>4. QED
  BY <1>2, <1>3

\* One database changes.
LEMMA CatalogKeeps ==
    ASSUME RestoreInv, KeepsJob, job.pc \in DbSteps,
           <<job.pc, job'.pc>> \in Follows \cup {<<"reload", "mark">>},
           UNCHANGED <<keys, txn, main, old, committed, destructive, journal, status, request>>,
           NEW e \in Copies, catalog' = [catalog EXCEPT ![job.db] = e],
           Sound(e), Suits(job'.pc, e),
           job.pc \in SafeSteps
             => /\ e.pre = Here.pre
                /\ Verifies(Here.live) => Verifies(e.live)
                /\ Here.live # None => e.live # None /\ e.live.set = Here.live.set
    PROVE  ControlInv'
<1> USE DEF KeepsJob
<1>1. /\ Suits(job.pc, Here) /\ job.db \in Databases /\ job.set \in DataSets
      /\ catalog \in [Databases -> Copies]
  BY HereSuits
<1>2. Here' = e /\ \A d \in Databases : d # job.db => catalog'[d] = catalog[d]
  BY <1>1 DEF Here
<1>3. ~job.clean /\ ~status.authority /\ (job.pc \notin SafeSteps => destructive)
  BY DEF RestoreInv, ControlInv, HoldInv, AuthorityInv
<1>4. job.pc \in SafeSteps \/ journal.of # "pdfs"
  BY DEF RestoreInv, ControlInv, JournalInv
<1>5. job.pc \in SafeSteps =>
          \A d \in Databases, s \in DataSets : Settled(d, s) => Settled(d, s)'
  <2>1. SUFFICES ASSUME job.pc \in SafeSteps, NEW d \in Databases, NEW s \in DataSets, Settled(d, s)
                 PROVE  Settled(d, s)'
    OBVIOUS
  <2>2. CASE d = job.db
    <3>1. Verifies(e.live) /\ e.pre = None /\ e.live.set = s
      BY <2>1, <2>2 DEF Settled, Here, Verifies
    <3>2. catalog'[d] = e
      BY <1>1, <2>2
    <3>3. QED
      BY <3>1, <3>2 DEF Settled, Verifies
  <2>3. CASE d # job.db
    BY <1>2, <2>1, <2>3 DEF Settled, Verifies
  <2>4. QED
    BY <2>2, <2>3
<1>6. job.pc \in SafeSteps => /\ \A s \in DataSets : Together(s) => Together(s)'
                              /\ Steady => Steady'
  BY <1>5 DEF Together, Consistent, AllConsistent, Keyless, Steady, Content
<1>7. ModesInv'
  BY <1>1 DEF Follows, RestoreInv, ControlInv, ModesInv
<1>8. CatalogInv'
  <2>1. \A d \in Databases : Sound(catalog[d])'
    BY <1>1, <1>2 DEF RestoreInv, ControlInv, CatalogInv, Sound, Here
  <2>2. QED
    BY <1>2, <2>1 DEF CatalogInv, Suits
<1>9. ReplacedInv'
  <2>1. job'.pc \in DbSteps
    BY DEF Follows
  <2>2. job'.pc = "swapped" => Settled(job.db, job.set)'
    BY <1>2 DEF Suits, Settled, Here, Verifies
  <2>3. (job.mode = "request" /\ job.db = "litellm") => Settled("jarvis", job.set)'
    <3>1. (job.mode = "request" /\ job.db = "litellm") => Settled("jarvis", job.set)
      BY DEF RestoreInv, ControlInv, ReplacedInv
    <3>2. job.db = "litellm" => catalog'["jarvis"] = catalog["jarvis"]
      BY <1>2 DEF Databases
    <3>3. QED
      BY <3>1, <3>2 DEF Settled, Verifies
  <2>4. QED
    BY <1>2, <2>1, <2>2, <2>3 DEF ReplacedInv, Suits, Verifies
<1>10. TxnInv'
  BY DEF Follows, RestoreInv, ControlInv, TxnInv
<1>11. JournalInv'
  <2>1. journal.set \in DataSets
    BY JournalType DEF RestoreInv
  <2>2. journal.of = "pdfs" => Together(journal.set)'
    BY <1>4, <1>6, <2>1 DEF RestoreInv, ControlInv, JournalInv
  <2>3. QED
    BY <2>2 DEF Follows, RestoreInv, ControlInv, JournalInv
<1>12. HoldInv' /\ AuthorityInv'
  BY <1>3, <1>6 DEF Follows, RestoreInv, ControlInv, HoldInv, AuthorityInv
<1>13. FreshInv' /\ StagedInv' /\ CommittedPdfsKept'
  BY DEF Follows, RestoreInv, ControlInv, FreshInv, StagedInv, CommittedPdfsKept, Content
<1>14. QED
  BY <1>7, <1>8, <1>9, <1>10, <1>11, <1>12, <1>13 DEF ControlInv

LEMMA StatementKeeps ==
    ASSUME RestoreInv, Statement
    PROVE  RestoreInv'
<1>1. /\ TypeOK /\ job.pc \in DOMAIN After
      /\ UNCHANGED <<keyVars, pdfVars, holdVars, fileVars, journal>>
  BY DEF RestoreInv, Statement
<1>2. /\ Here \in Copies /\ job.db \in Databases /\ catalog \in [Databases -> Copies]
  BY HereSuits
<1>3. <<job.pc, After[job.pc]>> \in Follows /\ After[job.pc] \in Steps /\ job.pc \in DbSteps
  BY <1>1, AfterIsFollows DEF Follows, Steps
<1>4. faults' \in 0..MaxFaults
  BY <1>1, FaultType DEF Statement, FaultUnless
<1>5. CASE Fail /\ UNCHANGED catalog
  <2>1. job' \in Processes /\ KeepsJob /\ QuietMove
    BY <1>1, <1>3, <1>5, JobFields DEF QuietMove
  <2>2. UNCHANGED data
    BY <1>1, <1>5 DEF data
  <2>3. QED
    BY <1>1, <1>4, <1>5, <2>1, <2>2, QuietKeeps, QuietType DEF RestoreInv, TypeOK
<1>6. CASE /\ Go(After[job.pc])
           /\ \/ /\ Allowed(job.pc, Here)
                 /\ catalog' = [catalog EXCEPT ![job.db] = Executed(job.pc, Here)]
              \/ job.pc \notin Required /\ UNCHANGED catalog
  <2>1. job' \in Processes /\ job'.pc = After[job.pc] /\ KeepsJob
    BY <1>1, <1>3, <1>6, JobFields
  <2>2. PICK e : /\ \/ Allowed(job.pc, Here) /\ e = Executed(job.pc, Here)
                    \/ job.pc \notin Required /\ e = Here
                 /\ catalog' = [catalog EXCEPT ![job.db] = e]
    <3>1. catalog = [catalog EXCEPT ![job.db] = Here]
      BY <1>2 DEF Here
    <3>2. QED
      BY <1>6, <3>1
  <2>3. e \in Copies /\ Sound(e) /\ Suits(job'.pc, e)
    BY <1>1, <2>1, <2>2, StatementSuits
  <2>4. job.pc \in SafeSteps
          => /\ e.pre = Here.pre
             /\ Verifies(Here.live) => Verifies(e.live)
             /\ Here.live # None => e.live # None /\ e.live.set = Here.live.set
    BY <1>1, <2>2, StatementHarmless
  <2>5. ControlInv'
    BY <1>1, <1>3, <2>1, <2>2, <2>3, <2>4, CatalogKeeps
  <2>6. catalog' \in [Databases -> Copies]
    BY <1>2, <2>2, <2>3
  <2>7. TypeOK'
    BY <1>1, <1>4, <2>1, <2>6 DEF TypeOK
  <2>8. QED
    BY <2>5, <2>7 DEF RestoreInv
<1>7. QED
  BY <1>5, <1>6 DEF Statement

LEMMA ReloadKeeps ==
    ASSUME RestoreInv, Reload
    PROVE  RestoreInv'
<1>1. /\ TypeOK /\ job.pc = "reload"
      /\ UNCHANGED <<keyVars, pdfVars, holdVars, fileVars, journal>>
  BY DEF RestoreInv, Reload
<1>2. /\ Here \in Copies /\ job.db \in Databases /\ catalog \in [Databases -> Copies]
      /\ Suits("reload", Here) /\ Sound(Here)
  BY <1>1, HereSuits
<1>3. faults' \in 0..MaxFaults
  BY <1>1, FaultType DEF Reload, Fault, FaultUnless
<1>4. CASE Fail /\ UNCHANGED catalog
  <2>1. job' \in Processes /\ KeepsJob /\ QuietMove
    BY <1>1, <1>4, JobFields DEF QuietMove
  <2>2. UNCHANGED data
    BY <1>1, <1>4 DEF data
  <2>3. QED
    BY <1>1, <1>3, <1>4, <2>1, <2>2, QuietKeeps, QuietType DEF RestoreInv, TypeOK
<1>5. CASE catalog' = [catalog EXCEPT ![job.db].tmp.whole = TRUE] /\ Go("mark")
  <2>1. job' \in Processes /\ job'.pc = "mark" /\ KeepsJob
    BY <1>1, <1>5, JobFields DEF Steps
  <2>2. Here.tmp # None /\ Here.tmp \in Slot
    BY <1>2, CopiesFields DEF Suits
  <2>3. PICK l \in Slot : /\ l = [Here.tmp EXCEPT !.whole = TRUE] /\ l # None
                          /\ l.set = Here.tmp.set /\ l.whole
    BY <2>2, CopyFields, NoneInSlot
  <2>4. PICK e : e = [Here EXCEPT !.tmp = l]
    OBVIOUS
  <2>5. e \in Copies /\ e.live = Here.live /\ e.pre = Here.pre /\ e.tmp = l
    BY <1>2, <2>4, CopiesFields
  <2>6. catalog' = [catalog EXCEPT ![job.db] = e]
    BY <1>2, <1>5, <2>3, <2>4 DEF Here
  <2>7. Sound(e) /\ Suits("mark", e)
    BY <1>2, <2>3, <2>5 DEF Sound, Suits
  <2>8. Verifies(Here.live) => Verifies(e.live)
    BY <2>5
  <2>9. ControlInv'
    BY <1>1, <2>1, <2>5, <2>6, <2>7, <2>8, CatalogKeeps
  <2>10. catalog' \in [Databases -> Copies]
    BY <1>2, <2>5, <2>6
  <2>11. TypeOK'
    BY <1>1, <1>3, <2>1, <2>10 DEF TypeOK
  <2>12. QED
    BY <2>9, <2>11 DEF RestoreInv
<1>6. QED
  BY <1>4, <1>5 DEF Reload

LEMMA JournalTypes ==
    /\ NoJournal \in Journals /\ NoJournal.of = "none" /\ NoJournal.run = 0
    /\ \A d \in Databases : /\ DbJournal(d) \in Journals /\ DbJournal(d).of = d
                            /\ DbJournal(d).run = 0
  BY DEF NoJournal, DbJournal, Journals, JournalOf, PdfPhases, DataSets, Databases

\* The steps of a swap that are not statements.
LEMMA SwapSteps ==
    ASSUME RestoreInv, NoteReload \/ MarkDestructive \/ Swapped \/ Reconciled \/ Reverted
    PROVE  RestoreInv'
<1>1. /\ TypeOK /\ job \in Processes /\ job.db \in Databases /\ job.set \in DataSets
      /\ journal.set \in DataSets /\ journal \in Journals
      /\ (request # None => request.id # 0)
  BY RunsAssumption DEF RestoreInv, TypeOK, Processes, Journals, Request
<1>2. UNCHANGED <<dbVars, keyVars, pdfVars, fileVars>>
  BY DEF NoteReload, MarkDestructive, Swapped, Reconciled, Reverted
<1>3. job.pc \in DbSteps /\ job.mode \in {"request", "recover"} /\ ~job.clean /\ ~status.authority
  BY DEF NoteReload, MarkDestructive, Swapped, Reconciled, Reverted, RestoreInv, ControlInv,
         ModesInv, HoldInv, AuthorityInv
<1>4. CASE NoteReload
  <2>1. job.pc = "note" /\ job' \in Processes /\ job'.pc = "reload" /\ KeepsJob
    BY <1>1, <1>4, JobFields DEF NoteReload, Steps
  <2>2. journal' \in Journals /\ journal'.of \in Databases /\ journal'.run = 0
        /\ UNCHANGED <<holdVars, faults>>
    BY <1>1, <1>4, JournalTypes DEF NoteReload
  <2>3. TypeOK'
    BY <1>1, <1>2, <2>1, <2>2 DEF TypeOK
  <2>4. ModesInv' /\ CatalogInv'
    BY <1>2, <2>1 DEF KeepsJob, RestoreInv, ControlInv, ModesInv, CatalogInv, Here, Sound
  <2>5. ReplacedInv' /\ TxnInv' /\ JournalInv'
    BY <1>1, <1>2, <2>1, <2>2, DataUnchanged
       DEF KeepsJob, RestoreInv, ControlInv, ReplacedInv, TxnInv, JournalInv, Databases
  <2>6. HoldInv' /\ AuthorityInv'
    BY <1>2, <1>3, <2>1, <2>2, DataUnchanged
       DEF KeepsJob, RestoreInv, ControlInv, HoldInv, AuthorityInv
  <2>7. FreshInv' /\ StagedInv' /\ CommittedPdfsKept'
    BY <1>1, <1>2, <2>1, <2>2
       DEF KeepsJob, RestoreInv, ControlInv, FreshInv, StagedInv, CommittedPdfsKept, Content
  <2>8. QED
    BY <2>3, <2>4, <2>5, <2>6, <2>7 DEF RestoreInv, ControlInv
<1>5. CASE MarkDestructive
  <2>1. job' = [job EXCEPT !.dropped = TRUE, !.pc = "disallow"]
    BY <1>5 DEF MarkDestructive
  <2>2. /\ job.pc = "mark" /\ job' \in Processes /\ job'.pc = "disallow" /\ job'.mode = job.mode
        /\ job'.id = job.id /\ job'.set = job.set /\ job'.db = job.db /\ job'.dropped
        /\ job'.clean = job.clean /\ job'.staged = job.staged
    BY <1>1, <1>5, <2>1 DEF MarkDestructive, Processes, Steps
  <2>3. destructive' = TRUE /\ UNCHANGED <<maintenance, lifecycle, journal, faults>>
    BY <1>5 DEF MarkDestructive
  <2>4. TypeOK'
    BY <1>1, <1>2, <2>2, <2>3 DEF TypeOK
  <2>5. ModesInv' /\ CatalogInv'
    BY <1>2, <2>2 DEF RestoreInv, ControlInv, ModesInv, CatalogInv, Here, Sound
  <2>6. ReplacedInv' /\ TxnInv' /\ JournalInv'
    BY <1>1, <1>2, <2>2, <2>3, DataUnchanged
       DEF RestoreInv, ControlInv, ReplacedInv, TxnInv, JournalInv, Databases
  <2>7. HoldInv' /\ AuthorityInv'
    BY <1>2, <1>3, <2>2, <2>3 DEF RestoreInv, ControlInv, HoldInv, AuthorityInv
  <2>8. FreshInv' /\ StagedInv' /\ CommittedPdfsKept'
    BY <1>1, <1>2, <2>2, <2>3
       DEF RestoreInv, ControlInv, FreshInv, StagedInv, CommittedPdfsKept, Content
  <2>9. QED
    BY <2>4, <2>5, <2>6, <2>7, <2>8 DEF RestoreInv, ControlInv
<1>6. CASE Swapped
  <2>1. job.pc = "swapped" /\ UNCHANGED <<holdVars, faults>> /\ journal' = NoJournal
    BY <1>6 DEF Swapped
  <2>2. /\ destructive /\ job.mode = "request" /\ Settled(job.db, job.set)
        /\ job.db = "litellm" => Settled("jarvis", job.set)
    BY <2>1 DEF RestoreInv, ControlInv, HoldInv, ModesInv, ReplacedInv
  <2>3. /\ job' \in Processes /\ job'.mode = job.mode /\ job'.id = job.id
        /\ job'.set = job.set /\ job'.clean = job.clean
        /\ job'.dropped = job.dropped /\ job'.staged = job.staged
        /\ \/ job.db = "jarvis" /\ job'.db = "litellm" /\ job'.pc = "reconcile"
           \/ job.db = "litellm" /\ job'.pc = "rotate"
    <3>1. CASE job.db = "jarvis"
      <4>1. job' = [job EXCEPT !.db = "litellm", !.swapping = FALSE, !.pc = "reconcile"]
        BY <1>6, <3>1 DEF Swapped
      <4>2. QED
        BY <1>1, <3>1, <4>1 DEF Processes, Steps, Databases
    <3>2. CASE job.db = "litellm"
      <4>1. job' = [job EXCEPT !.swapping = FALSE, !.pc = "rotate"]
        BY <1>6, <3>2 DEF Swapped
      <4>2. QED
        BY <1>1, <3>2, <4>1 DEF Processes, Steps
    <3>3. QED
      BY <1>1, <3>1, <3>2 DEF Databases
  <2>4. journal' \in Journals /\ journal'.of = "none" /\ journal'.run = 0
    BY <2>1, JournalTypes
  <2>5. TypeOK'
    BY <1>1, <1>2, <2>1, <2>3, <2>4 DEF TypeOK
  <2>6. ModesInv' /\ CatalogInv'
    BY <1>2, <2>1, <2>2, <2>3 DEF RestoreInv, ControlInv, ModesInv, CatalogInv, Sound
  <2>7. ReplacedInv'
    BY <1>1, <1>2, <2>2, <2>3, DataUnchanged DEF ReplacedInv, Databases
  <2>8. TxnInv' /\ JournalInv'
    BY <1>2, <2>1, <2>2, <2>3, <2>4 DEF RestoreInv, ControlInv, TxnInv, JournalInv
  <2>9. HoldInv' /\ AuthorityInv'
    BY <1>2, <1>3, <2>1, <2>2, <2>3 DEF RestoreInv, ControlInv, HoldInv, AuthorityInv
  <2>10. FreshInv' /\ StagedInv' /\ CommittedPdfsKept'
    BY <1>1, <1>2, <2>1, <2>3, <2>4
       DEF RestoreInv, ControlInv, FreshInv, StagedInv, CommittedPdfsKept, Content
  <2>11. QED
    BY <2>5, <2>6, <2>7, <2>8, <2>9, <2>10 DEF RestoreInv, ControlInv
<1>7. CASE Reconciled
  <2>1. job.pc = "cleared" /\ UNCHANGED <<holdVars, faults>> /\ journal' = NoJournal
    BY <1>7 DEF Reconciled
  <2>2. /\ job' \in Processes /\ KeepsJob
        /\ \/ job'.pc = "tidy"
           \/ job.mode = "request" /\ job'.pc = "create"
    <3>1. CASE job.mode = "recover"
      <4>1. job' = [job EXCEPT !.state = "done", !.pc = "tidy"]
        BY <1>7, <3>1 DEF Reconciled
      <4>2. QED
        BY <1>1, <4>1 DEF Processes, Steps, ExitSteps, KeepsJob
    <3>2. CASE job.mode = "request"
      <4>1. job' = [job EXCEPT !.swapping = TRUE, !.pc = "create"]
        BY <1>7, <3>2 DEF Reconciled
      <4>2. QED
        BY <1>1, <3>2, <4>1 DEF Processes, Steps, KeepsJob
    <3>3. QED
      BY <1>3, <3>1, <3>2
  <2>3. journal' \in Journals /\ journal'.of = "none" /\ journal'.run = 0
    BY <2>1, JournalTypes
  <2>4. TypeOK'
    BY <1>1, <1>2, <2>1, <2>2, <2>3 DEF TypeOK
  <2>5. ModesInv' /\ CatalogInv'
    BY <1>2, <2>1, <2>2 DEF KeepsJob, RestoreInv, ControlInv, ModesInv, CatalogInv, Here, Sound
  <2>6. ReplacedInv' /\ TxnInv' /\ JournalInv'
    BY <1>1, <1>2, <2>1, <2>2, <2>3, DataUnchanged
       DEF KeepsJob, RestoreInv, ControlInv, ReplacedInv, TxnInv, JournalInv, Databases
  <2>7. HoldInv' /\ AuthorityInv'
    BY <1>2, <1>3, <2>1, <2>2, DataUnchanged
       DEF KeepsJob, RestoreInv, ControlInv, HoldInv, AuthorityInv
  <2>8. FreshInv' /\ StagedInv' /\ CommittedPdfsKept'
    BY <1>1, <1>2, <2>1, <2>2, <2>3
       DEF KeepsJob, RestoreInv, ControlInv, FreshInv, StagedInv, CommittedPdfsKept, Content
  <2>9. QED
    BY <2>4, <2>5, <2>6, <2>7, <2>8 DEF RestoreInv, ControlInv
<1>8. CASE Reverted
  <2>1. /\ job.pc = "reverted" /\ UNCHANGED <<holdVars, faults>>
        /\ job' \in Processes /\ job'.pc = "tidy" /\ KeepsJob
    BY <1>1, <1>8, JobFields DEF Reverted
  <2>2. /\ journal' \in Journals /\ journal'.of # "pdfs"
        /\ journal' = journal \/ (journal'.of = "none" /\ journal'.run = 0)
    <3>1. journal.of # "pdfs"
      BY <2>1 DEF RestoreInv, ControlInv, JournalInv
    <3>2. journal' = journal \/ journal' = NoJournal
      BY <1>8 DEF Reverted
    <3>3. QED
      BY <1>1, <3>1, <3>2, JournalTypes
  <2>3. TypeOK'
    BY <1>1, <1>2, <2>1, <2>2 DEF TypeOK
  <2>4. ModesInv' /\ CatalogInv'
    BY <1>2, <2>1 DEF KeepsJob, RestoreInv, ControlInv, ModesInv, CatalogInv, Sound
  <2>5. ReplacedInv' /\ TxnInv' /\ JournalInv'
    BY <1>1, <1>2, <2>1, <2>2, DataUnchanged
       DEF KeepsJob, RestoreInv, ControlInv, ReplacedInv, TxnInv, JournalInv
  <2>6. HoldInv' /\ AuthorityInv'
    BY <1>2, <1>3, <2>1, DataUnchanged
       DEF KeepsJob, RestoreInv, ControlInv, HoldInv, AuthorityInv
  <2>7. FreshInv' /\ StagedInv' /\ CommittedPdfsKept'
    BY <1>1, <1>2, <2>1, <2>2
       DEF KeepsJob, RestoreInv, ControlInv, FreshInv, StagedInv, CommittedPdfsKept, Content
  <2>8. QED
    BY <2>3, <2>4, <2>5, <2>6, <2>7 DEF RestoreInv, ControlInv
<1>9. QED
  BY <1>4, <1>5, <1>6, <1>7, <1>8

-----------------------------------------------------------------------------
(* The theorems.                                                           *)

LEMMA InitInv == Init => RestoreInv
<1> SUFFICES ASSUME Init PROVE RestoreInv
  OBVIOUS
<1>1. /\ catalog = [d \in Databases |-> [live |-> Original, tmp |-> None, pre |-> None]]
      /\ journal = NoJournal /\ keys = 0 /\ txn = None /\ main = Content(0)
      /\ stage = [r \in Runs |-> {}] /\ old = [r \in Runs |-> {}]
      /\ maintenance = "off" /\ destructive = FALSE /\ lifecycle = FALSE
      /\ status = [state |-> "none", authority |-> FALSE, id |-> 0]
      /\ authority = 0 /\ quarantine = FALSE /\ request = None
      /\ job = NoJob /\ faults = 0 /\ committed = 0
  BY DEF Init
<1>2. /\ job.pc = "idle" /\ job.mode = "none" /\ ~job.clean /\ ~job.staged /\ job \in Processes
      /\ journal.of = "none" /\ journal.run = 0 /\ journal \in Journals
      /\ ~status.authority /\ status \in Statuses /\ 0 \in DataSets
  BY <1>1, NoJobType, JournalTypes DEF NoJob, Statuses, DataSets
<1>3. Original \in Copy /\ Original \in Slot /\ None \in Slot /\ Original # None
      /\ Original.whole /\ Original.open /\ Original.set = 0
  <2>1. Original \in Copy /\ Original.whole /\ Original.open /\ Original.set = 0
    BY <1>2 DEF Original, Copy
  <2>2. QED
    BY <2>1, NoneInSlot
<1>4. \A d \in Databases : catalog[d].live = Original /\ catalog[d].tmp = None
                           /\ catalog[d].pre = None
  BY <1>1
<1>5. TypeOK
  <2>1. catalog \in [Databases -> Copies]
    BY <1>1, <1>3 DEF Copies
  <2>2. main \subseteq Pdf
    BY <1>1, <1>2, InventoryAssumption DEF Content, Pdf
  <2>3. stage \in [Runs -> SUBSET Pdf] /\ old \in [Runs -> SUBSET Pdf]
    BY <1>1
  <2>4. faults \in 0..MaxFaults
    BY <1>1, MaxFaultsAssumption
  <2>5. QED
    BY <1>1, <1>2, <2>1, <2>2, <2>3, <2>4 DEF TypeOK
<1>6. Steady /\ keys # Mixed
  BY <1>1, <1>2, <1>3, <1>4, MixedAssumption
     DEF Steady, AllConsistent, Consistent, Together, Settled, Verifies
<1>7. ModesInv /\ ReplacedInv /\ TxnInv /\ JournalInv /\ HoldInv /\ AuthorityInv
  BY <1>1, <1>2, <1>6 DEF ModesInv, ReplacedInv, TxnInv, JournalInv, HoldInv, AuthorityInv
<1>8. CatalogInv
  BY <1>2, <1>3, <1>4 DEF CatalogInv, Sound
<1>9. FreshInv /\ StagedInv /\ CommittedPdfsKept
  BY <1>1, <1>2 DEF FreshInv, StagedInv, CommittedPdfsKept, Content
<1>10. QED
  BY <1>5, <1>7, <1>8, <1>9 DEF RestoreInv, ControlInv

LEMMA StepInv == RestoreInv /\ [Next]_vars => RestoreInv'
<1> SUFFICES ASSUME RestoreInv, [Next]_vars PROVE RestoreInv'
  OBVIOUS
<1>1. CASE DatabaseStep
  BY <1>1, StatementKeeps, ReloadKeeps, SwapSteps, QuietSteps DEF DatabaseStep
<1>2. CASE KeyStep
  BY <1>2, KeyStepKeeps
<1>3. CASE PdfStep
  BY <1>3, BeginKeeps, MoveKeeps, VerifyKeeps, RemoveKeeps, QuietSteps DEF PdfStep
<1>4. CASE RequestStep
  BY <1>4, FileSteps, HoldSteps, QuietSteps DEF RequestStep
<1>5. CASE ExitStep
  BY <1>5, FileSteps, HoldSteps, OperatorSteps DEF ExitStep
<1>6. CASE HostStep
  BY <1>6, FileSteps, OperatorSteps, RecoverStep, RebuildStep DEF HostStep
<1>7. CASE Operator \/ Environment
  BY <1>7, OperatorSteps, QuietSteps DEF Operator, Environment
<1>8. CASE UNCHANGED vars
  <2>1. UNCHANGED <<data, job>>
    BY <1>8 DEF data
  <2>2. ControlInv'
    BY <2>1, StutterKeeps
  <2>3. TypeOK'
    BY <1>8 DEF RestoreInv, TypeOK
  <2>4. QED
    BY <2>2, <2>3 DEF RestoreInv
<1>9. QED
  BY <1>1, <1>2, <1>3, <1>4, <1>5, <1>6, <1>7, <1>8 DEF Next, Progress

LEMMA InvHolds == Spec => []RestoreInv
  BY InitInv, StepInv, PTL DEF Spec

\* The program never leaves its states: every variable keeps its type, whatever
\* is killed and whatever is restored.
THEOREM TypeCorrect == Spec => []TypeOK
<1>1. RestoreInv => TypeOK
  BY DEF RestoreInv
<1>2. QED
  BY <1>1, InvHolds, PTL

\* restore_one_db_swap, revert_swap and reconcile_leftover keep a complete copy
\* of each database at every moment, for any number of kills and failures.
THEOREM CompleteCopies == Spec => []CompleteCopyKept
<1>1. RestoreInv => CompleteCopyKept
  <2>1. SUFFICES ASSUME RestoreInv, NEW d \in Databases
                 PROVE  \E c \in {catalog[d].live, catalog[d].tmp, catalog[d].pre} :
                            c # None /\ c.whole
    BY DEF CompleteCopyKept
  <2>2. Sound(catalog[d])
    BY <2>1 DEF RestoreInv, ControlInv, CatalogInv
  <2>3. QED
    BY <2>2 DEF Sound
<1>2. QED
  BY <1>1, InvHolds, PTL

\* Whenever the application serves, no sentinel is on disk, so that everything
\* is of one data set: what was replaced was replaced completely.
LEMMA ServedIsConsistent ==
    ASSUME RestoreInv, Serving
    PROVE  Steady /\ AllConsistent
  BY DEF RestoreInv, ControlInv, HoldInv, Serving, Held, Steady

\* .destructive is written before the first ALTER DATABASE and lifted only over
\* complete data: what is served is complete and accepts connections.
THEOREM CompleteDatabasesServed == Spec => []ServesCompleteDatabases
<1>1. RestoreInv => ServesCompleteDatabases
  BY ServedIsConsistent, ConsistentIsSettled DEF ServesCompleteDatabases
<1>2. QED
  BY <1>1, InvHolds, PTL

\* Both databases and the PDF files that are served are of one data set, and so are
\* the keys if it has any, also after a recovery that replaced the PDFs alone or
\* that replays a key transaction beside a set without keys.
THEOREM OneDataSetServed == Spec => []ServesOneDataSet
<1>1. RestoreInv => ServesOneDataSet
  <2>1. SUFFICES ASSUME RestoreInv, Serving
                 PROVE  \E s \in DataSets :
                            /\ \A d \in Databases : /\ catalog[d].live # None
                                                   /\ catalog[d].live.set = s
                            /\ s \in WithKeys => keys = s
                            /\ keys = Mixed => s \notin WithKeys /\ txn # None
                            /\ main = Content(s)
    BY DEF ServesOneDataSet
  <2>2. Steady /\ (keys = Mixed => txn # None)
    BY <2>1, ServedIsConsistent DEF RestoreInv, ControlInv, TxnInv
  <2>3. PICK s \in DataSets : Consistent(s) /\ (keys = Mixed => s \notin WithKeys)
    BY <2>2 DEF Steady, AllConsistent, Keyless
  <2>4. QED
    BY <2>2, <2>3 DEF Consistent, Together, Settled, Verifies
<1>2. QED
  BY <1>1, InvHolds, PTL

\* The files of the data set whose PDFs were committed last are in place or set
\* aside: the journal is cleared before .restore-old-<run> is removed, and the
\* EXIT trap keeps the directories that a journal names.
THEOREM CommittedPdfsStay == Spec => []CommittedPdfsKept
<1>1. RestoreInv => CommittedPdfsKept
  BY DEF RestoreInv, ControlInv
<1>2. QED
  BY <1>1, InvHolds, PTL

=============================================================================
