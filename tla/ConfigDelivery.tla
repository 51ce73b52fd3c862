--------------------------- MODULE ConfigDelivery ---------------------------
(***************************************************************************)
(* The delivery of one setting from Platform to Research: the value in     *)
(* user_config with its row of config_deliveries, the PUT handlers and the *)
(* reconciler loop that run deliver under an in-process lock, the commands *)
(* Research executes, also for callers that are gone, and restarts of      *)
(* Platform.                                                               *)
(*                                                                         *)
(* Two kinds of settings have effects of their own.  A model setting says  *)
(* what a role of LiteLLM runs with: commands change it, and so does the   *)
(* LiteLLM reconciler of Research, which brings the stored value into      *)
(* effect about every 30 s and reports to Platform whether the role is     *)
(* still waiting for its model.  For a setting that identifies a Zotero    *)
(* library (Library) Research caches identifiers from the library.         *)
(***************************************************************************)
EXTENDS Naturals, FiniteSets

CONSTANTS
    Requests,     \* PUT /api/config/{key} handlers
    Reconcilers,  \* _reconciler_loop
    Values,       \* what the setting may be set to
    Initial,      \* the value in effect at first
    NoValue,      \* no library
    NoWorker,     \* the lock is free
    MaxAttempts,  \* the ceiling of record_retry, 8
    MaxWrites,    \* bound: accepted PUTs
    MaxLate,      \* bound: commands running for nobody at a time
    Library,      \* whether the setting is one of _ZOTERO_LIBRARY_SCOPE_KEYS
    Pushes        \* whether a paper is pushed to the library meanwhile

Workers == Requests \cup Reconcilers

ASSUME ConfigAssumption ==
    /\ Initial \in Values
    /\ NoValue \notin Values
    /\ NoWorker \notin Workers
    /\ MaxAttempts \in Nat \ {0}
    /\ MaxWrites \in Nat
    /\ MaxLate \in Nat
    /\ Library \in BOOLEAN /\ Pushes \in BOOLEAN

VARIABLES
    desired,             \* user_config.value
    version,             \* delivery_id: the versions are numbered
    scope_changed, state, attempts, due,
    lock,                \* the holder of _DELIVERY_LOCKS[scope, key]
    pc, held,            \* a run of deliver and its delivery_id
    sent,                \* the record read under the lock
    pending,             \* whether the role is in llm.delivery_pending
    late,                \* commands still running for nobody
    reconciling,         \* a pass of the LiteLLM reconciler: what it has to report
    reconciled,          \* history: the version its last complete pass delivered
    effective,           \* the value LiteLLM runs with
    effective_version,   \* history: the version of the last command that took effect
    overtaken,           \* history: whether what LiteLLM took last was superseded
    cache,               \* the library that the paper's identifiers name
    cached_at,           \* history: the version when they were stored
    pushing              \* the library a push under way writes to

rowVars == <<desired, version, scope_changed, state, attempts, due>>
workerVars == <<lock, pc, held, sent>>
effectVars == <<effective, effective_version, overtaken, cache, cached_at>>
modelVars == <<pending, reconciling, reconciled>>
researchVars == <<late, effectVars, modelVars, pushing>>
vars == <<rowVars, workerVars, researchVars>>

Versions == 0..MaxWrites
Commands == [version : Versions, value : Values, scope_changed : BOOLEAN]
Pcs == {"idle", "find", "lock", "recheck", "send", "effects", "deferred", "mark", "retry"}
NoCommand == [version |-> 0, value |-> Initial, scope_changed |-> FALSE]

TypeOK ==
    /\ desired \in Values
    /\ version \in Versions
    /\ scope_changed \in BOOLEAN
    /\ state \in {"pending", "applied", "failed"}
    /\ attempts \in 0..MaxAttempts
    /\ due \in BOOLEAN
    /\ lock \in Workers \cup {NoWorker}
    /\ pc \in [Workers -> Pcs]
    /\ held \in [Workers -> Versions]
    /\ sent \in [Workers -> Commands]
    /\ late \subseteq Commands
    /\ pending \in BOOLEAN /\ overtaken \in BOOLEAN
    /\ reconciling \in {"idle", "delivered", "failed"}
    /\ effective \in Values
    /\ {effective_version, reconciled} \subseteq Versions
    /\ {cache, pushing} \subseteq Values \cup {NoValue}
    /\ cached_at \in Versions

\* A setting that was delivered before: delivery_state reads a missing row as
\* applied.
Init ==
    /\ desired = Initial /\ version = 0
    /\ scope_changed = FALSE /\ state = "applied"
    /\ attempts = 0 /\ due = TRUE
    /\ lock = NoWorker
    /\ pc = [w \in Workers |-> "idle"]
    /\ held = [w \in Workers |-> 0]
    /\ sent = [w \in Workers |-> NoCommand]
    /\ late = {}
    /\ pending = FALSE
    /\ reconciling = "idle" /\ reconciled = 0
    /\ effective = Initial /\ effective_version = 0 /\ overtaken = FALSE
    /\ cache \in {NoValue} \cup {v \in {Initial} : Library}
    /\ cached_at = 0
    /\ pushing = NoValue

-----------------------------------------------------------------------------
Goto(w, next) ==
    /\ pc' = [pc EXCEPT ![w] = next]
    /\ UNCHANGED <<held, sent>>

\* deliver returns or raises; it leaves the lock if it has it.
Leave(w) ==
    /\ pc' = [pc EXCEPT ![w] = "idle"]
    /\ held' = [held EXCEPT ![w] = 0]
    /\ sent' = [sent EXCEPT ![w] = NoCommand]
    /\ lock' = IF lock = w THEN NoWorker ELSE lock

\* The WHERE clause of get_delivery, mark_applied and record_retry.
Current(w) == version = held[w] /\ state = "pending"

\* persist_value: the value and its next version in one transaction; only a
\* write that differs from the stored value changes the library.
Put(r) ==
    /\ pc[r] = "idle"
    /\ version < MaxWrites
    /\ \E v \in Values :
        /\ desired' = v
        /\ scope_changed' = (Library /\ desired # v)
    /\ version' = version + 1
    /\ state' = "pending" /\ attempts' = 0 /\ due' = TRUE
    /\ held' = [held EXCEPT ![r] = version + 1]
    /\ pc' = [pc EXCEPT ![r] = "find"]
    /\ UNCHANGED <<lock, sent, researchVars>>

\* due_delivery_ids, then deliver_id.
List(c) ==
    /\ pc[c] = "idle"
    /\ state = "pending" /\ due
    /\ held' = [held EXCEPT ![c] = version]
    /\ pc' = [pc EXCEPT ![c] = "find"]
    /\ UNCHANGED <<rowVars, lock, sent, researchVars>>

\* The first get_delivery names the lock.
Find(w) ==
    /\ pc[w] = "find"
    /\ IF Current(w) THEN Goto(w, "lock") /\ UNCHANGED lock ELSE Leave(w)
    /\ UNCHANGED <<rowVars, researchVars>>

\* Mutant: every run of deliver has a lock of its own.
AcquireOwn(w) ==
    /\ pc[w] = "lock"
    /\ Goto(w, "recheck")
    /\ UNCHANGED <<rowVars, lock, researchVars>>

Acquire(w) ==
    /\ pc[w] = "lock"
    /\ lock = NoWorker
    /\ lock' = w
    /\ Goto(w, "recheck")
    /\ UNCHANGED <<rowVars, researchVars>>

Record(w) == [version |-> held[w], value |-> desired, scope_changed |-> scope_changed]

\* Mutant: a superseded run returns without leaving the lock.
RecheckKeepingLock(w) ==
    /\ pc[w] = "recheck"
    /\ IF Current(w)
       THEN /\ sent' = [sent EXCEPT ![w] = Record(w)]
            /\ pc' = [pc EXCEPT ![w] = "send"]
            /\ UNCHANGED held
       ELSE Goto(w, "idle")
    /\ UNCHANGED <<rowVars, lock, researchVars>>

\* The second get_delivery: a superseded version is not sent.
Recheck(w) ==
    /\ pc[w] = "recheck"
    /\ IF Current(w)
       THEN /\ sent' = [sent EXCEPT ![w] = Record(w)]
            /\ pc' = [pc EXCEPT ![w] = "send"]
            /\ UNCHANGED <<lock, held>>
       ELSE Leave(w)
    /\ UNCHANGED <<rowVars, researchVars>>

-----------------------------------------------------------------------------
(* Research.                                                               *)

\* write_config with apply_effects: LiteLLM takes the value, and a changed
\* library drops the identifiers of the old one.
Execute(command) ==
    /\ effective' = IF Library THEN effective ELSE command.value
    /\ effective_version' = command.version
    /\ overtaken' = (/\ command.version < version
                     /\ \/ overtaken
                        \/ command.version < effective_version
                        \/ command.version < reconciled)
    /\ cache' = IF command.scope_changed THEN NoValue ELSE cache
    /\ UNCHANGED cached_at

\* Research applies the command and answers, or LiteLLM refuses it for want of a
\* database and Research answers all the same that the role is waiting
\* (pending_restart).
Answered(w) ==
    /\ pc[w] = "send"
    /\ \/ Execute(sent[w]) /\ Goto(w, "effects")
       \/ ~Library /\ UNCHANGED effectVars /\ Goto(w, "deferred")
    /\ UNCHANGED <<rowVars, lock, late, modelVars, pushing>>

\* The call fails for Platform: it was applied, is not applied, or will be
\* applied after the 310 s of the timeout.
Unanswered(w) ==
    /\ pc[w] = "send"
    /\ \/ Execute(sent[w]) /\ UNCHANGED late
       \/ UNCHANGED <<effectVars, late>>
       \/ /\ Cardinality(late) < MaxLate
          /\ late' = late \cup {sent[w]}
          /\ UNCHANGED effectVars
    /\ Goto(w, "retry")
    /\ UNCHANGED <<rowVars, lock, modelVars, pushing>>

LateCommand ==
    /\ \E command \in late :
        /\ late' = late \ {command}
        /\ Execute(command)
    /\ UNCHANGED <<rowVars, workerVars, modelVars, pushing>>

\* Mutant: the loop has nothing to do unless the role is waiting.
ReconcileWaiting ==
    /\ ~Library /\ pending
    /\ reconciling = "idle"
    /\ reconciling' = "delivered" /\ reconciled' = version
    /\ effective' = desired /\ overtaken' = FALSE
    /\ UNCHANGED <<rowVars, workerVars, pending, late, effective_version, cache, cached_at, pushing>>

\* A pass of the LiteLLM reconciler reads the stored value and delivers it, both
\* under _config_lock, which a command holds as well ...
Reconcile ==
    /\ ~Library
    /\ reconciling = "idle"
    /\ reconciling' = "delivered" /\ reconciled' = version
    /\ effective' = desired /\ overtaken' = FALSE
    /\ UNCHANGED <<rowVars, workerVars, pending, late, effective_version, cache, cached_at, pushing>>

\* ... or fails, before or after LiteLLM took the value.
ReconcileFails ==
    /\ ~Library
    /\ reconciling = "idle"
    /\ reconciling' = "failed"
    /\ effective' \in {effective, desired}
    /\ UNCHANGED <<rowVars, workerVars, pending, reconciled, late, effective_version, overtaken,
                   cache, cached_at, pushing>>

\* _mark_role_pending, outside the lock.  The report of a pass that delivered an
\* older version takes away the mark of a newer one.
Report ==
    /\ reconciling' = "idle"
    /\ \/ reconciling = "failed" /\ pending' = TRUE /\ UNCHANGED overtaken
       \/ /\ reconciling = "delivered" /\ pending' = FALSE
          /\ \/ reconciled = version /\ UNCHANGED overtaken
             \/ reconciled < version /\ overtaken' = TRUE
    /\ UNCHANGED <<rowVars, workerVars, reconciled, late, effective, effective_version, cache,
                   cached_at, pushing>>

\* The report is lost, or a restart of Research ends the pass.
ReportLost ==
    /\ reconciling # "idle"
    /\ reconciling' = "idle"
    /\ UNCHANGED <<rowVars, workerVars, pending, reconciled, late, effectVars, pushing>>

\* push_paper_to_zotero reads the settings (the claim admits one push a paper) ...
PushReads ==
    /\ Library /\ Pushes
    /\ pushing = NoValue
    /\ pushing' = desired
    /\ UNCHANGED <<rowVars, workerVars, late, effectVars, modelVars>>

\* ... and stores what Zotero answered, unless it failed or the paper has
\* identifiers, which a forced push drops first.
PushStores ==
    /\ pushing # NoValue
    /\ pushing' = NoValue
    /\ \/ cache' = pushing /\ cached_at' = version
       \/ UNCHANGED <<cache, cached_at>>
    /\ UNCHANGED <<rowVars, workerVars, late, effective, effective_version, overtaken, modelVars>>

-----------------------------------------------------------------------------
\* Mutant: what Research answered about the role is not recorded.
EffectsDropped(w) ==
    /\ pc[w] \in {"effects", "deferred"}
    /\ Goto(w, "mark")
    /\ UNCHANGED <<rowVars, lock, researchVars>>

\* apply_research_config_effects: the role is waiting for its model, or is not.
Effects(w) ==
    /\ pc[w] \in {"effects", "deferred"}
    /\ pending' = IF Library THEN pending ELSE pc[w] = "deferred"
    /\ Goto(w, "mark")
    /\ UNCHANGED <<rowVars, lock, late, effectVars, reconciling, reconciled, pushing>>

\* A database error in a run of deliver is not caught and counts no attempt.
DatabaseFails(w) ==
    /\ pc[w] \in {"find", "recheck", "effects", "deferred", "mark", "retry"}
    /\ Leave(w)
    /\ UNCHANGED <<rowVars, researchVars>>

\* Mutant: the acknowledgement does not name a version.
MarkLatest(w) ==
    /\ pc[w] = "mark"
    /\ state' = IF state = "pending" THEN "applied" ELSE state
    /\ Leave(w)
    /\ UNCHANGED <<desired, version, scope_changed, attempts, due, researchVars>>

\* mark_applied.
Mark(w) ==
    /\ pc[w] = "mark"
    /\ state' = IF Current(w) THEN "applied" ELSE state
    /\ Leave(w)
    /\ UNCHANGED <<desired, version, scope_changed, attempts, due, researchVars>>

\* record_retry.
Retry(w) ==
    /\ pc[w] = "retry"
    /\ IF Current(w)
       THEN /\ attempts' = IF attempts < MaxAttempts THEN attempts + 1 ELSE MaxAttempts
            /\ state' = IF attempts + 1 >= MaxAttempts THEN "failed" ELSE state
            /\ due' = FALSE
       ELSE UNCHANGED <<attempts, state, due>>
    /\ Leave(w)
    /\ UNCHANGED <<desired, version, scope_changed, researchVars>>

\* next_attempt_at passes.
WaitOver ==
    /\ ~due
    /\ due' = TRUE
    /\ UNCHANGED <<desired, version, scope_changed, state, attempts, workerVars, researchVars>>

\* Platform restarts: all runs and the lock are gone, and a command under way
\* was applied, is lost, or goes on in Research.
Restart ==
    /\ \E w \in Workers : pc[w] # "idle"
    /\ LET flying == {w \in Workers : pc[w] = "send"} IN
       \/ UNCHANGED <<late, effectVars>>
       \/ \E w \in flying : Execute(sent[w]) /\ UNCHANGED late
       \/ /\ flying # {} /\ Cardinality(late) < MaxLate
          /\ late' = late \cup {sent[w] : w \in flying}
          /\ UNCHANGED effectVars
    /\ pc' = [w \in Workers |-> "idle"]
    /\ held' = [w \in Workers |-> 0]
    /\ sent' = [w \in Workers |-> NoCommand]
    /\ lock' = NoWorker
    /\ UNCHANGED <<rowVars, modelVars, pushing>>

-----------------------------------------------------------------------------
Deliver(w) ==
    \/ Find(w) \/ Acquire(w) \/ Recheck(w)
    \/ Answered(w) \/ Unanswered(w)
    \/ Effects(w) \/ Mark(w) \/ Retry(w)

Next ==
    \/ \E r \in Requests : Put(r)
    \/ \E c \in Reconcilers : List(c)
    \/ \E w \in Workers : Deliver(w) \/ DatabaseFails(w)
    \/ Reconcile \/ ReconcileFails \/ Report \/ ReportLost
    \/ LateCommand \/ PushReads \/ PushStores \/ WaitOver \/ Restart

Spec == Init /\ [][Next]_vars
-----------------------------------------------------------------------------
(* Safety.                                                                 *)

\* When the row says applied, LiteLLM runs with the stored value or the role is
\* shown as waiting for it, whatever PUTs, refusals, retries, passes and restarts
\* interleaved (deliver's lock and second look, mark_applied's version,
\* apply_research_config_effects).  Two things come between, until the next pass:
\* a superseded command that LiteLLM takes after a later version, and a report
\* that takes the mark of a later version away.
AppliedIsInEffect ==
    state = "applied" /\ ~overtaken => effective = desired \/ pending \/ Library

\* Once the change of a library is delivered, no identifier that was stored
\* before the change is left, even when commands run on late
\* (_clear_zotero_library_cache, mark_applied).
OldIdentifiersCleared ==
    state = "applied" /\ scope_changed /\ cache # NoValue => cached_at = version

\* The command of a version never takes effect after the command of a later one
\* ("Never execute a superseded side effect", deliver), unless its caller had
\* gone before: by a timeout, or with a restart of Platform.
NotSuperseded ==
    \/ effective_version' >= effective_version
    \/ \E command \in late :
        late' = late \ {command} /\ command.version = effective_version'

EffectsInOrder == [][NotSuperseded]_vars

\* Why the three hold: the inductive invariant.

\* A run is past Acquire exactly while it has the lock (async with lock).
LockHeld ==
    \A w \in Workers :
        lock = w <=> pc[w] \in {"recheck", "send", "effects", "deferred", "mark", "retry"}

\* A run under the lock that looked at the row finds it pending still, and what
\* it sends for the current version is what the row says.
RunsKnowTheRow ==
    \A w \in Workers :
        /\ held[w] <= version
        /\ pc[w] \in {"send", "effects", "deferred", "mark", "retry"} => state = "pending"
        /\ pc[w] = "send" =>
            /\ sent[w].version = held[w]
            /\ held[w] = version => sent[w] = Record(w)

\* Every command sent, and every pass made, was of the latest version of its time.
SentInOrder ==
    /\ effective_version <= version /\ reconciled <= version
    /\ \A command \in late :
        /\ command.version <= version
        /\ command.version = version => command.value = desired
    /\ \A w \in Workers : pc[w] = "send" =>
        /\ effective_version <= held[w]
        /\ \A command \in late : command.version <= held[w]

\* The latest version is in effect, if nothing overtook it.
InEffect ==
    \/ Library \/ overtaken
    \/ effective = desired /\ version \in {effective_version, reconciled}

\* A run about to acknowledge the current version has put it into effect or
\* recorded that the role is waiting; a pass about to report it has delivered it.
EffectsFollow ==
    /\ \A w \in Workers : held[w] = version =>
        /\ pc[w] = "effects" => InEffect
        /\ pc[w] = "mark" => InEffect \/ pending
    /\ state = "applied" => InEffect \/ pending
    /\ reconciling = "delivered" /\ reconciled = version => InEffect

\* A run about to acknowledge a change of the library has dropped the
\* identifiers stored before the change.
IdentifiersFollow ==
    /\ scope_changed => Library
    /\ \A w \in Workers :
        pc[w] \in {"effects", "deferred", "mark"} /\ held[w] = version /\ scope_changed =>
            cache = NoValue \/ cached_at = version
    /\ OldIdentifiersCleared

\* The inductive invariant of ConfigDeliveryProofs (deliver and the WHERE
\* clauses of repos/config_delivery.py).
DeliveryInv ==
    /\ LockHeld
    /\ RunsKnowTheRow
    /\ SentInOrder
    /\ EffectsFollow
    /\ IdentifiersFollow

-----------------------------------------------------------------------------
(* Liveness.                                                               *)

\* Handlers and the reconciler loops run on, and time passes.  Platform stops
\* restarting, and its database stops failing, some day.  LiteLLM does not refuse
\* every pass, and not every report is lost.
Fairness ==
    /\ \A w \in Workers : WF_vars(Deliver(w))
    /\ \A c \in Reconcilers : WF_vars(List(c))
    /\ WF_vars(WaitOver)
    /\ WF_vars(Report \/ ReportLost)
    /\ SF_vars(Reconcile)
    /\ SF_vars(reconciling = "delivered" /\ Report)
    /\ <>[][~Restart]_vars
    /\ <>[][\A w \in Workers : ~DatabaseFails(w)]_vars

FairSpec == Spec /\ Fairness

\* Every version is applied, given up as failed, or superseded by one that is:
\* no delivery stays pending for ever (the reconciler, record_retry, the lock).
PendingSettles == state = "pending" ~> state # "pending"

\* Once the PUTs stop, LiteLLM comes to run with the stored value for good,
\* whatever refusals, failed deliveries and late commands came before, and the
\* mark of a waiting role does not stay (_litellm_model_reconciler_loop).
ReconcilerConverges ==
    /\ <>[](effective = desired \/ Library)
    /\ []<>(~pending \/ Library)
=============================================================================
