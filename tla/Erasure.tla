------------------------------- MODULE Erasure -------------------------------
(***************************************************************************)
(* The erasure of one account: the request row and its acknowledgements in *)
(* the platform schema with the SQL functions that guard them, the passes  *)
(* of process_request (the coordinator's own and the ones administrators   *)
(* call, which run concurrently), the owner services they command over     *)
(* HTTP, the executor that finalizes, and the deletion and restoration of  *)
(* the account itself.                                                     *)
(*                                                                         *)
(* An account has at most one request at a time: only soft_delete_user     *)
(* creates one, for an active account, and restoring deletes it.  Requests *)
(* of other accounts share nothing with this one.  Domain 1 is qdrant, 2   *)
(* research and 3 learning; phase i is the pending state of domain i.      *)
(***************************************************************************)
EXTENDS Naturals, FiniteSets

CONSTANTS
    Coordinators,  \* passes of the coordinator loop
    Admins,        \* passes run by POST /api/admin/erasure/{id}/process
    MaxAttempts,   \* the ceiling of record_erasure_retry_v1, 8
    MaxRequests    \* bound: deletions of the account

Workers == Coordinators \cup Admins
Domains == 1..3
NoRequest == 0

ASSUME ErasureAssumption ==
    /\ MaxAttempts \in Nat \ {0}
    /\ MaxRequests \in Nat

VARIABLES
    account,       \* "active", "grace", "due" (30 days later), "gone"
    restoring,     \* a restore transaction began inside the grace
    busy,          \* the account still has jobs queued or running
    \* the row of erasure_requests and its acknowledgements
    request, requests, state, resume_state, attempts, waiting, acks,
    \* the owners
    late,          \* commands given up by the caller that the owner still runs
    erased,        \* history: the domains that erased this account's data
    \* one pass of process_request
    pc, held, phase, resuming, known, step, seen

accountVars == <<account, restoring, busy>>
rowVars == <<request, requests, state, resume_state, attempts, waiting, acks>>
ownerVars == <<late, erased>>
passVars == <<pc, held, phase, resuming, known, step, seen>>
vars == <<accountVars, rowVars, ownerVars, passVars>>

Pending == {"qdrant_pending", "research_pending", "learning_pending"}
States == Pending \cup {"requested", "ready", "complete", "retry_wait", "attention_required"}
Pcs == {"idle", "snapshot", "begin", "acks", "step", "ack", "read", "update", "retry"}

PhaseState(i) ==
    CASE i = 1 -> "qdrant_pending"
      [] i = 2 -> "research_pending"
      [] i = 3 -> "learning_pending"
      [] OTHER -> "ready"

\* array_position(phase_order, s), 0 when s is not in it.
Position(s) ==
    CASE s = "qdrant_pending" -> 1
      [] s = "research_pending" -> 2
      [] s = "learning_pending" -> 3
      [] s = "ready" -> 4
      [] OTHER -> 0

\* The phase a request has reached: a waiting one is judged by what it resumes.
Reached == Position(IF state \in {"retry_wait", "attention_required"} THEN resume_state ELSE state)

TypeOK ==
    /\ account \in {"active", "grace", "due", "gone"}
    /\ restoring \in BOOLEAN /\ busy \in BOOLEAN
    /\ request \in 0..MaxRequests /\ requests \in 0..MaxRequests
    /\ state \in States
    /\ resume_state \in Pending
    /\ attempts \in 0..MaxAttempts
    /\ waiting \in BOOLEAN
    /\ acks \subseteq Domains
    /\ late \subseteq Domains /\ erased \subseteq Domains
    /\ pc \in [Workers -> Pcs]
    /\ held \in [Workers -> 0..MaxRequests]
    /\ phase \in [Workers -> States]
    /\ resuming \in [Workers -> BOOLEAN]
    /\ known \in [Workers -> SUBSET Domains]
    /\ step \in [Workers -> Domains]
    /\ seen \in [Workers -> States]

Init ==
    /\ account = "active" /\ restoring = FALSE /\ busy = FALSE
    /\ request = NoRequest /\ requests = 0
    /\ state = "requested" /\ resume_state = "qdrant_pending"
    /\ attempts = 0 /\ waiting = FALSE /\ acks = {}
    /\ late = {} /\ erased = {}
    /\ pc = [w \in Workers |-> "idle"]
    /\ held = [w \in Workers |-> NoRequest]
    /\ phase = [w \in Workers |-> "requested"]
    /\ resuming = [w \in Workers |-> FALSE]
    /\ known = [w \in Workers |-> {}]
    /\ step = [w \in Workers |-> 1]
    /\ seen = [w \in Workers |-> "requested"]

-----------------------------------------------------------------------------
(* The account.                                                            *)

\* All its jobs settle (JobQueue).
JobsSettle ==
    /\ busy
    /\ busy' = FALSE
    /\ UNCHANGED <<account, restoring, rowVars, ownerVars, passVars>>

\* soft_delete_user: set_account_deleted_v1 and request_erasure_v1 in one
\* transaction, with or without jobs the account queued before.
Delete ==
    /\ account = "active"
    /\ requests < MaxRequests
    /\ account' = "grace"
    /\ requests' = requests + 1
    /\ request' = requests + 1
    /\ state' = "requested" /\ resume_state' = "qdrant_pending"
    /\ attempts' = 0 /\ waiting' = FALSE /\ acks' = {}
    /\ busy' \in BOOLEAN
    /\ UNCHANGED <<restoring, ownerVars, passVars>>

GraceElapses ==
    /\ account = "grace"
    /\ account' = "due"
    /\ UNCHANGED <<restoring, busy, rowVars, ownerVars, passVars>>

\* restore_user reads NOW() when its transaction begins and may then wait for
\* the row locks until the grace is over.
BeginRestore ==
    /\ account = "grace" /\ ~restoring
    /\ restoring' = TRUE
    /\ UNCHANGED <<account, busy, rowVars, ownerVars, passVars>>

\* Mutant: a stranded request no longer stands in the way.
EndRestoreStranded ==
    /\ restoring
    /\ restoring' = FALSE
    /\ IF state \in {"requested", "attention_required"} /\ account # "gone"
       THEN /\ account' = "active"
            /\ request' = NoRequest
            /\ acks' = {}
            /\ UNCHANGED <<requests, state, resume_state, attempts, waiting>>
       ELSE UNCHANGED <<account, rowVars>>
    /\ UNCHANGED <<busy, ownerVars, passVars>>

\* restore_account_v1 once it holds the locks: refused when the erasure passed
\* its request phase, otherwise the request and its acknowledgements go.
EndRestore ==
    /\ restoring
    /\ restoring' = FALSE
    /\ IF state = "requested"
       THEN /\ account' = "active"
            /\ request' = NoRequest
            /\ acks' = {}
            /\ UNCHANGED <<requests, state, resume_state, attempts, waiting>>
       ELSE UNCHANGED <<account, rowVars>>
    /\ UNCHANGED <<busy, ownerVars, passVars>>

-----------------------------------------------------------------------------
(* One pass of process_request.  Every database call is a step.            *)

Goto(w, next) == pc' = [pc EXCEPT ![w] = next]

\* The pass returns or raises; its local variables are gone.
EndPass(w) ==
    /\ Goto(w, "idle")
    /\ held' = [held EXCEPT ![w] = NoRequest]
    /\ phase' = [phase EXCEPT ![w] = "requested"]
    /\ resuming' = [resuming EXCEPT ![w] = FALSE]
    /\ known' = [known EXCEPT ![w] = {}]
    /\ step' = [step EXCEPT ![w] = 1]
    /\ seen' = [seen EXCEPT ![w] = "requested"]

\* The request the pass was started for still exists.
Exists(w) == held[w] = request /\ request # NoRequest

\* Mutant: only pending requests are listed, as if a retry was started elsewhere.
ListedPending(w) ==
    w \in Coordinators =>
        /\ account = "due" /\ ~waiting
        /\ state \in Pending \cup {"requested"}

\* due_request_ids, then process_request with one of them.
Listed(w) ==
    w \in Coordinators =>
        /\ account = "due" /\ ~waiting
        /\ state \in Pending \cup {"requested", "retry_wait"}

Start(w) ==
    /\ pc[w] = "idle"
    /\ request # NoRequest
    /\ Listed(w)
    /\ Goto(w, "snapshot")
    /\ held' = [held EXCEPT ![w] = request]
    /\ UNCHANGED <<accountVars, rowVars, ownerVars, phase, resuming, known, step, seen>>

\* The record in hand: a waiting request resumes its recorded phase.
TakeRecord(w, s) ==
    /\ phase' = [phase EXCEPT ![w] = IF s = "retry_wait" THEN resume_state ELSE s]
    /\ resuming' = [resuming EXCEPT ![w] = s = "retry_wait"]

\* get_request, the early returns and _require_grace_elapsed.
Snapshot(w) ==
    /\ pc[w] = "snapshot"
    /\ IF /\ Exists(w)
          /\ state \notin {"complete", "attention_required", "ready"}
          /\ account = "due"
       THEN /\ Goto(w, IF state = "requested" THEN "begin" ELSE "acks")
            /\ TakeRecord(w, state)
            /\ UNCHANGED <<held, known, step, seen>>
       ELSE EndPass(w)
    /\ UNCHANGED <<accountVars, rowVars, ownerVars>>

\* Mutant: the request is looked up by its account, and the grace is the one
\* Snapshot saw.
BeginTrustingSnapshot(w) ==
    /\ pc[w] = "begin"
    /\ IF request # NoRequest
       THEN LET s == IF state = "requested" THEN "qdrant_pending" ELSE state IN
            /\ state' = s
            /\ held' = [held EXCEPT ![w] = request]
            /\ Goto(w, "acks")
            /\ TakeRecord(w, s)
            /\ UNCHANGED <<known, step, seen>>
       ELSE EndPass(w) /\ UNCHANGED state
    /\ UNCHANGED <<accountVars, request, requests, resume_state, attempts, waiting, acks,
                   ownerVars>>

\* begin_erasure_destructive_v1: the grace boundary, under the row locks. It
\* returns the row as it is when another pass was faster.
Begin(w) ==
    /\ pc[w] = "begin"
    /\ IF Exists(w) /\ account = "due"
       THEN LET s == IF state = "requested" THEN "qdrant_pending" ELSE state IN
            /\ state' = s
            /\ Goto(w, "acks")
            /\ TakeRecord(w, s)
            /\ UNCHANGED <<held, known, step, seen>>
       ELSE EndPass(w) /\ UNCHANGED state
    /\ UNCHANGED <<accountVars, request, requests, resume_state, attempts, waiting, acks,
                   ownerVars>>

\* acknowledged_domains; a waiting request then asks for its own phase back.
Acknowledged(w) ==
    /\ pc[w] = "acks"
    /\ known' = [known EXCEPT ![w] = IF Exists(w) THEN acks ELSE {}]
    /\ Goto(w, IF resuming[w] THEN "read" ELSE "step")
    /\ UNCHANGED <<accountVars, rowVars, ownerVars, held, phase, resuming, step, seen>>

\* The loop of _advance_phases goes to its next step, or the pass returns.
NextStep(w, reached) ==
    IF step[w] = 3
    THEN EndPass(w)
    ELSE /\ Goto(w, "step")
         /\ phase' = [phase EXCEPT ![w] = reached]
         /\ step' = [step EXCEPT ![w] = @ + 1]
         /\ UNCHANGED <<held, resuming, known, seen>>

\* A step whose domain is acknowledged is skipped, or only left.
Skip(w) ==
    /\ pc[w] = "step"
    /\ step[w] \in known[w]
    /\ IF phase[w] = PhaseState(step[w])
       THEN Goto(w, "read") /\ UNCHANGED <<held, phase, resuming, known, step, seen>>
       ELSE NextStep(w, phase[w])
    /\ UNCHANGED <<accountVars, rowVars, ownerVars>>

Commanding(w) == pc[w] = "step" /\ step[w] \notin known[w]

\* Mutant: the phase is left before its receipt is stored.
AnsweredUnacknowledged(w) ==
    /\ Commanding(w)
    /\ phase[w] = PhaseState(step[w])
    /\ erased' = erased \cup {step[w]}
    /\ Goto(w, "read")
    /\ UNCHANGED <<accountVars, rowVars, late, held, phase, resuming, known, step, seen>>

\* _owner_command: the owner erases its data and answers in time.
Answered(w) ==
    /\ Commanding(w)
    /\ phase[w] = PhaseState(step[w])
    /\ erased' = erased \cup {step[w]}
    /\ Goto(w, "ack")
    /\ UNCHANGED <<accountVars, rowVars, late, held, phase, resuming, known, step, seen>>

\* Mutant: a command that was sent counts as executed.
SentIsDone(w) ==
    /\ Commanding(w)
    /\ phase[w] = PhaseState(step[w])
    /\ \/ erased' = erased \cup {step[w]} /\ UNCHANGED late
       \/ late' = late \cup {step[w]} /\ UNCHANGED erased
    /\ Goto(w, "ack")
    /\ UNCHANGED <<accountVars, rowVars, held, phase, resuming, known, step, seen>>

\* A command that fails for the caller may still have run, may run later, or
\* never; in another phase none is sent.
Unanswered(w) ==
    /\ Commanding(w)
    /\ \/ /\ phase[w] = PhaseState(step[w])
          /\ \/ erased' = erased \cup {step[w]} /\ UNCHANGED late
             \/ late' = late \cup {step[w]} /\ UNCHANGED erased
             \/ UNCHANGED <<late, erased>>
       \/ /\ phase[w] # PhaseState(step[w])
          /\ UNCHANGED <<late, erased>>
    /\ Goto(w, "retry")
    /\ UNCHANGED <<accountVars, rowVars, held, phase, resuming, known, step, seen>>

\* record_erasure_ack_v1 refuses a receipt for a phase not reached and raises,
\* which no handler of the pass catches.
Ack(w) ==
    /\ pc[w] = "ack"
    /\ IF Exists(w) /\ step[w] <= Reached
       THEN /\ acks' = acks \cup {step[w]}
            /\ Goto(w, "read")
            /\ UNCHANGED <<held, phase, resuming, known, step, seen>>
       ELSE EndPass(w) /\ UNCHANGED acks
    /\ UNCHANGED <<accountVars, request, requests, state, resume_state, attempts, waiting,
                   ownerVars>>

Target(w) == IF resuming[w] THEN phase[w] ELSE PhaseState(step[w] + 1)

\* What follows a transition that is done: the loop starts, or goes on.
Arrive(w) ==
    IF resuming[w]
    THEN /\ Goto(w, "step")
         /\ resuming' = [resuming EXCEPT ![w] = FALSE]
         /\ UNCHANGED <<held, phase, known, step, seen>>
    ELSE NextStep(w, Target(w))

\* ... and one that is refused: only inside the loop is the error recorded.
Refused(w) ==
    IF resuming[w]
    THEN EndPass(w)
    ELSE Goto(w, "retry") /\ UNCHANGED <<held, phase, resuming, known, step, seen>>

\* transition reads the row first. A request that is already there needs
\* nothing; one that waits may only go to the phase it recorded.
Read(w) ==
    /\ pc[w] = "read"
    /\ \/ ~Exists(w) /\ EndPass(w)
       \/ Exists(w) /\ state = Target(w) /\ Arrive(w)
       \/ /\ Exists(w) /\ state # Target(w)
          /\ state \in {"retry_wait", "attention_required"}
          /\ resume_state # Target(w)
          /\ Refused(w)
       \/ /\ Exists(w) /\ state # Target(w)
          /\ state \in {"retry_wait", "attention_required"} => resume_state = Target(w)
          /\ seen' = [seen EXCEPT ![w] = state]
          /\ Goto(w, "update")
          /\ UNCHANGED <<held, phase, resuming, known, step>>
    /\ UNCHANGED <<accountVars, rowVars, ownerVars>>

\* erasure_transition_allowed_v1, for the sources and targets of a pass.
Allowed(source, target) ==
    \/ source = "requested" /\ target = "qdrant_pending"
    \/ source \in Pending /\ Position(target) = Position(source) + 1
    \/ source \in {"retry_wait", "attention_required"} /\ target \in Pending

\* ... then transition_erasure_v1 moves the row if it still is as read.
Update(w) ==
    /\ pc[w] = "update"
    /\ IF Allowed(seen[w], Target(w)) /\ Exists(w) /\ state = seen[w]
       THEN state' = Target(w) /\ waiting' = FALSE /\ Arrive(w)
       ELSE Refused(w) /\ UNCHANGED <<state, waiting>>
    /\ UNCHANGED <<accountVars, request, requests, resume_state, attempts, acks,
                   ownerVars>>

\* record_erasure_retry_v1 matches the phase it was called for, below the
\* ceiling; whatever it does, the pass is over.
Retry(w) ==
    /\ pc[w] = "retry"
    /\ IF Exists(w) /\ phase[w] \in Pending /\ state = phase[w] /\ attempts < MaxAttempts
       THEN /\ attempts' = attempts + 1
            /\ state' = IF attempts + 1 >= MaxAttempts THEN "attention_required" ELSE "retry_wait"
            /\ resume_state' = phase[w]
            /\ waiting' = TRUE
       ELSE UNCHANGED <<attempts, state, resume_state, waiting>>
    /\ EndPass(w)
    /\ UNCHANGED <<accountVars, request, requests, acks, ownerVars>>

\* The process dies or the database refuses a call in the middle of a pass.
CrashPass(w) ==
    /\ pc[w] # "idle"
    /\ EndPass(w)
    /\ UNCHANGED <<accountVars, rowVars, ownerVars>>

-----------------------------------------------------------------------------
(* The clock of the row, the operator, the owners and the executor.        *)

\* next_attempt_at passes.
WaitOver ==
    /\ waiting
    /\ waiting' = FALSE
    /\ UNCHANGED <<accountVars, request, requests, state, resume_state, attempts, acks,
                   ownerVars, passVars>>

\* resume_erasure_v1: a stranded request goes back to its phase with a fresh
\* budget.
Resume ==
    /\ request # NoRequest
    /\ state = "attention_required"
    /\ account \in {"grace", "due"}
    /\ state' = resume_state
    /\ attempts' = 0
    /\ waiting' = FALSE
    /\ UNCHANGED <<accountVars, request, requests, resume_state, acks, ownerVars, passVars>>

\* A command its caller gave up on is executed after all.
LateCommand(d) ==
    /\ d \in late
    /\ late' = late \ {d}
    /\ erased' = erased \cup {d}
    /\ UNCHANGED <<accountVars, rowVars, passVars>>

\* finalize_erasure, one transaction of the executor: it refuses while an
\* acknowledgement is missing or the account has active jobs.
Finalize ==
    /\ request # NoRequest
    /\ state = "ready"
    /\ account = "due"
    /\ acks = Domains
    /\ ~busy
    /\ account' = "gone"
    /\ state' = "complete"
    /\ UNCHANGED <<restoring, busy, request, requests, resume_state, attempts, waiting, acks,
                   ownerVars, passVars>>

-----------------------------------------------------------------------------
Pass(w) ==
    \/ Start(w) \/ Snapshot(w) \/ Begin(w) \/ Acknowledged(w) \/ Skip(w)
    \/ Answered(w) \/ Unanswered(w) \/ Ack(w) \/ Read(w) \/ Update(w) \/ Retry(w)

Next ==
    \/ JobsSettle \/ Delete \/ GraceElapses \/ BeginRestore \/ EndRestore
    \/ \E w \in Workers : Pass(w) \/ CrashPass(w)
    \/ \E d \in Domains : LateCommand(d)
    \/ WaitOver \/ Resume \/ Finalize

Spec == Init /\ [][Next]_vars
-----------------------------------------------------------------------------
(* The abstract erasure.                                                   *)

Life ==
    CASE account = "active" -> "active"
      [] account = "gone" -> "gone"
      [] account \in {"grace", "due"} /\ state = "requested" -> "disabled"
      [] OTHER -> "erasing"

Promise == INSTANCE ErasurePromise WITH life <- Life, erased <- erased, Domains <- Domains

\* Whatever passes, restores, retries and late commands do to each other, the
\* account is restored or erased, never both, and erased in order (the whole of
\* process_request, restore_account_v1 and finalize_erasure).
KeepsPromise == Promise!Spec

-----------------------------------------------------------------------------
(* Safety.                                                                 *)

\* An account that is in use, or that may still be restored, has lost no data
\* and no command that could erase some is under way (the race of
\* restore_account_v1 with begin_erasure_destructive_v1).
RestorableIsIntact ==
    account \in {"active", "grace"} => erased = {} /\ late = {}

\* Every phase a request has left behind, by whichever pass and after whatever
\* retries, is proved by a stored acknowledgement (record_erasure_ack_v1,
\* transition_erasure_v1).
PhasesProven ==
    request # NoRequest => \A d \in Domains : d < Reached => d \in acks

\* An acknowledgement is stored only for a domain whose owner did erase its
\* data, and a pass only knows of such ones: a receipt outlives neither the
\* request nor the restoration of the account (erasure_acknowledgements).
AcksEarned ==
    /\ acks \subseteq erased
    /\ \A w \in Workers : Exists(w) => known[w] \subseteq acks

\* Why they hold: the inductive invariant.

\* A pass that begin_erasure_destructive_v1 let through, or that found its
\* request let through.
PastBegin(w) == pc[w] \in {"acks", "step", "ack", "read", "update", "retry"}

\* Until the erasure begins nothing of the account is touched; when the account
\* is gone, every domain is.
TouchedOnlyInErasure ==
    /\ account \in {"active", "grace"} => state = "requested"
    /\ state = "requested" => erased = {} /\ late = {} /\ acks = {}
    /\ account = "gone" => state = "complete" /\ acks = Domains

\* A pass past Begin works on the request of the account, for good: numbers of
\* requests are not used twice, and a restore is refused by now.
PassesHoldTheRequest ==
    /\ request <= requests
    /\ \A w \in Workers :
        /\ held[w] <= requests
        /\ PastBegin(w) => Exists(w) /\ state # "requested"
        /\ pc[w] \in {"idle", "snapshot", "begin", "acks"} => known[w] = {}

\* The phase a pass works in is proven, and so is the step it leaves.
PassesProven ==
    \A w \in Workers : PastBegin(w) =>
        /\ \A d \in Domains : d < Position(phase[w]) => d \in acks
        /\ pc[w] \in {"step", "ack"} => ~resuming[w]
        /\ pc[w] = "ack" => phase[w] = PhaseState(step[w]) /\ step[w] \in erased
        /\ pc[w] \in {"read", "update"} /\ ~resuming[w] =>
            phase[w] = PhaseState(step[w]) /\ step[w] \in acks

\* A command that runs late was sent in its phase.
LateProven == \A d \in late : \A e \in Domains : e < d => e \in acks

\* The inductive invariant of ErasureProofs (process_request with the SQL functions
\* it calls).
ErasureInv ==
    /\ TouchedOnlyInErasure
    /\ PassesHoldTheRequest
    /\ PassesProven
    /\ LateProven
    /\ PhasesProven
    /\ AcksEarned

-----------------------------------------------------------------------------
(* Liveness.                                                               *)

\* The coordinator loop and the executor loop poll for ever, time passes, jobs
\* settle, an operator resumes a stranded request, and an owner that is asked
\* again and again answers some time. Nothing is assumed of administrators' own
\* passes, of restores or of crashes.
Fairness ==
    /\ \A w \in Coordinators : WF_vars(Pass(w)) /\ SF_vars(Answered(w))
    /\ WF_vars(GraceElapses) /\ WF_vars(WaitOver)
    /\ WF_vars(JobsSettle) /\ WF_vars(Finalize)
    /\ WF_vars(Resume)
    /\ <>[][\A w \in Workers : ~CrashPass(w)]_vars
    /\ <>[][\A w \in Admins : ~Start(w)]_vars

FairSpec == Spec /\ Fairness

\* An account whose grace is over is erased, through retries, stranding and
\* concurrent passes, unless a restore that began in time wins
\* (process_due_requests, finalize_due_requests).
DueIsErased == account = "due" ~> account \in {"gone", "active"}
=============================================================================
