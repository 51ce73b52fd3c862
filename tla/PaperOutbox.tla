---------------------------- MODULE PaperOutbox ----------------------------
(***************************************************************************)
(* The outbox of Research and the inbox of Learning, for one account.      *)
(*                                                                         *)
(* Research records an event in the transaction that starts the reading of *)
(* a paper or deletes it, and deliver_pending_events posts the events to   *)
(* Learning, from the scheduler and from the handler of a reading request. *)
(* No transaction is open during a post: a post may fail, its answer may   *)
(* be lost, or Learning may apply it after the sender has given up.        *)
(* Learning applies a command at most once.  The rows that Research keeps  *)
(* for a deleted paper go when its deletion has been acknowledged.         *)
(*                                                                         *)
(* PaperShelf adds the requests of the account's owner.                    *)
(***************************************************************************)
EXTENDS Naturals, FiniteSets

CONSTANTS
    Papers,
    Scheduler,    \* run_domain_outbox_wrapper, max_instances 1
    Handlers,     \* reading requests that go on to deliver
    MaxAttempts,  \* MAX_DELIVERY_ATTEMPTS, 12
    BatchLimit,   \* the limit of the scheduler's batch, 20
    MaxEvents,    \* bound: events recorded
    MaxRequeues,  \* bound: requeues of dead letters
    MaxAborts     \* bound: deliveries cut short by a restart or an error

Deliverers == {Scheduler} \cup Handlers
Events == 1..MaxEvents

ASSUME OutboxAssumption ==
    /\ Scheduler \notin Handlers
    /\ {MaxAttempts, BatchLimit} \subseteq Nat \ {0}
    /\ {MaxEvents, MaxRequeues, MaxAborts} \subseteq Nat

VARIABLES
    library,   \* the papers in user_library
    state,     \* paper_user_state.state, "none" for a paper without a row
    before,    \* paper_user_state.state_before_trash
    details,   \* the other private rows of a paper: "none", "live" or, when
               \* only a deletion retains them, "retained" (history)
    events,    \* domain_events, numbered by created_at
    recorded,  \* how many of them exist
    awaiting,  \* pending_paper_deletions
    inbox,     \* domain_commands of Learning
    read,      \* daily_log.papers_read
    cards,     \* the papers Learning derived cards or links from
    pc, batch, \* a run of deliver_pending_events and its rows yet to deliver
    late,      \* posts that Learning may still apply, with nobody waiting
    requeues, aborts

shelfVars == <<library, state, before, details>>
researchVars == <<events, recorded, awaiting>>
learningVars == <<inbox, read, cards>>
deliveryVars == <<pc, batch, late>>
budgetVars == <<requeues, aborts>>
outboxVars == <<shelfVars, researchVars, learningVars, deliveryVars, budgetVars>>

States == {"inbox", "to_read", "reading", "done", "trash"}
Rows == States \cup {"none"}
Pcs == {"idle", "called", "deliver", "waiting", "answered", "failed"}
NoPaper == "no paper"
Event == [type : {"paper.read", "paper.deleted"}, paper : Papers \cup {NoPaper},
          attempts : 0..MaxAttempts, due : BOOLEAN, delivered : BOOLEAN, dead : BOOLEAN]

OutboxTypeOK ==
    /\ library \subseteq Papers
    /\ state \in [Papers -> Rows]
    /\ before \in [Papers -> Rows \ {"trash"}]
    /\ details \in [Papers -> {"none", "live", "retained"}]
    /\ events \in [Events -> Event]
    /\ recorded \in 0..MaxEvents
    /\ awaiting \subseteq Events
    /\ inbox \subseteq Events
    /\ read \in 0..MaxEvents
    /\ cards \subseteq Papers
    /\ pc \in [Deliverers -> Pcs]
    /\ batch \in [Deliverers -> SUBSET Events]
    /\ late \subseteq Events
    /\ requeues \in 0..MaxRequeues
    /\ aborts \in 0..MaxAborts

NewEvent(type, p) ==
    [type |-> type, paper |-> p, attempts |-> 0, due |-> TRUE,
     delivered |-> FALSE, dead |-> FALSE]
NoEvent == NewEvent("paper.read", NoPaper)

OutboxInit ==
    /\ library = Papers
    /\ state = [p \in Papers |-> "inbox"]
    /\ before = [p \in Papers |-> "none"]
    /\ details = [p \in Papers |-> "live"]
    /\ events = [e \in Events |-> NoEvent]
    /\ recorded = 0
    /\ awaiting = {} /\ inbox = {} /\ read = 0
    /\ cards = {}
    /\ pc = [d \in Deliverers |-> "idle"]
    /\ batch = [d \in Deliverers |-> {}]
    /\ late = {}
    /\ requeues = 0 /\ aborts = 0

-----------------------------------------------------------------------------
(* domain_events *)

Recorded == 1..recorded
Undelivered(e) == e \in Recorded /\ ~events[e].delivered
Active(e) == Undelivered(e) /\ ~events[e].dead
Deletion(e) == events[e].type = "paper.deleted"
ActiveDeletions(p) == {e \in Recorded : Deletion(e) /\ Active(e) /\ events[e].paper = p}

\* record_event: an active deletion of the paper absorbs another one.
Absorbed(type, p) == type = "paper.deleted" /\ ActiveDeletions(p) # {}
RecordEvent(type, p) ==
    \/ /\ Absorbed(type, p)
       /\ UNCHANGED <<events, recorded>>
    \/ /\ ~Absorbed(type, p)
       /\ recorded < MaxEvents
       /\ recorded' = recorded + 1
       /\ events' = [events EXCEPT ![recorded + 1] = NewEvent(type, p)]

\* The identifier record_event returns: whichever event of the kind is newest.
Newest(type, p) ==
    CHOOSE e \in 1..recorded' :
        /\ events'[e].type = type /\ events'[e].paper = p
        /\ \A f \in 1..recorded' :
               events'[f].type = type /\ events'[f].paper = p => f <= e

-----------------------------------------------------------------------------
(* deliver_pending_events *)

Due(e) == Active(e) /\ events[e].due
Limit(d) == IF d = Scheduler THEN BatchLimit ELSE 1

\* The event that a run is at: the oldest of the rows it has left.
Current(d) == CHOOSE e \in batch[d] : \A f \in batch[d] : e <= f

\* The rows are read once, oldest first; the connection is returned.
ReadBatch(d) ==
    /\ pc[d] = (IF d = Scheduler THEN "idle" ELSE "called")
    /\ LET due == {e \in Recorded : Due(e)} IN
       /\ d = Scheduler => due # {}
       /\ \E rows \in SUBSET due :
              /\ \A e \in rows, f \in due \ rows : e < f
              /\ rows = due \/ Cardinality(rows) = Limit(d)
              /\ Cardinality(rows) <= Limit(d)
              /\ batch' = [batch EXCEPT ![d] = rows]
    /\ pc' = [pc EXCEPT ![d] = "deliver"]
    /\ UNCHANGED <<shelfVars, researchVars, learningVars, late, budgetVars>>

Post(d) ==
    /\ pc[d] = "deliver" /\ batch[d] # {}
    /\ pc' = [pc EXCEPT ![d] = "waiting"]
    /\ UNCHANGED <<shelfVars, researchVars, learningVars, batch, late, budgetVars>>

\* No authorization from Platform, or no connection: nothing is sent.
Refused(d) ==
    /\ pc[d] = "deliver" /\ batch[d] # {}
    /\ pc' = [pc EXCEPT ![d] = "failed"]
    /\ UNCHANGED <<shelfVars, researchVars, learningVars, batch, late, budgetVars>>

\* Mutant: the inbox is not looked up.
ApplyAgain(e) ==
    /\ inbox' = inbox \cup {e}
    /\ read' = IF Deletion(e) \/ read = MaxEvents THEN read ELSE read + 1
    /\ cards' = IF Deletion(e) THEN cards \ {events[e].paper} ELSE cards

\* apply_command, in one transaction of Learning.
ApplyCommand(e) ==
    \/ e \in inbox /\ UNCHANGED learningVars
    \/ /\ e \notin inbox
       /\ inbox' = inbox \cup {e}
       /\ read' = IF Deletion(e) THEN read ELSE read + 1
       /\ cards' = IF Deletion(e) THEN cards \ {events[e].paper} ELSE cards

Answer(d) ==
    /\ pc[d] = "waiting"
    /\ ApplyCommand(Current(d))
    /\ pc' = [pc EXCEPT ![d] = "answered"]
    /\ UNCHANGED <<shelfVars, researchVars, batch, late, budgetVars>>

\* Mutant: a post that ran out of time counts as acknowledged.
TimeoutIsAnswer(d) ==
    /\ pc[d] = "waiting"
    /\ pc' = [pc EXCEPT ![d] = "answered"]
    /\ late' = late \cup {Current(d)}
    /\ UNCHANGED <<shelfVars, researchVars, learningVars, batch, budgetVars>>

\* The 10 seconds are over, or Learning answers with an error.  A post that
\* Learning has not rejected may still be applied.
Timeout(d) ==
    /\ pc[d] \in {"waiting", "answered"}
    /\ pc' = [pc EXCEPT ![d] = "failed"]
    /\ \/ UNCHANGED late
       \/ pc[d] = "waiting" /\ late' = late \cup {Current(d)}
    /\ UNCHANGED <<shelfVars, researchVars, learningVars, batch, budgetVars>>

ApplyLate(e) ==
    /\ e \in late
    /\ late' = late \ {e}
    /\ ApplyCommand(e)
    /\ UNCHANGED <<shelfVars, researchVars, pc, batch, budgetVars>>

EndEvent(d) ==
    /\ pc' = [pc EXCEPT ![d] = "deliver"]
    /\ batch' = [batch EXCEPT ![d] = @ \ {Current(d)}]

\* Mutant: a failure is not counted.
FailedUncounted(ev) == [ev EXCEPT !.due = FALSE, !.dead = ev.attempts + 1 >= MaxAttempts]

\* Mutant: the last attempt is off by one.
FailedOnceMore(ev) ==
    [ev EXCEPT !.attempts = @ + 1, !.due = FALSE, !.dead = ev.attempts >= MaxAttempts]

\* _mark_failure
Failed(ev) ==
    [ev EXCEPT !.attempts = @ + 1, !.due = FALSE, !.dead = ev.attempts + 1 >= MaxAttempts]
MarkFailure(d) ==
    /\ pc[d] = "failed"
    /\ LET e == Current(d) IN
       events' = IF Active(e) THEN [events EXCEPT ![e] = Failed(@)] ELSE events
    /\ EndEvent(d)
    /\ UNCHANGED <<shelfVars, recorded, awaiting, learningVars, late, budgetVars>>

\* _purge_acknowledged_deletion: the state row is one of the private rows.
Purge(e) ==
    LET p == events[e].paper IN
    IF e \in awaiting
    THEN /\ awaiting' = awaiting \ {e}
         /\ state' = [state EXCEPT ![p] = "none"]
         /\ before' = [before EXCEPT ![p] = "none"]
         /\ details' = [details EXCEPT ![p] = "none"]
    ELSE UNCHANGED <<awaiting, state, before, details>>

\* The transaction that follows an acknowledgement.
MarkDelivered(d) ==
    /\ pc[d] = "answered"
    /\ LET e == Current(d) IN
       /\ events' = [events EXCEPT ![e].delivered = TRUE]
       /\ IF Deletion(e) THEN Purge(e) ELSE UNCHANGED <<awaiting, state, before, details>>
    /\ EndEvent(d)
    /\ UNCHANGED <<library, recorded, learningVars, late, budgetVars>>

EndBatch(d) ==
    /\ pc[d] = "deliver" /\ batch[d] = {}
    /\ pc' = [pc EXCEPT ![d] = "idle"]
    /\ UNCHANGED <<shelfVars, researchVars, learningVars, batch, late, budgetVars>>

\* A restart of Research, or an error of the database that ends the run.  A
\* post that was not answered may still be applied.
Abort(d) ==
    /\ pc[d] # "idle" /\ aborts < MaxAborts
    /\ aborts' = aborts + 1
    /\ pc' = [pc EXCEPT ![d] = "idle"]
    /\ batch' = [batch EXCEPT ![d] = {}]
    /\ \/ UNCHANGED late
       \/ pc[d] = "waiting" /\ late' = late \cup {Current(d)}
    /\ UNCHANGED <<shelfVars, researchVars, learningVars, requeues>>

\* next_attempt_at is reached.
BecomeDue(e) ==
    /\ Active(e) /\ ~events[e].due
    /\ events' = [events EXCEPT ![e].due = TRUE]
    /\ UNCHANGED <<shelfVars, recorded, awaiting, learningVars, deliveryVars, budgetVars>>

\* Mutant: only an active sibling keeps a deletion from being requeued.
ActiveSibling(e, f) ==
    /\ f # e /\ Active(f) /\ Deletion(f)
    /\ events[f].paper = events[e].paper

\* requeue_dead_lettered_events: a deletion with an undelivered sibling stays.
Sibling(e, f) ==
    /\ f # e /\ Undelivered(f) /\ Deletion(f)
    /\ events[f].paper = events[e].paper
Requeueable(e) ==
    /\ Undelivered(e) /\ events[e].dead
    /\ Deletion(e) => \A f \in Recorded : ~Sibling(e, f)
Requeue ==
    /\ requeues < MaxRequeues
    /\ \E e \in Recorded : Requeueable(e)
    /\ requeues' = requeues + 1
    /\ events' = [e \in Events |->
           IF Requeueable(e)
           THEN [events[e] EXCEPT !.dead = FALSE, !.attempts = 0, !.due = TRUE]
           ELSE events[e]]
    /\ UNCHANGED <<shelfVars, recorded, awaiting, learningVars, deliveryVars, aborts>>

Deliver(d) ==
    \/ ReadBatch(d) \/ Post(d) \/ Refused(d) \/ Answer(d) \/ Timeout(d)
    \/ MarkFailure(d) \/ MarkDelivered(d) \/ EndBatch(d)

OutboxNext ==
    \/ \E d \in Deliverers : Deliver(d) \/ Abort(d)
    \/ \E e \in Events : ApplyLate(e) \/ BecomeDue(e)
    \/ Requeue
=============================================================================
