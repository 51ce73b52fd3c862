----------------------------- MODULE PaperShelf -----------------------------
(***************************************************************************)
(* The requests of an account's owner on the papers of the account, over   *)
(* the outbox of PaperOutbox.                                              *)
(*                                                                         *)
(* Each endpoint first reads whether the paper is visible and in which     *)
(* state it is, and writes in a later statement: no lock is held between   *)
(* the two, so another request of the owner may come in between.           *)
(***************************************************************************)
EXTENDS PaperOutbox

CONSTANTS
    Requests,    \* requests of the owner under way
    Public,      \* the papers whose visibility_scope is public
    MaxRequests  \* bound: requests admitted

ASSUME ShelfAssumption == Public \subseteq Papers /\ MaxRequests \in Nat

VARIABLES
    request,  \* what a request checked: [op, paper, seen]
    started   \* how many requests were admitted

vars == <<outboxVars, request, started>>

\* The states in which an endpoint goes on.
Allowed == [
    save        |-> {"inbox", "done", "to_read", "reading"},
    unsave      |-> {"to_read"},
    skip        |-> {"inbox"},
    reading     |-> {"to_read", "reading", "done"},
    done        |-> States,
    trash       |-> States,
    restore     |-> {"trash"},
    annotations |-> States,
    hard_delete |-> {"trash"}]
Ops == DOMAIN Allowed

\* The state that an endpoint writes whatever it finds.
Target == [save |-> "to_read", unsave |-> "inbox", skip |-> "done", done |-> "done"]

NoRequest == [op |-> "none", paper |-> NoPaper, seen |-> "none"]
Request == [op : Ops, paper : Papers, seen : States]

TypeOK ==
    /\ OutboxTypeOK
    /\ request \in [Requests -> Request \cup {NoRequest}]
    /\ started \in 0..MaxRequests

Init ==
    /\ OutboxInit
    /\ request = [r \in Requests |-> NoRequest]
    /\ started = 0

Visible(p) == p \in Public \/ p \in library
StateOf(p) == IF state[p] = "none" THEN "inbox" ELSE state[p]

\* assert_paper_ownership and assert_paper_in_states
Check(r, op, p) ==
    /\ request[r] = NoRequest /\ started < MaxRequests
    /\ Visible(p) /\ StateOf(p) \in Allowed[op]
    /\ request' = [request EXCEPT ![r] = [op |-> op, paper |-> p, seen |-> StateOf(p)]]
    /\ started' = started + 1
    /\ UNCHANGED outboxVars

Performs(r, op) ==
    /\ request[r].op = op
    /\ request' = [request EXCEPT ![r] = NoRequest]
    /\ UNCHANGED started

\* A request of the owner finds or makes the row; the purge is not its business.
WriteState(p, s) == state' = [state EXCEPT ![p] = s]

\* upsert_paper_state_v1, dynamic
SetState(r) == \E op \in DOMAIN Target :
    /\ Performs(r, op)
    /\ WriteState(request[r].paper, Target[op])
    /\ UNCHANGED <<library, before, details, researchVars, learningVars,
                   deliveryVars, budgetVars>>

\* reading_paper: the event belongs to the transaction, delivery follows it
\* unless the token cannot be read.
StartReading(r) ==
    /\ Performs(r, "reading")
    /\ WriteState(request[r].paper, "reading")
    /\ IF request[r].seen = "reading"
       THEN UNCHANGED <<events, recorded, pc>>
       ELSE /\ RecordEvent("paper.read", request[r].paper)
            /\ \/ UNCHANGED pc
               \/ \E h \in Handlers : pc[h] = "idle" /\ pc' = [pc EXCEPT ![h] = "called"]
    /\ UNCHANGED <<library, before, details, awaiting, learningVars, batch, late, budgetVars>>

\* trash_paper_v1
Trash(r) ==
    /\ Performs(r, "trash")
    /\ LET p == request[r].paper IN
       /\ WriteState(p, "trash")
       /\ before' = [before EXCEPT ![p] = IF state[p] = "trash" THEN @ ELSE StateOf(p)]
    /\ UNCHANGED <<library, details, researchVars, learningVars, deliveryVars, budgetVars>>

\* restore_paper_v1 does not look at the state again; without a row it is a 404.
Restore(r) ==
    /\ Performs(r, "restore")
    /\ LET p == request[r].paper IN
       IF state[p] = "none" THEN UNCHANGED <<state, before>>
       ELSE /\ WriteState(p, IF before[p] = "none" THEN "inbox" ELSE before[p])
            /\ before' = [before EXCEPT ![p] = "none"]
    /\ UNCHANGED <<library, details, researchVars, learningVars, deliveryVars, budgetVars>>

\* update_paper_feedback_v1
Annotate(r) ==
    /\ Performs(r, "annotations")
    /\ LET p == request[r].paper IN
       /\ WriteState(p, StateOf(p))
       /\ details' = [details EXCEPT ![p] = "live"]
    /\ UNCHANGED <<library, before, researchVars, learningVars, deliveryVars, budgetVars>>

\* _hard_delete_scoped: membership goes, private rows stay for the purge.
HardDelete(r) ==
    /\ Performs(r, "hard_delete")
    /\ LET p == request[r].paper IN
       /\ library' = library \ {p}
       /\ details' = [details EXCEPT ![p] = IF @ = "live" THEN "retained" ELSE @]
       /\ RecordEvent("paper.deleted", p)
       /\ awaiting' = awaiting \cup {Newest("paper.deleted", p)}
    /\ UNCHANGED <<state, before, learningVars, deliveryVars, budgetVars>>

\* search persists a result; the signed library command of Learning and the
\* citation graph end in add_to_library_v1 too.
AddToLibrary(p) ==
    /\ Visible(p) /\ p \notin library
    /\ library' = library \cup {p}
    /\ UNCHANGED <<state, before, details, researchVars, learningVars, deliveryVars,
                   budgetVars, request, started>>

\* Learning makes cards or links of a visible paper.
Project(p) ==
    /\ Visible(p) /\ p \notin cards
    /\ cards' = cards \cup {p}
    /\ UNCHANGED <<shelfVars, researchVars, inbox, read, deliveryVars, budgetVars,
                   request, started>>

\* A focus session ends: upsert_paper_state_v1, advance.
EndFocus(p) ==
    /\ Visible(p) /\ state[p] \in {"none", "inbox", "to_read"}
    /\ WriteState(p, "reading")
    /\ UNCHANGED <<library, before, details, researchVars, learningVars, deliveryVars,
                   budgetVars, request, started>>

Act(r) ==
    \/ SetState(r) \/ StartReading(r) \/ Trash(r) \/ Restore(r)
    \/ Annotate(r) \/ HardDelete(r)

Owner ==
    \/ \E r \in Requests : \/ \E op \in Ops, p \in Papers : Check(r, op, p)
                           \/ Act(r)
    \/ \E p \in Papers : AddToLibrary(p) \/ Project(p) \/ EndFocus(p)

Next == Owner \/ (OutboxNext /\ UNCHANGED <<request, started>>)

Spec == Init /\ [][Next]_vars

\* The scheduler runs every few seconds and its calls time out; a retry's time
\* comes.  Nothing is assumed of the owner, of Learning's answers, of handlers
\* or of the operator who requeues.
Fairness ==
    /\ WF_vars(Deliver(Scheduler) /\ UNCHANGED <<request, started>>)
    /\ \A e \in Events : WF_vars(BecomeDue(e) /\ UNCHANGED <<request, started>>)

FairSpec == Spec /\ Fairness

-----------------------------------------------------------------------------
(* Safety *)

\* daily_log counts an event of reading once, however often
\* deliver_pending_events posted it, it timed out, another run posted it again
\* or it was applied late (apply_command looks up the inbox).
ReadsCountedOnce == read = Cardinality({e \in inbox : ~Deletion(e)})

\* The partial unique index on active deletions: whatever the order of dead
\* letters, new deletions and requeues, requeue_dead_lettered_events never meets
\* a violation of it.
OneActiveDeletion == \A p \in Papers : Cardinality(ActiveDeletions(p)) <= 1

-----------------------------------------------------------------------------
(* Steps *)

PurgedBy(p, e) == e \in awaiting /\ Deletion(e) /\ events[e].paper = p

\* The private rows of a paper go only for a deletion of it that Learning has
\* applied (_purge_acknowledged_deletion, called by deliver_pending_events).
PurgedOnlyAcknowledged ==
    [][\A p \in Papers :
        (details[p] # "none" /\ details'[p] = "none")
            => \E e \in inbox : PurgedBy(p, e)]_vars

\* A late or repeated post of a deletion does not touch what was derived from
\* the paper since: cards go only when apply_command first applies their deletion.
CardsGoOncePerDeletion ==
    [][\A p \in Papers :
        p \in cards \ cards'
            => \E e \in inbox' \ inbox : Deletion(e) /\ events[e].paper = p]_vars

-----------------------------------------------------------------------------
(* Liveness *)

\* Every event is delivered in the end or is a dead letter (_mark_failure counts
\* the failures of every run).
EventsSettle == \A e \in Events : Active(e) ~> ~Active(e)

\* What a deletion retains (_hard_delete_scoped) goes in the end, unless the
\* deletion is a dead letter.
RetainedRowsGo ==
    \A p \in Papers : details[p] = "retained" ~>
        \/ details[p] # "retained"
        \/ \E e \in Recorded : Deletion(e) /\ events[e].paper = p /\ events[e].dead
=============================================================================
