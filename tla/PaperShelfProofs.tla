--------------------------- MODULE PaperShelfProofs ---------------------------
(***************************************************************************)
(* What PaperShelf and its outbox guarantee for any number of papers,      *)
(* events, deliverers and requests: type correctness, one active deletion  *)
(* per paper, reads counted once, rows purged only for a deletion that     *)
(* Learning applied, and cards dropped once per deletion.                  *)
(***************************************************************************)
EXTENDS PaperShelf, LeastElements, TLAPS

\* Groups of variables, expanded everywhere.
USE DEF outboxVars, shelfVars, researchVars, learningVars, deliveryVars, budgetVars, vars

-----------------------------------------------------------------------------
(* The invariants.                                                         *)

\* Only recorded events are posted, applied, awaited or left to apply late.
OnlyRecorded ==
    /\ inbox \subseteq Recorded /\ late \subseteq Recorded /\ awaiting \subseteq Recorded
    /\ \A d \in Deliverers : batch[d] \subseteq Recorded

\* An event that is still tried has attempts left.
AttemptsLeft == \A e \in Recorded : Active(e) => events[e].attempts < MaxAttempts

\* A run that posts an event has the event.
RunsHaveRows == \A d \in Deliverers : pc[d] \in {"waiting", "answered", "failed"} => batch[d] # {}

\* What a run takes for acknowledged has been applied.
AnsweredIsApplied == \A d \in Deliverers : pc[d] = "answered" => Current(d) \in inbox

\* Two active deletions of a paper are the same one.
ActiveDeletionsAgree ==
    \A e, f \in Recorded :
        Active(e) /\ Active(f) /\ Deletion(e) /\ Deletion(f) /\ events[e].paper = events[f].paper
            => e = f

ShelfInv ==
    /\ TypeOK /\ OnlyRecorded /\ AttemptsLeft /\ RunsHaveRows /\ AnsweredIsApplied
    /\ ActiveDeletionsAgree /\ ReadsCountedOnce

-----------------------------------------------------------------------------
(* Constants, and the event that a run is at.                              *)

LEMMA ConstantsAreTyped ==
    /\ MaxEvents \in Nat /\ MaxAttempts \in Nat \ {0} /\ MaxRequeues \in Nat /\ MaxAborts \in Nat
    /\ MaxRequests \in Nat
  BY OutboxAssumption, ShelfAssumption

\* A run that has rows left is at one of them.
LEMMA CurrentIsARow ==
    ASSUME TypeOK, NEW d \in Deliverers, batch[d] # {}
    PROVE  Current(d) \in batch[d] /\ Current(d) \in Events
<1>1. batch[d] \in SUBSET (1..MaxEvents)
  BY DEF TypeOK, OutboxTypeOK, Events
<1>2. \E e \in batch[d] : \A f \in batch[d] : e <= f
  BY <1>1, LeastExists, ConstantsAreTyped
<1>3. QED
  BY <1>1, <1>2 DEF Current, Events

-----------------------------------------------------------------------------
(* The recording of events.                                                *)

Kinds == {"paper.read", "paper.deleted"}

\* record_event keeps what is recorded, and the event asked for exists.
LEMMA RecordKeeps ==
    ASSUME TypeOK, NEW type \in Kinds, NEW p \in Papers, RecordEvent(type, p)
    PROVE  /\ events' \in [Events -> Event]
           /\ recorded' \in 0..MaxEvents /\ recorded <= recorded'
           /\ \A e \in Recorded : events'[e] = events[e]
           /\ \A e \in 1..recorded' : e \in Recorded \/ (e = recorded + 1 /\ events'[e] = NewEvent(type, p))
<1>1. events \in [Events -> Event] /\ recorded \in 0..MaxEvents
  BY DEF TypeOK, OutboxTypeOK
<1>2. NewEvent(type, p) \in Event
  BY ConstantsAreTyped DEF NewEvent, Event, Kinds
<1>3. CASE Absorbed(type, p) /\ UNCHANGED <<events, recorded>>
  BY <1>1, <1>3, ConstantsAreTyped DEF Recorded
<1>4. CASE /\ ~Absorbed(type, p) /\ recorded < MaxEvents /\ recorded' = recorded + 1
           /\ events' = [events EXCEPT ![recorded + 1] = NewEvent(type, p)]
  <2>1. recorded + 1 \in Events
    BY <1>1, <1>4, ConstantsAreTyped DEF Events
  <2>2. events' \in [Events -> Event] /\ recorded' \in 0..MaxEvents
    BY <1>1, <1>2, <1>4, <2>1, ConstantsAreTyped
  <2>3. \A e \in Recorded : e \in Events /\ e # recorded + 1
    BY <1>1, ConstantsAreTyped DEF Recorded, Events
  <2>4. QED
    BY <1>1, <1>4, <2>1, <2>2, <2>3, ConstantsAreTyped DEF Recorded
<1>5. QED
  BY <1>3, <1>4 DEF RecordEvent

LEMMA NewestExists ==
    ASSUME TypeOK, NEW p \in Papers, RecordEvent("paper.deleted", p)
    PROVE  /\ Newest("paper.deleted", p) \in 1..recorded'
           /\ events'[Newest("paper.deleted", p)].type = "paper.deleted"
           /\ events'[Newest("paper.deleted", p)].paper = p
<1> DEFINE S == {e \in 1..recorded' : events'[e].type = "paper.deleted" /\ events'[e].paper = p}
<1>1. recorded' \in Nat
  BY RecordKeeps, ConstantsAreTyped DEF Kinds
<1>2. S # {}
  <2>1. CASE Absorbed("paper.deleted", p) /\ UNCHANGED <<events, recorded>>
    BY <2>1 DEF Absorbed, ActiveDeletions, Deletion, Recorded
  <2>2. CASE /\ recorded < MaxEvents /\ recorded' = recorded + 1
             /\ events' = [events EXCEPT ![recorded + 1] = NewEvent("paper.deleted", p)]
    <3>1. recorded + 1 \in Events /\ events \in [Events -> Event] /\ recorded \in Nat
      BY <2>2, ConstantsAreTyped DEF TypeOK, OutboxTypeOK, Events
    <3>2. recorded + 1 \in S
      BY <2>2, <3>1 DEF NewEvent
    <3>3. QED
      BY <3>2
  <2>3. QED
    BY <2>1, <2>2 DEF RecordEvent
<1>3. \E e \in S : \A f \in S : f <= e
  <2>1. S \in SUBSET (1..recorded')
    OBVIOUS
  <2> HIDE DEF S
  <2>2. QED
    BY <1>1, <1>2, <2>1, GreatestExists
<1>4. QED
  BY <1>3 DEF Newest

-----------------------------------------------------------------------------
(* Types.                                                                  *)

\* A request that acts has checked a paper.
LEMMA PerformsType ==
    ASSUME TypeOK, NEW r \in Requests, NEW op, op # "none", Performs(r, op)
    PROVE  /\ request' \in [Requests -> Request \cup {NoRequest}] /\ started' \in 0..MaxRequests
           /\ request[r].paper \in Papers /\ request[r].seen \in States
<1>1. request[r] \in Request \cup {NoRequest} /\ request[r] # NoRequest
  BY DEF TypeOK, Performs, NoRequest
<1>2. request[r].paper \in Papers /\ request[r].seen \in States
  BY <1>1 DEF Request
<1>3. QED
  BY <1>2 DEF TypeOK, Performs

\* The states that a request may write.
LEMMA WritesType ==
    ASSUME TypeOK, NEW p \in Papers, NEW s \in States, WriteState(p, s)
    PROVE  state' \in [Papers -> Rows]
  BY DEF TypeOK, OutboxTypeOK, WriteState, Rows

LEMMA StateOfType ==
    ASSUME TypeOK, NEW p \in Papers
    PROVE  StateOf(p) \in States /\ (state[p] # "trash" => StateOf(p) # "trash")
  BY DEF TypeOK, OutboxTypeOK, StateOf, Rows, States

\* What a request of the owner writes keeps the types.
LEMMA OwnerType ==
    ASSUME TypeOK, Owner
    PROVE  TypeOK'
<1>1. ASSUME NEW r \in Requests, NEW op \in Ops, NEW p \in Papers, Check(r, op, p)
      PROVE  TypeOK'
  <2>1. [op |-> op, paper |-> p, seen |-> StateOf(p)] \in Request
    BY StateOfType DEF Request
  <2>2. request' \in [Requests -> Request \cup {NoRequest}] /\ started' \in 0..MaxRequests
    BY <1>1, <2>1, ConstantsAreTyped DEF TypeOK, Check
  <2>3. QED
    BY <1>1, <2>2 DEF TypeOK, OutboxTypeOK, Check
<1>2. ASSUME NEW r \in Requests, SetState(r)
      PROVE  TypeOK'
  <2>1. PICK op \in DOMAIN Target :
            Performs(r, op) /\ WriteState(request[r].paper, Target[op])
    BY <1>2 DEF SetState
  <2>2. Target[op] \in States /\ op # "none"
    BY DEF Target, States
  <2>3. state' \in [Papers -> Rows]
    BY <2>1, <2>2, PerformsType, WritesType
  <2>4. QED
    BY <1>2, <2>1, <2>2, <2>3, PerformsType DEF TypeOK, OutboxTypeOK, SetState
<1>3. ASSUME NEW r \in Requests, StartReading(r)
      PROVE  TypeOK'
  <2>1. Performs(r, "reading") /\ request[r].paper \in Papers
    BY <1>3, PerformsType DEF StartReading
  <2>2. state' \in [Papers -> Rows]
    BY <1>3, <2>1, WritesType DEF StartReading, States
  <2>3. events' \in [Events -> Event] /\ recorded' \in 0..MaxEvents
    <3>1. CASE UNCHANGED <<events, recorded>>
      BY <3>1 DEF TypeOK, OutboxTypeOK
    <3>2. CASE RecordEvent("paper.read", request[r].paper)
      BY <2>1, <3>2, RecordKeeps DEF Kinds
    <3>3. QED
      BY <1>3, <3>1, <3>2 DEF StartReading
  <2>4. pc' \in [Deliverers -> Pcs]
    BY <1>3 DEF StartReading, TypeOK, OutboxTypeOK, Pcs
  <2>5. QED
    BY <1>3, <2>1, <2>2, <2>3, <2>4, PerformsType DEF TypeOK, OutboxTypeOK, StartReading
<1>4. ASSUME NEW r \in Requests, Trash(r)
      PROVE  TypeOK'
  <2>1. Performs(r, "trash") /\ request[r].paper \in Papers
    BY <1>4, PerformsType DEF Trash
  <2>2. state' \in [Papers -> Rows]
    BY <1>4, <2>1, WritesType DEF Trash, States
  <2>3. before' \in [Papers -> Rows \ {"trash"}]
    BY <1>4, <2>1, StateOfType DEF Trash, TypeOK, OutboxTypeOK, Rows
  <2>4. QED
    BY <1>4, <2>1, <2>2, <2>3, PerformsType DEF TypeOK, OutboxTypeOK, Trash
<1>5. ASSUME NEW r \in Requests, Restore(r)
      PROVE  TypeOK'
  <2>1. Performs(r, "restore") /\ request[r].paper \in Papers
    BY <1>5, PerformsType DEF Restore
  <2>2. before[request[r].paper] = "none" \/ before[request[r].paper] \in States
    BY <2>1 DEF TypeOK, OutboxTypeOK, Rows
  <2>3. state' \in [Papers -> Rows]
    BY <1>5, <2>1, <2>2 DEF Restore, TypeOK, OutboxTypeOK, WriteState, Rows, States
  <2>4. before' \in [Papers -> Rows \ {"trash"}]
    BY <1>5 DEF Restore, TypeOK, OutboxTypeOK, Rows, States
  <2>5. QED
    BY <1>5, <2>1, <2>3, <2>4, PerformsType DEF TypeOK, OutboxTypeOK, Restore
<1>6. ASSUME NEW r \in Requests, Annotate(r)
      PROVE  TypeOK'
  <2>1. Performs(r, "annotations") /\ request[r].paper \in Papers
    BY <1>6, PerformsType DEF Annotate
  <2>2. state' \in [Papers -> Rows]
    BY <1>6, <2>1, WritesType, StateOfType DEF Annotate
  <2>3. details' \in [Papers -> {"none", "live", "retained"}]
    BY <1>6 DEF Annotate, TypeOK, OutboxTypeOK
  <2>4. QED
    BY <1>6, <2>1, <2>2, <2>3, PerformsType DEF TypeOK, OutboxTypeOK, Annotate
<1>7. ASSUME NEW r \in Requests, HardDelete(r)
      PROVE  TypeOK'
  <2>1. /\ Performs(r, "hard_delete") /\ request[r].paper \in Papers
        /\ RecordEvent("paper.deleted", request[r].paper)
    BY <1>7, PerformsType DEF HardDelete
  <2>2. events' \in [Events -> Event] /\ recorded' \in 0..MaxEvents
    BY <2>1, RecordKeeps DEF Kinds
  <2>3. awaiting' \subseteq Events
    <3>1. Newest("paper.deleted", request[r].paper) \in 1..recorded'
      BY <2>1, NewestExists
    <3>2. 1..recorded' \subseteq Events
      BY <2>2, ConstantsAreTyped DEF Events
    <3>3. QED
      BY <1>7, <3>1, <3>2 DEF HardDelete, TypeOK, OutboxTypeOK
  <2>4. details' \in [Papers -> {"none", "live", "retained"}] /\ library' \subseteq Papers
    BY <1>7 DEF HardDelete, TypeOK, OutboxTypeOK
  <2>5. QED
    BY <1>7, <2>1, <2>2, <2>3, <2>4, PerformsType DEF TypeOK, OutboxTypeOK, HardDelete
<1>8. ASSUME NEW p \in Papers, AddToLibrary(p) \/ Project(p) \/ EndFocus(p)
      PROVE  TypeOK'
  BY <1>8 DEF AddToLibrary, Project, EndFocus, WriteState, TypeOK, OutboxTypeOK, Rows, States
<1>9. QED
  BY <1>1, <1>2, <1>3, <1>4, <1>5, <1>6, <1>7, <1>8 DEF Owner, Act

\* Learning counts an event of reading that it has not applied, and there is
\* room for it: no more events are counted than exist.
LEMMA Counted ==
    ASSUME TypeOK, ReadsCountedOnce, NEW e \in Events \ inbox, ~Deletion(e)
    PROVE  /\ read + 1 = Cardinality({f \in inbox \cup {e} : ~Deletion(f)})
           /\ read + 1 \in 0..MaxEvents
<1> DEFINE Reads == {f \in inbox : ~Deletion(f)}
<1>1. IsFiniteSet(Events) /\ Cardinality(Events) = MaxEvents
  BY FS_Interval, ConstantsAreTyped DEF Events
<1>2. Reads \subseteq Events /\ Reads \cup {e} \subseteq Events /\ e \notin Reads
  BY DEF TypeOK, OutboxTypeOK
<1>3. IsFiniteSet(Reads) /\ Cardinality(Reads \cup {e}) <= MaxEvents
  BY <1>1, <1>2, FS_Subset
<1>4. Cardinality(Reads \cup {e}) = read + 1
  BY <1>2, <1>3, FS_AddElement DEF ReadsCountedOnce
<1>5. {f \in inbox \cup {e} : ~Deletion(f)} = Reads \cup {e}
  OBVIOUS
<1>6. read \in Nat
  BY ConstantsAreTyped DEF TypeOK, OutboxTypeOK
<1>7. QED
  BY <1>3, <1>4, <1>5, <1>6, ConstantsAreTyped

LEMMA ApplyType ==
    ASSUME TypeOK, ReadsCountedOnce, NEW e \in Events, ApplyCommand(e)
    PROVE  inbox' \subseteq Events /\ read' \in 0..MaxEvents /\ cards' \subseteq Papers
  BY Counted DEF ApplyCommand, TypeOK, OutboxTypeOK

\* The outcome of a post keeps the types of the events.
LEMMA EventsType ==
    ASSUME TypeOK, NEW e \in Events
    PROVE  /\ Active(e) /\ AttemptsLeft => Failed(events[e]) \in Event
           /\ [events[e] EXCEPT !.delivered = TRUE] \in Event
           /\ [events[e] EXCEPT !.due = TRUE] \in Event
           /\ [events[e] EXCEPT !.dead = FALSE, !.attempts = 0, !.due = TRUE] \in Event
<1>1. events[e] \in Event
  BY DEF TypeOK, OutboxTypeOK
<1>2. Active(e) /\ AttemptsLeft => events[e].attempts + 1 \in 0..MaxAttempts
  BY <1>1, ConstantsAreTyped DEF Event, AttemptsLeft, Active, Undelivered
<1>3. (events[e].attempts + 1 >= MaxAttempts) \in BOOLEAN
  OBVIOUS
<1>4. Active(e) /\ AttemptsLeft => Failed(events[e]) \in Event
  BY <1>1, <1>2, <1>3 DEF Event, Failed
<1>5. 0 \in 0..MaxAttempts
  BY ConstantsAreTyped
<1>6. QED
  BY <1>1, <1>4, <1>5 DEF Event

\* The end of a run's work on an event.
LEMMA EndEventType ==
    ASSUME TypeOK, NEW d \in Deliverers, EndEvent(d)
    PROVE  pc' \in [Deliverers -> Pcs] /\ batch' \in [Deliverers -> SUBSET Events]
  BY DEF TypeOK, OutboxTypeOK, EndEvent, Pcs

LEMMA PurgeType ==
    ASSUME TypeOK, NEW e \in Events, Purge(e)
    PROVE  /\ state' \in [Papers -> Rows] /\ before' \in [Papers -> Rows \ {"trash"}]
           /\ details' \in [Papers -> {"none", "live", "retained"}] /\ awaiting' \subseteq Events
  BY DEF TypeOK, OutboxTypeOK, Purge, Rows, States

LEMMA DeliverType ==
    ASSUME TypeOK, ShelfInv, NEW d \in Deliverers, Deliver(d) \/ Abort(d),
           UNCHANGED <<request, started>>
    PROVE  TypeOK'
<1> USE DEF ShelfInv
<1>1. CASE ReadBatch(d)
  <2>1. Recorded \subseteq Events
    BY ConstantsAreTyped DEF TypeOK, OutboxTypeOK, Recorded, Events
  <2>2. pc' \in [Deliverers -> Pcs]
    BY <1>1 DEF ReadBatch, TypeOK, OutboxTypeOK, Pcs
  <2>3. PICK rows \in SUBSET Recorded : batch' = [batch EXCEPT ![d] = rows]
    BY <1>1 DEF ReadBatch
  <2>4. batch' \in [Deliverers -> SUBSET Events]
    BY <2>1, <2>3 DEF TypeOK, OutboxTypeOK
  <2>5. QED
    BY <1>1, <2>2, <2>4 DEF ReadBatch, TypeOK, OutboxTypeOK
<1>2. CASE Post(d) \/ Refused(d) \/ EndBatch(d)
  <2>1. pc' \in [Deliverers -> Pcs]
    BY <1>2 DEF Post, Refused, EndBatch, TypeOK, OutboxTypeOK, Pcs
  <2>2. QED
    BY <1>2, <2>1 DEF Post, Refused, EndBatch, TypeOK, OutboxTypeOK
<1>3. CASE Answer(d)
  <2>1. pc' \in [Deliverers -> Pcs] /\ Current(d) \in Events
    BY <1>3, CurrentIsARow DEF Answer, RunsHaveRows, TypeOK, OutboxTypeOK, Pcs
  <2>2. inbox' \subseteq Events /\ read' \in 0..MaxEvents /\ cards' \subseteq Papers
    BY <1>3, <2>1, ApplyType DEF Answer
  <2>3. QED
    BY <1>3, <2>1, <2>2 DEF Answer, TypeOK, OutboxTypeOK
<1>4. CASE Timeout(d)
  <2>1. pc' \in [Deliverers -> Pcs]
    BY <1>4 DEF Timeout, TypeOK, OutboxTypeOK, Pcs
  <2>2. late' \subseteq Events
    BY <1>4, CurrentIsARow DEF Timeout, RunsHaveRows, TypeOK, OutboxTypeOK
  <2>3. QED
    BY <1>4, <2>1, <2>2 DEF Timeout, TypeOK, OutboxTypeOK
<1>5. CASE MarkFailure(d)
  <2>1. Current(d) \in Events
    BY <1>5, CurrentIsARow DEF MarkFailure, RunsHaveRows
  <2>2. events' \in [Events -> Event]
    BY <1>5, <2>1, EventsType DEF MarkFailure, TypeOK, OutboxTypeOK
  <2>3. pc' \in [Deliverers -> Pcs] /\ batch' \in [Deliverers -> SUBSET Events]
    BY <1>5, EndEventType DEF MarkFailure
  <2>4. QED
    BY <1>5, <2>2, <2>3 DEF MarkFailure, TypeOK, OutboxTypeOK
<1>6. CASE MarkDelivered(d)
  <2>1. Current(d) \in Events
    BY <1>6, CurrentIsARow DEF MarkDelivered, RunsHaveRows
  <2>2. events' \in [Events -> Event]
    BY <1>6, <2>1, EventsType DEF MarkDelivered, TypeOK, OutboxTypeOK
  <2>3. pc' \in [Deliverers -> Pcs] /\ batch' \in [Deliverers -> SUBSET Events]
    BY <1>6, EndEventType DEF MarkDelivered
  <2>4. /\ state' \in [Papers -> Rows] /\ before' \in [Papers -> Rows \ {"trash"}]
        /\ details' \in [Papers -> {"none", "live", "retained"}] /\ awaiting' \subseteq Events
    <3>1. CASE Purge(Current(d))
      BY <2>1, <3>1, PurgeType
    <3>2. CASE UNCHANGED <<awaiting, state, before, details>>
      BY <3>2 DEF TypeOK, OutboxTypeOK
    <3>3. QED
      BY <1>6, <3>1, <3>2 DEF MarkDelivered
  <2>5. QED
    BY <1>6, <2>2, <2>3, <2>4 DEF MarkDelivered, TypeOK, OutboxTypeOK
<1>7. CASE Abort(d)
  <2>1. /\ pc' \in [Deliverers -> Pcs] /\ batch' \in [Deliverers -> SUBSET Events]
        /\ aborts' \in 0..MaxAborts
    BY <1>7, ConstantsAreTyped DEF Abort, TypeOK, OutboxTypeOK, Pcs
  <2>2. late' \subseteq Events
    BY <1>7, CurrentIsARow DEF Abort, RunsHaveRows, TypeOK, OutboxTypeOK
  <2>3. QED
    BY <1>7, <2>1, <2>2 DEF Abort, TypeOK, OutboxTypeOK
<1>8. QED
  BY <1>1, <1>2, <1>3, <1>4, <1>5, <1>6, <1>7 DEF Deliver

LEMMA TypeIsKept ==
    ASSUME ShelfInv, [Next]_vars
    PROVE  TypeOK'
<1> USE DEF ShelfInv
<1>1. CASE Owner
  BY <1>1, OwnerType
<1>2. ASSUME NEW d \in Deliverers, Deliver(d) \/ Abort(d), UNCHANGED <<request, started>>
      PROVE  TypeOK'
  BY <1>2, DeliverType
<1>3. ASSUME NEW e \in Events, ApplyLate(e), UNCHANGED <<request, started>>
      PROVE  TypeOK'
  <2>1. inbox' \subseteq Events /\ read' \in 0..MaxEvents /\ cards' \subseteq Papers
    BY <1>3, ApplyType DEF ApplyLate
  <2>2. QED
    BY <1>3, <2>1 DEF ApplyLate, TypeOK, OutboxTypeOK
<1>4. ASSUME NEW e \in Events, BecomeDue(e), UNCHANGED <<request, started>>
      PROVE  TypeOK'
  <2>1. events' \in [Events -> Event]
    BY <1>4, EventsType DEF BecomeDue, TypeOK, OutboxTypeOK
  <2>2. QED
    BY <1>4, <2>1 DEF BecomeDue, TypeOK, OutboxTypeOK
<1>5. CASE Requeue /\ UNCHANGED <<request, started>>
  <2>1. events' \in [Events -> Event]
    <3>1. \A e \in Events :
              /\ events[e] \in Event
              /\ [events[e] EXCEPT !.dead = FALSE, !.attempts = 0, !.due = TRUE] \in Event
      BY EventsType DEF TypeOK, OutboxTypeOK
    <3>2. QED
      BY <1>5, <3>1 DEF Requeue
  <2>2. requeues' \in 0..MaxRequeues
    <3>1. requeues \in 0..MaxRequeues
      BY DEF TypeOK, OutboxTypeOK
    <3>2. requeues < MaxRequeues /\ requeues' = requeues + 1
      BY <1>5 DEF Requeue
    <3>3. QED
      BY <3>1, <3>2, ConstantsAreTyped
  <2>3. QED
    BY <1>5, <2>1, <2>2 DEF Requeue, TypeOK, OutboxTypeOK
<1>6. CASE UNCHANGED vars
  BY <1>6 DEF TypeOK, OutboxTypeOK
<1>7. QED
  BY <1>1, <1>2, <1>3, <1>4, <1>5, <1>6 DEF Next, OutboxNext

-----------------------------------------------------------------------------
(* What a step does to the events, and to the inbox.                       *)

Only(e, ev) == events' = [events EXCEPT ![e] = ev] /\ recorded' = recorded

\* A step leaves the events alone, records one, settles or reopens one, or
\* requeues the dead letters.
LEMMA EventSteps ==
    ASSUME ShelfInv, [Next]_vars
    PROVE  \/ UNCHANGED <<events, recorded>>
           \/ \E type \in Kinds, p \in Papers : RecordEvent(type, p)
           \/ \E e \in Recorded : Active(e) /\ Only(e, Failed(events[e]))
           \/ \E e \in Recorded : Only(e, [events[e] EXCEPT !.delivered = TRUE])
           \/ \E e \in Recorded : Active(e) /\ Only(e, [events[e] EXCEPT !.due = TRUE])
           \/ Requeue
<1> USE DEF ShelfInv
<1>1. CASE \E r \in Requests : \/ \E op \in Ops, p \in Papers : Check(r, op, p)
                               \/ SetState(r) \/ Trash(r) \/ Restore(r) \/ Annotate(r)
  BY <1>1 DEF Check, SetState, Trash, Restore, Annotate
<1>2. ASSUME NEW r \in Requests, StartReading(r)
      PROVE  UNCHANGED <<events, recorded>> \/ RecordEvent("paper.read", request[r].paper)
  BY <1>2 DEF StartReading
<1>3. ASSUME NEW r \in Requests, HardDelete(r)
      PROVE  RecordEvent("paper.deleted", request[r].paper)
  BY <1>3 DEF HardDelete
<1>4. ASSUME NEW r \in Requests, StartReading(r) \/ HardDelete(r)
      PROVE  request[r].paper \in Papers
  BY <1>4, PerformsType DEF StartReading, HardDelete
<1>5. CASE \E p \in Papers : AddToLibrary(p) \/ Project(p) \/ EndFocus(p)
  BY <1>5 DEF AddToLibrary, Project, EndFocus
<1>6. CASE \E d \in Deliverers :
              \/ ReadBatch(d) \/ Post(d) \/ Refused(d) \/ Answer(d) \/ Timeout(d)
              \/ EndBatch(d) \/ Abort(d)
  BY <1>6 DEF ReadBatch, Post, Refused, Answer, Timeout, EndBatch, Abort
<1>7. ASSUME NEW d \in Deliverers, MarkFailure(d)
      PROVE  \/ UNCHANGED <<events, recorded>>
             \/ Active(Current(d)) /\ Only(Current(d), Failed(events[Current(d)]))
  BY <1>7 DEF MarkFailure, Only
<1>8. ASSUME NEW d \in Deliverers, MarkDelivered(d)
      PROVE  Only(Current(d), [events[Current(d)] EXCEPT !.delivered = TRUE])
  BY <1>8 DEF MarkDelivered, Only
<1>9. ASSUME NEW d \in Deliverers, MarkFailure(d) \/ MarkDelivered(d)
      PROVE  Current(d) \in Recorded
  BY <1>9, CurrentIsARow DEF MarkFailure, MarkDelivered, RunsHaveRows, OnlyRecorded
<1>10. ASSUME NEW e \in Events, BecomeDue(e)
       PROVE  e \in Recorded /\ Active(e) /\ Only(e, [events[e] EXCEPT !.due = TRUE])
  BY <1>10 DEF BecomeDue, Only, Active, Undelivered
<1>11. CASE (\E e \in Events : ApplyLate(e)) \/ UNCHANGED vars
  BY <1>11 DEF ApplyLate
<1>12. QED
  BY <1>1, <1>2, <1>3, <1>4, <1>5, <1>6, <1>7, <1>8, <1>9, <1>10, <1>11
     DEF Next, Owner, Act, OutboxNext, Deliver, Kinds

\* record_event gives a number once: the type and the paper of an event stay.
LEMMA EventsAreKept ==
    ASSUME ShelfInv, [Next]_vars
    PROVE  \A e \in Recorded :
               /\ e \in Recorded'
               /\ events'[e].type = events[e].type /\ events'[e].paper = events[e].paper
<1>1. /\ events \in [Events -> Event] /\ recorded \in 0..MaxEvents /\ Recorded \subseteq Events
      /\ \A e \in Events : events[e] \in Event
  BY ConstantsAreTyped DEF ShelfInv, TypeOK, OutboxTypeOK, Recorded, Events
<1>2. CASE UNCHANGED <<events, recorded>>
  BY <1>2 DEF Recorded
<1>3. ASSUME NEW type \in Kinds, NEW p \in Papers, RecordEvent(type, p)
      PROVE  \A e \in Recorded : e \in Recorded' /\ events'[e] = events[e]
  BY <1>1, <1>3, RecordKeeps, ConstantsAreTyped DEF ShelfInv, Recorded
<1>4. ASSUME NEW e \in Recorded, NEW ev, Only(e, ev),
             ev.type = events[e].type, ev.paper = events[e].paper
      PROVE  \A f \in Recorded :
                 /\ f \in Recorded'
                 /\ events'[f].type = events[f].type /\ events'[f].paper = events[f].paper
  BY <1>1, <1>4 DEF Only, Recorded
<1>5. \A e \in Recorded :
          /\ Failed(events[e]).type = events[e].type
          /\ Failed(events[e]).paper = events[e].paper
          /\ [events[e] EXCEPT !.delivered = TRUE].type = events[e].type
          /\ [events[e] EXCEPT !.delivered = TRUE].paper = events[e].paper
          /\ [events[e] EXCEPT !.due = TRUE].type = events[e].type
          /\ [events[e] EXCEPT !.due = TRUE].paper = events[e].paper
  BY <1>1 DEF Failed, Event
<1>6. CASE Requeue
  BY <1>1, <1>6 DEF Requeue, Recorded, Event
<1>7. QED
  BY <1>2, <1>3, <1>4, <1>5, <1>6, EventSteps

\* Learning applies a recorded event, or the inbox stays.
LEMMA InboxSteps ==
    ASSUME ShelfInv, [Next]_vars
    PROVE  \/ UNCHANGED <<inbox, read>> /\ cards \subseteq cards'
           \/ \E e \in Recorded : ApplyCommand(e)
<1> USE DEF ShelfInv
<1>1. CASE Owner
  BY <1>1 DEF Owner, Act, Check, SetState, StartReading, Trash, Restore, Annotate, HardDelete,
              AddToLibrary, Project, EndFocus
<1>2. ASSUME NEW d \in Deliverers, Answer(d)
      PROVE  Current(d) \in Recorded /\ ApplyCommand(Current(d))
  BY <1>2, CurrentIsARow DEF Answer, RunsHaveRows, OnlyRecorded
<1>3. ASSUME NEW e \in Events, ApplyLate(e)
      PROVE  e \in Recorded /\ ApplyCommand(e)
  BY <1>3 DEF ApplyLate, OnlyRecorded
<1>4. CASE \E d \in Deliverers :
              \/ ReadBatch(d) \/ Post(d) \/ Refused(d) \/ Timeout(d)
              \/ EndBatch(d) \/ Abort(d) \/ MarkFailure(d) \/ MarkDelivered(d)
  BY <1>4 DEF ReadBatch, Post, Refused, Timeout, EndBatch, Abort, MarkFailure, MarkDelivered
<1>5. CASE (\E e \in Events : BecomeDue(e)) \/ Requeue \/ UNCHANGED vars
  BY <1>5 DEF BecomeDue, Requeue
<1>6. QED
  BY <1>1, <1>2, <1>3, <1>4, <1>5 DEF Next, OutboxNext, Deliver

-----------------------------------------------------------------------------
(* Each part of the invariant is kept.                                     *)

LEMMA OnlyRecordedIsKept ==
    ASSUME ShelfInv, [Next]_vars
    PROVE  OnlyRecorded'
<1> USE DEF ShelfInv
<1>1. Recorded \subseteq Recorded'
  BY EventsAreKept
<1>2. inbox' \subseteq Recorded'
  BY <1>1, InboxSteps DEF OnlyRecorded, ApplyCommand
<1>3. late' \subseteq Recorded' /\ \A d \in Deliverers : batch'[d] \subseteq Recorded'
  <2>1. CASE UNCHANGED <<late, batch>>
    BY <1>1, <2>1 DEF OnlyRecorded
  <2>2. ASSUME NEW d \in Deliverers, ReadBatch(d)
        PROVE  late' \subseteq Recorded' /\ \A c \in Deliverers : batch'[c] \subseteq Recorded'
    <3>1. PICK rows \in SUBSET Recorded : batch' = [batch EXCEPT ![d] = rows]
      BY <2>2 DEF ReadBatch
    <3>2. QED
      BY <1>1, <2>2, <3>1 DEF ReadBatch, OnlyRecorded, TypeOK, OutboxTypeOK
  <2>3. ASSUME NEW d \in Deliverers, Timeout(d) \/ Abort(d)
        PROVE  late' \subseteq Recorded' /\ \A c \in Deliverers : batch'[c] \subseteq Recorded'
    <3>1. pc[d] = "waiting" => Current(d) \in Recorded
      BY CurrentIsARow DEF RunsHaveRows, OnlyRecorded
    <3>2. QED
      BY <1>1, <2>3, <3>1 DEF Timeout, Abort, OnlyRecorded, TypeOK, OutboxTypeOK
  <2>4. ASSUME NEW d \in Deliverers, MarkFailure(d) \/ MarkDelivered(d)
        PROVE  late' \subseteq Recorded' /\ \A c \in Deliverers : batch'[c] \subseteq Recorded'
    BY <1>1, <2>4 DEF MarkFailure, MarkDelivered, EndEvent, OnlyRecorded, TypeOK, OutboxTypeOK
  <2>5. CASE \E e \in Events : ApplyLate(e)
    BY <1>1, <2>5 DEF ApplyLate, OnlyRecorded
  <2>6. CASE Owner \/ Requeue \/ \E e \in Events : BecomeDue(e)
    <3>1. UNCHANGED <<late, batch>>
      BY <2>6 DEF Owner, Act, Check, SetState, StartReading, Trash, Restore, Annotate, HardDelete,
                  AddToLibrary, Project, EndFocus, Requeue, BecomeDue
    <3>2. QED
      BY <2>1, <3>1
  <2>7. CASE \E d \in Deliverers : Post(d) \/ Refused(d) \/ Answer(d) \/ EndBatch(d)
    <3>1. UNCHANGED <<late, batch>>
      BY <2>7 DEF Post, Refused, Answer, EndBatch
    <3>2. QED
      BY <2>1, <3>1
  <2>8. QED
    BY <2>1, <2>2, <2>3, <2>4, <2>5, <2>6, <2>7 DEF Next, OutboxNext, Deliver
<1>4. awaiting' \subseteq Recorded'
  <2>1. CASE awaiting' \subseteq awaiting
    BY <1>1, <2>1 DEF OnlyRecorded
  <2>2. ASSUME NEW r \in Requests, HardDelete(r)
        PROVE  awaiting' \subseteq Recorded'
    <3>1. request[r].paper \in Papers /\ RecordEvent("paper.deleted", request[r].paper)
      BY <2>2, PerformsType DEF HardDelete
    <3>2. Newest("paper.deleted", request[r].paper) \in Recorded'
      BY <3>1, NewestExists DEF Recorded
    <3>3. QED
      BY <1>1, <2>2, <3>2 DEF HardDelete, OnlyRecorded
  <2>3. CASE \E r \in Requests : \/ \E op \in Ops, p \in Papers : Check(r, op, p)
                                 \/ SetState(r) \/ StartReading(r) \/ Trash(r) \/ Restore(r)
                                 \/ Annotate(r)
    BY <2>1, <2>3 DEF Check, SetState, StartReading, Trash, Restore, Annotate
  <2>4. CASE \E p \in Papers : AddToLibrary(p) \/ Project(p) \/ EndFocus(p)
    BY <2>1, <2>4 DEF AddToLibrary, Project, EndFocus
  <2>5. CASE \E d \in Deliverers : Deliver(d) \/ Abort(d)
    BY <2>1, <2>5 DEF Deliver, ReadBatch, Post, Refused, Answer, Timeout, MarkFailure,
                      MarkDelivered, Purge, EndBatch, Abort
  <2>6. CASE Requeue \/ (\E e \in Events : ApplyLate(e) \/ BecomeDue(e)) \/ UNCHANGED vars
    BY <2>1, <2>6 DEF Requeue, ApplyLate, BecomeDue
  <2>7. QED
    BY <2>2, <2>3, <2>4, <2>5, <2>6 DEF Next, Owner, Act, OutboxNext
<1>5. QED
  BY <1>2, <1>3, <1>4 DEF OnlyRecorded

\* A run goes on with the rows it has, until it ends the work on one.
LEMMA RunsHaveRowsIsKept ==
    ASSUME ShelfInv, [Next]_vars
    PROVE  RunsHaveRows' /\ AnsweredIsApplied'
<1> USE DEF ShelfInv
<1> DEFINE Posting(d) == pc[d] \in {"waiting", "answered", "failed"}
           Fine(d) == /\ Posting(d) => batch[d] # {}
                      /\ pc[d] = "answered" => Current(d) \in inbox
<1>1. inbox \subseteq inbox'
  BY InboxSteps DEF ApplyCommand
<1>2. \A d \in Deliverers : batch'[d] = batch[d] => Current(d)' = Current(d)
  BY DEF Current
<1>3. SUFFICES ASSUME NEW d \in Deliverers PROVE Fine(d)'
  BY DEF RunsHaveRows, AnsweredIsApplied
<1>4. Fine(d)
  BY DEF RunsHaveRows, AnsweredIsApplied
<1>5. CASE pc'[d] = pc[d] /\ batch'[d] = batch[d]
  BY <1>1, <1>2, <1>4, <1>5
<1>6. CASE pc'[d] \in {"idle", "called", "deliver"}
  BY <1>6
<1>7. CASE ReadBatch(d) \/ EndBatch(d) \/ Abort(d) \/ MarkFailure(d) \/ MarkDelivered(d)
  BY <1>6, <1>7 DEF ReadBatch, EndBatch, Abort, MarkFailure, MarkDelivered, EndEvent,
                    TypeOK, OutboxTypeOK
<1>8. CASE Post(d) \/ Refused(d) \/ Timeout(d)
  <2>1. pc'[d] \in {"waiting", "failed"} /\ batch'[d] = batch[d] /\ batch[d] # {}
    BY <1>4, <1>8 DEF Post, Refused, Timeout, TypeOK, OutboxTypeOK
  <2>2. QED
    BY <2>1
<1>9. CASE Answer(d)
  <2>1. batch'[d] = batch[d] /\ batch[d] # {} /\ Current(d) \in inbox'
    BY <1>4, <1>9 DEF Answer, ApplyCommand
  <2>2. QED
    BY <1>2, <2>1
<1>10. ASSUME NEW c \in Deliverers, c # d, Deliver(c) \/ Abort(c)
       PROVE  pc'[d] = pc[d] /\ batch'[d] = batch[d]
  BY <1>10 DEF Deliver, ReadBatch, Post, Refused, Answer, Timeout, MarkFailure, MarkDelivered,
               EndEvent, EndBatch, Abort, TypeOK, OutboxTypeOK
<1>11. ASSUME NEW r \in Requests, StartReading(r)
       PROVE  batch'[d] = batch[d] /\ (pc'[d] = pc[d] \/ pc'[d] = "called")
  BY <1>11 DEF StartReading, TypeOK, OutboxTypeOK
<1>12. CASE \E r \in Requests : \/ \E op \in Ops, p \in Papers : Check(r, op, p)
                                \/ SetState(r) \/ Trash(r) \/ Restore(r)
                                \/ Annotate(r) \/ HardDelete(r)
  BY <1>5, <1>12 DEF Check, SetState, Trash, Restore, Annotate, HardDelete
<1>13. CASE \E p \in Papers : AddToLibrary(p) \/ Project(p) \/ EndFocus(p)
  BY <1>5, <1>13 DEF AddToLibrary, Project, EndFocus
<1>14. CASE Requeue \/ (\E e \in Events : ApplyLate(e) \/ BecomeDue(e)) \/ UNCHANGED vars
  BY <1>5, <1>14 DEF Requeue, ApplyLate, BecomeDue
<1>15. QED
  BY <1>5, <1>6, <1>7, <1>8, <1>9, <1>10, <1>11, <1>12, <1>13, <1>14
     DEF Next, Owner, Act, OutboxNext, Deliver

LEMMA ReadsCountedOnceIsKept ==
    ASSUME ShelfInv, [Next]_vars
    PROVE  ReadsCountedOnce'
<1> USE DEF ShelfInv
<1>1. inbox' \subseteq Recorded
  BY InboxSteps DEF OnlyRecorded, ApplyCommand
<1>2. {e \in inbox' : ~Deletion(e)'} = {e \in inbox' : ~Deletion(e)}
  BY <1>1, EventsAreKept DEF Deletion
<1>3. read' = Cardinality({e \in inbox' : ~Deletion(e)})
  <2>1. CASE UNCHANGED <<inbox, read>>
    BY <2>1 DEF ReadsCountedOnce
  <2>2. ASSUME NEW e \in Recorded, e \notin inbox, Deletion(e), inbox' = inbox \cup {e}, read' = read
        PROVE  read' = Cardinality({f \in inbox' : ~Deletion(f)})
    <3>1. {f \in inbox' : ~Deletion(f)} = {f \in inbox : ~Deletion(f)}
      BY <2>2
    <3>2. QED
      BY <2>2, <3>1 DEF ReadsCountedOnce
  <2>3. ASSUME NEW e \in Recorded, e \notin inbox, ~Deletion(e), inbox' = inbox \cup {e}, read' = read + 1
        PROVE  read' = Cardinality({f \in inbox' : ~Deletion(f)})
    <3>1. e \in Events
      BY ConstantsAreTyped DEF TypeOK, OutboxTypeOK, Recorded, Events
    <3>2. QED
      BY <2>3, <3>1, Counted
  <2>4. QED
    BY <2>1, <2>2, <2>3, InboxSteps DEF ApplyCommand
<1>4. QED
  BY <1>2, <1>3 DEF ReadsCountedOnce

LEMMA AttemptsLeftIsKept ==
    ASSUME ShelfInv, [Next]_vars
    PROVE  AttemptsLeft'
<1> USE DEF ShelfInv
<1>1. /\ events \in [Events -> Event] /\ Recorded \subseteq Events
      /\ \A e \in Recorded : events[e] \in Event
  BY ConstantsAreTyped DEF TypeOK, OutboxTypeOK, Recorded, Events
<1>2. SUFFICES ASSUME NEW e \in Recorded', Active(e)'
               PROVE  events'[e].attempts < MaxAttempts
  BY DEF AttemptsLeft
<1>3. CASE UNCHANGED <<events, recorded>>
  BY <1>2, <1>3 DEF AttemptsLeft, Active, Undelivered, Recorded
<1>4. ASSUME NEW type \in Kinds, NEW p \in Papers, RecordEvent(type, p)
      PROVE  events'[e].attempts < MaxAttempts
  <2>1. CASE e \in Recorded /\ events'[e] = events[e]
    BY <1>2, <2>1 DEF AttemptsLeft, Active, Undelivered
  <2>2. CASE events'[e] = NewEvent(type, p)
    BY <2>2, ConstantsAreTyped DEF NewEvent
  <2>3. QED
    BY <1>2, <1>4, <2>1, <2>2, RecordKeeps DEF Recorded
<1>5. ASSUME NEW f \in Recorded, NEW ev, Only(f, ev),
             ~ev.dead => ev.attempts < MaxAttempts \/ ev.delivered
      PROVE  events'[e].attempts < MaxAttempts
  <2>1. e \in Recorded /\ events'[e] = IF e = f THEN ev ELSE events[e]
    BY <1>1, <1>2, <1>5 DEF Only, Recorded
  <2>2. QED
    BY <1>2, <1>5, <2>1 DEF AttemptsLeft, Active, Undelivered
<1>6. ASSUME NEW f \in Recorded, Active(f)
      PROVE  ~Failed(events[f]).dead => Failed(events[f]).attempts < MaxAttempts
  <2>1. events[f].attempts \in Nat
    BY <1>1, ConstantsAreTyped DEF Event
  <2>2. Failed(events[f]).attempts = events[f].attempts + 1
    BY <1>1 DEF Failed, Event
  <2>3. Failed(events[f]).dead <=> (events[f].attempts + 1 >= MaxAttempts)
    BY <1>1 DEF Failed, Event
  <2>4. QED
    BY <2>1, <2>2, <2>3, ConstantsAreTyped
<1>7. ASSUME NEW f \in Recorded
      PROVE  /\ [events[f] EXCEPT !.delivered = TRUE].delivered
             /\ Active(f) => [events[f] EXCEPT !.due = TRUE].attempts < MaxAttempts
  BY <1>1 DEF Event, AttemptsLeft
<1>8. CASE Requeue
  <2>1. e \in Recorded /\ e \in Events /\ events[e] \in Event
    BY <1>1, <1>2, <1>8 DEF Requeue, Recorded
  <2>2. CASE Requeueable(e)
    <3>1. events'[e].attempts = 0
      BY <1>8, <2>1, <2>2 DEF Requeue, Event
    <3>2. QED
      BY <3>1, ConstantsAreTyped
  <2>3. CASE ~Requeueable(e)
    <3>1. events'[e] = events[e]
      BY <1>8, <2>1, <2>3 DEF Requeue
    <3>2. QED
      BY <1>2, <2>1, <3>1 DEF AttemptsLeft, Active, Undelivered
  <2>4. QED
    BY <2>2, <2>3
<1>9. QED
  BY <1>3, <1>4, <1>5, <1>6, <1>7, <1>8, EventSteps

\* record_event's conflict clause and the siblings that
\* requeue_dead_lettered_events respects keep one deletion of a paper active.
LEMMA ActiveDeletionsAgreeIsKept ==
    ASSUME ShelfInv, [Next]_vars
    PROVE  ActiveDeletionsAgree'
<1> USE DEF ShelfInv
<1>1. /\ events \in [Events -> Event] /\ Recorded \subseteq Events
      /\ \A e \in Recorded : events[e] \in Event
  BY ConstantsAreTyped DEF TypeOK, OutboxTypeOK, Recorded, Events
<1>2. SUFFICES ASSUME NEW e \in Recorded', NEW f \in Recorded',
                      Active(e)', Active(f)', Deletion(e)', Deletion(f)',
                      events'[e].paper = events'[f].paper
               PROVE  e = f
  BY DEF ActiveDeletionsAgree
<1>3. \A g \in Recorded : /\ (Deletion(g)' <=> Deletion(g))
                          /\ events'[g].paper = events[g].paper
  BY EventsAreKept DEF Deletion
<1>4. CASE e \in Recorded /\ f \in Recorded /\ Active(e) /\ Active(f)
  BY <1>2, <1>3, <1>4 DEF ActiveDeletionsAgree
<1>5. CASE UNCHANGED <<events, recorded>>
  BY <1>2, <1>4, <1>5 DEF Active, Undelivered, Recorded
<1>6. ASSUME NEW type \in Kinds, NEW p \in Papers, RecordEvent(type, p)
      PROVE  e = f
  <2>1. \A g \in {e, f} : g \in Recorded => events'[g] = events[g] /\ Active(g)
    BY <1>2, <1>6, RecordKeeps DEF Active, Undelivered
  <2>2. \A g \in {e, f} : g \in Recorded \/ (g = recorded + 1 /\ events'[g] = NewEvent(type, p))
    BY <1>2, <1>6, RecordKeeps DEF Recorded
  <2>3. CASE Absorbed(type, p) /\ UNCHANGED <<events, recorded>>
    BY <1>5, <2>3
  <2>4. CASE ~Absorbed(type, p)
    <3>1. ASSUME NEW g \in {e, f}, NEW h \in {e, f}, g \in Recorded, h \notin Recorded
          PROVE  FALSE
      <4>1. events'[h] = NewEvent(type, p)
        BY <2>2, <3>1
      <4>2. type = "paper.deleted" /\ events'[h].paper = p
        BY <1>2, <3>1, <4>1 DEF Deletion, NewEvent
      <4>3. Deletion(g) /\ Active(g) /\ events[g].paper = p
        BY <1>2, <1>3, <2>1, <3>1, <4>2
      <4>4. g \in ActiveDeletions(p)
        BY <3>1, <4>3 DEF ActiveDeletions
      <4>5. QED
        BY <2>4, <4>2, <4>4 DEF Absorbed
    <3>2. QED
      BY <1>4, <2>1, <2>2, <3>1
  <2>5. QED
    BY <1>6, <2>3, <2>4 DEF RecordEvent
<1>7. ASSUME NEW g \in Recorded, NEW ev, Only(g, ev), Active(g) \/ ev.delivered
      PROVE  e = f
  <2>1. \A h \in {e, f} : h \in Recorded /\ events'[h] = IF h = g THEN ev ELSE events[h]
    BY <1>1, <1>2, <1>7 DEF Only, Recorded
  <2>2. \A h \in {e, f} : Active(h)
    BY <1>2, <1>7, <2>1 DEF Active, Undelivered
  <2>3. QED
    BY <1>4, <2>1, <2>2
<1>8. ASSUME NEW g \in Recorded
      PROVE  [events[g] EXCEPT !.delivered = TRUE].delivered
  BY <1>1 DEF Event
<1>9. CASE Requeue
  <2>1. recorded' = recorded /\ Recorded' = Recorded
    BY <1>9 DEF Requeue, Recorded
  <2>2. \A g \in Recorded : Active(g)' => Undelivered(g) /\ (Active(g) \/ Requeueable(g))
    BY <1>1, <1>9, <2>1 DEF Requeue, Active, Undelivered, Requeueable, Event
  <2>3. ASSUME e # f PROVE FALSE
    <3>1. e \in Recorded /\ f \in Recorded /\ Deletion(e) /\ Deletion(f)
          /\ events[e].paper = events[f].paper /\ Undelivered(e) /\ Undelivered(f)
      BY <1>2, <1>3, <2>1, <2>2
    <3>2. Sibling(e, f) /\ Sibling(f, e)
      BY <2>3, <3>1 DEF Sibling
    <3>3. ~Requeueable(e) /\ ~Requeueable(f)
      BY <3>1, <3>2 DEF Requeueable
    <3>4. QED
      BY <1>2, <1>4, <2>2, <2>3, <3>1, <3>3
  <2>4. QED
    BY <2>3
<1>10. QED
  BY <1>5, <1>6, <1>7, <1>8, <1>9, EventSteps

-----------------------------------------------------------------------------
(* The theorems.                                                           *)

LEMMA InitInv == Init => ShelfInv
<1> SUFFICES ASSUME Init PROVE ShelfInv
  OBVIOUS
<1>1. Recorded = {} /\ inbox = {}
  BY DEF Init, OutboxInit, Recorded
<1>2. NoEvent \in Event
  BY ConstantsAreTyped DEF NoEvent, NewEvent, Event
<1>3. TypeOK
  BY <1>2, ConstantsAreTyped DEF Init, OutboxInit, TypeOK, OutboxTypeOK, Rows, States, Pcs
<1>4. ReadsCountedOnce
  BY <1>1, FS_EmptySet DEF Init, OutboxInit, ReadsCountedOnce
<1>5. RunsHaveRows /\ AnsweredIsApplied
  BY DEF Init, OutboxInit, RunsHaveRows, AnsweredIsApplied
<1>6. OnlyRecorded /\ AttemptsLeft /\ ActiveDeletionsAgree
  BY <1>1 DEF Init, OutboxInit, OnlyRecorded, AttemptsLeft, ActiveDeletionsAgree
<1>7. QED
  BY <1>3, <1>4, <1>5, <1>6 DEF ShelfInv

LEMMA StepInv == ShelfInv /\ [Next]_vars => ShelfInv'
<1> SUFFICES ASSUME ShelfInv, [Next]_vars PROVE ShelfInv'
  OBVIOUS
<1>1. TypeOK' /\ OnlyRecorded' /\ RunsHaveRows' /\ AnsweredIsApplied'
  BY TypeIsKept, OnlyRecordedIsKept, RunsHaveRowsIsKept
<1>2. AttemptsLeft' /\ ActiveDeletionsAgree' /\ ReadsCountedOnce'
  BY AttemptsLeftIsKept, ActiveDeletionsAgreeIsKept, ReadsCountedOnceIsKept
<1>3. QED
  BY <1>1, <1>2 DEF ShelfInv

LEMMA InvHolds == Spec => []ShelfInv
  BY InitInv, StepInv, PTL DEF Spec

\* Every variable keeps its type; in particular no counter passes its limit.
THEOREM TypeCorrect == Spec => []TypeOK
<1>1. ShelfInv => TypeOK
  BY DEF ShelfInv
<1>2. QED
  BY <1>1, InvHolds, PTL

\* daily_log counts an event of reading once, however often it was posted,
\* however late it was applied and however often a run was cut short.
THEOREM CountsOnce == Spec => []ReadsCountedOnce
<1>1. ShelfInv => ReadsCountedOnce
  BY DEF ShelfInv
<1>2. QED
  BY <1>1, InvHolds, PTL

\* No order of deletions, dead letters and requeues makes two deletions of one
\* paper active: the partial unique index is never violated.
THEOREM IndexHolds == Spec => []OneActiveDeletion
<1>1. ShelfInv => OneActiveDeletion
  <2> SUFFICES ASSUME ShelfInv, NEW p \in Papers PROVE Cardinality(ActiveDeletions(p)) <= 1
    BY DEF OneActiveDeletion
  <2>1. \A e, f \in ActiveDeletions(p) : e = f
    BY DEF ShelfInv, ActiveDeletionsAgree, ActiveDeletions
  <2>2. ActiveDeletions(p) = {} \/ \E e : ActiveDeletions(p) = {e}
    BY <2>1
  <2>3. Cardinality(ActiveDeletions(p)) \in {0, 1}
    BY <2>2, FS_EmptySet, FS_Singleton
  <2>4. QED
    BY <2>3
<1>2. QED
  BY <1>1, InvHolds, PTL

\* deliver_pending_events removes the private rows of a paper only for a
\* deletion of it that Learning has applied.
THEOREM PurgesAreAcknowledged == Spec => PurgedOnlyAcknowledged
<1> DEFINE Step == \A p \in Papers : (details[p] # "none" /\ details'[p] = "none")
                                         => \E e \in inbox : PurgedBy(p, e)
<1>1. ASSUME ShelfInv, [Next]_vars PROVE Step
  <2> SUFFICES ASSUME NEW p \in Papers, details[p] # "none", details'[p] = "none"
               PROVE  \E e \in inbox : PurgedBy(p, e)
    OBVIOUS
  <2> USE <1>1 DEF ShelfInv
  <2>1. ASSUME NEW d \in Deliverers, MarkDelivered(d)
        PROVE  Current(d) \in inbox /\ PurgedBy(p, Current(d))
    <3>1. Current(d) \in inbox
      BY <2>1 DEF MarkDelivered, AnsweredIsApplied
    <3>2. Deletion(Current(d)) /\ Purge(Current(d)) /\ Current(d) \in awaiting
      BY <2>1 DEF MarkDelivered, Purge
    <3>3. events[Current(d)].paper = p
      BY <3>2 DEF Purge, TypeOK, OutboxTypeOK
    <3>4. QED
      BY <3>1, <3>2, <3>3 DEF PurgedBy
  <2>2. CASE Owner
    BY <2>2 DEF Owner, Act, Check, SetState, StartReading, Trash, Restore, Annotate, HardDelete,
                AddToLibrary, Project, EndFocus, TypeOK, OutboxTypeOK
  <2>3. CASE \E d \in Deliverers :
                \/ ReadBatch(d) \/ Post(d) \/ Refused(d) \/ Answer(d) \/ Timeout(d)
                \/ MarkFailure(d) \/ EndBatch(d) \/ Abort(d)
    BY <2>3 DEF ReadBatch, Post, Refused, Answer, Timeout, MarkFailure, EndBatch, Abort
  <2>4. CASE Requeue \/ (\E e \in Events : ApplyLate(e) \/ BecomeDue(e)) \/ UNCHANGED vars
    BY <2>4 DEF Requeue, ApplyLate, BecomeDue
  <2>5. QED
    BY <2>1, <2>2, <2>3, <2>4 DEF Next, OutboxNext, Deliver
<1>2. QED
  BY <1>1, InvHolds, PTL DEF Spec, PurgedOnlyAcknowledged

\* A repeated or late post of a deletion that apply_command finds in the inbox
\* leaves what was derived from the paper since.
THEOREM CardsGoOnce == Spec => CardsGoOncePerDeletion
<1> DEFINE Step == \A p \in Papers :
        p \in cards \ cards' => \E e \in inbox' \ inbox : Deletion(e) /\ events[e].paper = p
<1>1. ASSUME ShelfInv, [Next]_vars PROVE Step
  BY <1>1, InboxSteps DEF ApplyCommand
<1>2. QED
  BY <1>1, InvHolds, PTL DEF Spec, CardsGoOncePerDeletion
=============================================================================
