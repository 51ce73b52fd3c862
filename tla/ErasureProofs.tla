---------------------------- MODULE ErasureProofs ----------------------------
(***************************************************************************)
(* What Erasure guarantees for any number of coordinators, administrators, *)
(* deletions and attempts: type correctness, the inductive invariant       *)
(* ErasureInv, the properties that follow from it, and that the erasure    *)
(* implements ErasurePromise.                                              *)
(***************************************************************************)
EXTENDS Erasure, TLAPS

\* Enumerations and groups of variables, expanded everywhere.
USE DEF Pcs, States, Pending, Domains, NoRequest, accountVars, rowVars, ownerVars, passVars

-----------------------------------------------------------------------------
(* Phases and their positions.                                             *)

LEMMA PhasePosition ==
    ASSUME NEW i \in 1..4
    PROVE  PhaseState(i) \in Pending \cup {"ready"} /\ Position(PhaseState(i)) = i
  BY DEF PhaseState, Position

LEMMA PhaseType ==
    ASSUME NEW i \in Domains
    PROVE  PhaseState(i) \in Pending /\ PhaseState(i + 1) \in States
  BY DEF PhaseState

-----------------------------------------------------------------------------
(* Types.                                                                  *)

\* TypeOK in the groups of variables that the actions touch.
AccountType ==
    /\ account \in {"active", "grace", "due", "gone"}
    /\ restoring \in BOOLEAN /\ busy \in BOOLEAN

RequestType ==
    /\ request \in 0..MaxRequests /\ requests \in 0..MaxRequests
    /\ attempts \in 0..MaxAttempts

RowType ==
    /\ state \in States
    /\ resume_state \in Pending
    /\ waiting \in BOOLEAN
    /\ acks \subseteq Domains

OwnersType == late \subseteq Domains /\ erased \subseteq Domains

PassesType ==
    /\ pc \in [Workers -> Pcs]
    /\ held \in [Workers -> 0..MaxRequests]
    /\ phase \in [Workers -> States]
    /\ resuming \in [Workers -> BOOLEAN]
    /\ known \in [Workers -> SUBSET Domains]
    /\ step \in [Workers -> Domains]
    /\ seen \in [Workers -> States]

LEMMA TypeParts ==
    /\ TypeOK <=> AccountType /\ RequestType /\ RowType /\ OwnersType /\ PassesType
    /\ TypeOK' <=> AccountType' /\ RequestType' /\ RowType' /\ OwnersType' /\ PassesType'
  BY DEF TypeOK, AccountType, RequestType, RowType, OwnersType, PassesType

LEMMA BoundsAreNaturals ==
    MaxAttempts \in Nat /\ 0 \in 0..MaxAttempts /\ MaxRequests \in Nat /\ 0 \in 0..MaxRequests
  BY ErasureAssumption

LEMMA EndPassType ==
    ASSUME TypeOK, NEW w \in Workers, EndPass(w)
    PROVE  PassesType'
  BY BoundsAreNaturals DEF TypeOK, PassesType, EndPass, Goto

LEMMA TargetType ==
    ASSUME TypeOK, NEW w \in Workers
    PROVE  Target(w) \in States
  BY PhaseType DEF TypeOK, Target

\* What a pass that goes on after a phase leaves in its variables.
LEMMA NextStepType ==
    ASSUME TypeOK, NEW w \in Workers, NEW reached \in States, NextStep(w, reached)
    PROVE  PassesType'
<1>1. CASE step[w] = 3
  BY <1>1, EndPassType DEF NextStep
<1>2. CASE step[w] # 3
  BY <1>2 DEF TypeOK, PassesType, NextStep, Goto
<1>3. QED
  BY <1>1, <1>2

LEMMA ArriveType ==
    ASSUME TypeOK, NEW w \in Workers, Arrive(w) \/ Refused(w)
    PROVE  PassesType'
<1>1. CASE Arrive(w)
  <2>1. CASE resuming[w]
    BY <1>1, <2>1 DEF TypeOK, PassesType, Arrive, Goto
  <2>2. CASE ~resuming[w]
    BY <1>1, <2>2, NextStepType, TargetType DEF Arrive
  <2>3. QED
    BY <2>1, <2>2
<1>2. CASE Refused(w)
  <2>1. CASE resuming[w]
    BY <1>2, <2>1, EndPassType DEF Refused
  <2>2. CASE ~resuming[w]
    BY <1>2, <2>2 DEF TypeOK, PassesType, Refused, Goto
  <2>3. QED
    BY <2>1, <2>2
<1>3. QED
  BY <1>1, <1>2


LEMMA AccountStep == AccountType /\ [Next]_vars => AccountType'
<1> SUFFICES ASSUME AccountType, [Next]_vars PROVE AccountType'
  OBVIOUS
<1>1. CASE JobsSettle \/ Delete \/ GraceElapses
  BY <1>1 DEF AccountType, JobsSettle, Delete, GraceElapses
<1>2. CASE BeginRestore \/ EndRestore \/ Finalize
  BY <1>2 DEF AccountType, BeginRestore, EndRestore, Finalize
<1>3. CASE WaitOver \/ Resume \/ \E d \in Domains : LateCommand(d)
  BY <1>3 DEF AccountType, WaitOver, Resume, LateCommand
<1>4. CASE \E w \in Workers : Pass(w) \/ CrashPass(w)
  BY <1>4 DEF AccountType, Pass, CrashPass, Start, Snapshot, Begin, Acknowledged, Skip, Answered,
     Unanswered, Ack, Read, Update, Retry
<1>5. CASE UNCHANGED vars
  BY <1>5 DEF AccountType, vars
<1>6. QED
  BY <1>1, <1>2, <1>3, <1>4, <1>5 DEF Next

LEMMA OwnersStep == TypeOK /\ [Next]_vars => OwnersType'
<1> SUFFICES ASSUME TypeOK, [Next]_vars PROVE OwnersType'
  OBVIOUS
<1>1. CASE JobsSettle \/ Delete \/ GraceElapses \/ BeginRestore \/ EndRestore \/ Finalize
  BY <1>1 DEF TypeOK, OwnersType, JobsSettle, Delete, GraceElapses, BeginRestore, EndRestore, Finalize
<1>2. CASE WaitOver \/ Resume \/ \E d \in Domains : LateCommand(d)
  BY <1>2 DEF TypeOK, OwnersType, WaitOver, Resume, LateCommand
<1>3. ASSUME NEW w \in Workers, Answered(w) \/ Unanswered(w) PROVE OwnersType'
  BY <1>3 DEF TypeOK, OwnersType, Answered, Unanswered
<1>4. ASSUME NEW w \in Workers, ~Answered(w), ~Unanswered(w), Pass(w) \/ CrashPass(w)
      PROVE  OwnersType'
  BY <1>4 DEF TypeOK, OwnersType, Pass, CrashPass, Start, Snapshot, Begin, Acknowledged, Skip, Ack,
     Read, Update, Retry
<1>5. CASE UNCHANGED vars
  BY <1>5 DEF TypeOK, OwnersType, vars
<1>6. QED
  BY <1>1, <1>2, <1>3, <1>4, <1>5 DEF Next

LEMMA RequestStep == RequestType /\ [Next]_vars => RequestType'
<1> SUFFICES ASSUME RequestType, [Next]_vars PROVE RequestType'
  OBVIOUS
<1>1. CASE JobsSettle \/ GraceElapses \/ BeginRestore \/ EndRestore \/ Finalize
  BY <1>1, BoundsAreNaturals DEF RequestType, JobsSettle, GraceElapses, BeginRestore, EndRestore, Finalize
<1>2. CASE Delete
  BY <1>2, BoundsAreNaturals DEF RequestType, Delete
<1>3. CASE WaitOver \/ Resume \/ \E d \in Domains : LateCommand(d)
  BY <1>3, BoundsAreNaturals DEF RequestType, WaitOver, Resume, LateCommand
<1>4. ASSUME NEW w \in Workers, Retry(w) PROVE RequestType'
  BY <1>4, BoundsAreNaturals DEF RequestType, Retry
<1>5. ASSUME NEW w \in Workers, ~Retry(w), Pass(w) \/ CrashPass(w) PROVE RequestType'
  BY <1>5 DEF RequestType, Pass, CrashPass, Start, Snapshot, Begin, Acknowledged, Skip, Answered,
     Unanswered, Ack, Read, Update
<1>6. CASE UNCHANGED vars
  BY <1>6 DEF RequestType, vars
<1>7. QED
  BY <1>1, <1>2, <1>3, <1>4, <1>5, <1>6 DEF Next

LEMMA RowStep == TypeOK /\ [Next]_vars => RowType'
<1> SUFFICES ASSUME TypeOK, [Next]_vars PROVE RowType'
  OBVIOUS
<1>1. CASE JobsSettle \/ Delete \/ GraceElapses \/ BeginRestore \/ EndRestore \/ Finalize
  BY <1>1 DEF TypeOK, RowType, JobsSettle, Delete, GraceElapses, BeginRestore, EndRestore, Finalize
<1>2. CASE WaitOver \/ Resume
  BY <1>2 DEF TypeOK, RowType, WaitOver, Resume
<1>3. CASE \E d \in Domains : LateCommand(d)
  BY <1>3 DEF TypeOK, RowType, LateCommand
<1>4. ASSUME NEW w \in Workers, Pass(w) \/ CrashPass(w) PROVE RowType'
  <2>1. CASE Begin(w)
    <3>1. state' \in States
      BY <2>1 DEF TypeOK, Begin
    <3>2. resume_state' \in Pending /\ waiting' \in BOOLEAN /\ acks' \subseteq Domains
      BY <2>1 DEF TypeOK, Begin
    <3>3. QED
      BY <3>1, <3>2 DEF RowType
  <2>2. CASE Ack(w)
    <3>1. step[w] \in Domains
      BY DEF TypeOK
    <3>2. acks' \subseteq Domains
      BY <2>2, <3>1 DEF TypeOK, Ack
    <3>3. state' \in States /\ resume_state' \in Pending /\ waiting' \in BOOLEAN
      BY <2>2 DEF TypeOK, Ack
    <3>4. QED
      BY <3>2, <3>3 DEF RowType
  <2>3. CASE Update(w)
    BY <2>3, TargetType DEF TypeOK, RowType, Update
  <2>4. CASE Retry(w)
    BY <2>4 DEF TypeOK, RowType, Retry
  <2>5. CASE UNCHANGED <<state, resume_state, waiting, acks>>
    BY <2>5 DEF TypeOK, RowType
  <2>6. QED
    BY <1>4, <2>1, <2>2, <2>3, <2>4, <2>5 DEF Pass, CrashPass, Start, Snapshot, Acknowledged, Skip,
       Answered, Unanswered, Read
<1>5. CASE UNCHANGED vars
  BY <1>5 DEF TypeOK, RowType, vars
<1>6. QED
  BY <1>1, <1>2, <1>3, <1>4, <1>5 DEF Next

LEMMA PassesStep == TypeOK /\ [Next]_vars => PassesType'
<1> SUFFICES ASSUME TypeOK, [Next]_vars PROVE PassesType'
  OBVIOUS
<1>1. CASE UNCHANGED passVars
  BY <1>1 DEF TypeOK, PassesType
<1>2. ASSUME NEW w \in Workers, Pass(w) \/ CrashPass(w) PROVE PassesType'
  <2>1. CASE EndPass(w) \/ Arrive(w) \/ Refused(w)
    BY <2>1, EndPassType, ArriveType
  <2>2. CASE Start(w)
    BY <2>2 DEF TypeOK, PassesType, Start, Goto
  <2>3. CASE Snapshot(w)
    BY <2>1, <2>3 DEF TypeOK, PassesType, Snapshot, Goto, TakeRecord
  <2>4. CASE Begin(w)
    BY <2>1, <2>4 DEF TypeOK, PassesType, Begin, Goto, TakeRecord
  <2>5. CASE Acknowledged(w)
    BY <2>5 DEF TypeOK, PassesType, Acknowledged, Goto
  <2>6. CASE Skip(w)
    <3>1. CASE phase[w] = PhaseState(step[w])
      BY <2>6, <3>1 DEF TypeOK, PassesType, Skip, Goto
    <3>2. CASE phase[w] # PhaseState(step[w])
      BY <2>6, <3>2, NextStepType DEF TypeOK, Skip
    <3>3. QED
      BY <3>1, <3>2
  <2>7. CASE Answered(w) \/ Unanswered(w)
    BY <2>7 DEF TypeOK, PassesType, Answered, Unanswered, Goto
  <2>8. CASE Ack(w)
    BY <2>1, <2>8 DEF TypeOK, PassesType, Ack, Goto
  <2>9. CASE Read(w)
    BY <2>1, <2>9 DEF TypeOK, PassesType, Read, Goto
  <2>10. CASE Update(w) \/ Retry(w) \/ CrashPass(w)
    BY <2>1, <2>10 DEF Update, Retry, CrashPass
  <2>11. QED
    BY <1>2, <2>2, <2>3, <2>4, <2>5, <2>6, <2>7, <2>8, <2>9, <2>10 DEF Pass
<1>3. QED
  BY <1>1, <1>2 DEF Next, vars, JobsSettle, Delete, GraceElapses, BeginRestore, EndRestore, Finalize,
     WaitOver, Resume, LateCommand

\* Every variable keeps its type: the row's columns, the owners' history and the
\* local variables of every pass of process_request.
THEOREM TypeCorrect == Spec => []TypeOK
<1>1. Init => TypeOK
  <2>1. Init => AccountType /\ RequestType
    BY BoundsAreNaturals DEF Init, AccountType, RequestType
  <2>2. Init => RowType /\ OwnersType
    BY DEF Init, RowType, OwnersType
  <2>3. Init => PassesType
    BY BoundsAreNaturals DEF Init, PassesType
  <2>4. QED
    BY <2>1, <2>2, <2>3, TypeParts
<1>2. TypeOK /\ [Next]_vars => TypeOK'
  BY TypeParts, AccountStep, RequestStep, RowStep, OwnersStep, PassesStep
<1>3. QED
  BY <1>1, <1>2, PTL DEF Spec

-----------------------------------------------------------------------------
(* The inductive invariant, said of the row and of each pass.              *)

RowInv ==
    /\ TouchedOnlyInErasure
    /\ request <= requests
    /\ LateProven
    /\ PhasesProven
    /\ acks \subseteq erased

\* What a pass past Begin relies on.
ProvenPass(w) ==
    /\ \A d \in Domains : d < Position(phase[w]) => d \in acks
    /\ pc[w] \in {"step", "ack"} => ~resuming[w]
    /\ pc[w] = "ack" => phase[w] = PhaseState(step[w]) /\ step[w] \in erased
    /\ pc[w] \in {"read", "update"} /\ ~resuming[w] =>
        phase[w] = PhaseState(step[w]) /\ step[w] \in acks

PassInv(w) ==
    /\ held[w] <= requests
    /\ PastBegin(w) => Exists(w) /\ state # "requested" /\ ProvenPass(w)
    /\ pc[w] \in {"idle", "snapshot", "begin", "acks"} => known[w] = {}
    /\ Exists(w) => known[w] \subseteq acks

LEMMA InvParts ==
    /\ ErasureInv <=> RowInv /\ \A w \in Workers : PassInv(w)
    /\ ErasureInv' <=> RowInv' /\ \A w \in Workers : PassInv(w)'
<1>1. ErasureInv <=> RowInv /\ \A w \in Workers : PassInv(w)
  BY DEF ErasureInv, RowInv, PassInv, ProvenPass, PassesHoldTheRequest, PassesProven, AcksEarned
<1>2. ErasureInv' <=> RowInv' /\ \A w \in Workers : PassInv(w)'
  BY DEF ErasureInv, RowInv, PassInv, ProvenPass, PassesHoldTheRequest, PassesProven, AcksEarned
<1>3. QED
  BY <1>1, <1>2

-----------------------------------------------------------------------------
(* The passes that do not act.                                             *)

\* The local variables of a pass stay as they are.
Same(u) ==
    /\ pc'[u] = pc[u] /\ held'[u] = held[u] /\ phase'[u] = phase[u] /\ step'[u] = step[u]
    /\ resuming'[u] = resuming[u] /\ known'[u] = known[u] /\ seen'[u] = seen[u]

LEMMA EndPassSame ==
    ASSUME TypeOK, NEW w \in Workers, NEW u \in Workers, u # w,
           EndPass(w) \/ Arrive(w) \/ Refused(w)
    PROVE  Same(u)
<1>1. CASE EndPass(w)
  BY <1>1 DEF TypeOK, EndPass, Goto, Same
<1>2. CASE Refused(w)
  BY <1>1, <1>2 DEF TypeOK, Refused, Goto, Same
<1>3. CASE Arrive(w) /\ resuming[w]
  BY <1>3 DEF TypeOK, Arrive, Goto, Same
<1>4. CASE Arrive(w) /\ ~resuming[w]
  BY <1>1, <1>4 DEF TypeOK, Arrive, NextStep, Goto, Same
<1>5. QED
  BY <1>1, <1>2, <1>3, <1>4

LEMMA OthersSame ==
    ASSUME TypeOK, NEW w \in Workers, NEW u \in Workers, u # w, Pass(w) \/ CrashPass(w)
    PROVE  Same(u)
<1>1. CASE EndPass(w) \/ Arrive(w) \/ Refused(w)
  BY <1>1, EndPassSame
<1>2. CASE Start(w)
  BY <1>2 DEF TypeOK, Start, Goto, Same
<1>3. CASE Snapshot(w)
  BY <1>1, <1>3 DEF TypeOK, Snapshot, TakeRecord, Goto, Same
<1>4. CASE Begin(w)
  BY <1>1, <1>4 DEF TypeOK, Begin, TakeRecord, Goto, Same
<1>5. CASE Acknowledged(w)
  BY <1>5 DEF TypeOK, Acknowledged, Goto, Same
<1>6. CASE Skip(w)
  BY <1>1, <1>6 DEF TypeOK, Skip, NextStep, Goto, Same
<1>7. CASE Answered(w) \/ Unanswered(w)
  BY <1>7 DEF TypeOK, Answered, Unanswered, Goto, Same
<1>8. CASE Ack(w)
  BY <1>1, <1>8 DEF TypeOK, Ack, Goto, Same
<1>9. CASE Read(w)
  BY <1>1, <1>9 DEF TypeOK, Read, Goto, Same
<1>10. CASE Update(w) \/ Retry(w) \/ CrashPass(w)
  BY <1>1, <1>10 DEF Update, Retry, CrashPass
<1>11. QED
  BY <1>2, <1>3, <1>4, <1>5, <1>6, <1>7, <1>8, <1>9, <1>10 DEF Pass

\* While a request is past its request phase, its receipts only grow.
Proceeds ==
    /\ UNCHANGED <<request, requests>>
    /\ acks \subseteq acks' /\ erased \subseteq erased'
    /\ state' = "requested" => state = "requested"

\* A request comes or goes only in its request phase.
Replaces ==
    /\ state = "requested" /\ requests <= requests' /\ requests' \in Nat
    /\ request' > requests \/ request' = NoRequest

LEMMA BystanderKeeps ==
    ASSUME TypeOK, NEW u \in Workers, PassInv(u), Same(u), Proceeds \/ Replaces
    PROVE  PassInv(u)'
<1> USE DEF Same
<1>0. held[u] \in Nat /\ requests \in Nat /\ request \in Nat
  BY BoundsAreNaturals DEF TypeOK
<1>1. CASE Proceeds
  <2>1. PastBegin(u)' <=> PastBegin(u)
    BY DEF PastBegin
  <2>2. Exists(u)' <=> Exists(u)
    BY <1>1 DEF Exists, Proceeds
  <2>3. ProvenPass(u) => ProvenPass(u)'
    BY <1>1 DEF ProvenPass, Proceeds
  <2>4. QED
    BY <1>1, <2>1, <2>2, <2>3 DEF PassInv, Proceeds
<1>2. CASE Replaces
  <2>1. ~PastBegin(u)'
    BY <1>2 DEF PastBegin, PassInv, Replaces
  <2>2. held'[u] <= requests'
    BY <1>0, <1>2 DEF PassInv, Replaces
  <2>3. ~Exists(u)'
    BY <1>0, <1>2 DEF PassInv, Replaces, Exists
  <2>4. QED
    BY <2>1, <2>2, <2>3 DEF PassInv
<1>3. QED
  BY <1>1, <1>2

-----------------------------------------------------------------------------
(* The pass that acts.                                                     *)

\* erasure_transition_allowed_v1 never leads back to the request phase.
LEMMA AllowedTarget ==
    ASSUME NEW source, NEW target, Allowed(source, target)
    PROVE  target # "requested" /\ source \notin {"complete", "ready"}
  BY DEF Allowed, Position

LEMMA PassProceeds ==
    ASSUME TypeOK, NEW w \in Workers, Pass(w) \/ CrashPass(w)
    PROVE  Proceeds
<1>1. CASE UNCHANGED <<rowVars, ownerVars>>
  BY <1>1 DEF Proceeds
<1>2. CASE Begin(w)
  BY <1>2 DEF Proceeds, Begin
<1>3. CASE Answered(w) \/ Unanswered(w)
  BY <1>3 DEF Proceeds, Answered, Unanswered
<1>4. CASE Ack(w)
  BY <1>4 DEF Proceeds, Ack
<1>5. CASE Update(w)
  BY <1>5, AllowedTarget DEF Proceeds, Update
<1>6. CASE Retry(w)
  BY <1>6 DEF Proceeds, Retry
<1>7. QED
  BY <1>1, <1>2, <1>3, <1>4, <1>5, <1>6
     DEF Pass, CrashPass, Start, Snapshot, Acknowledged, Skip, Read

LEMMA EndPassInv ==
    ASSUME TypeOK, NEW w \in Workers, Proceeds, EndPass(w)
    PROVE  PassInv(w)'
<1>1. pc'[w] = "idle" /\ held'[w] = 0 /\ known'[w] = {}
  BY DEF TypeOK, EndPass, Goto
<1>2. 0 <= requests'
  BY BoundsAreNaturals DEF TypeOK, Proceeds
<1>3. QED
  BY <1>1, <1>2 DEF PassInv, PastBegin

\* What a pass keeps when it goes on.
LEMMA PassGoesOn ==
    ASSUME TypeOK, NEW w \in Workers, PassInv(w), PastBegin(w), Proceeds,
           held'[w] = held[w], known'[w] = known[w],
           pc'[w] \in {"step", "ack", "read", "update", "retry"},
           ProvenPass(w)'
    PROVE  PassInv(w)'
  BY DEF PassInv, Proceeds, Exists

LEMMA NextStepInv ==
    ASSUME TypeOK, NEW w \in Workers, PassInv(w), PastBegin(w), Proceeds,
           ~resuming[w], NEW reached \in States, NextStep(w, reached),
           \A d \in Domains : d < Position(reached) => d \in acks
    PROVE  PassInv(w)'
<1>1. CASE step[w] = 3
  BY <1>1, EndPassInv DEF NextStep
<1>2. CASE step[w] # 3
  <2>1. /\ pc'[w] = "step" /\ phase'[w] = reached /\ ~resuming'[w]
        /\ held'[w] = held[w] /\ known'[w] = known[w]
    BY <1>2 DEF TypeOK, NextStep, Goto
  <2>2. ProvenPass(w)'
    BY <2>1 DEF ProvenPass, Proceeds
  <2>3. QED
    BY <2>1, <2>2, PassGoesOn
<1>3. QED
  BY <1>1, <1>2

LEMMA ArriveInv ==
    ASSUME TypeOK, NEW w \in Workers, PassInv(w), pc[w] \in {"read", "update"}, Proceeds,
           Arrive(w) \/ Refused(w)
    PROVE  PassInv(w)'
<1>1. PastBegin(w) /\ ProvenPass(w)
  BY DEF PastBegin, PassInv
<1>2. CASE Arrive(w) /\ resuming[w]
  <2>1. /\ pc'[w] = "step" /\ phase'[w] = phase[w] /\ ~resuming'[w]
        /\ held'[w] = held[w] /\ known'[w] = known[w]
    BY <1>2 DEF TypeOK, Arrive, Goto
  <2>2. ProvenPass(w)'
    BY <1>1, <2>1 DEF ProvenPass, Proceeds
  <2>3. QED
    BY <1>1, <2>1, <2>2, PassGoesOn
<1>3. CASE Arrive(w) /\ ~resuming[w]
  <2>1. step[w] \in Domains
    BY DEF TypeOK
  <2>2. phase[w] = PhaseState(step[w]) /\ step[w] \in acks
    BY <1>1, <1>3 DEF ProvenPass
  <2>3. Position(phase[w]) = step[w] /\ Position(Target(w)) = step[w] + 1
    <3>1. step[w] \in 1..4 /\ step[w] + 1 \in 1..4
      BY <2>1
    <3>2. QED
      BY <1>3, <2>2, <3>1, PhasePosition DEF Target
  <2>4. \A d \in Domains : d < Position(Target(w)) => d \in acks
    BY <1>1, <2>1, <2>2, <2>3 DEF ProvenPass
  <2>5. QED
    BY <1>1, <1>3, <2>4, TargetType, NextStepInv DEF Arrive
<1>4. CASE Refused(w) /\ resuming[w]
  BY <1>4, EndPassInv DEF Refused
<1>5. CASE Refused(w) /\ ~resuming[w]
  <2>1. /\ pc'[w] = "retry" /\ phase'[w] = phase[w] /\ held'[w] = held[w]
        /\ known'[w] = known[w]
    BY <1>5 DEF TypeOK, Refused, Goto
  <2>2. ProvenPass(w)'
    BY <1>1, <2>1 DEF ProvenPass, Proceeds
  <2>3. QED
    BY <1>1, <2>1, <2>2, PassGoesOn
<1>6. QED
  BY <1>2, <1>3, <1>4, <1>5

\* The phase of a record in hand is proven by its acknowledgements.
LEMMA TakenIsProven ==
    ASSUME TypeOK, RowInv, request # NoRequest, state # "attention_required"
    PROVE  LET taken == IF state = "retry_wait" THEN resume_state ELSE state IN
           \A d \in Domains : d < Position(taken) => d \in acks
  BY DEF RowInv, PhasesProven, Reached

LEMMA ActingKeeps ==
    ASSUME TypeOK, RowInv, NEW w \in Workers, PassInv(w), Pass(w) \/ CrashPass(w)
    PROVE  PassInv(w)'
<1>1. Proceeds
  BY PassProceeds
<1>2. PastBegin(w) => ProvenPass(w)
  BY DEF PassInv
<1>3. CASE EndPass(w)
  BY <1>1, <1>3, EndPassInv
<1>4. CASE Start(w)
  <2>1. pc'[w] = "snapshot" /\ held'[w] = request /\ known'[w] = {} /\ requests' = requests
    BY <1>4 DEF TypeOK, Start, Goto, PassInv
  <2>2. QED
    BY <2>1 DEF PassInv, PastBegin, RowInv
<1>5. CASE Snapshot(w) /\ ~EndPass(w)
  <2>1. /\ Exists(w) /\ state \notin {"complete", "attention_required", "ready"}
        /\ held'[w] = held[w] /\ known'[w] = {} /\ UNCHANGED <<rowVars, ownerVars>>
        /\ pc'[w] = IF state = "requested" THEN "begin" ELSE "acks"
        /\ phase'[w] = IF state = "retry_wait" THEN resume_state ELSE state
    BY <1>5 DEF TypeOK, Snapshot, TakeRecord, Goto, PassInv
  <2>2. \A d \in Domains : d < Position(phase'[w]) => d \in acks
    BY <2>1, TakenIsProven DEF Exists
  <2>3. PastBegin(w)' => ProvenPass(w)'
    BY <2>1, <2>2 DEF ProvenPass
  <2>4. QED
    BY <2>1, <2>3 DEF PassInv, PastBegin, Exists
<1>6. CASE Begin(w) /\ ~EndPass(w)
  <2> DEFINE s == IF state = "requested" THEN "qdrant_pending" ELSE state
  <2>1. /\ Exists(w) /\ state' = s /\ UNCHANGED <<request, requests, acks, erased>>
        /\ held'[w] = held[w] /\ known'[w] = {} /\ pc'[w] = "acks"
        /\ phase'[w] = IF s = "retry_wait" THEN resume_state ELSE s
    BY <1>6 DEF TypeOK, Begin, TakeRecord, Goto, PassInv
  <2>2. \A d \in Domains : d < Position(phase'[w]) => d \in acks
    <3>1. CASE state = "requested"
      BY <2>1, <3>1 DEF Position
    <3>2. CASE state = "attention_required"
      BY <2>1, <3>2 DEF Position
    <3>3. CASE state \notin {"requested", "attention_required"}
      BY <2>1, <3>3, TakenIsProven DEF Exists
    <3>4. QED
      BY <3>1, <3>2, <3>3
  <2>3. ProvenPass(w)' /\ state' # "requested"
    BY <2>1, <2>2 DEF ProvenPass
  <2>4. QED
    BY <2>1, <2>3 DEF PassInv, PastBegin, Exists
<1>7. CASE Acknowledged(w)
  <2>1. /\ Exists(w) /\ known'[w] = acks /\ held'[w] = held[w] /\ phase'[w] = phase[w]
        /\ resuming'[w] = resuming[w] /\ pc'[w] = IF resuming[w] THEN "read" ELSE "step"
        /\ UNCHANGED rowVars
    BY <1>7 DEF TypeOK, Acknowledged, Goto, PassInv, PastBegin
  <2>2. ProvenPass(w)'
    BY <1>2, <1>7, <2>1 DEF ProvenPass, Acknowledged, PastBegin
  <2>3. QED
    BY <1>7, <2>1, <2>2 DEF PassInv, Acknowledged, PastBegin, Exists
<1>8. CASE Skip(w)
  <2>1. PastBegin(w) /\ ProvenPass(w) /\ ~resuming[w] /\ step[w] \in acks
    BY <1>2, <1>8 DEF Skip, PastBegin, ProvenPass, PassInv
  <2>2. CASE phase[w] = PhaseState(step[w])
    <3>1. /\ pc'[w] = "read" /\ UNCHANGED <<held, phase, known, step, resuming, acks, erased>>
      BY <1>8, <2>2 DEF TypeOK, Skip, Goto
    <3>2. ProvenPass(w)'
      BY <2>1, <2>2, <3>1 DEF ProvenPass
    <3>3. QED
      BY <1>1, <2>1, <3>1, <3>2, PassGoesOn
  <2>3. CASE phase[w] # PhaseState(step[w])
    BY <1>1, <1>8, <2>1, <2>3, NextStepInv DEF TypeOK, Skip, ProvenPass
  <2>4. QED
    BY <2>2, <2>3
<1>9. CASE Answered(w)
  <2>1. /\ pc'[w] = "ack" /\ step[w] \in erased'
        /\ UNCHANGED <<held, phase, known, step, resuming, acks>>
    BY <1>9 DEF TypeOK, Answered, Goto
  <2>2. PastBegin(w) /\ ProvenPass(w)'
    BY <1>2, <1>9, <2>1 DEF ProvenPass, Answered, Commanding, PastBegin
  <2>3. QED
    BY <1>1, <2>1, <2>2, PassGoesOn
<1>10. CASE Unanswered(w)
  <2>1. pc'[w] = "retry" /\ UNCHANGED <<held, phase, known, step, resuming, acks>>
    BY <1>10 DEF TypeOK, Unanswered, Goto
  <2>2. PastBegin(w) /\ ProvenPass(w)'
    BY <1>2, <1>10, <2>1 DEF ProvenPass, Unanswered, Commanding, PastBegin
  <2>3. QED
    BY <1>1, <2>1, <2>2, PassGoesOn
<1>11. CASE Ack(w) /\ ~EndPass(w)
  <2>1. /\ pc'[w] = "read" /\ step[w] \in acks'
        /\ UNCHANGED <<held, phase, known, step, resuming, erased>>
    BY <1>11 DEF TypeOK, Ack, Goto
  <2>2. PastBegin(w) /\ ProvenPass(w)'
    BY <1>1, <1>2, <1>11, <2>1 DEF ProvenPass, Ack, PastBegin, Proceeds
  <2>3. QED
    BY <1>1, <2>1, <2>2, PassGoesOn
<1>12. CASE Read(w)
  <2>1. pc[w] = "read" /\ PastBegin(w) /\ ProvenPass(w)
    BY <1>2, <1>12 DEF Read, PastBegin
  <2>2. CASE Arrive(w) \/ Refused(w)
    BY <1>1, <2>1, <2>2, ArriveInv
  <2>3. CASE Goto(w, "update") /\ UNCHANGED <<held, phase, resuming, known, step>>
    <3>1. pc'[w] = "update" /\ UNCHANGED <<held, phase, known, step, resuming, acks, erased>>
      BY <1>12, <2>3 DEF TypeOK, Read, Goto
    <3>2. ProvenPass(w)'
      BY <2>1, <3>1 DEF ProvenPass
    <3>3. QED
      BY <1>1, <2>1, <3>1, <3>2, PassGoesOn
  <2>4. QED
    BY <1>3, <1>12, <2>2, <2>3 DEF Read
<1>13. CASE Update(w)
  BY <1>1, <1>13, ArriveInv DEF Update
<1>14. QED
  BY <1>3, <1>4, <1>5, <1>6, <1>7, <1>8, <1>9, <1>10, <1>11, <1>12, <1>13
     DEF Pass, CrashPass, Retry

-----------------------------------------------------------------------------
(* The row, and what the owners did.                                       *)

\* A transition leads to a phase whose predecessors are proven.
LEMMA TargetProven ==
    ASSUME TypeOK, NEW w \in Workers, PassInv(w), pc[w] = "update"
    PROVE  \A d \in Domains : d < Position(Target(w)) => d \in acks
<1>1. ProvenPass(w) /\ step[w] \in Domains
  BY DEF TypeOK, PassInv, PastBegin
<1>2. CASE resuming[w]
  BY <1>1, <1>2 DEF Target, ProvenPass
<1>3. CASE ~resuming[w]
  <2>1. step[w] \in 1..4 /\ step[w] + 1 \in 1..4
    BY <1>1
  <2>2. Position(phase[w]) = step[w] /\ Position(Target(w)) = step[w] + 1 /\ step[w] \in acks
    BY <1>1, <1>3, <2>1, PhasePosition DEF Target, ProvenPass
  <2>3. QED
    BY <1>1, <2>2 DEF ProvenPass
<1>4. QED
  BY <1>2, <1>3

LEMMA RowKeptByPass ==
    ASSUME TypeOK, RowInv, NEW w \in Workers, PassInv(w), Pass(w) \/ CrashPass(w)
    PROVE  RowInv'
<1> USE DEF RowInv, TouchedOnlyInErasure
<1>1. PastBegin(w) => state # "requested" /\ ProvenPass(w)
  BY DEF PassInv
<1>2. CASE UNCHANGED <<accountVars, rowVars, ownerVars>>
  BY <1>2 DEF LateProven, PhasesProven, Reached
<1>3. CASE Begin(w)
  <2>1. UNCHANGED <<account, acks, late, erased, request, requests, resume_state>>
    BY <1>3 DEF Begin
  <2>2. UNCHANGED state \/ (state' = "qdrant_pending" /\ account = "due")
    BY <1>3 DEF Begin
  <2>3. PhasesProven'
    BY <2>1, <2>2 DEF PhasesProven, Reached, Position
  <2>4. QED
    BY <2>1, <2>2, <2>3 DEF LateProven
<1>4. CASE Answered(w) \/ Unanswered(w)
  <2>1. /\ UNCHANGED <<accountVars, rowVars>> /\ erased \subseteq erased' /\ state # "requested"
        /\ UNCHANGED late \/ (late' = late \cup {step[w]} /\ phase[w] = PhaseState(step[w]))
    BY <1>1, <1>4 DEF Answered, Unanswered, Commanding, PastBegin
  <2>2. step[w] \in Domains /\ step[w] \in 1..4
    BY DEF TypeOK
  <2>3. LateProven'
    <3>1. CASE UNCHANGED late
      BY <2>1, <3>1 DEF LateProven
    <3>2. CASE late' = late \cup {step[w]} /\ phase[w] = PhaseState(step[w])
      <4>1. \A e \in Domains : e < step[w] => e \in acks
        BY <1>1, <1>4, <2>2, <3>2, PhasePosition
           DEF Answered, Unanswered, Commanding, PastBegin, ProvenPass
      <4>2. QED
        BY <2>1, <3>2, <4>1 DEF LateProven
    <3>3. QED
      BY <2>1, <3>1, <3>2
  <2>4. QED
    BY <2>1, <2>3 DEF PhasesProven, Reached
<1>5. CASE Ack(w)
  <2>1. /\ UNCHANGED <<accountVars, request, requests, state, resume_state, ownerVars>>
        /\ acks' \subseteq acks \cup {step[w]} /\ acks \subseteq acks'
        /\ step[w] \in erased /\ state # "requested"
    BY <1>1, <1>5 DEF Ack, PastBegin, ProvenPass
  <2>2. acks' \subseteq erased' /\ (account' = "gone" => acks' = Domains)
    BY <2>1 DEF TypeOK
  <2>3. LateProven' /\ PhasesProven'
    BY <2>1 DEF LateProven, PhasesProven, Reached
  <2>4. QED
    BY <2>1, <2>2, <2>3
<1>6. CASE Update(w) /\ ~UNCHANGED state
  <2>1. /\ UNCHANGED <<accountVars, request, requests, resume_state, acks, ownerVars>>
        /\ Allowed(state, Target(w)) /\ state' = Target(w) /\ state # "requested"
    BY <1>1, <1>6 DEF Update, PastBegin
  <2>2. state' \notin {"requested", "retry_wait", "attention_required"} /\ account # "gone"
    BY <2>1 DEF Allowed, Position
  <2>3. PhasesProven'
    BY <1>6, <2>1, <2>2, TargetProven DEF PhasesProven, Reached, Update
  <2>4. QED
    BY <2>1, <2>2, <2>3 DEF LateProven
<1>7. CASE Retry(w) /\ ~UNCHANGED state
  <2>1. /\ UNCHANGED <<accountVars, request, requests, acks, ownerVars>>
        /\ state \in Pending /\ state' \in {"retry_wait", "attention_required"}
        /\ resume_state' = state
    BY <1>7 DEF Retry
  <2>2. PhasesProven'
    BY <2>1 DEF PhasesProven, Reached
  <2>3. QED
    BY <2>1, <2>2 DEF LateProven
<1>8. CASE (Update(w) \/ Retry(w)) /\ UNCHANGED state
  <2>1. UNCHANGED <<accountVars, request, requests, acks, ownerVars>>
    BY <1>8 DEF Update, Retry
  <2>2. PhasesProven'
    BY <1>8, <2>1 DEF PhasesProven, Reached, Update, Retry
  <2>3. QED
    BY <1>8, <2>1, <2>2 DEF LateProven
<1>9. QED
  BY <1>2, <1>3, <1>4, <1>5, <1>6, <1>7, <1>8
     DEF Pass, CrashPass, Start, Snapshot, Acknowledged, Skip, Read

\* Every step that is not of a pass.
Outside ==
    \/ JobsSettle \/ Delete \/ GraceElapses \/ BeginRestore \/ EndRestore
    \/ WaitOver \/ Resume \/ Finalize \/ \E d \in Domains : LateCommand(d)
    \/ UNCHANGED vars

\* A request only comes or goes in its request phase, and a late command erases
\* what its phase was to erase.
LEMMA RowKeptOutside ==
    ASSUME TypeOK, RowInv, Outside
    PROVE  RowInv' /\ (Proceeds \/ Replaces)
<1> USE DEF RowInv, TouchedOnlyInErasure
<1>1. CASE UNCHANGED <<account, request, requests, state, resume_state, acks, late, erased>>
  BY <1>1 DEF LateProven, PhasesProven, Reached, Proceeds
<1>2. CASE Delete
  <2>1. /\ state = "requested" /\ state' = "requested" /\ acks' = {} /\ late' = {} /\ erased' = {}
        /\ account' = "grace" /\ request' = requests + 1 /\ requests' = requests + 1
    BY <1>2 DEF Delete
  <2>2. requests \in Nat
    BY BoundsAreNaturals DEF TypeOK
  <2>3. PhasesProven' /\ LateProven'
    BY <2>1 DEF LateProven, PhasesProven, Reached, Position
  <2>4. QED
    BY <2>1, <2>2, <2>3 DEF Replaces
<1>3. CASE GraceElapses
  BY <1>3 DEF GraceElapses, LateProven, PhasesProven, Reached, Proceeds
<1>4. CASE EndRestore /\ state = "requested"
  <2>1. /\ state' = "requested" /\ acks' = {} /\ late' = {} /\ erased' = {}
        /\ account' = "active" /\ request' = NoRequest /\ requests' = requests
    BY <1>4 DEF EndRestore
  <2>2. requests \in Nat
    BY BoundsAreNaturals DEF TypeOK
  <2>3. PhasesProven' /\ LateProven'
    BY <2>1 DEF LateProven, PhasesProven
  <2>4. QED
    BY <1>4, <2>1, <2>2, <2>3 DEF Replaces
<1>5. CASE Resume
  BY <1>5 DEF Resume, LateProven, PhasesProven, Reached, Proceeds, TypeOK
<1>6. ASSUME NEW d \in Domains, LateCommand(d) PROVE RowInv' /\ Proceeds
  BY <1>6 DEF LateCommand, LateProven, PhasesProven, Reached, Proceeds
<1>7. CASE Finalize
  BY <1>7 DEF Finalize, LateProven, PhasesProven, Reached, Position, Proceeds
<1>8. QED
  BY <1>1, <1>2, <1>3, <1>4, <1>5, <1>6, <1>7
     DEF Outside, vars, JobsSettle, EndRestore, BeginRestore, WaitOver

-----------------------------------------------------------------------------
(* Safety.                                                                 *)

LEMMA OutsideOrPass ==
    ASSUME [Next]_vars
    PROVE  \/ Outside /\ UNCHANGED passVars
           \/ \E w \in Workers : Pass(w) \/ CrashPass(w)
  BY DEF Next, Outside, vars, JobsSettle, Delete, GraceElapses, BeginRestore, EndRestore, WaitOver,
     Resume, Finalize, LateCommand

LEMMA InvariantStep == TypeOK /\ ErasureInv /\ [Next]_vars => ErasureInv'
<1> SUFFICES ASSUME TypeOK, ErasureInv, [Next]_vars PROVE ErasureInv'
  OBVIOUS
<1>1. RowInv /\ \A u \in Workers : PassInv(u)
  BY InvParts
<1>2. CASE Outside /\ UNCHANGED passVars
  <2>1. RowInv' /\ (Proceeds \/ Replaces)
    BY <1>1, <1>2, RowKeptOutside
  <2>2. \A u \in Workers : Same(u)
    BY <1>2 DEF Same
  <2>3. \A u \in Workers : PassInv(u)'
    BY <1>1, <2>1, <2>2, BystanderKeeps
  <2>4. QED
    BY <2>1, <2>3, InvParts
<1>3. ASSUME NEW w \in Workers, Pass(w) \/ CrashPass(w) PROVE ErasureInv'
  <2>1. RowInv' /\ Proceeds
    BY <1>1, <1>3, RowKeptByPass, PassProceeds
  <2>2. ASSUME NEW u \in Workers PROVE PassInv(u)'
    <3>1. CASE u = w
      BY <1>1, <1>3, <3>1, ActingKeeps
    <3>2. CASE u # w
      BY <1>1, <1>3, <2>1, <3>2, OthersSame, BystanderKeeps
    <3>3. QED
      BY <3>1, <3>2
  <2>3. QED
    BY <2>1, <2>2, InvParts
<1>4. QED
  BY <1>2, <1>3, OutsideOrPass

\* The invariant of an erasure with any number of concurrent passes
\* (process_request, restore_account_v1 and the SQL functions of the request).
THEOREM ErasureSafety == Spec => [](TypeOK /\ ErasureInv)
<1>1. Init => ErasureInv
  <2>1. Init => RowInv
    BY BoundsAreNaturals
       DEF Init, RowInv, TouchedOnlyInErasure, LateProven, PhasesProven
  <2>2. Init => \A w \in Workers : PassInv(w)
    BY DEF Init, PassInv, PastBegin
  <2>3. QED
    BY <2>1, <2>2, InvParts
<1>2. QED
  BY <1>1, InvariantStep, TypeCorrect, PTL DEF Spec

\* An account in use, or within its grace, has lost nothing and no command that
\* could erase some is under way (restore_account_v1 against
\* begin_erasure_destructive_v1).
THEOREM RestorableStaysIntact == Spec => []RestorableIsIntact
<1>1. ErasureInv => RestorableIsIntact
  BY DEF ErasureInv, TouchedOnlyInErasure, RestorableIsIntact
<1>2. QED
  BY <1>1, ErasureSafety, PTL

\* Every phase left behind has its stored receipt (record_erasure_ack_v1,
\* transition_erasure_v1).
THEOREM PhasesHaveReceipts == Spec => []PhasesProven
<1>1. ErasureInv => PhasesProven
  BY DEF ErasureInv
<1>2. QED
  BY <1>1, ErasureSafety, PTL

\* A receipt, stored or in the hand of a pass, stands for data that its owner
\* erased for this request (erasure_acknowledgements).
THEOREM ReceiptsAreEarned == Spec => []AcksEarned
<1>1. ErasureInv => AcksEarned
  BY DEF ErasureInv
<1>2. QED
  BY <1>1, ErasureSafety, PTL

-----------------------------------------------------------------------------
(* The erasure implements its promise.                                     *)

\* A command erases a domain whose predecessors are erased, or again one that is.
LEMMA ErasesInOrder ==
    ASSUME TypeOK, ErasureInv, NEW d \in Domains, state # "requested",
           \A e \in Domains : e < d => e \in acks,
           UNCHANGED <<account, state>>, erased' = erased \cup {d}
    PROVE  [Promise!Next]_(Promise!vars)
<1>1. acks \subseteq erased /\ Life' = Life
  BY DEF ErasureInv, AcksEarned, Life
<1>2. account \in {"due", "gone"}
  BY DEF TypeOK, ErasureInv, TouchedOnlyInErasure
<1>3. CASE account = "due"
  BY <1>1, <1>3 DEF Life, Promise!Next, Promise!Erase
<1>4. CASE account = "gone"
  <2>1. erased' = erased
    BY <1>1, <1>4 DEF ErasureInv, TouchedOnlyInErasure
  <2>2. QED
    BY <1>1, <2>1 DEF Promise!vars
<1>5. QED
  BY <1>2, <1>3, <1>4

LEMMA PromiseStep == TypeOK /\ ErasureInv /\ [Next]_vars => [Promise!Next]_(Promise!vars)
<1> SUFFICES ASSUME TypeOK, ErasureInv, [Next]_vars PROVE [Promise!Next]_(Promise!vars)
  OBVIOUS
<1> USE DEF Promise!vars, Promise!Next, Promise!Move
<1>1. CASE UNCHANGED <<account, state, erased>>
  BY <1>1 DEF Life
<1>2. CASE Delete
  BY <1>2 DEF Delete, Life, Promise!Disable
<1>3. CASE GraceElapses
  BY <1>3 DEF GraceElapses, Life
<1>4. CASE EndRestore /\ state = "requested"
  BY <1>4 DEF EndRestore, Life, Promise!Restore, ErasureInv, TouchedOnlyInErasure, TypeOK
<1>5. CASE Finalize
  <2>1. erased = Domains
    BY <1>5 DEF Finalize, TypeOK, ErasureInv, AcksEarned
  <2>2. QED
    BY <1>5, <2>1 DEF Finalize, Life, Promise!Vanish
<1>6. CASE Resume
  BY <1>6 DEF Resume, Life, TypeOK
<1>7. ASSUME NEW d \in Domains, LateCommand(d) PROVE [Promise!Next]_(Promise!vars)
  BY <1>7, ErasesInOrder DEF LateCommand, ErasureInv, LateProven, TouchedOnlyInErasure
<1>8. ASSUME NEW w \in Workers, Pass(w) \/ CrashPass(w) PROVE [Promise!Next]_(Promise!vars)
  <2>1. PassInv(w)
    BY InvParts
  <2>2. CASE Begin(w) /\ ~UNCHANGED state
    BY <2>2 DEF Begin, Life, Promise!Commit
  <2>3. CASE (Answered(w) \/ Unanswered(w)) /\ ~UNCHANGED erased
    <3>1. /\ state # "requested" /\ phase[w] = PhaseState(step[w]) /\ ProvenPass(w)
          /\ erased' = erased \cup {step[w]} /\ UNCHANGED <<account, state>>
      BY <2>1, <2>3 DEF Answered, Unanswered, Commanding, PassInv, PastBegin
    <3>2. step[w] \in Domains /\ Position(phase[w]) = step[w]
      BY <3>1, PhasePosition DEF TypeOK
    <3>3. QED
      BY <3>1, <3>2, ErasesInOrder DEF ProvenPass
  <2>4. CASE (Update(w) \/ Retry(w)) /\ ~UNCHANGED state
    <3>1. state # "requested" /\ state' # "requested" /\ UNCHANGED <<account, erased>>
      BY <2>1, <2>4, AllowedTarget DEF Update, Retry, PassInv, PastBegin
    <3>2. QED
      BY <3>1 DEF Life
  <2>5. QED
    BY <1>1, <1>8, <2>2, <2>3, <2>4
       DEF Pass, CrashPass, Start, Snapshot, Begin, Acknowledged, Skip, Answered, Unanswered, Ack,
           Read, Update, Retry
<1>9. QED
  BY <1>1, <1>2, <1>3, <1>4, <1>5, <1>6, <1>7, <1>8
     DEF Next, vars, JobsSettle, EndRestore, BeginRestore, WaitOver

\* Whatever passes, restores, retries and late commands do to each other, the
\* account is restored or erased, never both, and erased in order (the whole of
\* process_request, restore_account_v1 and finalize_erasure).
THEOREM PromiseKept == Spec => KeepsPromise
<1>1. Init => Promise!Init
  BY DEF Init, Promise!Init, Life
<1>2. QED
  BY <1>1, PromiseStep, ErasureSafety, PTL DEF Spec, KeepsPromise, Promise!Spec
=============================================================================
