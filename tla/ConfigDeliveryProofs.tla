------------------------ MODULE ConfigDeliveryProofs ------------------------
(***************************************************************************)
(* What ConfigDelivery guarantees for any number of handlers, reconcilers, *)
(* values, writes and attempts: type correctness, the inductive invariant  *)
(* DeliveryInv, and the properties that follow from it.                    *)
(***************************************************************************)
EXTENDS ConfigDelivery, TLAPS

\* Enumerations and groups of variables, expanded everywhere.
USE DEF Pcs, Versions, rowVars, workerVars, effectVars, modelVars, researchVars

-----------------------------------------------------------------------------
(* Types.                                                                  *)

\* deliver's end keeps the types of the runs and the lock.
LEMMA LeaveType ==
    ASSUME TypeOK, NEW w \in Workers, Leave(w)
    PROVE  /\ lock' \in Workers \cup {NoWorker}
           /\ pc' \in [Workers -> Pcs]
           /\ held' \in [Workers -> Versions]
           /\ sent' \in [Workers -> Commands]
<1>1. NoCommand \in Commands /\ 0 \in Versions
  BY ConfigAssumption DEF NoCommand, Commands
<1>2. QED
  BY <1>1 DEF TypeOK, Leave

LEMMA RecordType ==
    ASSUME TypeOK, NEW w \in Workers
    PROVE  Record(w) \in Commands
  BY DEF TypeOK, Record, Commands

\* write_config keeps the types of what it touches.
LEMMA ExecuteType ==
    ASSUME TypeOK, NEW command \in Commands, Execute(command)
    PROVE  /\ effective' \in Values
           /\ effective_version' \in Versions
           /\ overtaken' \in BOOLEAN
           /\ cache' \in Values \cup {NoValue}
           /\ cached_at' \in Versions
<1>1. overtaken' \in BOOLEAN
  BY DEF Execute
<1>2. QED
  BY <1>1 DEF TypeOK, Commands, Execute

LEMMA TypeStep == TypeOK /\ [Next]_vars => TypeOK'
<1> SUFFICES ASSUME TypeOK, [Next]_vars PROVE TypeOK'
  OBVIOUS
<1>1. ASSUME NEW r \in Requests, Put(r) PROVE TypeOK'
  BY <1>1, ConfigAssumption DEF TypeOK, Put, Workers
<1>2. ASSUME NEW c \in Reconcilers, List(c) PROVE TypeOK'
  BY <1>2 DEF TypeOK, List, Workers
<1>3. ASSUME NEW w \in Workers, Deliver(w) \/ DatabaseFails(w) PROVE TypeOK'
  <2>1. CASE Find(w)
    BY <2>1, LeaveType DEF TypeOK, Find, Goto
  <2>2. CASE Acquire(w)
    BY <2>2 DEF TypeOK, Acquire, Goto
  <2>3. CASE Recheck(w)
    BY <2>3, LeaveType, RecordType DEF TypeOK, Recheck
  <2>4. CASE Answered(w)
    BY <2>4, ExecuteType DEF TypeOK, Answered, Goto
  <2>5. CASE Unanswered(w)
    BY <2>5, ExecuteType DEF TypeOK, Unanswered, Goto
  <2>6. CASE Effects(w)
    <3>1. pending' \in BOOLEAN
      BY <2>6 DEF TypeOK, Effects
    <3>2. QED
      BY <2>6, <3>1 DEF TypeOK, Effects, Goto
  <2>7. CASE Mark(w)
    BY <2>7, LeaveType DEF TypeOK, Mark
  <2>8. CASE Retry(w)
    <3>1. attempts' \in 0..MaxAttempts
      <4>1. CASE Current(w)
        <5>1. attempts' = IF attempts < MaxAttempts THEN attempts + 1 ELSE MaxAttempts
          BY <2>8, <4>1 DEF Retry
        <5>2. QED
          BY <5>1, ConfigAssumption DEF TypeOK
      <4>2. CASE ~Current(w)
        BY <2>8, <4>2 DEF TypeOK, Retry
      <4>3. QED
        BY <4>1, <4>2
    <3>2. state' \in {"pending", "applied", "failed"} /\ due' \in BOOLEAN
      BY <2>8 DEF TypeOK, Retry
    <3>3. QED
      BY <2>8, <3>1, <3>2, LeaveType DEF TypeOK, Retry
  <2>9. CASE DatabaseFails(w)
    BY <2>9, LeaveType DEF TypeOK, DatabaseFails
  <2>10. QED
    BY <1>3, <2>1, <2>2, <2>3, <2>4, <2>5, <2>6, <2>7, <2>8, <2>9 DEF Deliver
<1>4. CASE LateCommand
  BY <1>4, ExecuteType DEF TypeOK, LateCommand
<1>5. CASE PushReads \/ PushStores
  BY <1>5 DEF TypeOK, PushReads, PushStores
<1>6. CASE WaitOver
  BY <1>6 DEF TypeOK, WaitOver
<1>10. CASE Reconcile \/ ReconcileFails \/ ReportLost
  BY <1>10 DEF TypeOK, Reconcile, ReconcileFails, ReportLost
<1>11. CASE Report
  <2>1. pending' \in BOOLEAN /\ overtaken' \in BOOLEAN
    BY <1>11 DEF TypeOK, Report
  <2>2. QED
    BY <1>11, <2>1 DEF TypeOK, Report
<1>7. CASE Restart
  <2>1. late' \subseteq Commands
    BY <1>7 DEF TypeOK, Restart
  <2>2. /\ effective' \in Values
        /\ effective_version' \in Versions
        /\ overtaken' \in BOOLEAN
        /\ cache' \in Values \cup {NoValue}
        /\ cached_at' \in Versions
    BY <1>7, ExecuteType DEF TypeOK, Restart
  <2>3. NoCommand \in Commands /\ 0 \in Versions
    BY ConfigAssumption DEF NoCommand, Commands
  <2>4. QED
    BY <1>7, <2>1, <2>2, <2>3 DEF TypeOK, Restart
<1>8. CASE UNCHANGED vars
  BY <1>8 DEF TypeOK, vars
<1>9. QED
  BY <1>1, <1>2, <1>3, <1>4, <1>5, <1>6, <1>7, <1>8, <1>10, <1>11 DEF Next

\* The row, the runs of deliver and Research's side keep their types.
THEOREM TypeCorrect == Spec => []TypeOK
<1>1. Init => TypeOK
  <2> SUFFICES ASSUME Init PROVE TypeOK
    OBVIOUS
  <2>1. 0 \in Versions /\ NoCommand \in Commands
    BY ConfigAssumption DEF NoCommand, Commands
  <2>2. {cache, pushing} \subseteq Values \cup {NoValue}
    BY ConfigAssumption DEF Init
  <2>3. /\ attempts \in 0..MaxAttempts
        /\ pc \in [Workers -> Pcs]
        /\ held \in [Workers -> Versions]
        /\ sent \in [Workers -> Commands]
    BY <2>1, ConfigAssumption DEF Init
  <2>4. QED
    BY <2>1, <2>2, <2>3, ConfigAssumption DEF Init, TypeOK
<1>2. QED
  BY <1>1, TypeStep, PTL DEF Spec

-----------------------------------------------------------------------------
(* The lock.                                                               *)

\* What happens outside the runs of deliver: Research, LiteLLM, Zotero, time.
Environment ==
    \/ Reconcile \/ ReconcileFails \/ Report \/ ReportLost
    \/ LateCommand \/ PushReads \/ PushStores \/ WaitOver

\* It leaves the runs, the lock, and what the row says but for its time.
LEMMA EnvironmentFrame ==
    ASSUME Environment
    PROVE  UNCHANGED <<desired, version, scope_changed, state, attempts, workerVars>>
  BY DEF Environment, Reconcile, ReconcileFails, Report, ReportLost, LateCommand, PushReads,
     PushStores, WaitOver

\* The lock admits one run at a time to what follows Acquire.
LEMMA LockStep == TypeOK /\ LockHeld /\ [Next]_vars => LockHeld'
<1> SUFFICES ASSUME TypeOK, LockHeld, [Next]_vars PROVE LockHeld'
  OBVIOUS
<1>1. ASSUME NEW r \in Requests, Put(r) PROVE LockHeld'
  BY <1>1 DEF TypeOK, LockHeld, Put, Workers
<1>2. ASSUME NEW c \in Reconcilers, List(c) PROVE LockHeld'
  BY <1>2 DEF TypeOK, LockHeld, List, Workers
<1>3. ASSUME NEW w \in Workers, Leave(w) PROVE LockHeld'
  BY <1>3, ConfigAssumption DEF TypeOK, LockHeld, Leave
<1>4. ASSUME NEW w \in Workers, Deliver(w) \/ DatabaseFails(w) PROVE LockHeld'
  <2>1. CASE Find(w)
    BY <2>1, <1>3 DEF TypeOK, LockHeld, Find, Goto
  <2>2. CASE Acquire(w)
    BY <2>2, ConfigAssumption DEF TypeOK, LockHeld, Acquire, Goto
  <2>3. CASE Recheck(w)
    BY <2>3, <1>3 DEF TypeOK, LockHeld, Recheck
  <2>4. CASE Answered(w) \/ Unanswered(w) \/ Effects(w)
    BY <2>4 DEF TypeOK, LockHeld, Answered, Unanswered, Effects, Goto
  <2>5. CASE Mark(w) \/ Retry(w) \/ DatabaseFails(w)
    BY <2>5, <1>3 DEF Mark, Retry, DatabaseFails
  <2>6. QED
    BY <1>4, <2>1, <2>2, <2>3, <2>4, <2>5 DEF Deliver
<1>5. CASE Environment \/ UNCHANGED vars
  BY <1>5, EnvironmentFrame DEF LockHeld, vars
<1>6. CASE Restart
  BY <1>6, ConfigAssumption DEF LockHeld, Restart
<1>7. QED
  BY <1>1, <1>2, <1>4, <1>5, <1>6 DEF Next, Environment

\* Two runs are never both past Acquire.
LEMMA OneRun ==
    ASSUME LockHeld,
           NEW w \in Workers, NEW v \in Workers,
           pc[w] \in {"recheck", "send", "effects", "deferred", "mark", "retry"},
           pc[v] \in {"recheck", "send", "effects", "deferred", "mark", "retry"}
    PROVE  w = v
  BY DEF LockHeld

-----------------------------------------------------------------------------
(* What a run under the lock knows of the row.                             *)

\* The end of a run takes no knowledge from the others.
LEMMA LeaveRuns ==
    ASSUME TypeOK, RunsKnowTheRow, NEW w \in Workers, Leave(w),
           UNCHANGED <<desired, version, scope_changed>>,
           \A v \in Workers \ {w} :
               pc[v] \in {"send", "effects", "deferred", "mark", "retry"} => state' = state
    PROVE  RunsKnowTheRow'
<1> SUFFICES ASSUME NEW v \in Workers
             PROVE  /\ held'[v] <= version'
                    /\ pc'[v] \in {"send", "effects", "deferred", "mark", "retry"} => state' = "pending"
                    /\ pc'[v] = "send" =>
                        /\ sent'[v].version = held'[v]
                        /\ held'[v] = version' => sent'[v] = Record(v)'
  BY DEF RunsKnowTheRow
<1>1. CASE v = w
  BY <1>1, ConfigAssumption DEF TypeOK, Leave
<1>2. CASE v # w
  BY <1>2 DEF TypeOK, Leave, RunsKnowTheRow, Record
<1>3. QED
  BY <1>1, <1>2

LEMMA RunsStep == TypeOK /\ LockHeld /\ RunsKnowTheRow /\ [Next]_vars => RunsKnowTheRow'
<1> SUFFICES ASSUME TypeOK, LockHeld, RunsKnowTheRow, [Next]_vars PROVE RunsKnowTheRow'
  OBVIOUS
<1>1. ASSUME NEW r \in Requests, Put(r) PROVE RunsKnowTheRow'
  <2>1. r \in Workers /\ version \in Nat /\ version' = version + 1 /\ state' = "pending"
    BY <1>1, ConfigAssumption DEF TypeOK, Put, Workers
  <2>2. \A w \in Workers : held[w] \in Nat /\ held[w] < version + 1
    BY <2>1, ConfigAssumption DEF TypeOK, RunsKnowTheRow
  <2>3. QED
    BY <1>1, <2>1, <2>2 DEF TypeOK, RunsKnowTheRow, Put
<1>2. ASSUME NEW c \in Reconcilers, List(c) PROVE RunsKnowTheRow'
  BY <1>2, ConfigAssumption DEF TypeOK, RunsKnowTheRow, List, Workers, Record
<1>3. ASSUME NEW w \in Workers, Deliver(w) \/ DatabaseFails(w) PROVE RunsKnowTheRow'
  <2>1. CASE Find(w)
    <3>1. CASE Leave(w)
      BY <2>1, <3>1, LeaveRuns DEF Find
    <3>2. CASE Goto(w, "lock")
      BY <2>1, <3>2 DEF TypeOK, RunsKnowTheRow, Find, Goto, Record
    <3>3. QED
      BY <2>1, <3>1, <3>2 DEF Find
  <2>2. CASE Acquire(w)
    BY <2>2 DEF TypeOK, RunsKnowTheRow, Acquire, Goto, Record
  <2>3. CASE Recheck(w)
    <3>1. CASE Current(w)
      BY <2>3, <3>1 DEF TypeOK, RunsKnowTheRow, Recheck, Current, Record
    <3>2. CASE ~Current(w)
      BY <2>3, <3>2, LeaveRuns DEF Recheck
    <3>3. QED
      BY <3>1, <3>2
  <2>4. CASE Answered(w) \/ Unanswered(w) \/ Effects(w)
    BY <2>4 DEF TypeOK, RunsKnowTheRow, Answered, Unanswered, Effects, Goto, Record
  <2>5. CASE Mark(w) \/ Retry(w)
    <3>1. \A v \in Workers \ {w} : pc[v] \notin {"send", "effects", "deferred", "mark", "retry"}
      BY <2>5, OneRun DEF Mark, Retry
    <3>2. QED
      BY <2>5, <3>1, LeaveRuns DEF Mark, Retry
  <2>6. CASE DatabaseFails(w)
    BY <2>6, LeaveRuns DEF DatabaseFails
  <2>7. QED
    BY <1>3, <2>1, <2>2, <2>3, <2>4, <2>5, <2>6 DEF Deliver
<1>4. CASE Environment \/ UNCHANGED vars
  BY <1>4, EnvironmentFrame DEF RunsKnowTheRow, Record, vars
<1>5. CASE Restart
  BY <1>5, ConfigAssumption DEF TypeOK, RunsKnowTheRow, Restart
<1>6. QED
  BY <1>1, <1>2, <1>3, <1>4, <1>5 DEF Next, Environment

-----------------------------------------------------------------------------
(* Commands and passes in the order of the versions.                       *)

\* A command sent for the current version carries what the row says.
LEMMA SentIsCurrent ==
    ASSUME RunsKnowTheRow, NEW w \in Workers, pc[w] = "send"
    PROVE  /\ sent[w].version = held[w] /\ held[w] <= version
           /\ held[w] = version => sent[w].value = desired /\ sent[w].scope_changed = scope_changed
<1>1. Record(w).value = desired /\ Record(w).scope_changed = scope_changed
  BY DEF Record
<1>2. sent[w].version = held[w] /\ (held[w] = version => sent[w] = Record(w))
  BY DEF RunsKnowTheRow
<1>3. QED
  BY <1>1, <1>2 DEF RunsKnowTheRow

\* A command whose caller goes away joins commands no newer than itself.
LEMMA LateInOrder ==
    ASSUME TypeOK, RunsKnowTheRow, SentInOrder,
           NEW S, S \subseteq {w \in Workers : pc[w] = "send"},
           late' = late \cup {sent[w] : w \in S},
           \A w \in Workers : pc'[w] # "send",
           UNCHANGED <<desired, version, effectVars, reconciled>>
    PROVE  SentInOrder'
<1>1. \A w \in S : /\ sent[w].version <= version
                   /\ sent[w].version = version => sent[w].value = desired
  BY SentIsCurrent
<1>2. QED
  BY <1>1 DEF SentInOrder

\* A command that takes effect is not newer than what is sent.
LEMMA ExecuteInOrder ==
    ASSUME TypeOK, RunsKnowTheRow, SentInOrder,
           NEW command, Execute(command), command.version <= version,
           late' \subseteq late,
           \A w \in Workers : pc'[w] = "send" =>
               pc[w] = "send" /\ held'[w] = held[w] /\ command.version <= held[w],
           UNCHANGED <<desired, version, reconciled>>
    PROVE  SentInOrder'
<1>1. effective_version' = command.version
  BY DEF Execute
<1>2. QED
  BY <1>1 DEF SentInOrder

\* The end of a run, and any step that sends nothing.
LEMMA QuietInOrder ==
    ASSUME SentInOrder,
           \A w \in Workers : pc'[w] = "send" => pc[w] = "send" /\ held'[w] = held[w],
           UNCHANGED <<desired, version, late, effective_version, reconciled>>
    PROVE  SentInOrder'
  BY DEF SentInOrder

LEMMA LeaveQuiet ==
    ASSUME TypeOK, NEW w \in Workers, Leave(w)
    PROVE  \A v \in Workers :
               /\ pc'[v] = "send" => pc[v] = "send" /\ held'[v] = held[v]
               /\ pc'[v] # "idle" => v # w /\ pc'[v] = pc[v] /\ held'[v] = held[v]
  BY DEF TypeOK, Leave

LEMMA OrderStep ==
    TypeOK /\ LockHeld /\ RunsKnowTheRow /\ SentInOrder /\ [Next]_vars => SentInOrder'
<1> SUFFICES ASSUME TypeOK, LockHeld, RunsKnowTheRow, SentInOrder, [Next]_vars
             PROVE  SentInOrder'
  OBVIOUS
<1>0. /\ version \in Nat /\ effective_version \in Nat /\ reconciled \in Nat
      /\ \A w \in Workers : held[w] \in Nat
      /\ \A command \in late : command.version \in Nat
  BY ConfigAssumption DEF TypeOK, Commands
<1>1. ASSUME NEW r \in Requests, Put(r) PROVE SentInOrder'
  <2>1. r \in Workers /\ version' = version + 1
    BY <1>1 DEF Put, Workers
  <2>2. \A w \in Workers : pc'[w] = "send" => pc[w] = "send" /\ held'[w] = held[w]
    BY <1>1, <2>1 DEF TypeOK, Put
  <2>3. UNCHANGED <<late, effective_version, reconciled>>
    BY <1>1 DEF Put
  <2>4. QED
    BY <1>0, <2>1, <2>2, <2>3 DEF SentInOrder
<1>2. ASSUME NEW c \in Reconcilers, List(c) PROVE SentInOrder'
  BY <1>2, QuietInOrder DEF TypeOK, List, Workers
<1>3. ASSUME NEW w \in Workers, Deliver(w) \/ DatabaseFails(w) PROVE SentInOrder'
  <2>1. CASE Find(w) \/ Mark(w) \/ Retry(w) \/ DatabaseFails(w)
    BY <2>1, LeaveQuiet, QuietInOrder DEF TypeOK, Find, Goto, Mark, Retry, DatabaseFails
  <2>2. CASE Acquire(w) \/ Effects(w)
    BY <2>2, QuietInOrder DEF TypeOK, Acquire, Effects, Goto
  <2>3. CASE Recheck(w)
    <3>1. CASE Current(w)
      BY <1>0, <2>3, <3>1 DEF TypeOK, SentInOrder, Recheck, Current
    <3>2. CASE ~Current(w)
      BY <2>3, <3>2, LeaveQuiet, QuietInOrder DEF Recheck
    <3>3. QED
      BY <3>1, <3>2
  <2>4. CASE Answered(w) \/ Unanswered(w)
    <3>1. /\ pc[w] = "send" /\ sent[w].version <= version
          /\ UNCHANGED <<desired, version, held, reconciled>>
      BY <2>4, SentIsCurrent DEF Answered, Unanswered, Goto
    <3>2. \A v \in Workers : pc'[v] # "send"
      BY <2>4, <3>1, OneRun DEF TypeOK, Answered, Unanswered, Goto
    <3>3. CASE Execute(sent[w]) /\ UNCHANGED late
      BY <3>1, <3>2, <3>3, ExecuteInOrder
    <3>4. CASE UNCHANGED <<effectVars, late>>
      BY <3>1, <3>2, <3>4, QuietInOrder
    <3>5. CASE late' = late \cup {sent[w]} /\ UNCHANGED effectVars
      <4>1. /\ late' = late \cup {sent[v] : v \in {w}}
            /\ {w} \subseteq {v \in Workers : pc[v] = "send"}
        BY <3>1, <3>5
      <4>2. QED
        BY <3>1, <3>2, <3>5, <4>1, LateInOrder
    <3>6. QED
      BY <2>4, <3>3, <3>4, <3>5 DEF Answered, Unanswered
  <2>5. QED
    BY <1>3, <2>1, <2>2, <2>3, <2>4 DEF Deliver
<1>4. CASE LateCommand
  <2>1. PICK command \in late : late' = late \ {command} /\ Execute(command)
    BY <1>4 DEF LateCommand
  <2>2. UNCHANGED <<desired, version, pc, held, reconciled>>
    BY <1>4 DEF LateCommand
  <2>3. /\ command.version <= version
        /\ \A w \in Workers : pc[w] = "send" => command.version <= held[w]
    BY DEF SentInOrder
  <2>4. QED
    BY <2>1, <2>2, <2>3, ExecuteInOrder
<1>5. CASE Reconcile
  BY <1>0, <1>5 DEF SentInOrder, Reconcile
<1>6. CASE ReconcileFails \/ Report \/ ReportLost \/ PushReads \/ PushStores \/ WaitOver \/ UNCHANGED vars
  BY <1>6, QuietInOrder DEF ReconcileFails, Report, ReportLost, PushReads, PushStores, WaitOver, vars
<1>7. CASE Restart
  <2>1. UNCHANGED <<desired, version, reconciled>> /\ \A w \in Workers : pc'[w] # "send"
    BY <1>7 DEF Restart
  <2>2. CASE UNCHANGED <<late, effectVars>>
    BY <2>1, <2>2, QuietInOrder
  <2>3. ASSUME NEW w \in Workers, pc[w] = "send", Execute(sent[w]), UNCHANGED late
        PROVE  SentInOrder'
    BY <2>1, <2>3, SentIsCurrent, ExecuteInOrder
  <2>4. CASE /\ late' = late \cup {sent[w] : w \in {v \in Workers : pc[v] = "send"}}
             /\ UNCHANGED effectVars
    BY <2>1, <2>4, LateInOrder
  <2>5. QED
    BY <1>7, <2>2, <2>3, <2>4 DEF Restart
<1>8. QED
  BY <1>1, <1>2, <1>3, <1>4, <1>5, <1>6, <1>7 DEF Next

-----------------------------------------------------------------------------
(* Values in effect.                                                       *)

\* A command leaves the current version in effect or overtakes it, and the
\* command of the current version puts it into effect.
LEMMA ExecuteInEffect ==
    ASSUME TypeOK, NEW command \in Commands, Execute(command),
           command.version <= version,
           command.version = version => command.value = desired,
           UNCHANGED <<desired, version, reconciled>>
    PROVE  /\ InEffect => InEffect'
           /\ command.version = version => InEffect'
<1>1. CASE command.version = version
  BY <1>1 DEF Execute, InEffect
<1>2. CASE command.version # version
  <2>1. SUFFICES ASSUME InEffect, ~Library PROVE overtaken'
    BY <1>2 DEF InEffect
  <2>3. command.version < version
    BY <1>2, ConfigAssumption DEF TypeOK, Commands
  <2>4. overtaken \/ version \in {effective_version, reconciled}
    BY <2>1 DEF InEffect
  <2>5. QED
    BY <2>3, <2>4 DEF Execute
<1>3. QED
  BY <1>1, <1>2

\* What EffectsFollow says of the runs and the row survives a step that keeps the
\* current version in effect and brings no run to an acknowledgement.
LEMMA KeptEffects ==
    ASSUME EffectsFollow,
           InEffect => InEffect',
           pending => pending' \/ InEffect',
           \A w \in Workers : pc'[w] \in {"effects", "mark"} =>
               pc[w] = pc'[w] /\ held'[w] = held[w],
           state' = "applied" => state = "applied",
           reconciling' = "delivered" => reconciling = "delivered",
           UNCHANGED <<version, reconciled>>
    PROVE  EffectsFollow'
  BY DEF EffectsFollow

\* The command of a run under the lock.
LEMMA ExecuteEffects ==
    ASSUME TypeOK, RunsKnowTheRow, NEW w \in Workers, pc[w] = "send", Execute(sent[w]),
           UNCHANGED <<desired, version, reconciled>>
    PROVE  /\ effective_version' = held[w]
           /\ InEffect => InEffect'
           /\ held[w] = version => InEffect'
<1>1. effective_version' = sent[w].version
  BY DEF Execute
<1>2. /\ sent[w].version <= version
      /\ sent[w].version = version => sent[w].value = desired
      /\ sent[w].version = held[w]
      /\ sent[w] \in Commands
  BY SentIsCurrent DEF TypeOK
<1>3. (InEffect => InEffect') /\ (sent[w].version = version => InEffect')
  BY <1>2, ExecuteInEffect
<1>4. QED
  BY <1>1, <1>2, <1>3

LEMMA EffectStep ==
    TypeOK /\ LockHeld /\ RunsKnowTheRow /\ SentInOrder /\ EffectsFollow /\ [Next]_vars
        => EffectsFollow'
<1> SUFFICES ASSUME TypeOK, LockHeld, RunsKnowTheRow, SentInOrder, EffectsFollow, [Next]_vars
             PROVE  EffectsFollow'
  OBVIOUS
<1>0. version \in Nat /\ reconciled \in Nat /\ \A w \in Workers : held[w] \in Nat
  BY ConfigAssumption DEF TypeOK
<1>1. ASSUME NEW r \in Requests, Put(r) PROVE EffectsFollow'
  <2>1. r \in Workers /\ version' = version + 1 /\ state' = "pending" /\ reconciled' = reconciled
    BY <1>1 DEF Put, Workers
  <2>2. \A w \in Workers : held[w] # version + 1 /\ reconciled # version + 1
    BY <1>0 DEF RunsKnowTheRow, SentInOrder
  <2>3. \A w \in Workers : held'[w] = version' => pc'[w] \notin {"effects", "mark"}
    BY <1>1, <2>1, <2>2 DEF TypeOK, Put
  <2>4. reconciled' # version'
    BY <2>1, <2>2
  <2>5. QED
    BY <2>1, <2>3, <2>4 DEF EffectsFollow
<1>2. ASSUME NEW c \in Reconcilers, List(c) PROVE EffectsFollow'
  BY <1>2, KeptEffects DEF TypeOK, InEffect, List, Workers
<1>3. ASSUME NEW w \in Workers, Deliver(w) \/ DatabaseFails(w) PROVE EffectsFollow'
  <2>1. CASE Find(w) \/ Retry(w) \/ DatabaseFails(w)
    BY <2>1, LeaveQuiet, KeptEffects DEF TypeOK, InEffect, Find, Goto, Retry, DatabaseFails
  <2>2. CASE Acquire(w)
    BY <2>2, KeptEffects DEF TypeOK, InEffect, Acquire, Goto
  <2>3. CASE Recheck(w)
    <3>1. \A v \in Workers : pc'[v] \in {"effects", "mark"} => pc[v] = pc'[v] /\ held'[v] = held[v]
      BY <2>3, LeaveQuiet DEF TypeOK, Recheck
    <3>2. QED
      BY <2>3, <3>1, KeptEffects DEF InEffect, Recheck
  <2>4. CASE Answered(w) \/ Unanswered(w)
    <3>1. /\ pc[w] = "send" /\ state = "pending"
          /\ UNCHANGED <<desired, version, state, held, pending, reconciling, reconciled>>
      BY <2>4 DEF Answered, Unanswered, Goto, RunsKnowTheRow
    <3>2. \A v \in Workers \ {w} : pc'[v] \notin {"effects", "mark"}
      BY <2>4, <3>1, OneRun DEF TypeOK, Answered, Unanswered, Goto
    <3>3. CASE Execute(sent[w])
      <4>1. pc'[w] # "mark"
        BY <2>4 DEF TypeOK, Answered, Unanswered, Goto
      <4>2. (InEffect => InEffect') /\ (held[w] = version => InEffect')
        BY <3>1, <3>3, ExecuteEffects
      <4>3. QED
        BY <3>1, <3>2, <4>1, <4>2 DEF EffectsFollow
    <3>4. CASE UNCHANGED effectVars /\ pc'[w] \in {"deferred", "retry"}
      BY <3>1, <3>2, <3>4, KeptEffects DEF InEffect
    <3>5. QED
      BY <2>4, <3>3, <3>4 DEF TypeOK, Answered, Unanswered, Goto
  <2>5. CASE Effects(w)
    <3>1. /\ pc[w] \in {"effects", "deferred"} /\ state = "pending"
          /\ UNCHANGED <<version, state, held, reconciling, reconciled>>
          /\ InEffect' = InEffect
      BY <2>5 DEF Effects, Goto, RunsKnowTheRow, InEffect
    <3>2. \A v \in Workers \ {w} : pc'[v] \notin {"effects", "mark"}
      BY <2>5, <3>1, OneRun DEF TypeOK, Effects, Goto
    <3>3. pc'[w] = "mark"
      BY <2>5 DEF TypeOK, Effects, Goto
    <3>4. pc[w] = "deferred" => pending' \/ InEffect
      BY <2>5 DEF Effects, InEffect
    <3>5. QED
      BY <3>1, <3>2, <3>3, <3>4 DEF EffectsFollow
  <2>6. CASE Mark(w)
    <3>1. UNCHANGED <<version, pending, reconciling, reconciled>> /\ InEffect' = InEffect
      BY <2>6 DEF Mark, InEffect
    <3>2. state' = "applied" => state = "applied" \/ (pc[w] = "mark" /\ held[w] = version)
      BY <2>6 DEF Mark, Current
    <3>3. \A v \in Workers : pc'[v] # "idle" => pc'[v] = pc[v] /\ held'[v] = held[v]
      BY <2>6, LeaveQuiet DEF Mark
    <3>4. QED
      BY <3>1, <3>2, <3>3 DEF EffectsFollow
  <2>7. QED
    BY <1>3, <2>1, <2>2, <2>3, <2>4, <2>5, <2>6 DEF Deliver
<1>4. CASE LateCommand
  <2>1. PICK command \in late : Execute(command)
    BY <1>4 DEF LateCommand
  <2>2. UNCHANGED <<desired, version, state, pc, held, pending, reconciling, reconciled>>
    BY <1>4 DEF LateCommand
  <2>3. /\ command \in Commands
        /\ command.version <= version
        /\ command.version = version => command.value = desired
    BY DEF TypeOK, SentInOrder
  <2>4. InEffect => InEffect'
    BY <2>1, <2>2, <2>3, ExecuteInEffect
  <2>5. QED
    BY <2>2, <2>4, KeptEffects
<1>5. CASE Reconcile
  <2>1. InEffect'
    BY <1>5 DEF Reconcile, InEffect
  <2>2. QED
    BY <2>1 DEF EffectsFollow
<1>6. CASE ReconcileFails
  <2>1. /\ UNCHANGED <<desired, version, state, pc, held, pending, reconciled>>
        /\ reconciling' = "failed"
        /\ InEffect => InEffect'
    BY <1>6 DEF ReconcileFails, InEffect
  <2>2. QED
    BY <2>1, KeptEffects
<1>7. CASE Report
  <2>1. /\ UNCHANGED <<desired, version, state, pc, held, reconciled>>
        /\ reconciling' = "idle"
        /\ InEffect => InEffect'
    BY <1>7 DEF Report, InEffect
  <2>2. pending' \/ InEffect'
    <3>1. CASE reconciling = "delivered"
      <4>1. reconciled = version => InEffect'
        BY <3>1, <2>1 DEF EffectsFollow
      <4>2. reconciled = version \/ overtaken' = TRUE
        BY <1>7, <3>1 DEF Report
      <4>3. QED
        BY <4>1, <4>2 DEF InEffect
    <3>2. CASE reconciling = "failed"
      BY <1>7, <3>2 DEF Report
    <3>3. QED
      BY <1>7, <3>1, <3>2 DEF TypeOK, Report
  <2>3. QED
    BY <2>1, <2>2, KeptEffects
<1>8. CASE ReportLost \/ PushReads \/ PushStores \/ WaitOver \/ UNCHANGED vars
  BY <1>8, KeptEffects DEF InEffect, ReportLost, PushReads, PushStores, WaitOver, vars
<1>9. CASE Restart
  <2>1. /\ UNCHANGED <<desired, version, state, pending, reconciling, reconciled>>
        /\ \A w \in Workers : pc'[w] = "idle"
    BY <1>9 DEF Restart
  <2>2. CASE UNCHANGED effectVars
    BY <2>1, <2>2, KeptEffects DEF InEffect
  <2>3. ASSUME NEW w \in Workers, pc[w] = "send", Execute(sent[w])
        PROVE  EffectsFollow'
    BY <2>1, <2>3, ExecuteEffects, KeptEffects
  <2>4. QED
    BY <1>9, <2>2, <2>3 DEF Restart
<1>10. QED
  BY <1>1, <1>2, <1>3, <1>4, <1>5, <1>6, <1>7, <1>8, <1>9 DEF Next

-----------------------------------------------------------------------------
(* Identifiers of a library, whatever commands run on.                     *)

LEMMA LeaveIdentifiers ==
    ASSUME TypeOK, IdentifiersFollow, NEW w \in Workers, Leave(w),
           UNCHANGED <<version, scope_changed, researchVars>>,
           state' = "applied" => OldIdentifiersCleared'
    PROVE  IdentifiersFollow'
  BY DEF TypeOK, IdentifiersFollow, OldIdentifiersCleared, Leave

\* A command never brings identifiers back.
LEMMA ExecuteIdentifiers ==
    ASSUME NEW command, Execute(command)
    PROVE  (cache' = cache \/ cache' = NoValue) /\ cached_at' = cached_at
  BY DEF Execute

LEMMA IdentifierStep ==
    TypeOK /\ RunsKnowTheRow /\ IdentifiersFollow /\ [Next]_vars => IdentifiersFollow'
<1> SUFFICES ASSUME TypeOK, RunsKnowTheRow, IdentifiersFollow, [Next]_vars
             PROVE  IdentifiersFollow'
  OBVIOUS
<1>1. ASSUME NEW r \in Requests, Put(r) PROVE IdentifiersFollow'
  <2>1. r \in Workers /\ version \in Nat /\ version' = version + 1 /\ state' = "pending"
    BY <1>1, ConfigAssumption DEF TypeOK, Put, Workers
  <2>2. \A w \in Workers : held[w] \in Nat /\ held[w] < version + 1
    BY <2>1, ConfigAssumption DEF TypeOK, RunsKnowTheRow
  <2>3. QED
    BY <1>1, <2>1, <2>2 DEF TypeOK, IdentifiersFollow, OldIdentifiersCleared, Put
<1>2. ASSUME NEW c \in Reconcilers, List(c) PROVE IdentifiersFollow'
  BY <1>2 DEF TypeOK, IdentifiersFollow, OldIdentifiersCleared, List, Workers
<1>3. ASSUME NEW w \in Workers, Deliver(w) \/ DatabaseFails(w) PROVE IdentifiersFollow'
  <2>1. CASE Find(w)
    <3>1. CASE Leave(w)
      BY <2>1, <3>1, LeaveIdentifiers DEF Find, IdentifiersFollow, OldIdentifiersCleared
    <3>2. CASE Goto(w, "lock")
      BY <2>1, <3>2 DEF TypeOK, IdentifiersFollow, OldIdentifiersCleared, Find, Goto
    <3>3. QED
      BY <2>1, <3>1, <3>2 DEF Find
  <2>2. CASE Acquire(w)
    BY <2>2 DEF TypeOK, IdentifiersFollow, OldIdentifiersCleared, Acquire, Goto
  <2>3. CASE Recheck(w)
    <3>1. CASE Current(w)
      BY <2>3, <3>1 DEF TypeOK, IdentifiersFollow, OldIdentifiersCleared, Recheck
    <3>2. CASE ~Current(w)
      BY <2>3, <3>2, LeaveIdentifiers DEF Recheck, IdentifiersFollow, OldIdentifiersCleared
    <3>3. QED
      BY <3>1, <3>2
  <2>4. CASE Answered(w)
    <3>1. held[w] = version /\ scope_changed => cache' = NoValue
      BY <2>4, SentIsCurrent DEF Answered, Execute, IdentifiersFollow
    <3>2. QED
      BY <2>4, <3>1, ExecuteIdentifiers
         DEF TypeOK, IdentifiersFollow, OldIdentifiersCleared, Answered, Goto
  <2>5. CASE Unanswered(w)
    BY <2>5, ExecuteIdentifiers
       DEF TypeOK, IdentifiersFollow, OldIdentifiersCleared, Unanswered, Goto
  <2>6. CASE Effects(w)
    BY <2>6 DEF TypeOK, IdentifiersFollow, OldIdentifiersCleared, Effects, Goto
  <2>7. CASE Mark(w)
    BY <2>7, LeaveIdentifiers DEF Mark, Current, IdentifiersFollow, OldIdentifiersCleared
  <2>8. CASE Retry(w) \/ DatabaseFails(w)
    BY <2>8, LeaveIdentifiers DEF Retry, DatabaseFails, IdentifiersFollow, OldIdentifiersCleared
  <2>9. QED
    BY <1>3, <2>1, <2>2, <2>3, <2>4, <2>5, <2>6, <2>7, <2>8 DEF Deliver
<1>4. CASE LateCommand
  BY <1>4, ExecuteIdentifiers DEF LateCommand, IdentifiersFollow, OldIdentifiersCleared
<1>5. CASE PushReads \/ PushStores \/ WaitOver \/ UNCHANGED vars
  BY <1>5 DEF IdentifiersFollow, OldIdentifiersCleared, PushReads, PushStores, WaitOver, vars
<1>8. CASE Reconcile \/ ReconcileFails \/ Report \/ ReportLost
  BY <1>8 DEF IdentifiersFollow, OldIdentifiersCleared, Reconcile, ReconcileFails, Report, ReportLost
<1>6. CASE Restart
  BY <1>6, ExecuteIdentifiers DEF IdentifiersFollow, OldIdentifiersCleared, Restart
<1>7. QED
  BY <1>1, <1>2, <1>3, <1>4, <1>5, <1>6, <1>8 DEF Next

-----------------------------------------------------------------------------
(* The theorems.                                                           *)

\* The inductive invariant of deliver holds always.
THEOREM DeliverySafety == Spec => [](TypeOK /\ DeliveryInv)
<1>1. Init => DeliveryInv
  BY ConfigAssumption DEF Init, DeliveryInv, LockHeld, RunsKnowTheRow, SentInOrder, EffectsFollow,
     InEffect, IdentifiersFollow, OldIdentifiersCleared
<1>2. TypeOK /\ DeliveryInv /\ [Next]_vars => DeliveryInv'
  BY LockStep, RunsStep, OrderStep, EffectStep, IdentifierStep DEF DeliveryInv
<1>3. QED
  BY <1>1, <1>2, TypeCorrect, PTL DEF Spec

\* What the row calls applied is in effect, or shown as waiting, unless a
\* superseded command or report came after it (deliver, mark_applied,
\* apply_research_config_effects, the LiteLLM reconciler).
THEOREM AppliedMeansInEffect == Spec => []AppliedIsInEffect
<1>1. DeliveryInv => AppliedIsInEffect
  BY DEF DeliveryInv, EffectsFollow, InEffect, AppliedIsInEffect
<1>2. QED
  BY <1>1, DeliverySafety, PTL

\* A delivered change leaves no identifier stored before it
\* (_clear_zotero_library_cache).
THEOREM ChangesClearIdentifiers == Spec => []OldIdentifiersCleared
<1>1. DeliveryInv => OldIdentifiersCleared
  BY DEF DeliveryInv, IdentifiersFollow
<1>2. QED
  BY <1>1, DeliverySafety, PTL

\* Commands take effect in the order of their versions unless their callers are
\* gone (the lock of deliver and the look at the row under it).
THEOREM EffectsComeInOrder == Spec => EffectsInOrder
<1>1. TypeOK /\ DeliveryInv /\ [Next]_vars => NotSuperseded
  <2> SUFFICES ASSUME TypeOK, DeliveryInv, [Next]_vars PROVE NotSuperseded
    OBVIOUS
  <2> USE DEF DeliveryInv
  <2>1. ASSUME NEW w \in Workers, pc[w] = "send", Execute(sent[w])
        PROVE  NotSuperseded
    <3>1. effective_version' = held[w] /\ effective_version <= held[w]
      BY <2>1, SentIsCurrent DEF Execute, SentInOrder
    <3>2. effective_version \in Nat /\ held[w] \in Nat
      BY ConfigAssumption DEF TypeOK
    <3>3. QED
      BY <3>1, <3>2 DEF NotSuperseded
  <2>2. CASE UNCHANGED effective_version
    BY <2>2, ConfigAssumption DEF TypeOK, NotSuperseded
  <2>3. CASE LateCommand
    BY <2>3 DEF LateCommand, Execute, NotSuperseded
  <2>4. \/ \E w \in Workers : pc[w] = "send" /\ Execute(sent[w])
        \/ UNCHANGED effective_version
        \/ LateCommand
    BY DEF Next, Deliver, Put, List, Find, Acquire, Recheck, Answered, Unanswered, Effects,
       DatabaseFails, Mark, Retry, Reconcile, ReconcileFails, Report, ReportLost, PushReads,
       PushStores, WaitOver, Restart, vars
  <2>5. QED
    BY <2>1, <2>2, <2>3, <2>4
<1>2. QED
  BY <1>1, DeliverySafety, PTL DEF Spec, EffectsInOrder
=============================================================================
