------------------------- MODULE JobLifecycleProofs -------------------------
(***************************************************************************)
(* Proofs about JobLifecycle, for every set of jobs, requests, decisions,  *)
(* plans and keys, and every number of restarts and faults.                *)
(***************************************************************************)
EXTENDS JobLifecycle, TLAPS

USE DEF Actors, Plans

\* The variables of a step by group, for the actions that leave a group alone.
LEMMA Unchanged ==
    /\ UNCHANGED durable <=> UNCHANGED <<state, kind, approved, report, reservation>>
    /\ UNCHANGED observed <=> UNCHANGED <<disk, begun, written>>
    /\ UNCHANGED budgets <=> UNCHANGED <<restarts, faults>>
BY DEF durable, observed, budgets

\* The empty database and a fresh process are well typed.
LEMMA TypeInit == Init => TypeOK
BY ConstantsAssumption, SMT
DEF Init, TypeOK, CallsOK, CallOK, CallRecords, TaskRecords, WorkerOK, NoJobPcs, WorkerRecords, IdleCall, NoTask, IdleWorker, WorkerPcs, States

\* A call is left alone, returns or is woken: it stays well formed.
LEMMA CallsStutter == ASSUME CallsOK, call' = call PROVE CallsOK'
BY DEF CallsOK

\* An actor that returns leaves every call well formed.
LEMMA CallsReturn ==
    ASSUME CallsOK, NEW a \in Actors, NEW r \in {"ok", "err"}, Return(a, r)
    PROVE  CallsOK'
BY SMT DEF CallsOK, CallOK, CallRecords, IdleCall, Return

\* So does the result of an execution task.
LEMMA CallsWake ==
    ASSUME CallsOK, NEW j \in Jobs, NEW r \in {"ok", "err"}, Wake(j, r)
    PROVE  CallsOK'
BY SMT DEF CallsOK, CallOK, CallRecords, IdleCall, Wake

\* The store's transition types the new state; what it asks of the old one
\* does not matter here.
LEMMA TransitionType ==
    ASSUME state \in [Jobs -> States \cup {"absent"}],
           NEW j, NEW s, NEW t \in States, Transition(j, s, t)
    PROVE  state' \in [Jobs -> States \cup {"absent"}]
BY DEF Transition

\* create, cancel and retry keep every column typed.
LEMMA TypeRequests ==
    ASSUME TypeOK, NEW j \in Jobs, RequestNext(j)
    PROVE  TypeOK'
<1>1. state' \in [Jobs -> States \cup {"absent"}]
  <2>1. CASE Create(j)
    BY <2>1 DEF Create, TypeOK, States
  <2>2. CASE Cancel(j)
    BY <2>2, TransitionType DEF Cancel, TypeOK, States
  <2>3. CASE Retry(j)
    BY <2>3, TransitionType DEF Retry, TypeOK, States
  <2> QED BY <2>1, <2>2, <2>3 DEF RequestNext
<1>2. UNCHANGED <<kind, approved, report, reservation, phase, worker, call,
                  task, observed, orphaned, budgets>>
  BY DEF RequestNext, Create, Cancel, Retry
<1>3. CallsOK'
  BY <1>2, CallsStutter DEF TypeOK
<1> QED BY <1>1, <1>2, <1>3 DEF TypeOK, WorkerOK, observed, budgets

\* The execution task keeps the columns it writes, and the calls it wakes, typed.
LEMMA TypeTask ==
    ASSUME TypeOK, NEW j \in Jobs, TaskNext(j)
    PROVE  TypeOK'
<1>1. CASE TaskBegin(j)
  <2>1. CallsOK'
    BY <1>1, CallsStutter DEF TaskBegin, TypeOK
  <2>2. task[j].plan \in Plans \cup {None}
    BY DEF TypeOK, TaskRecords
  <2>3. task' \in [Jobs -> TaskRecords]
    BY <1>1 DEF TaskBegin, TypeOK, TaskRecords
  <2>4. /\ begun' \in [Jobs -> Nat]
        /\ written' \in [Jobs -> Plans \cup {None}]
        /\ disk' \in [Jobs -> {"untouched", "partial", "full"}]
    BY <1>1, <2>2 DEF TaskBegin, TypeOK
  <2>5. UNCHANGED <<state, kind, approved, report, reservation, phase, worker,
                    orphaned, restarts, faults>>
    BY <1>1 DEF TaskBegin, durable, budgets
  <2> QED BY <2>1, <2>3, <2>4, <2>5 DEF TypeOK, WorkerOK
<1>2. CASE TaskWrite(j)
  <2>1. CallsOK'
    BY <1>2, CallsStutter DEF TaskWrite, TypeOK
  <2>2. /\ task' \in [Jobs -> TaskRecords]
        /\ disk' \in [Jobs -> {"untouched", "partial", "full"}]
    <3>1. task[j].plan \in Plans \cup {None}
      BY DEF TypeOK, TaskRecords
    <3>2. \A o \in {"completed", "failed"} :
            [pc |-> "wrote", plan |-> task[j].plan, outcome |-> o] \in TaskRecords
      BY <3>1 DEF TaskRecords
    <3> QED BY <1>2, <3>2 DEF TaskWrite, TypeOK
  <2>3. UNCHANGED <<state, kind, approved, report, reservation, phase, worker,
                    begun, written, orphaned, restarts, faults>>
    BY <1>2 DEF TaskWrite, durable, budgets
  <2> QED BY <2>1, <2>2, <2>3 DEF TypeOK, WorkerOK
<1>3. CASE TaskFinish(j)
  <2>1. CallsOK'
    BY <1>3, CallsWake DEF TaskFinish, TypeOK
  <2>2. state' \in [Jobs -> States \cup {"absent"}]
    BY <1>3 DEF TaskFinish, TypeOK, Transition, CanTransition, Transitions, States
  <2>3. report' \in [Jobs -> {None, "completed", "failed"}]
    BY <1>3 DEF TaskFinish, TypeOK, TaskRecords
  <2>4. task' \in [Jobs -> TaskRecords]
    BY <1>3 DEF TaskFinish, TypeOK, NoTask, TaskRecords
  <2>5. UNCHANGED <<kind, approved, reservation, phase, worker, disk, begun,
                    written, orphaned, restarts, faults>>
    BY <1>3 DEF TaskFinish, observed, budgets
  <2> QED BY <2>1, <2>2, <2>3, <2>4, <2>5 DEF TypeOK, WorkerOK
<1>4. CASE TaskManifestFails(j) \/ TaskFinishFails(j)
  <2>1. CallsOK'
    BY <1>4, CallsWake DEF TaskManifestFails, TaskFinishFails, TypeOK
  <2>2. task' \in [Jobs -> TaskRecords] /\ orphaned' \subseteq Jobs /\ faults' \in Nat
    BY <1>4 DEF TaskManifestFails, TaskFinishFails, TypeOK, TaskRecords, NoTask, Fault
  <2>3. UNCHANGED <<state, kind, approved, report, reservation, phase, worker,
                    disk, begun, written, restarts>>
    BY <1>4 DEF TaskManifestFails, TaskFinishFails, durable, observed
  <2> QED BY <2>1, <2>2, <2>3 DEF TypeOK, WorkerOK
<1> QED BY <1>1, <1>2, <1>3, <1>4 DEF TaskNext

\* Changing one actor's call to a well-formed one keeps all of them well formed.
LEMMA CallsUpdate ==
    ASSUME CallsOK, NEW a \in Actors, NEW r \in CallRecords, CallOK(r),
           call' = [call EXCEPT ![a] = r]
    PROVE  CallsOK'
BY DEF CallsOK

\* The arguments of a call that is past its read.
LEMMA CallArguments ==
    ASSUME CallsOK, NEW a \in Actors
    PROVE  /\ call[a].pc \in {"review", "recheck", "reserve", "await"} => call[a].job \in Jobs
           /\ call[a].pc \in {"recheck", "reserve", "await"} => call[a].key \in Keys
           /\ call[a].pc \in {"review", "reserve", "await"} => call[a].plan \in Plans
BY DEF CallsOK, CallOK, IdleCall

\* The reads of review and execute leave well-formed calls behind.
LEMMA CallsRead ==
    ASSUME CallsOK, ConstantsAssumption, NEW a \in Actors, NEW j \in Jobs,
           \/ \E p \in Plans : ReviewRead(a, j, p)
           \/ \E k \in Keys : RecheckRead(a, j, k)
           \/ approved \in [Jobs -> Plans \cup {None}] /\ \E k \in Keys, c \in Contents : ExecuteRead(a, j, k, c)
    PROVE  CallsOK'
<1>1. CASE \E p \in Plans : ReviewRead(a, j, p)
  <2>1. PICK p \in Plans : ReviewRead(a, j, p)
    BY <1>1
  <2>2. [pc |-> "review", job |-> j, key |-> None, plan |-> p] \in CallRecords
    BY DEF CallRecords
  <2> QED BY <2>1, <2>2, CallsUpdate DEF ReviewRead, CallOK
<1>2. CASE \E k \in Keys : RecheckRead(a, j, k)
  <2>1. PICK k \in Keys : RecheckRead(a, j, k)
    BY <1>2
  <2>2. [pc |-> "recheck", job |-> j, key |-> k, plan |-> None] \in CallRecords
    BY DEF CallRecords
  <2> QED BY <2>1, <2>2, CallsUpdate DEF RecheckRead, CallOK
<1>3. CASE /\ approved \in [Jobs -> Plans \cup {None}]
           /\ \E k \in Keys, c \in Contents : ExecuteRead(a, j, k, c)
  <2>1. PICK k \in Keys, c \in Contents : ExecuteRead(a, j, k, c)
    BY <1>3
  <2>2. approved[j] \in Plans
    BY <1>3, <2>1 DEF ExecuteRead
  <2>3. [pc |-> "reserve", job |-> j, key |-> k, plan |-> approved[j]] \in CallRecords
    BY <2>2 DEF CallRecords
  <2>4. call' = [call EXCEPT ![a] = [pc |-> "reserve", job |-> j, key |-> k, plan |-> approved[j]]]
    BY <2>1 DEF ExecuteRead
  <2> QED BY <2>2, <2>3, <2>4, CallsUpdate DEF CallOK
<1> QED BY <1>1, <1>2, <1>3

\* A reservation types the state and the key.
LEMMA ReserveType ==
    ASSUME TypeOK, NEW j \in Jobs, NEW k \in Keys, Reserve(j, k)
    PROVE  /\ state' \in [Jobs -> States \cup {"absent"}]
           /\ reservation' \in [Jobs -> Keys \cup {None}]
BY DEF Reserve, TypeOK, States

\* What clients read, and clients that go away, keep the types.
LEMMA TypeClient == ASSUME TypeOK, ClientNext PROVE TypeOK'
<1> USE ConstantsAssumption
<1>1. ASSUME NEW c \in Clients, NEW j \in Jobs, ClientReview(c, j) \/ ClientExecute(c, j)
      PROVE  TypeOK'
  <2>1. CallsOK'
    BY <1>1, CallsRead DEF ClientReview, ClientExecute, TypeOK
  <2>2. UNCHANGED <<state, kind, approved, report, reservation, phase, worker, task,
                    disk, begun, written, orphaned, restarts, faults>>
    BY <1>1 DEF ClientReview, ClientExecute, durable, observed, budgets
  <2> QED BY <2>1, <2>2 DEF TypeOK, WorkerOK
<1>2. ASSUME NEW c \in Clients, ClientDropped(c) PROVE TypeOK'
  <2>1. CallsOK'
    BY <1>2 DEF ClientDropped, TypeOK, CallsOK, CallOK, CallRecords, IdleCall
  <2>2. UNCHANGED <<state, kind, approved, report, reservation, phase, worker, task,
                    disk, begun, written, orphaned, restarts, faults>>
    BY <1>2 DEF ClientDropped, durable, observed, budgets
  <2> QED BY <2>1, <2>2 DEF TypeOK, WorkerOK
<1>3. ASSUME NEW c \in Clients, ClientDroppedInCommit(c) PROVE TypeOK'
  <2>1. CallsOK'
    BY <1>3 DEF ClientDroppedInCommit, TypeOK, CallsOK, CallOK, CallRecords, IdleCall
  <2>2. call[c].job \in Jobs /\ call[c].key \in Keys
    BY <1>3, CallArguments DEF ClientDroppedInCommit, TypeOK
  <2>3. /\ state' \in [Jobs -> States \cup {"absent"}]
        /\ reservation' \in [Jobs -> Keys \cup {None}]
        /\ orphaned' \subseteq Jobs /\ faults' \in Nat
    <3>1. Reserve(call[c].job, call[c].key) /\ Fault /\ orphaned' = orphaned \cup {call[c].job}
      BY <1>3 DEF ClientDroppedInCommit
    <3>2. orphaned' \subseteq Jobs
      BY <2>2, <3>1 DEF TypeOK
    <3>3. faults' \in Nat
      BY <3>1 DEF TypeOK, Fault
    <3> QED BY <2>2, <3>1, <3>2, <3>3, ReserveType
  <2>4. UNCHANGED <<kind, approved, report, phase, worker, task,
                    disk, begun, written, restarts>>
    BY <1>3 DEF ClientDroppedInCommit, observed
  <2> QED BY <2>1, <2>3, <2>4 DEF TypeOK, WorkerOK
<1> QED BY <1>1, <1>2, <1>3 DEF ClientNext

\* The critical sections of review and execute keep the types.
LEMMA TypeCall == ASSUME TypeOK, NEW a \in Actors, CallNext(a) PROVE TypeOK'
<1> USE ConstantsAssumption
<1> DEFINE j == call[a].job
<1>1. CASE ReviewCommit(a)
  <2>1. j \in Jobs /\ call[a].plan \in Plans
    BY <1>1, CallArguments DEF ReviewCommit, TypeOK
  <2>2. CallsOK'
    BY <1>1, CallsReturn DEF ReviewCommit, TypeOK
  <2>3. /\ state' \in [Jobs -> States \cup {"absent"}]
        /\ approved' \in [Jobs -> Plans \cup {None}]
    BY <1>1, <2>1 DEF ReviewCommit, Transition, TypeOK, States
  <2>4. UNCHANGED <<kind, report, reservation, phase, worker, task,
                    disk, begun, written, orphaned, restarts, faults>>
    BY <1>1 DEF ReviewCommit, observed, budgets
  <2> QED BY <2>2, <2>3, <2>4 DEF TypeOK, WorkerOK
<1>2. CASE ReserveCommit(a)
  <2>1. j \in Jobs /\ call[a].key \in Keys /\ call[a].plan \in Plans
    BY <1>2, CallArguments DEF ReserveCommit, TypeOK
  <2>2. UNCHANGED <<kind, approved, report, phase, worker,
                    disk, begun, written, restarts, faults>>
    BY <1>2 DEF ReserveCommit, observed, budgets
  <2>3. CASE ReturnExisting(a)
    <3>1. CallsOK'
      BY <2>3, CallsReturn DEF ReturnExisting, TypeOK
    <3> QED BY <2>2, <2>3, <3>1 DEF ReturnExisting, TypeOK, WorkerOK
  <2>4. CASE ~ReturnExisting(a)
    <3>1. /\ Reserve(j, call[a].key) /\ UNCHANGED orphaned
          /\ task' = [task EXCEPT ![j] = [pc |-> "spawned", plan |-> call[a].plan, outcome |-> None]]
          /\ call' = [call EXCEPT ![a].pc = "await"]
      BY <1>2, <2>4 DEF ReserveCommit
    <3>2. [pc |-> "spawned", plan |-> call[a].plan, outcome |-> None] \in TaskRecords
      BY <2>1 DEF TaskRecords
    <3>3. task' \in [Jobs -> TaskRecords]
      BY <3>1, <3>2 DEF TypeOK
    <3>4. CallsOK'
      BY <1>2, <2>1, <3>1 DEF ReserveCommit, TypeOK, CallsOK, CallOK, CallRecords, IdleCall
    <3>5. /\ state' \in [Jobs -> States \cup {"absent"}]
          /\ reservation' \in [Jobs -> Keys \cup {None}]
      BY <2>1, <3>1, ReserveType
    <3> QED BY <2>2, <3>1, <3>3, <3>4, <3>5 DEF TypeOK, WorkerOK
  <2> QED BY <2>3, <2>4
<1>3. CASE RecheckCommit(a)
  <2>1. j \in Jobs /\ call[a].key \in Keys
    BY <1>3, CallArguments DEF RecheckCommit, TypeOK
  <2>2. UNCHANGED <<kind, approved, report, phase, worker, task,
                    disk, begun, written, restarts, faults>>
    BY <1>3 DEF RecheckCommit, ReturnExisting, observed, budgets
  <2>3. CallsOK'
    BY <1>3, CallsReturn DEF RecheckCommit, ReturnExisting, TypeOK
  <2>4. /\ state' \in [Jobs -> States \cup {"absent"}]
        /\ reservation' \in [Jobs -> Keys \cup {None}]
        /\ orphaned' \subseteq Jobs
    BY <1>3, <2>1, ReserveType DEF RecheckCommit, ReturnExisting, TypeOK
  <2> QED BY <2>2, <2>3, <2>4 DEF TypeOK, WorkerOK
<1> QED BY <1>1, <1>2, <1>3 DEF CallNext

\* Moving the worker's program counter keeps the worker's record typed.
LEMMA GotoType ==
    ASSUME WorkerOK, NEW pc \in WorkerPcs, Goto(pc),
           pc \in NoJobPcs \/ worker.pc \notin NoJobPcs
    PROVE  WorkerOK'
BY DEF WorkerOK, WorkerRecords, Goto

\* What every step of the worker leaves alone, and what it has to keep typed.
LEMMA TypeWorkerFrame ==
    ASSUME TypeOK,
           UNCHANGED <<kind, approved, reservation, phase, task, observed, orphaned, restarts>>,
           state' \in [Jobs -> States \cup {"absent"}], WorkerOK', CallsOK',
           report' \in [Jobs -> {None, "completed", "failed"}], faults' \in Nat
    PROVE  TypeOK'
BY DEF TypeOK, observed

\* No step of the worker leaves a domain.
LEMMA TypeWorker == ASSUME TypeOK, WorkerNext PROVE TypeOK'
<1> USE ConstantsAssumption
<1>1. CASE WorkerWake \/ WorkerClaimFails \/ WorkerPanic \/ WorkerStoreFails
           \/ \E s \in Stages : WorkerWork(s)
  <2>1. \E pc \in WorkerPcs : Goto(pc) /\ (pc \in NoJobPcs \/ worker.pc \notin NoJobPcs)
    BY <1>1 DEF WorkerWake, WorkerClaimFails, WorkerPanic, WorkerStoreFails, WorkerWork,
       Stages, WorkerPcs, NoJobPcs
  <2>2. UNCHANGED <<state, kind, approved, report, reservation, phase, call, task,
                    observed, orphaned, restarts>> /\ faults' \in Nat
    BY <1>1 DEF WorkerWake, WorkerClaimFails, WorkerPanic, WorkerStoreFails, WorkerWork,
       durable, budgets, Fault, TypeOK
  <2> QED BY <2>1, <2>2, GotoType, CallsStutter, TypeWorkerFrame DEF TypeOK
<1>2. CASE WorkerClaim \/ WorkerClaimed \/ WorkerOffer \/ WorkerSettle
           \/ \E s \in Stages : WorkerStore(s)
  <2>1. state' \in [Jobs -> States \cup {"absent"}]
    BY <1>2, TransitionType DEF WorkerClaim, WorkerClaimed, WorkerOffer, WorkerSettle,
       WorkerStore, Stages, States, TypeOK
  <2>2. WorkerOK'
    <3>1. CASE \E pc \in WorkerPcs : Goto(pc) /\ (pc \in NoJobPcs \/ worker.pc \notin NoJobPcs)
      BY <3>1, GotoType DEF TypeOK
    <3>2. CASE \A pc \in WorkerPcs : ~(Goto(pc) /\ (pc \in NoJobPcs \/ worker.pc \notin NoJobPcs))
      BY <1>2, <3>2 DEF WorkerClaim, WorkerClaimed, WorkerOffer, WorkerSettle, WorkerStore,
         Stages, WorkerPcs, NoJobPcs, WorkerOK, WorkerRecords, IdleWorker
    <3> QED BY <3>1, <3>2
  <2>3. UNCHANGED <<kind, approved, report, reservation, phase, call, task,
                    observed, orphaned, restarts, faults>>
    BY <1>2 DEF WorkerClaim, WorkerClaimed, WorkerOffer, WorkerSettle, WorkerStore, budgets
  <2> QED BY <2>1, <2>2, <2>3, CallsStutter, TypeWorkerFrame DEF TypeOK
<1>3. CASE WorkerReview \/ WorkerExecute
  <2>1. UNCHANGED <<state, kind, approved, report, reservation, phase, worker, task,
                    observed, orphaned, restarts, faults>>
    BY <1>3 DEF WorkerReview, WorkerExecute, durable, budgets
  <2>2. worker.job \in Jobs
    BY <1>3 DEF WorkerReview, WorkerExecute, TypeOK, WorkerOK, NoJobPcs
  <2>3. CallsOK'
    <3>1. CASE Return(Worker, "err")
      BY <3>1, CallsReturn DEF TypeOK
    <3>2. CASE ~Return(Worker, "err")
      BY <1>3, <2>2, <3>2, CallsRead DEF WorkerReview, WorkerExecute, TypeOK
    <3> QED BY <3>1, <3>2
  <2>4. WorkerOK'
    BY <2>1 DEF TypeOK, WorkerOK
  <2> QED BY <2>1, <2>3, <2>4, TypeWorkerFrame DEF TypeOK
<1>4. CASE WorkerReturned
  <2>1. worker.pc \notin NoJobPcs => WorkerOK'
    BY <1>4, GotoType DEF WorkerReturned, WorkerPcs, TypeOK
  <2>2. CallsOK'
    BY <1>4 DEF WorkerReturned, TypeOK, CallsOK, CallOK, CallRecords, IdleCall
  <2>3. UNCHANGED <<state, kind, approved, report, reservation, phase, task,
                    observed, orphaned, restarts, faults>>
    BY <1>4 DEF WorkerReturned, durable, budgets
  <2> QED BY <1>4, <2>1, <2>2, <2>3, TypeWorkerFrame DEF TypeOK, WorkerReturned, NoJobPcs
<1>5. CASE WorkerFail \/ WorkerFailCommit
  <2>1. worker.job \in Jobs
    BY <1>5 DEF WorkerFail, WorkerFailCommit, TypeOK, WorkerOK, NoJobPcs
  <2>2. WorkerOK'
    BY <1>5, <2>1 DEF WorkerFail, WorkerFailCommit, TypeOK, WorkerOK, NoJobPcs,
       WorkerRecords, WorkerPcs, CanTransition
  <2>3. /\ state' \in [Jobs -> States \cup {"absent"}]
        /\ report' \in [Jobs -> {None, "completed", "failed"}]
    BY <1>5, TransitionType DEF WorkerFail, WorkerFailCommit, TypeOK, States, durable
  <2>4. UNCHANGED <<kind, approved, reservation, phase, call, task, observed,
                    orphaned, restarts, faults>>
    BY <1>5 DEF WorkerFail, WorkerFailCommit, durable, budgets
  <2> QED BY <2>2, <2>3, <2>4, CallsStutter, TypeWorkerFrame DEF TypeOK
<1> QED BY <1>1, <1>2, <1>3, <1>4, <1>5 DEF WorkerNext

\* Neither does a shutdown or a restart.
LEMMA TypePool == ASSUME TypeOK, PoolNext PROVE TypeOK'
<1>1. CASE ShutdownRequest \/ ShutdownClose \/ ShutdownDone
  <2>1. CallsOK'
    BY <1>1, CallsStutter DEF ShutdownRequest, ShutdownClose, ShutdownDone, TypeOK
  <2>2. UNCHANGED <<state, kind, approved, report, reservation, worker, task,
                    disk, begun, written, orphaned, restarts, faults>>
        /\ phase' \in {"running", "stopping", "closing", "closed"}
    BY <1>1 DEF ShutdownRequest, ShutdownClose, ShutdownDone, durable, observed, budgets
  <2> QED BY <2>1, <2>2 DEF TypeOK, WorkerOK
<1>2. CASE Restart
  <2>1. CallsOK'
    BY <1>2 DEF Restart, CallsOK, CallOK, CallRecords, IdleCall
  <2>2. WorkerOK' /\ task' \in [Jobs -> TaskRecords]
    BY <1>2 DEF Restart, IdleWorker, WorkerOK, NoJobPcs, WorkerRecords, WorkerPcs,
       TaskRecords, NoTask
  <2>3. /\ state' \in [Jobs -> States \cup {"absent"}]
        /\ phase' = "running" /\ orphaned' = {} /\ restarts' \in Nat
    BY <1>2 DEF Restart, TypeOK, States
  <2>4. UNCHANGED <<kind, approved, report, reservation, disk, begun, written, faults>>
    BY <1>2 DEF Restart, observed
  <2> QED BY <2>1, <2>2, <2>3, <2>4 DEF TypeOK
<1> QED BY <1>1, <1>2 DEF PoolNext

(***************************************************************************)
(* The type invariant.                                                     *)
(***************************************************************************)

\* TypeOK: every column, program counter and counter stays in its domain,
\* whatever the interleaving of worker, requests, tasks and restarts.
THEOREM TypeCorrect == Spec => []TypeOK
<1>1. TypeOK /\ [Next]_vars => TypeOK'
  <2> SUFFICES ASSUME TypeOK, [Next]_vars PROVE TypeOK'
    OBVIOUS
  <2>1. CASE Next
    BY <2>1, TypeRequests, TypeTask, TypeCall, TypeClient, TypeWorker, TypePool DEF Next
  <2>2. CASE UNCHANGED vars
    <3>1. CallsOK'
      BY <2>2, CallsStutter DEF vars, TypeOK
    <3> QED BY <2>2, <3>1 DEF vars, durable, observed, budgets, TypeOK, WorkerOK
  <2> QED BY <2>1, <2>2
<1> QED BY TypeInit, <1>1, PTL DEF Spec

(***************************************************************************)
(* Safety.                                                                 *)
(***************************************************************************)

\* With no job stored, Safe holds.
LEMMA SafeInit == Init => Safe
BY DEF Init, Safe, AtMostOnce, WritesAreApproved, FailClosed, CompletedIsTruthful,
   UnreservedIsUntouched, PlannedIsApproved, CallHoldsApproval, TaskHoldsApproval,
   IdleCall, NoTask

\* A row a step leaves alone, or moves without approving, reserving or
\* completing anything.
QuietRow(j) ==
    \/ state'[j] = state[j] /\ report'[j] = report[j]
    \/ state'[j] = "failed"
    \/ reservation[j] = None /\ state'[j] = "cancelled"
    \/ reservation[j] = None /\ state[j] \notin PastReview
       /\ state'[j] \notin {"planning", "completed"}

\* A step that touches no approval, reservation, disk, task or reserving call,
\* and moves no job to planned or completed, keeps Safe.
LEMMA QuietStep ==
    ASSUME TypeOK, Safe,
           UNCHANGED <<kind, approved, reservation, task, observed>>,
           \A a \in Actors : call'[a].pc = "reserve" => call'[a] = call[a],
           \A j \in Jobs : QuietRow(j)
    PROVE  Safe'
<1>1. AtMostOnce' /\ WritesAreApproved' /\ UnreservedIsUntouched'
  BY DEF Safe, AtMostOnce, WritesAreApproved, UnreservedIsUntouched, observed
<1>2. FailClosed' /\ PlannedIsApproved'
  BY DEF Safe, FailClosed, PlannedIsApproved, QuietRow
<1>3. CompletedIsTruthful'
  BY DEF Safe, CompletedIsTruthful, QuietRow, observed
<1>4. CallHoldsApproval'
  BY CallArguments DEF Safe, CallHoldsApproval, QuietRow, PastReview, TypeOK
<1>5. TaskHoldsApproval'
  BY DEF Safe, TaskHoldsApproval, QuietRow, observed
<1> QED BY <1>1, <1>2, <1>3, <1>4, <1>5 DEF Safe

\* create, cancel and retry keep Safe: retry looks at the reservation.
LEMMA SafeRequests ==
    ASSUME TypeOK, Safe, NEW j \in Jobs, RequestNext(j) PROVE Safe'
<1>1. UNCHANGED <<kind, approved, report, reservation, call, task, observed>>
  BY DEF RequestNext, Create, Cancel, Retry
<1>2. \A i \in Jobs : QuietRow(i)
  <2>1. CASE Create(j)
    BY <2>1 DEF Create, QuietRow, TypeOK, Safe, FailClosed, PastReview
  <2>2. CASE Cancel(j)
    BY <2>2 DEF Cancel, Transition, CanTransition, Transitions, QuietRow, TypeOK, Safe, FailClosed
  <2>3. CASE Retry(j)
    BY <2>3 DEF Retry, Transition, QuietRow, TypeOK, PastReview
  <2> QED BY <2>1, <2>2, <2>3 DEF RequestNext
<1> QED BY <1>1, <1>2, QuietStep

\* The worker's own stages keep Safe; they never touch a reserved job.
LEMMA SafeWorker ==
    ASSUME TypeOK, Safe, WorkerNext, ~WorkerExecute PROVE Safe'
<1>1. UNCHANGED <<kind, approved, reservation, task, observed>>
  BY DEF WorkerNext, WorkerWake, WorkerClaim, WorkerClaimFails, WorkerClaimed, WorkerWork,
     WorkerStore, WorkerPanic, WorkerOffer, WorkerStoreFails, WorkerReview, WorkerReturned,
     WorkerFail, WorkerFailCommit, WorkerSettle, durable
<1>2. \A a \in Actors : call'[a].pc = "reserve" => call'[a] = call[a]
  <2>1. CASE WorkerReview \/ WorkerReturned
    BY <2>1 DEF WorkerReview, WorkerReturned, ReviewRead, Return, IdleCall, TypeOK, CallsOK
  <2>2. CASE ~(WorkerReview \/ WorkerReturned)
    BY <2>2 DEF WorkerNext, WorkerWake, WorkerClaim, WorkerClaimFails, WorkerClaimed,
       WorkerWork, WorkerStore, WorkerPanic, WorkerOffer, WorkerStoreFails, WorkerFail,
       WorkerFailCommit, WorkerSettle
  <2> QED BY <2>1, <2>2
<1>3. \A j \in Jobs : QuietRow(j)
  <2>1. CASE WorkerClaim \/ WorkerClaimed \/ WorkerOffer \/ WorkerSettle
             \/ \E s \in Stages : WorkerStore(s)
    <3>1. UNCHANGED report
      BY <2>1 DEF WorkerClaim, WorkerClaimed, WorkerOffer, WorkerSettle, WorkerStore
    <3>2. \/ UNCHANGED state
          \/ \E s \in {"queued", "scanning", "searching", "resolving"},
                t \in {"queued", "scanning", "searching", "resolving", "awaiting", "interrupted"},
                j \in Jobs : Transition(j, s, t)
      BY <2>1 DEF WorkerClaim, WorkerClaimed, WorkerOffer, WorkerSettle, WorkerStore, Stages,
         Working, TypeOK, WorkerOK, NoJobPcs
    <3> QED BY <3>1, <3>2 DEF Transition, QuietRow, TypeOK, Safe, FailClosed, PastReview
  <2>2. CASE WorkerFailCommit
    BY <2>2 DEF WorkerFailCommit, Transition, QuietRow, TypeOK, WorkerOK
  <2>3. CASE ~(WorkerClaim \/ WorkerClaimed \/ WorkerOffer \/ WorkerSettle \/ WorkerFailCommit
               \/ \E s \in Stages : WorkerStore(s))
    BY <2>3 DEF WorkerNext, WorkerWake, WorkerClaimFails, WorkerWork, WorkerPanic,
       WorkerStoreFails, WorkerReview, WorkerReturned, WorkerFail, durable, QuietRow
  <2> QED BY <2>1, <2>2, <2>3
<1> QED BY <1>1, <1>2, <1>3, QuietStep

\* What a call gets out of its reads outside the mutex.
LEMMA SafeRead ==
    ASSUME TypeOK, Safe, NEW a \in Actors, NEW j \in Jobs,
           UNCHANGED <<durable, task, observed>>,
           \/ \E p \in Plans : ReviewRead(a, j, p)
           \/ \E k \in Keys : RecheckRead(a, j, k)
           \/ \E k \in Keys, c \in Contents : ExecuteRead(a, j, k, c)
    PROVE  Safe'
<1>1. UNCHANGED <<state, kind, approved, report, reservation, task, observed>>
  BY DEF durable
<1>2. AtMostOnce' /\ WritesAreApproved' /\ UnreservedIsUntouched' /\ FailClosed'
      /\ PlannedIsApproved' /\ CompletedIsTruthful' /\ TaskHoldsApproval'
  BY <1>1 DEF Safe, AtMostOnce, WritesAreApproved, UnreservedIsUntouched, FailClosed,
     PlannedIsApproved, CompletedIsTruthful, TaskHoldsApproval, observed
<1>3. CallHoldsApproval'
  <2>1. CASE \/ \E p \in Plans : ReviewRead(a, j, p)
             \/ \E k \in Keys : RecheckRead(a, j, k)
    BY <1>1, <2>1 DEF ReviewRead, RecheckRead, CallHoldsApproval, Safe, TypeOK, CallsOK
  <2>2. CASE \E k \in Keys, c \in Contents : ExecuteRead(a, j, k, c)
    <3>1. PICK k \in Keys, c \in Contents : ExecuteRead(a, j, k, c)
      BY <2>2
    <3>2. /\ call' = [call EXCEPT ![a] = [pc |-> "reserve", job |-> j, key |-> k, plan |-> approved[j]]]
          /\ kind[j] # "preview" /\ state[j] = "planning"
      BY <3>1 DEF ExecuteRead
    <3> QED BY <1>1, <3>2 DEF CallHoldsApproval, Safe, TypeOK, CallsOK, PastReview
  <2> QED BY <2>1, <2>2
<1> QED BY <1>2, <1>3 DEF Safe

\* A reservation, with or without the task that should follow it.
LEMMA SafeReserve ==
    ASSUME TypeOK, Safe, NEW a \in Actors, NEW j \in Jobs, NEW k \in Keys,
           Reserve(j, k), ConstantsAssumption,
           UNCHANGED <<kind, approved, report, observed>>,
           \A b \in Actors : call'[b].pc = "reserve" => call'[b] = call[b],
           \/ UNCHANGED task
           \/ /\ task' = [task EXCEPT ![j] = [pc |-> "spawned", plan |-> call[a].plan, outcome |-> None]]
              /\ call[a].pc = "reserve" /\ call[a].job = j
    PROVE  Safe'
<1> USE DEF observed
<1>1. /\ state[j] = "planning" /\ reservation[j] = None
      /\ reservation' = [reservation EXCEPT ![j] = k]
      /\ state' = [state EXCEPT ![j] = "writing"]
  BY DEF Reserve, CanReserve
<1>2. k # None
  BY DEF ConstantsAssumption
<1>3. approved[j] # None /\ begun[j] = 0 /\ disk[j] = "untouched" /\ task[j].pc = "none"
  BY <1>1 DEF Safe, PlannedIsApproved, UnreservedIsUntouched
<1>4. AtMostOnce' /\ WritesAreApproved'
  BY DEF Safe, AtMostOnce, WritesAreApproved
<1>5. FailClosed' /\ PlannedIsApproved' /\ CompletedIsTruthful'
  BY <1>1 DEF Safe, FailClosed, PlannedIsApproved, CompletedIsTruthful, TypeOK
<1>6. UnreservedIsUntouched'
  BY <1>1, <1>2 DEF Safe, UnreservedIsUntouched, TypeOK
<1>7. CallHoldsApproval'
  BY <1>1, CallArguments DEF Safe, CallHoldsApproval, PastReview, TypeOK
<1>8. TaskHoldsApproval'
  <2>1. CASE UNCHANGED task
    BY <1>1, <1>3, <2>1 DEF Safe, TaskHoldsApproval, TypeOK
  <2>2. CASE ~UNCHANGED task
    <3>1. approved[j] = call[a].plan /\ kind[j] # "preview"
      BY <2>2 DEF Safe, CallHoldsApproval
    <3> QED BY <1>1, <1>3, <2>2, <3>1 DEF Safe, TaskHoldsApproval, TypeOK
  <2> QED BY <2>1, <2>2
<1> QED BY <1>4, <1>5, <1>6, <1>7, <1>8 DEF Safe

\* The critical sections of review and execute keep Safe.
LEMMA SafeCall ==
    ASSUME TypeOK, Safe, ConstantsAssumption, NEW a \in Actors, CallNext(a) PROVE Safe'
<1> DEFINE j == call[a].job
<1>1. CASE ReviewCommit(a)
  <2>1. j \in Jobs /\ call[a].plan \in Plans
    BY <1>1, CallArguments DEF ReviewCommit, TypeOK
  <2>2. UNCHANGED <<kind, report, reservation, task, observed>>
    BY <1>1 DEF ReviewCommit
  <2>3. \A b \in Actors : call'[b].pc = "reserve" => call'[b] = call[b]
    BY <1>1 DEF ReviewCommit, Return, IdleCall, TypeOK, CallsOK
  <2>4. CASE UNCHANGED <<state, approved>>
    BY <2>2, <2>3, <2>4, QuietStep DEF QuietRow
  <2>5. CASE ~UNCHANGED <<state, approved>>
    <3>1. /\ state[j] = "awaiting" /\ state' = [state EXCEPT ![j] = "planning"]
          /\ approved' = [approved EXCEPT ![j] = call[a].plan]
      BY <1>1, <2>5 DEF ReviewCommit, Transition
    <3>2. reservation[j] = None
      BY <2>1, <3>1 DEF Safe, FailClosed
    <3>3. begun[j] = 0 /\ task[j].pc = "none"
      BY <2>1, <3>2 DEF Safe, UnreservedIsUntouched
    <3>4. call[a].plan # None
      BY <2>1 DEF ConstantsAssumption
    <3>5. AtMostOnce' /\ WritesAreApproved' /\ UnreservedIsUntouched'
      BY <2>1, <2>2, <3>1, <3>3 DEF Safe, AtMostOnce, WritesAreApproved,
         UnreservedIsUntouched, observed, TypeOK
    <3>6. FailClosed' /\ CompletedIsTruthful'
      BY <2>1, <2>2, <3>1, <3>2 DEF Safe, FailClosed, CompletedIsTruthful, observed, TypeOK
    <3>7. PlannedIsApproved'
      BY <2>1, <3>1, <3>4 DEF Safe, PlannedIsApproved, TypeOK
    <3>8. CallHoldsApproval'
      BY <2>1, <2>2, <2>3, <3>1, CallArguments DEF Safe, CallHoldsApproval, PastReview, TypeOK
    <3>9. TaskHoldsApproval'
      BY <2>1, <2>2, <3>1, <3>3 DEF Safe, TaskHoldsApproval, observed, TypeOK
    <3> QED BY <3>5, <3>6, <3>7, <3>8, <3>9 DEF Safe
  <2> QED BY <2>4, <2>5
<1>2. CASE ReserveCommit(a) \/ RecheckCommit(a)
  <2>1. j \in Jobs /\ call[a].key \in Keys
    BY <1>2, CallArguments DEF ReserveCommit, RecheckCommit, TypeOK
  <2>2. UNCHANGED <<kind, approved, report, observed>>
    BY <1>2 DEF ReserveCommit, RecheckCommit
  <2>3. \A b \in Actors : call'[b].pc = "reserve" => call'[b] = call[b]
    <3>1. \/ call' = [call EXCEPT ![a].pc = "await"]
          \/ \E r \in {"ok", "err"} : Return(a, r)
      BY <1>2 DEF ReserveCommit, RecheckCommit, ReturnExisting
    <3>2. CASE call' = [call EXCEPT ![a].pc = "await"]
      BY <3>2 DEF TypeOK, CallsOK, CallRecords
    <3>3. CASE \E r \in {"ok", "err"} : Return(a, r)
      BY <3>3 DEF Return, IdleCall, TypeOK, CallsOK
    <3> QED BY <3>1, <3>2, <3>3
  <2>4. CASE ReturnExisting(a)
    BY <2>2, <2>3, <2>4, QuietStep DEF ReturnExisting, QuietRow
  <2>5. CASE ~ReturnExisting(a)
    <3>1. Reserve(j, call[a].key)
      BY <1>2, <2>5 DEF ReserveCommit, RecheckCommit
    <3>2. \/ UNCHANGED task
          \/ /\ task' = [task EXCEPT ![j] = [pc |-> "spawned", plan |-> call[a].plan, outcome |-> None]]
             /\ call[a].pc = "reserve"
      BY <1>2, <2>5 DEF ReserveCommit, RecheckCommit
    <3> QED BY <2>1, <2>2, <2>3, <3>1, <3>2, SafeReserve
  <2> QED BY <2>4, <2>5
<1> QED BY <1>1, <1>2 DEF CallNext

\* Requests that read, go away, or go away in the middle of a commit keep Safe.
LEMMA SafeClient ==
    ASSUME TypeOK, Safe, ConstantsAssumption, ClientNext PROVE Safe'
<1>1. PICK c \in Clients :
        \/ ClientDropped(c) \/ ClientDroppedInCommit(c)
        \/ \E j \in Jobs : ClientReview(c, j) \/ ClientExecute(c, j)
  BY DEF ClientNext
<1>2. c \in Actors
  BY DEF Actors
<1>3. CASE ClientDropped(c)
  <2>1. UNCHANGED <<state, kind, approved, report, reservation, task, observed>>
    BY <1>3 DEF ClientDropped, durable
  <2>2. \A b \in Actors : call'[b].pc = "reserve" => call'[b] = call[b]
    BY <1>2, <1>3 DEF ClientDropped, IdleCall, TypeOK, CallsOK
  <2> QED BY <2>1, <2>2, QuietStep DEF QuietRow
<1>4. CASE ClientDroppedInCommit(c)
  <2>1. call[c].job \in Jobs /\ call[c].key \in Keys
    BY <1>2, <1>4, CallArguments DEF ClientDroppedInCommit, TypeOK
  <2>2. Reserve(call[c].job, call[c].key) /\ UNCHANGED <<kind, approved, report, task, observed>>
    BY <1>4 DEF ClientDroppedInCommit
  <2>3. \A b \in Actors : call'[b].pc = "reserve" => call'[b] = call[b]
    BY <1>2, <1>4 DEF ClientDroppedInCommit, IdleCall, TypeOK, CallsOK
  <2> QED BY <1>2, <2>1, <2>2, <2>3, SafeReserve
<1>5. CASE \E j \in Jobs : ClientReview(c, j) \/ ClientExecute(c, j)
  <2>1. PICK j \in Jobs : ClientReview(c, j) \/ ClientExecute(c, j)
    BY <1>5
  <2>2. UNCHANGED <<durable, task, observed>>
    BY <2>1 DEF ClientReview, ClientExecute
  <2>3. \/ \E p \in Plans : ReviewRead(c, j, p)
        \/ \E k \in Keys : RecheckRead(c, j, k)
        \/ \E k \in Keys, p \in Contents : ExecuteRead(c, j, k, p)
    BY <2>1 DEF ClientReview, ClientExecute
  <2> QED BY <1>2, <2>2, <2>3, SafeRead
<1> QED BY <1>1, <1>3, <1>4, <1>5

\* The worker's automatic review and execution keep Safe as a client's do.
LEMMA SafeWorkerExecute ==
    ASSUME TypeOK, Safe, ConstantsAssumption, WorkerExecute PROVE Safe'
<1>1. UNCHANGED <<durable, task, observed>>
  BY DEF WorkerExecute
<1>2. Worker \in Actors /\ worker.job \in Jobs
  BY DEF WorkerExecute, Actors, TypeOK, WorkerOK, NoJobPcs
<1>3. CASE Return(Worker, "err")
  <2>1. \A b \in Actors : call'[b].pc = "reserve" => call'[b] = call[b]
    BY <1>2, <1>3 DEF Return, IdleCall, TypeOK, CallsOK
  <2> QED BY <1>1, <2>1, QuietStep DEF QuietRow, durable
<1>4. CASE ~Return(Worker, "err")
  <2>1. \/ \E k \in Keys : RecheckRead(Worker, worker.job, k)
        \/ \E k \in Keys, c \in Contents : ExecuteRead(Worker, worker.job, k, c)
    BY <1>4 DEF WorkerExecute, ConstantsAssumption
  <2> QED BY <1>1, <1>2, <2>1, SafeRead
<1> QED BY <1>3, <1>4

\* A waiting call is never one about to reserve.
LEMMA WakeKeepsReservers ==
    ASSUME TypeOK, NEW j \in Jobs, NEW r \in {"ok", "err"}, Wake(j, r)
    PROVE  \A b \in Actors : call'[b].pc = "reserve" => call'[b] = call[b]
BY DEF Wake, IdleCall, TypeOK, CallsOK

\* The execution task keeps Safe: it writes what was approved, once, and tells the truth.
LEMMA SafeTask ==
    ASSUME TypeOK, Safe, ConstantsAssumption, NEW j \in Jobs, TaskNext(j) PROVE Safe'
<1> USE DEF observed
<1>1. task[j] \in TaskRecords
  BY DEF TypeOK
<1>2. CASE TaskBegin(j)
  <2>1. /\ task[j].pc = "spawned" /\ task' = [task EXCEPT ![j].pc = "writing"]
        /\ begun' = [begun EXCEPT ![j] = @ + 1]
        /\ written' = [written EXCEPT ![j] = task[j].plan]
        /\ disk' = [disk EXCEPT ![j] = "partial"]
        /\ UNCHANGED <<state, kind, approved, report, reservation, call>>
    BY <1>2 DEF TaskBegin, durable
  <2>2. /\ begun[j] = 0 /\ approved[j] = task[j].plan /\ approved[j] # None
        /\ kind[j] # "preview" /\ reservation[j] # None
        /\ state[j] \notin {"completed", "cancelled"}
    BY <2>1 DEF Safe, TaskHoldsApproval, UnreservedIsUntouched, FailClosed
  <2>3. AtMostOnce'
    BY <2>1, <2>2 DEF Safe, AtMostOnce, TypeOK
  <2>4. WritesAreApproved'
    BY <2>1, <2>2 DEF Safe, WritesAreApproved, TypeOK
  <2>5. FailClosed' /\ PlannedIsApproved' /\ CallHoldsApproval'
    BY <2>1 DEF Safe, FailClosed, PlannedIsApproved, CallHoldsApproval
  <2>6. CompletedIsTruthful' /\ UnreservedIsUntouched'
    BY <2>1, <2>2 DEF Safe, CompletedIsTruthful, UnreservedIsUntouched, TypeOK
  <2>7. TaskHoldsApproval'
    BY <2>1, <2>2 DEF Safe, TaskHoldsApproval, TypeOK, TaskRecords
  <2> QED BY <2>3, <2>4, <2>5, <2>6, <2>7 DEF Safe
<1>3. CASE TaskWrite(j)
  <2>1. PICK o \in {"completed", "failed"} :
          /\ task[j].pc = "writing"
          /\ task' = [task EXCEPT ![j] = [pc |-> "wrote", plan |-> task[j].plan, outcome |-> o]]
          /\ disk' = [disk EXCEPT ![j] = IF o = "completed" THEN "full" ELSE @]
          /\ UNCHANGED <<state, kind, approved, report, reservation, call, begun, written>>
    BY <1>3 DEF TaskWrite, durable
  <2>2. reservation[j] # None /\ state[j] \notin {"completed", "cancelled"}
    BY <2>1 DEF Safe, TaskHoldsApproval, UnreservedIsUntouched, FailClosed
  <2>3. AtMostOnce' /\ WritesAreApproved' /\ FailClosed' /\ PlannedIsApproved'
        /\ CallHoldsApproval'
    BY <2>1 DEF Safe, AtMostOnce, WritesAreApproved, FailClosed, PlannedIsApproved,
       CallHoldsApproval
  <2>4. CompletedIsTruthful' /\ UnreservedIsUntouched'
    BY <2>1, <2>2 DEF Safe, CompletedIsTruthful, UnreservedIsUntouched, TypeOK
  <2>5. TaskHoldsApproval'
    BY <2>1, <2>2 DEF Safe, TaskHoldsApproval, TypeOK
  <2> QED BY <2>3, <2>4, <2>5 DEF Safe
<1>4. CASE TaskFinish(j) \/ TaskManifestFails(j) \/ TaskFinishFails(j)
  <2>1. /\ task[j].pc # "none" /\ task' = [task EXCEPT ![j] = NoTask]
        /\ UNCHANGED <<kind, approved, reservation, observed>>
    BY <1>4 DEF TaskFinish, TaskManifestFails, TaskFinishFails, durable
  <2>2. \A b \in Actors : call'[b].pc = "reserve" => call'[b] = call[b]
    BY <1>4, WakeKeepsReservers DEF TaskFinish, TaskManifestFails, TaskFinishFails
  <2>3. reservation[j] # None
    BY <2>1 DEF Safe, UnreservedIsUntouched
  <2>4. \/ UNCHANGED <<state, report>>
        \/ \E o \in {"completed", "failed"} :
              /\ state[j] = "writing"
              /\ state' = [state EXCEPT ![j] = o]
              /\ report' = [report EXCEPT ![j] = o]
              /\ (o = "completed" => disk[j] = "full")
    <3>1. CASE UNCHANGED <<state, report>>
      BY <3>1
    <3>2. CASE ~UNCHANGED <<state, report>>
      <4>1. /\ state[j] = "writing" /\ task[j].pc = "wrote"
            /\ state' = [state EXCEPT ![j] = task[j].outcome]
            /\ report' = [report EXCEPT ![j] = task[j].outcome]
        BY <1>4, <3>2 DEF TaskFinish, TaskManifestFails, TaskFinishFails, Transition, durable
      <4> QED BY <4>1 DEF Safe, TaskHoldsApproval
    <3> QED BY <3>1, <3>2
  <2> state \in [Jobs -> States \cup {"absent"}] /\ task \in [Jobs -> TaskRecords]
    BY DEF TypeOK
  <2>5. AtMostOnce' /\ WritesAreApproved'
    BY <2>1 DEF Safe, AtMostOnce, WritesAreApproved
  <2>6. FailClosed' /\ PlannedIsApproved'
    BY <2>1, <2>4 DEF Safe, FailClosed, PlannedIsApproved, TypeOK
  <2>7. CompletedIsTruthful'
    BY <2>1, <2>4 DEF Safe, CompletedIsTruthful, TypeOK
  <2>8. UnreservedIsUntouched'
    BY <2>1, <2>3 DEF Safe, UnreservedIsUntouched, TypeOK
  <2>9. CallHoldsApproval'
    <3>1. \A i \in Jobs : state'[i] = state[i] \/ state'[i] \in {"completed", "failed"}
      BY <2>4
    <3>2. \A b \in Actors : call[b].pc = "reserve" => call[b].job \in Jobs
      BY CallArguments DEF TypeOK
    <3> SUFFICES ASSUME NEW b \in Actors, call'[b].pc = "reserve"
                 PROVE  /\ approved[call[b].job] = call[b].plan
                        /\ kind[call[b].job] # "preview"
                        /\ state'[call[b].job] \in PastReview
      BY <2>1, <2>2 DEF CallHoldsApproval
    <3> QED BY <2>2, <3>1, <3>2 DEF Safe, CallHoldsApproval, PastReview
  <2>10. TaskHoldsApproval'
    <3>1. \A i \in Jobs : i # j => state'[i] = state[i]
      BY <2>4
    <3>2. task'[j].pc = "none"
      BY <2>1 DEF NoTask
    <3>3. \A i \in Jobs : i # j => task'[i] = task[i]
      BY <2>1
    <3> QED BY <2>1, <3>1, <3>2, <3>3 DEF Safe, TaskHoldsApproval
  <2> QED BY <2>5, <2>6, <2>7, <2>8, <2>9, <2>10 DEF Safe
<1> QED BY <1>2, <1>3, <1>4 DEF TaskNext

\* A shutdown keeps Safe, and a restart fails closed.
LEMMA SafePool == ASSUME TypeOK, Safe, PoolNext PROVE Safe'
<1>1. CASE ShutdownRequest \/ ShutdownClose \/ ShutdownDone
  <2>1. UNCHANGED <<state, kind, approved, report, reservation, call, task, observed>>
    BY <1>1 DEF ShutdownRequest, ShutdownClose, ShutdownDone, durable
  <2> QED BY <2>1, QuietStep DEF QuietRow
<1>2. CASE Restart
  <2>1. /\ state' = [j \in Jobs |-> IF state[j] \in Active THEN "interrupted" ELSE state[j]]
        /\ call' = [a \in Actors |-> IdleCall]
        /\ task' = [j \in Jobs |-> NoTask]
        /\ UNCHANGED <<kind, approved, report, reservation, disk, begun, written>>
    BY <1>2 DEF Restart, observed
  <2>2. AtMostOnce' /\ WritesAreApproved' /\ UnreservedIsUntouched'
    BY <2>1 DEF Safe, AtMostOnce, WritesAreApproved, UnreservedIsUntouched, NoTask
  <2>3. FailClosed' /\ PlannedIsApproved' /\ CompletedIsTruthful'
    BY <2>1 DEF Safe, FailClosed, PlannedIsApproved, CompletedIsTruthful, Active, Working
  <2>4. CallHoldsApproval' /\ TaskHoldsApproval'
    BY <2>1 DEF CallHoldsApproval, TaskHoldsApproval, IdleCall, NoTask
  <2> QED BY <2>2, <2>3, <2>4 DEF Safe
<1> QED BY <1>1, <1>2 DEF PoolNext

\* Safe, the inductive invariant: whatever crashes, drops, retries and races
\* happen, a reserved job is never approved, run or written again.
THEOREM SafeCorrect == Spec => []Safe
<1>1. TypeOK /\ Safe /\ [Next]_vars => Safe'
  <2> SUFFICES ASSUME TypeOK, Safe, [Next]_vars PROVE Safe'
    OBVIOUS
  <2>1. CASE Next
    BY <2>1, ConstantsAssumption, SafeRequests, SafeTask, SafeCall, SafeClient, SafeWorker,
       SafeWorkerExecute, SafePool DEF Next
  <2>2. CASE UNCHANGED vars
    BY <2>2, QuietStep DEF vars, durable, observed, QuietRow
  <2> QED BY <2>1, <2>2
<1> QED BY TypeCorrect, SafeInit, <1>1, PTL DEF Spec

\* AtMostOnce: a job's plan is executed at most once, over every retry,
\* idempotency key, crash and restart.
THEOREM AtMostOnceCorrect == Spec => []AtMostOnce
<1>1. Safe => AtMostOnce
  BY DEF Safe
<1> QED BY SafeCorrect, <1>1, PTL

\* WritesAreApproved: what run_reserved_execution writes is the plan whose
\* fingerprint the row holds, and the job was created with `apply`.
THEOREM WritesAreApprovedCorrect == Spec => []WritesAreApproved
<1>1. Safe => WritesAreApproved
  BY DEF Safe
<1> QED BY SafeCorrect, <1>1, PTL

\* FailClosed: a reserved job never comes back before "writing".
THEOREM FailClosedCorrect == Spec => []FailClosed
<1>1. Safe => FailClosed
  BY DEF Safe
<1> QED BY SafeCorrect, <1>1, PTL

\* CompletedIsTruthful: "completed" is persisted only for a plan wholly on disk.
THEOREM CompletedIsTruthfulCorrect == Spec => []CompletedIsTruthful
<1>1. Safe => CompletedIsTruthful
  BY DEF Safe
<1> QED BY SafeCorrect, <1>1, PTL

\* CancelledIsUntouched: a cancelled job has no reservation, and a job without
\* one has never been near the executor.
THEOREM CancelledIsUntouchedCorrect == Spec => []CancelledIsUntouched
<1>1. Safe => CancelledIsUntouched
  BY DEF Safe, FailClosed, UnreservedIsUntouched, CancelledIsUntouched
<1> QED BY SafeCorrect, <1>1, PTL

(***************************************************************************)
(* Where the steps outside the worker can move a job.                      *)
(***************************************************************************)

\* At most the row of j moves, and it moves to one of ts.
MovesTo(j, ts) == UNCHANGED state \/ \E t \in ts : state' = [state EXCEPT ![j] = t]

\* create and retry queue a job, cancel ends it.
LEMMA RequestMoves ==
    ASSUME NEW j \in Jobs, RequestNext(j)
    PROVE  MovesTo(j, {"queued", "cancelled"})
BY DEF RequestNext, Create, Cancel, Retry, Transition, MovesTo

\* The task's outcome is a transition out of "writing".
LEMMA TaskMoves ==
    ASSUME NEW j \in Jobs, TaskNext(j)
    PROVE  MovesTo(j, {"completed", "failed", "interrupted"})
<1>1. CASE TaskFinish(j)
  BY <1>1 DEF TaskFinish, Transition, CanTransition, Transitions, MovesTo
<1>2. CASE ~TaskFinish(j)
  BY <1>2 DEF TaskNext, TaskBegin, TaskWrite, TaskManifestFails, TaskFinishFails, durable, MovesTo
<1> QED BY <1>1, <1>2

\* review plans a job, a reservation makes it "writing".
LEMMA CallMoves ==
    ASSUME NEW a \in Actors, CallNext(a)
    PROVE  MovesTo(call[a].job, {"planning", "writing"})
BY DEF CallNext, ReviewCommit, ReserveCommit, RecheckCommit, ReturnExisting, Reserve,
   Transition, MovesTo

\* So does a reservation whose request is gone by the time it commits.
LEMMA ClientMoves ==
    ASSUME ClientNext
    PROVE  \E c \in Clients : MovesTo(call[c].job, {"writing"})
<1>1. CASE \E c \in Clients : ClientDroppedInCommit(c)
  BY <1>1 DEF ClientDroppedInCommit, Reserve, MovesTo
<1>2. CASE ~ \E c \in Clients : ClientDroppedInCommit(c)
  BY <1>2 DEF ClientNext, ClientDropped, ClientReview, ClientExecute, durable, MovesTo
<1> QED BY <1>1, <1>2

(***************************************************************************)
(* The worker and the job it holds.                                        *)
(***************************************************************************)

\* A step that brings no job into a worker stage, and after which the worker
\* still holds the job it held.
LEMMA OwnFrame ==
    ASSUME WorkerOwnsWork,
           \A j \in Jobs : state'[j] \in Working => state[j] \in Working,
           \/ worker' = worker
           \/ worker.pc \notin NoJobPcs /\ worker'.job = worker.job /\ worker'.pc \notin NoJobPcs
    PROVE  WorkerOwnsWork'
BY DEF WorkerOwnsWork

\* Moving the program counter keeps the job.
LEMMA GotoKeepsJob ==
    ASSUME WorkerOK, NEW pc, Goto(pc)
    PROVE  worker'.job = worker.job /\ worker'.pc = pc
BY DEF WorkerOK, WorkerRecords, Goto

\* The transitions of the worker's own stages, one by one.
LEMMA OwnTransition ==
    ASSUME TypeOK, WorkerOwnsWork, worker.pc \notin NoJobPcs,
           NEW s \in States, NEW t \in States, Transition(worker.job, s, t),
           t \in Working => worker'.job = worker.job /\ worker'.pc \notin NoJobPcs
    PROVE  WorkerOwnsWork'
<1>1. worker.job \in Jobs
  BY DEF TypeOK, WorkerOK
<1>2. state' = [state EXCEPT ![worker.job] = t]
  BY DEF Transition
<1>3. ASSUME NEW j \in Jobs, state'[j] \in Working
      PROVE  worker'.job = j /\ worker'.pc \notin NoJobPcs
  <2>1. CASE j = worker.job
    <3>1. t \in Working
      BY <1>1, <1>2, <1>3, <2>1 DEF TypeOK
    <3> QED BY <2>1, <3>1
  <2>2. CASE j # worker.job
    BY <1>2, <1>3, <2>2 DEF WorkerOwnsWork, TypeOK
  <2> QED BY <2>1, <2>2
<1> QED BY <1>3 DEF WorkerOwnsWork

\* The worker takes a job up and lets go of it without leaving a stage behind.
LEMMA OwnWorker ==
    ASSUME TypeOK, WorkerOwnsWork, WorkerNext PROVE WorkerOwnsWork'
<1> USE DEF NoJobPcs
<1>1. CASE WorkerWake \/ WorkerClaimFails
  <2>1. UNCHANGED state /\ worker.pc \in NoJobPcs
    BY <1>1 DEF WorkerWake, WorkerClaimFails, durable
  <2> QED BY <2>1 DEF WorkerOwnsWork
<1>2. CASE WorkerPanic \/ WorkerStoreFails \/ WorkerFail \/ WorkerReturned
           \/ WorkerReview \/ WorkerExecute \/ \E s \in Stages : WorkerWork(s)
  <2>1. UNCHANGED state
    BY <1>2 DEF WorkerPanic, WorkerStoreFails, WorkerFail, WorkerReturned, WorkerReview,
       WorkerExecute, WorkerWork, durable
  <2>2. CASE WorkerReview \/ WorkerExecute
    BY <2>1, <2>2, OwnFrame DEF WorkerReview, WorkerExecute
  <2>3. CASE WorkerFail
    <3>1. worker.pc = "fail" /\ worker'.job = worker.job /\ worker'.pc \in {"failing", "settle"}
      BY <2>3 DEF WorkerFail, TypeOK, WorkerOK, WorkerRecords
    <3> QED BY <2>1, <3>1, OwnFrame
  <2>4. CASE WorkerPanic \/ WorkerStoreFails \/ WorkerReturned \/ \E s \in Stages : WorkerWork(s)
    <3>1. worker.pc \notin NoJobPcs /\ \E pc \in WorkerPcs \ NoJobPcs : Goto(pc)
      BY <2>4 DEF WorkerPanic, WorkerStoreFails, WorkerReturned, WorkerWork, Stages, WorkerPcs
    <3>2. worker'.job = worker.job /\ worker'.pc \notin NoJobPcs
      BY <3>1, GotoKeepsJob DEF TypeOK
    <3> QED BY <2>1, <3>1, <3>2, OwnFrame
  <2> QED BY <1>2, <2>2, <2>3, <2>4
<1>3. CASE WorkerClaim
  <2>1. worker.pc = "woken" /\ \A j \in Jobs : state[j] \notin Working
    BY <1>3 DEF WorkerClaim, WorkerOwnsWork
  <2>2. CASE UNCHANGED state
    BY <2>1, <2>2 DEF WorkerOwnsWork
  <2>3. CASE ~UNCHANGED state
    <3>1. PICK j \in Jobs : /\ Transition(j, "queued", "scanning")
                            /\ worker' = [pc |-> "claimed", job |-> j, expected |-> None]
      BY <1>3, <2>3 DEF WorkerClaim
    <3>2. \A i \in Jobs : i # j => state'[i] = state[i]
      BY <3>1 DEF Transition
    <3> QED BY <2>1, <3>1, <3>2 DEF WorkerOwnsWork
  <2> QED BY <2>2, <2>3
<1>4. CASE WorkerClaimed
  <2>1. worker.pc = "claimed"
    BY <1>4 DEF WorkerClaimed
  <2>2. CASE Transition(worker.job, "scanning", "queued") /\ worker' = [IdleWorker EXCEPT !.pc = "stopped"]
    BY <2>1, <2>2, OwnTransition DEF IdleWorker, States, Working
  <2>3. CASE UNCHANGED state /\ \E pc \in {"scan", "settle"} : Goto(pc)
    BY <2>1, <2>3, GotoKeepsJob, OwnFrame DEF TypeOK
  <2> QED BY <1>4, <2>2, <2>3 DEF WorkerClaimed
<1>5. CASE WorkerOffer \/ \E s \in Stages : WorkerStore(s)
  <2>1. worker.pc \notin NoJobPcs /\ \E pc \in WorkerPcs \ NoJobPcs : Goto(pc)
    BY <1>5 DEF WorkerOffer, WorkerStore, Stages, WorkerPcs
  <2>2. worker'.job = worker.job /\ worker'.pc \notin NoJobPcs
    BY <2>1, GotoKeepsJob DEF TypeOK
  <2>3. UNCHANGED state \/ \E s \in States, t \in States : Transition(worker.job, s, t)
    BY <1>5 DEF WorkerOffer, WorkerStore, Stages, States
  <2>4. CASE UNCHANGED state
    BY <2>1, <2>2, <2>4, OwnFrame
  <2>5. CASE \E s \in States, t \in States : Transition(worker.job, s, t)
    BY <2>1, <2>2, <2>5, OwnTransition
  <2> QED BY <2>3, <2>4, <2>5
<1>6. CASE WorkerFailCommit
  <2>1. worker.pc = "failing" /\ worker'.job = worker.job /\ worker'.pc = "settle"
    BY <1>6 DEF WorkerFailCommit
  <2>2. UNCHANGED state \/ Transition(worker.job, worker.expected, "failed")
    BY <1>6 DEF WorkerFailCommit
  <2>3. CASE UNCHANGED state
    BY <2>1, <2>3, OwnFrame
  <2>4. CASE Transition(worker.job, worker.expected, "failed")
    BY <2>1, <2>4, OwnTransition DEF States, Transition, CanTransition, Working
  <2> QED BY <2>2, <2>3, <2>4
<1>7. CASE WorkerSettle
  <2>1. worker.pc = "settle" /\ worker' = IdleWorker
    BY <1>7 DEF WorkerSettle
  <2>2. CASE \E s \in Working : Transition(worker.job, s, "interrupted")
    BY <2>1, <2>2, OwnTransition DEF IdleWorker, States, Working
  <2>3. CASE state[worker.job] \notin Working /\ UNCHANGED state
    BY <2>3 DEF WorkerOwnsWork
  <2> QED BY <1>7, <2>2, <2>3 DEF WorkerSettle
<1> QED BY <1>1, <1>2, <1>3, <1>4, <1>5, <1>6, <1>7 DEF WorkerNext

\* WorkerOwnsWork: no error, panic, cancellation, shutdown or lost store write
\* makes the worker forget a job it has left in a stage.
THEOREM WorkerOwnsWorkCorrect == Spec => []WorkerOwnsWork
<1>1. Init => WorkerOwnsWork
  BY DEF Init, WorkerOwnsWork, Working
<1>2. TypeOK /\ WorkerOwnsWork /\ [Next]_vars => WorkerOwnsWork'
  <2> SUFFICES ASSUME TypeOK, WorkerOwnsWork, [Next]_vars PROVE WorkerOwnsWork'
    OBVIOUS
  <2>1. CASE WorkerNext
    BY <2>1, OwnWorker
  <2>2. CASE Restart
    <3>1. \A j \in Jobs : state'[j] \notin Working
      BY <2>2 DEF Restart, Active, Working
    <3> QED BY <3>1 DEF WorkerOwnsWork
  <2>3. CASE \/ \E j \in Jobs : RequestNext(j) \/ TaskNext(j)
             \/ \E a \in Actors : CallNext(a)
             \/ ClientNext
             \/ PoolNext /\ ~Restart
             \/ UNCHANGED vars
    <3>1. UNCHANGED worker
      BY <2>3 DEF RequestNext, Create, Cancel, Retry, TaskNext, TaskBegin, TaskManifestFails,
         TaskWrite, TaskFinish, TaskFinishFails, CallNext, ReviewCommit, ReserveCommit,
         RecheckCommit, ClientNext, ClientDropped, ClientDroppedInCommit, ClientReview,
         ClientExecute, PoolNext, ShutdownRequest, ShutdownClose, ShutdownDone, vars
    <3>2. \A j \in Jobs : state'[j] \in Working => state[j] \in Working
      <4>1. CASE \E j \in Jobs : RequestNext(j) \/ TaskNext(j)
        BY <4>1, RequestMoves, TaskMoves DEF MovesTo, Working, TypeOK
      <4>2. CASE \E a \in Actors : CallNext(a)
        BY <4>2, CallMoves DEF MovesTo, Working, TypeOK
      <4>3. CASE ClientNext
        BY <4>3, ClientMoves DEF MovesTo, Working, TypeOK
      <4>4. CASE (PoolNext /\ ~Restart) \/ UNCHANGED vars
        BY <4>4 DEF PoolNext, ShutdownRequest, ShutdownClose, ShutdownDone, vars, durable
      <4> QED BY <2>3, <4>1, <4>2, <4>3, <4>4
    <3> QED BY <3>1, <3>2, OwnFrame
  <2> QED BY <2>1, <2>2, <2>3 DEF Next, PoolNext
<1> QED BY TypeCorrect, <1>1, <1>2, PTL DEF Spec

(***************************************************************************)
(* The jobs in "writing", their tasks, and the shutdown.                   *)
(***************************************************************************)

\* A step that moves no job into "writing" and ends no task unrecorded.
LEMMA SupervisedFrame ==
    ASSUME WritingIsSupervised, orphaned \subseteq orphaned',
           \A j \in Jobs : state'[j] = "writing" =>
               \/ state[j] = "writing" /\ (task[j].pc # "none" => task'[j].pc # "none")
               \/ task'[j].pc # "none"
               \/ j \in orphaned'
    PROVE  WritingIsSupervised'
BY DEF WritingIsSupervised

\* The worker moves no job into "writing": that is the executor's business.
LEMMA WorkerNeverWrites ==
    ASSUME TypeOK, WorkerNext
    PROVE  \A j \in Jobs : state'[j] = "writing" => state[j] = "writing"
<1>1. CASE WorkerClaim \/ WorkerClaimed \/ WorkerOffer \/ WorkerSettle \/ WorkerFailCommit
           \/ \E s \in Stages : WorkerStore(s)
  <2>1. CASE WorkerClaim
    BY <2>1 DEF WorkerClaim, Transition, TypeOK
  <2>2. CASE WorkerClaimed \/ WorkerOffer \/ WorkerSettle \/ WorkerFailCommit
    BY <2>2 DEF WorkerClaimed, WorkerOffer, WorkerSettle, WorkerFailCommit, Transition, TypeOK
  <2>3. CASE \E s \in Stages : WorkerStore(s)
    BY <2>3 DEF WorkerStore, Stages, Transition, TypeOK
  <2> QED BY <1>1, <2>1, <2>2, <2>3
<1>2. CASE ~(WorkerClaim \/ WorkerClaimed \/ WorkerOffer \/ WorkerSettle \/ WorkerFailCommit
             \/ \E s \in Stages : WorkerStore(s))
  BY <1>2 DEF WorkerNext, WorkerWake, WorkerClaimFails, WorkerWork, WorkerPanic,
     WorkerStoreFails, WorkerReview, WorkerExecute, WorkerReturned, WorkerFail, durable
<1> QED BY <1>1, <1>2

\* A reservation spawns its task, or leaves an orphan; a task that ends has
\* moved its job, or leaves an orphan.
LEMMA SupervisedStep ==
    ASSUME TypeOK, WritingIsSupervised, Next
    PROVE  WritingIsSupervised'
<1>1. CASE \E j \in Jobs : RequestNext(j)
  <2>1. PICK j \in Jobs : RequestNext(j)
    BY <1>1
  <2>2. UNCHANGED <<task, orphaned>>
    BY <2>1 DEF RequestNext, Create, Cancel, Retry
  <2>3. \A i \in Jobs : state'[i] = "writing" => state[i] = "writing"
    BY <2>1, RequestMoves DEF MovesTo, TypeOK
  <2> QED BY <2>2, <2>3, SupervisedFrame
<1>2. CASE \E j \in Jobs : TaskNext(j)
  <2>1. PICK j \in Jobs : TaskNext(j)
    BY <1>2
  <2>2. \A i \in Jobs : state'[i] = "writing" => state[i] = "writing"
    BY <2>1, TaskMoves DEF MovesTo, TypeOK
  <2>3. /\ orphaned \subseteq orphaned'
        /\ \A i \in Jobs : i # j => task'[i] = task[i]
    BY <2>1 DEF TaskNext, TaskBegin, TaskWrite, TaskFinish, TaskManifestFails, TaskFinishFails, TypeOK
  <2>4. task'[j].pc # "none" \/ j \in orphaned' \/ state'[j] # "writing"
    <3>1. CASE TaskBegin(j) \/ TaskWrite(j)
      BY <3>1 DEF TaskBegin, TaskWrite, TypeOK, TaskRecords
    <3>2. CASE TaskFinish(j)
      BY <3>2 DEF TaskFinish, Transition, CanTransition, Transitions, TypeOK
    <3>3. CASE TaskManifestFails(j) \/ TaskFinishFails(j)
      BY <3>3 DEF TaskManifestFails, TaskFinishFails
    <3> QED BY <2>1, <3>1, <3>2, <3>3 DEF TaskNext
  <2> QED BY <2>2, <2>3, <2>4, SupervisedFrame
<1>3. CASE \E a \in Actors : CallNext(a)
  <2>1. PICK a \in Actors : CallNext(a)
    BY <1>3
  <2> DEFINE j == call[a].job
  <2>2. CASE ReviewCommit(a)
    BY <2>2, SupervisedFrame DEF ReviewCommit, Transition, TypeOK
  <2>3. CASE (ReserveCommit(a) \/ RecheckCommit(a)) /\ ReturnExisting(a)
    BY <2>3, SupervisedFrame DEF ReturnExisting
  <2>4. CASE (ReserveCommit(a) \/ RecheckCommit(a)) /\ ~ReturnExisting(a)
    <3>1. j \in Jobs /\ state' = [state EXCEPT ![j] = "writing"]
      BY <2>4, CallArguments DEF ReserveCommit, RecheckCommit, Reserve, TypeOK
    <3>2. \/ /\ task' = [task EXCEPT ![j] = [pc |-> "spawned", plan |-> call[a].plan, outcome |-> None]]
             /\ UNCHANGED orphaned
          \/ UNCHANGED task /\ orphaned' = orphaned \cup {j}
      BY <2>4 DEF ReserveCommit, RecheckCommit
    <3> QED BY <3>1, <3>2, SupervisedFrame DEF TypeOK
  <2> QED BY <2>1, <2>2, <2>3, <2>4 DEF CallNext
<1>4. CASE ClientNext
  <2>1. CASE \E c \in Clients : ClientDroppedInCommit(c)
    <3>1. PICK c \in Clients : ClientDroppedInCommit(c)
      BY <2>1
    <3>2. /\ state' = [state EXCEPT ![call[c].job] = "writing"]
          /\ orphaned' = orphaned \cup {call[c].job} /\ UNCHANGED task
      BY <3>1 DEF ClientDroppedInCommit, Reserve
    <3> QED BY <3>2, SupervisedFrame DEF TypeOK
  <2>2. CASE ~ \E c \in Clients : ClientDroppedInCommit(c)
    BY <1>4, <2>2, SupervisedFrame DEF ClientNext, ClientDropped, ClientReview, ClientExecute,
       durable
  <2> QED BY <2>1, <2>2
<1>5. CASE WorkerNext
  <2>1. UNCHANGED <<task, orphaned>>
    BY <1>5 DEF WorkerNext, WorkerWake, WorkerClaim, WorkerClaimFails, WorkerClaimed, WorkerWork,
       WorkerStore, WorkerPanic, WorkerOffer, WorkerStoreFails, WorkerReview, WorkerExecute,
       WorkerReturned, WorkerFail, WorkerFailCommit, WorkerSettle
  <2> QED BY <1>5, <2>1, WorkerNeverWrites, SupervisedFrame
<1>6. CASE Restart
  BY <1>6 DEF Restart, WritingIsSupervised, Active
<1>7. CASE PoolNext /\ ~Restart
  BY <1>7, SupervisedFrame DEF PoolNext, ShutdownRequest, ShutdownClose, ShutdownDone, durable
<1> QED BY <1>1, <1>2, <1>3, <1>4, <1>5, <1>6, <1>7 DEF Next, PoolNext

\* WritingIsSupervised: the one way to lose a task and leave its job in
\* "writing" is a fault of the store or a future dropped in its COMMIT.
THEOREM WritingIsSupervisedCorrect == Spec => []WritingIsSupervised
<1>1. Init => WritingIsSupervised
  BY DEF Init, WritingIsSupervised
<1>2. TypeOK /\ WritingIsSupervised /\ [Next]_vars => WritingIsSupervised'
  <2>1. ASSUME WritingIsSupervised, UNCHANGED vars PROVE WritingIsSupervised'
    BY <2>1, SupervisedFrame DEF vars, durable
  <2> QED BY <2>1, SupervisedStep
<1> QED BY TypeCorrect, <1>1, <1>2, PTL DEF Spec

\* Only a planned job read before the registry closes makes a call reserve.
LEMMA NewReservers ==
    ASSUME TypeOK, Next, phase \notin {"running", "stopping"}
    PROVE  \A a \in Actors : call'[a].pc = "reserve" => call[a].pc = "reserve"
<1> USE DEF TypeOK, CallsOK, IdleCall
<1>1. CASE \E j \in Jobs : RequestNext(j)
  BY <1>1 DEF RequestNext, Create, Cancel, Retry
<1>2. CASE \E j \in Jobs : TaskNext(j)
  BY <1>2 DEF TaskNext, TaskBegin, TaskWrite, TaskFinish, TaskManifestFails, TaskFinishFails, Wake
<1>3. CASE \E a \in Actors : CallNext(a)
  <2>1. PICK a \in Actors : CallNext(a)
    BY <1>3
  <2>2. \/ call' = [call EXCEPT ![a].pc = "await"]
        \/ \E r \in {"ok", "err"} : Return(a, r)
    BY <2>1 DEF CallNext, ReviewCommit, ReserveCommit, RecheckCommit, ReturnExisting
  <2>3. CASE call' = [call EXCEPT ![a].pc = "await"]
    BY <2>3 DEF CallRecords
  <2>4. CASE \E r \in {"ok", "err"} : Return(a, r)
    BY <2>4 DEF Return
  <2> QED BY <2>2, <2>3, <2>4
<1>4. CASE ClientNext
  <2>1. PICK c \in Clients : \/ ClientDropped(c) \/ ClientDroppedInCommit(c)
                             \/ \E j \in Jobs : ClientReview(c, j) \/ ClientExecute(c, j)
    BY <1>4 DEF ClientNext
  <2>2. CASE ClientDropped(c) \/ ClientDroppedInCommit(c)
    BY <2>2 DEF ClientDropped, ClientDroppedInCommit
  <2>3. CASE \E j \in Jobs : ClientReview(c, j) \/ ClientExecute(c, j)
    BY <2>3 DEF ClientReview, ClientExecute, ReviewRead, RecheckRead, ExecuteRead
  <2> QED BY <2>1, <2>2, <2>3
<1>5. CASE WorkerNext
  <2>1. CASE WorkerReview \/ WorkerExecute
    BY <2>1 DEF WorkerReview, WorkerExecute, ReviewRead, RecheckRead, ExecuteRead, Return
  <2>2. CASE WorkerReturned
    BY <2>2 DEF WorkerReturned
  <2>3. CASE ~(WorkerReview \/ WorkerExecute \/ WorkerReturned)
    BY <1>5, <2>3 DEF WorkerNext, WorkerWake, WorkerClaim, WorkerClaimFails, WorkerClaimed,
       WorkerWork, WorkerStore, WorkerPanic, WorkerOffer, WorkerStoreFails, WorkerFail,
       WorkerFailCommit, WorkerSettle
  <2> QED BY <2>1, <2>2, <2>3
<1>6. CASE PoolNext
  BY <1>6 DEF PoolNext, ShutdownRequest, ShutdownClose, ShutdownDone, Restart
<1> QED BY <1>1, <1>2, <1>3, <1>4, <1>5, <1>6 DEF Next

\* Only a reserving call spawns a task.
LEMMA NewTasks ==
    ASSUME TypeOK, Next, \A a \in Actors : call[a].pc # "reserve"
    PROVE  \A j \in Jobs : task[j].pc = "none" => task'[j].pc = "none"
<1>1. CASE \E j \in Jobs : TaskNext(j)
  BY <1>1 DEF TaskNext, TaskBegin, TaskWrite, TaskFinish, TaskManifestFails, TaskFinishFails,
     NoTask, TypeOK
<1>2. CASE Restart
  BY <1>2 DEF Restart, NoTask
<1>3. CASE ~(Restart \/ \E j \in Jobs : TaskNext(j))
  <2>1. UNCHANGED task
    BY <1>3 DEF Next, RequestNext, Create, Cancel, Retry, CallNext, ReviewCommit, ReserveCommit,
       RecheckCommit, ReturnExisting, ClientNext, ClientDropped, ClientDroppedInCommit,
       ClientReview, ClientExecute, WorkerNext, WorkerWake, WorkerClaim, WorkerClaimFails,
       WorkerClaimed, WorkerWork, WorkerStore, WorkerPanic, WorkerOffer, WorkerStoreFails,
       WorkerReview, WorkerExecute, WorkerReturned, WorkerFail, WorkerFailCommit, WorkerSettle,
       PoolNext, ShutdownRequest, ShutdownClose, ShutdownDone
  <2> QED BY <2>1
<1> QED BY <1>1, <1>2, <1>3

\* ClosedIsQuiet is inductive: WorkerPool::shutdown waits for the pending
\* registrations and the tasks, and nothing registers with a closed pool.
LEMMA ClosedStep == ASSUME TypeOK, ClosedIsQuiet, Next PROVE ClosedIsQuiet'
<1>1. CASE ShutdownDone
  BY <1>1 DEF ShutdownDone, ClosedIsQuiet
<1>2. CASE ~ShutdownDone
  <2>1. phase' = "closed" => phase = "closed"
    BY <1>2 DEF Next, RequestNext, Create, Cancel, Retry, CallNext, ReviewCommit, ReserveCommit,
       RecheckCommit, ClientNext, ClientDropped, ClientDroppedInCommit,
       ClientReview, ClientExecute, WorkerNext, WorkerWake, WorkerClaim, WorkerClaimFails,
       WorkerClaimed, WorkerWork, WorkerStore, WorkerPanic, WorkerOffer, WorkerStoreFails,
       WorkerReview, WorkerExecute, WorkerReturned, WorkerFail, WorkerFailCommit, WorkerSettle,
       TaskNext, TaskBegin, TaskWrite, TaskFinish, TaskManifestFails, TaskFinishFails,
       PoolNext, ShutdownRequest, ShutdownClose, Restart
  <2> QED BY <2>1, NewReservers, NewTasks DEF ClosedIsQuiet
<1> QED BY <1>1, <1>2

\* ShutdownDrains: when WorkerPool::shutdown returns every write is finished
\* and recorded, and none begins later, though the API still serves requests.
THEOREM ShutdownDrainsCorrect == Spec => []ShutdownDrains
<1>1. Init => ClosedIsQuiet
  BY DEF Init, ClosedIsQuiet
<1>2. TypeOK /\ ClosedIsQuiet /\ [Next]_vars => ClosedIsQuiet'
  <2>1. ASSUME ClosedIsQuiet, UNCHANGED vars PROVE ClosedIsQuiet'
    BY <2>1 DEF ClosedIsQuiet, vars
  <2> QED BY <2>1, ClosedStep
<1>3. ClosedIsQuiet /\ WritingIsSupervised => ShutdownDrains
  BY DEF ClosedIsQuiet, WritingIsSupervised, ShutdownDrains
<1> QED BY TypeCorrect, WritingIsSupervisedCorrect, <1>1, <1>2, <1>3, PTL DEF Spec

(***************************************************************************)
(* The runtime implements ApprovedWrites: review approves, reserve_execution *)
(* claims, the supervised task writes, and every other step is a stutter.  *)
(***************************************************************************)

\* A reservation is a Claim of the abstract specification.
LEMMA ClaimStep ==
    ASSUME TypeOK, Safe, ConstantsAssumption, NEW j \in Jobs, NEW k \in Keys, Reserve(j, k),
           UNCHANGED <<approved, written, begun>>
    PROVE  Promise!Next
<1>1. state[j] = "planning" /\ reservation[j] = None
      /\ reservation' = [reservation EXCEPT ![j] = k]
  BY DEF Reserve, CanReserve
<1>2. approved[j] # None /\ k # None
  BY <1>1 DEF Safe, PlannedIsApproved, ConstantsAssumption
<1>3. {i \in Jobs : reservation'[i] # None} = {i \in Jobs : reservation[i] # None} \cup {j}
  BY <1>1, <1>2 DEF TypeOK
<1>4. Promise!Claim(j)
  BY <1>1, <1>2, <1>3 DEF Promise!Claim
<1> QED BY <1>4 DEF Promise!Next

\* A step that leaves approvals, reservations and writes alone stutters there.
LEMMA StutterStep ==
    ASSUME UNCHANGED <<approved, reservation, written, begun>>
    PROVE  UNCHANGED Promise!vars
BY DEF Promise!vars

\* Every step of the runtime is a step of ApprovedWrites or a stutter.
LEMMA PromiseStep ==
    ASSUME TypeOK, Safe, ConstantsAssumption, Next
    PROVE  [Promise!Next]_(Promise!vars)
<1>1. CASE \E j \in Jobs : RequestNext(j)
  BY <1>1, StutterStep DEF RequestNext, Create, Cancel, Retry, observed
<1>2. CASE \E j \in Jobs : TaskNext(j)
  <2>1. PICK j \in Jobs : TaskNext(j)
    BY <1>2
  <2>2. CASE TaskBegin(j)
    <3>1. /\ task[j].pc = "spawned"
          /\ begun' = [begun EXCEPT ![j] = @ + 1]
          /\ written' = [written EXCEPT ![j] = task[j].plan]
          /\ UNCHANGED <<approved, reservation>>
      BY <2>2 DEF TaskBegin, durable
    <3>2. begun[j] = 0 /\ approved[j] = task[j].plan /\ reservation[j] # None
      BY <3>1 DEF Safe, TaskHoldsApproval, UnreservedIsUntouched
    <3>3. begun' = [begun EXCEPT ![j] = 1]
      BY <3>1, <3>2 DEF TypeOK
    <3>4. Promise!Write(j)
      BY <3>1, <3>2, <3>3 DEF Promise!Write
    <3> QED BY <3>4 DEF Promise!Next
  <2>3. CASE ~TaskBegin(j)
    <3>1. UNCHANGED <<approved, reservation, written, begun>>
      BY <2>1, <2>3 DEF TaskNext, TaskWrite, TaskFinish, TaskManifestFails, TaskFinishFails,
         durable, observed
    <3> QED BY <3>1, StutterStep
  <2> QED BY <2>2, <2>3
<1>3. CASE \E a \in Actors : CallNext(a)
  <2>1. PICK a \in Actors : CallNext(a)
    BY <1>3
  <2> DEFINE j == call[a].job
  <2>2. UNCHANGED <<written, begun>>
    BY <2>1 DEF CallNext, ReviewCommit, ReserveCommit, RecheckCommit, observed
  <2>3. CASE ReviewCommit(a)
    <3>1. j \in Jobs /\ call[a].plan \in Plans
      BY <2>3, CallArguments DEF ReviewCommit, TypeOK
    <3>2. UNCHANGED reservation
      BY <2>3 DEF ReviewCommit
    <3>3. CASE UNCHANGED approved
      BY <2>2, <3>2, <3>3, StutterStep
    <3>4. CASE ~UNCHANGED approved
      <4>1. state[j] = "awaiting" /\ approved' = [approved EXCEPT ![j] = call[a].plan]
        BY <2>3, <3>4 DEF ReviewCommit, Transition
      <4>2. reservation[j] = None
        BY <3>1, <4>1 DEF Safe, FailClosed
      <4>3. Promise!Approve(j, call[a].plan)
        BY <2>2, <3>1, <3>2, <4>1, <4>2 DEF Promise!Approve
      <4> QED BY <3>1, <4>3 DEF Promise!Next
    <3> QED BY <3>3, <3>4
  <2>4. CASE ReserveCommit(a) \/ RecheckCommit(a)
    <3>1. j \in Jobs /\ call[a].key \in Keys
      BY <2>4, CallArguments DEF ReserveCommit, RecheckCommit, TypeOK
    <3>2. UNCHANGED approved
      BY <2>4 DEF ReserveCommit, RecheckCommit
    <3>3. UNCHANGED reservation \/ Reserve(j, call[a].key)
      BY <2>4 DEF ReserveCommit, RecheckCommit, ReturnExisting
    <3> QED BY <2>2, <3>1, <3>2, <3>3, ClaimStep, StutterStep
  <2> QED BY <2>1, <2>3, <2>4 DEF CallNext
<1>4. CASE ClientNext
  <2>1. UNCHANGED <<approved, written, begun>>
    BY <1>4 DEF ClientNext, ClientDropped, ClientDroppedInCommit, ClientReview, ClientExecute,
       durable, observed
  <2>2. CASE UNCHANGED reservation
    BY <2>1, <2>2, StutterStep
  <2>3. CASE ~UNCHANGED reservation
    <3>1. PICK c \in Clients : ClientDroppedInCommit(c)
      BY <1>4, <2>3 DEF ClientNext, ClientDropped, ClientReview, ClientExecute, durable
    <3>2. call[c].job \in Jobs /\ call[c].key \in Keys
      BY <3>1, CallArguments DEF ClientDroppedInCommit, TypeOK, Actors
    <3> QED BY <2>1, <3>1, <3>2, ClaimStep DEF ClientDroppedInCommit
  <2> QED BY <2>2, <2>3
<1>5. CASE WorkerNext
  <2>1. UNCHANGED <<approved, reservation, written, begun>>
    BY <1>5 DEF WorkerNext, WorkerWake, WorkerClaim, WorkerClaimFails, WorkerClaimed,
       WorkerWork, WorkerStore, WorkerPanic, WorkerOffer, WorkerStoreFails, WorkerReview,
       WorkerExecute, WorkerReturned, WorkerFail, WorkerFailCommit, WorkerSettle, durable,
       observed
  <2> QED BY <2>1, StutterStep
<1>6. CASE PoolNext
  <2>1. UNCHANGED <<approved, reservation, written, begun>>
    BY <1>6 DEF PoolNext, ShutdownRequest, ShutdownClose, ShutdownDone, Restart, durable,
       observed
  <2> QED BY <2>1, StutterStep
<1> QED BY <1>1, <1>2, <1>3, <1>4, <1>5, <1>6 DEF Next

\* PromiseKept: for any number of jobs, clients, faults and restarts, what
\* reaches the library is the plan approved last before the single claim.
THEOREM PromiseCorrect == Spec => PromiseKept
<1>1. Init => Promise!Init
  BY DEF Init, Promise!Init
<1>2. TypeOK /\ Safe /\ [Next]_vars => [Promise!Next]_(Promise!vars)
  <2> SUFFICES ASSUME TypeOK, Safe, [Next]_vars PROVE [Promise!Next]_(Promise!vars)
    OBVIOUS
  <2>1. CASE Next
    BY <2>1, ConstantsAssumption, PromiseStep
  <2>2. CASE UNCHANGED vars
    BY <2>2, StutterStep DEF vars, durable, observed
  <2> QED BY <2>1, <2>2
<1> QED BY TypeCorrect, SafeCorrect, <1>1, <1>2, PTL DEF Spec, PromiseKept, Promise!Spec
=============================================================================
