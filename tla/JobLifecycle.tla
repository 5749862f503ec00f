---------------------------- MODULE JobLifecycle ----------------------------
(***************************************************************************)
(* The life of scrape jobs in fixer-server: one worker task, any number of *)
(* API requests and the supervised execution tasks work on the same SQLite *)
(* rows.  Every store write happens under the `operations` mutex and is    *)
(* one step here; a read made before the mutex is taken is a step of its   *)
(* own, so the row may change between the two.  Crashes and restarts, the  *)
(* graceful shutdown, dropped request futures, provider panics and store   *)
(* errors are modelled.  The wake-up channel between creation and worker   *)
(* is the business of JobDispatch: here the worker may wake at any time.   *)
(***************************************************************************)
EXTENDS JobStates, Naturals

CONSTANTS
    Jobs,         \* job ids, in creation order (rowids)
    Kinds,        \* kinds of job clients create, of {"manual","automatic","preview"}
    Clients,      \* concurrent API requests for review and execution
    Worker,       \* the one worker task
    Decisions,    \* review decisions (candidate and accepted conflicts)
    Contents,     \* plan contents a reconstruction may come to
    Keys,         \* idempotency keys
    AutoKey,      \* AUTO_EXECUTION_KEY
    None,         \* SQL NULL
    MaxRestarts,  \* bound: process restarts
    MaxFaults     \* bound: store errors and futures dropped inside a commit

ASSUME ConstantsAssumption ==
    /\ Jobs \subseteq Nat
    /\ Kinds \subseteq {"manual", "automatic", "preview"}
    /\ Worker \notin Clients
    /\ AutoKey \in Keys
    /\ MaxRestarts \in Nat /\ MaxFaults \in Nat
    /\ None \notin Jobs \cup Keys \cup (Decisions \X Contents) \cup States

VARIABLES
    \* the tables jobs and job_executions
    state,        \* jobs.state, or "absent" before the INSERT
    kind,         \* the part of jobs.input_json that steers the job
    approved,     \* review_decision_json and the fingerprint in plan_json
    report,       \* execution_json: None, or the outcome it describes
    reservation,  \* job_executions: the idempotency key, or None
    \* the running process
    phase,        \* WorkerPool: running, stopping, closing, closed
    worker,       \* the worker task
    call,         \* review and execute calls in flight, one per actor
    task,         \* supervised execution tasks
    \* the world, and what an observer remembers
    disk,         \* how much of the plan is on disk
    begun,        \* executions begun, over all restarts
    written,      \* the plan the last execution began to write
    orphaned,     \* jobs left in "writing" with no task, by a fault or a panic
    restarts, faults

durable  == <<state, kind, approved, report, reservation>>
observed == <<disk, begun, written>>
budgets  == <<restarts, faults>>
vars == <<durable, phase, worker, call, task, observed, orphaned, budgets>>

Plans  == Decisions \X Contents
Actors == Clients \cup {Worker}

IdleCall == [pc |-> "idle", job |-> None, key |-> None, plan |-> None]
NoTask   == [pc |-> "none", plan |-> None, outcome |-> None]
IdleWorker == [pc |-> "idle", job |-> None, expected |-> None]

(***************************************************************************)
(* The store.                                                              *)
(***************************************************************************)

\* SqliteJobStore::transition: compare-and-set on the state column.
Transition(j, from, to) ==
    /\ state[j] = from
    /\ CanTransition(from, to)
    /\ state' = [state EXCEPT ![j] = to]

\* reserve_execution inserts a row: the job is planned and has none yet.
CanReserve(j) == state[j] = "planning" /\ reservation[j] = None

\* Mutant: the row is not inserted.
ReserveForgets(j, k) ==
    /\ CanReserve(j)
    /\ state' = [state EXCEPT ![j] = "writing"]
    /\ UNCHANGED reservation

Reserve(j, k) ==
    /\ CanReserve(j)
    /\ reservation' = [reservation EXCEPT ![j] = k]
    /\ state' = [state EXCEPT ![j] = "writing"]

\* A fault: one of the MaxFaults events the run allows.
Fault == faults < MaxFaults /\ faults' = faults + 1

Init ==
    /\ state = [j \in Jobs |-> "absent"]
    /\ kind \in [Jobs -> Kinds]
    /\ approved = [j \in Jobs |-> None]
    /\ report = [j \in Jobs |-> None]
    /\ reservation = [j \in Jobs |-> None]
    /\ phase = "running"
    /\ worker = IdleWorker
    /\ call = [a \in Actors |-> IdleCall]
    /\ task = [j \in Jobs |-> NoTask]
    /\ disk = [j \in Jobs |-> "untouched"]
    /\ begun = [j \in Jobs |-> 0]
    /\ written = [j \in Jobs |-> None]
    /\ orphaned = {}
    /\ restarts = 0
    /\ faults = 0

(***************************************************************************)
(* Requests that are one critical section.                                 *)
(***************************************************************************)

Create(j) ==
    /\ state[j] = "absent"
    /\ \A i \in Jobs : i < j => state[i] # "absent"
    /\ state' = [state EXCEPT ![j] = "queued"]
    /\ UNCHANGED <<kind, approved, report, reservation, phase, worker, call,
                   task, observed, orphaned, budgets>>

\* Mutant: whatever has not ended for good may be cancelled.
CancelAnything(j) ==
    /\ state[j] \notin {"absent", "writing", "completed", "failed", "cancelled"}
    /\ state' = [state EXCEPT ![j] = "cancelled"]
    /\ UNCHANGED <<kind, approved, report, reservation, phase, worker, call,
                   task, observed, orphaned, budgets>>

Cancel(j) ==
    /\ state[j] # "writing"
    /\ Transition(j, state[j], "cancelled")
    /\ UNCHANGED <<kind, approved, report, reservation, phase, worker, call,
                   task, observed, orphaned, budgets>>

\* Mutant: the reservation is not looked at.
RetryReserved(j) ==
    /\ Transition(j, "interrupted", "queued")
    /\ UNCHANGED <<kind, approved, report, reservation, phase, worker, call,
                   task, observed, orphaned, budgets>>

\* The columns of the interrupted attempt survive: COALESCE keeps them.
Retry(j) ==
    /\ reservation[j] = None
    /\ Transition(j, "interrupted", "queued")
    /\ UNCHANGED <<kind, approved, report, reservation, phase, worker, call,
                   task, observed, orphaned, budgets>>

(***************************************************************************)
(* review and execute.  They read the row and rebuild the plan before they *)
(* take the mutex; the actor is a request or the worker.  A client that    *)
(* gets an error has changed nothing, and is not a step.                   *)
(***************************************************************************)

\* A request ends with its response; the worker looks at the result.
Return(a, result) ==
    call' = [call EXCEPT ![a] = IF a = Worker THEN [IdleCall EXCEPT !.pc = result]
                                              ELSE IdleCall]

\* review_with_auto_guard up to the mutex: the plan comes out as p.
ReviewRead(a, j, p) ==
    /\ call[a].pc = "idle"
    /\ state[j] = "awaiting"
    /\ call' = [call EXCEPT ![a] =
                   [pc |-> "review", job |-> j, key |-> None, plan |-> p]]

\* Mutant: the decision is stored without the compare on the state.
ReviewOverwrites(a) ==
    /\ call[a].pc = "review"
    /\ state' = [state EXCEPT ![call[a].job] = "planning"]
    /\ approved' = [approved EXCEPT ![call[a].job] = call[a].plan]
    /\ Return(a, "ok")
    /\ UNCHANGED <<kind, report, reservation, phase, worker, task, observed,
                   orphaned, budgets>>

ReviewCommit(a) ==
    /\ call[a].pc = "review"
    /\ \/ /\ Transition(call[a].job, "awaiting", "planning")
          /\ approved' = [approved EXCEPT ![call[a].job] = call[a].plan]
          /\ Return(a, "ok")
       \/ /\ state[call[a].job] # "awaiting"
          /\ Return(a, "err")
          /\ UNCHANGED <<state, approved>>
    /\ UNCHANGED <<kind, report, reservation, phase, worker, task, observed,
                   orphaned, budgets>>

\* execute up to the mutex, for a job that was not in "planning" when read.
RecheckRead(a, j, k) ==
    /\ call[a].pc = "idle"
    /\ approved[j] # None
    /\ state[j] # "planning"
    /\ call' = [call EXCEPT ![a] =
                   [pc |-> "recheck", job |-> j, key |-> k, plan |-> None]]

\* Mutant: the rebuilt plan is not compared with the reviewed one.
ExecuteStale(a, j, k, c) ==
    /\ call[a].pc = "idle"
    /\ approved[j] # None
    /\ state[j] = "planning"
    /\ kind[j] # "preview"
    /\ phase \in {"running", "stopping"}
    /\ call' = [call EXCEPT ![a] =
                   [pc |-> "reserve", job |-> j, key |-> k, plan |-> <<approved[j][1], c>>]]

\* execute up to the mutex, for a planned job: the plan is rebuilt under the
\* stored decision, compared with the reviewed one, and a registration taken.
ExecuteRead(a, j, k, c) ==
    LET rebuilt == <<approved[j][1], c>> IN
    /\ call[a].pc = "idle"
    /\ approved[j] # None
    /\ state[j] = "planning"
    /\ kind[j] # "preview"
    /\ rebuilt = approved[j]
    /\ phase \in {"running", "stopping"}
    /\ call' = [call EXCEPT ![a] =
                   [pc |-> "reserve", job |-> j, key |-> k, plan |-> rebuilt]]

\* No row inserted: the stored key decides between the existing job and an error.
ReturnExisting(a) ==
    /\ ~CanReserve(call[a].job)
    /\ Return(a, IF reservation[call[a].job] = call[a].key THEN "ok" ELSE "err")
    /\ UNCHANGED <<state, reservation, task, orphaned>>

\* Mutant: the registration is taken after the reservation, and may be refused.
ReserveThenRegister(a) ==
    LET j == call[a].job IN
    /\ call[a].pc = "reserve"
    /\ \/ /\ Reserve(j, call[a].key)
          /\ IF phase \in {"closing", "closed"}
             THEN Return(a, "err") /\ UNCHANGED task
             ELSE /\ task' = [task EXCEPT ![j] =
                        [pc |-> "spawned", plan |-> call[a].plan, outcome |-> None]]
                  /\ call' = [call EXCEPT ![a].pc = "await"]
          /\ UNCHANGED orphaned
       \/ ReturnExisting(a)
    /\ UNCHANGED <<kind, approved, report, phase, worker, observed, budgets>>

\* Reserve, spawn the supervised task, register it and wait for its result.
ReserveCommit(a) ==
    LET j == call[a].job IN
    /\ call[a].pc = "reserve"
    /\ \/ /\ Reserve(j, call[a].key)
          /\ task' = [task EXCEPT ![j] =
                        [pc |-> "spawned", plan |-> call[a].plan, outcome |-> None]]
          /\ call' = [call EXCEPT ![a].pc = "await"]
          /\ UNCHANGED orphaned
       \/ ReturnExisting(a)
    /\ UNCHANGED <<kind, approved, report, phase, worker, observed, budgets>>

\* The other branch of execute; a reservation made here is the arm the code
\* calls unreachable, and the panic leaves the row without a task (a worker
\* would go on to interrupt_active, past fail_active).
RecheckCommit(a) ==
    LET j == call[a].job IN
    /\ call[a].pc = "recheck"
    /\ \/ /\ Reserve(j, call[a].key)
          /\ orphaned' = orphaned \cup {j}
          /\ Return(a, "ok")
          /\ UNCHANGED task
       \/ ReturnExisting(a)
    /\ UNCHANGED <<kind, approved, report, phase, worker, observed, budgets>>

ClientReview(c, j) ==
    /\ \E p \in Plans : ReviewRead(c, j, p)
    /\ UNCHANGED <<durable, phase, worker, task, observed, orphaned, budgets>>

ClientExecute(c, j) ==
    /\ \E k \in Keys : \/ RecheckRead(c, j, k)
                       \/ \E p \in Contents : ExecuteRead(c, j, k, p)
    /\ UNCHANGED <<durable, phase, worker, task, observed, orphaned, budgets>>

\* The connection closes and the request's future is dropped at an await.
ClientDropped(c) ==
    /\ call[c].pc # "idle"
    /\ call' = [call EXCEPT ![c] = IdleCall]
    /\ UNCHANGED <<durable, phase, worker, task, observed, orphaned, budgets>>

\* The same, while reserve_execution awaits its COMMIT: SQLite commits, and
\* nobody is left to spawn the task.
ClientDroppedInCommit(c) ==
    LET j == call[c].job IN
    /\ call[c].pc = "reserve"
    /\ Fault
    /\ Reserve(j, call[c].key)
    /\ call' = [call EXCEPT ![c] = IdleCall]
    /\ orphaned' = orphaned \cup {j}
    /\ UNCHANGED <<kind, approved, report, phase, worker, task, observed, restarts>>

(***************************************************************************)
(* The supervised execution task (run_reserved_execution).                 *)
(***************************************************************************)

\* The oneshot result reaches the call that spawned the task, if it still waits.
Wake(j, result) ==
    call' = [a \in Actors |->
                IF call[a].pc = "await" /\ call[a].job = j
                THEN IF a = Worker THEN [IdleCall EXCEPT !.pc = result] ELSE IdleCall
                ELSE call[a]]

\* The replacement manifest is read, and the blocking write begins.
TaskBegin(j) ==
    /\ task[j].pc = "spawned"
    /\ task' = [task EXCEPT ![j].pc = "writing"]
    /\ begun' = [begun EXCEPT ![j] = @ + 1]
    /\ written' = [written EXCEPT ![j] = task[j].plan]
    /\ disk' = [disk EXCEPT ![j] = "partial"]
    /\ UNCHANGED <<durable, phase, worker, call, orphaned, budgets>>

\* The manifest cannot be read: the task ends without a transition.
TaskManifestFails(j) ==
    /\ task[j].pc = "spawned"
    /\ Fault
    /\ task' = [task EXCEPT ![j] = NoTask]
    /\ orphaned' = orphaned \cup {j}
    /\ Wake(j, "err")
    /\ UNCHANGED <<durable, phase, worker, observed, restarts>>

\* The blocking write ends: every operation done, or a failure report, or the
\* thread panicked.
TaskWrite(j) ==
    /\ task[j].pc = "writing"
    /\ \E o \in {"completed", "failed"} :
          /\ task' = [task EXCEPT ![j] = [pc |-> "wrote", plan |-> task[j].plan, outcome |-> o]]
          /\ disk' = [disk EXCEPT ![j] = IF o = "completed" THEN "full" ELSE @]
    /\ UNCHANGED <<durable, phase, worker, call, begun, written, orphaned, budgets>>

\* Mutant: the failure report is taken for a success.
TaskFinishOptimistic(j) ==
    /\ task[j].pc = "wrote"
    /\ task' = [task EXCEPT ![j] = NoTask]
    /\ Transition(j, "writing", "completed")
    /\ report' = [report EXCEPT ![j] = "completed"]
    /\ Wake(j, "ok")
    /\ UNCHANGED <<kind, approved, reservation, phase, worker, observed,
                   orphaned, budgets>>

\* Mutant: the report is stored, the state is not moved.
TaskFinishReportOnly(j) ==
    /\ task[j].pc = "wrote"
    /\ task' = [task EXCEPT ![j] = NoTask]
    /\ report' = [report EXCEPT ![j] = task[j].outcome]
    /\ Wake(j, "ok")
    /\ UNCHANGED <<state, kind, approved, reservation, phase, worker, observed,
                   orphaned, budgets>>

\* The result is persisted, unless the row has left "writing" meanwhile.
TaskFinish(j) ==
    /\ task[j].pc = "wrote"
    /\ task' = [task EXCEPT ![j] = NoTask]
    /\ \/ /\ Transition(j, "writing", task[j].outcome)
          /\ report' = [report EXCEPT ![j] = task[j].outcome]
          /\ Wake(j, "ok")
       \/ /\ state[j] # "writing"
          /\ Wake(j, "err")
          /\ UNCHANGED <<state, report>>
    /\ UNCHANGED <<kind, approved, reservation, phase, worker, observed,
                   orphaned, budgets>>

\* All four attempts at the transition fail in the store.
TaskFinishFails(j) ==
    /\ task[j].pc = "wrote"
    /\ Fault
    /\ task' = [task EXCEPT ![j] = NoTask]
    /\ orphaned' = orphaned \cup {j}
    /\ Wake(j, "err")
    /\ UNCHANGED <<durable, phase, worker, observed, restarts>>

(***************************************************************************)
(* The worker task (worker_loop, process_claimed, process_prepared).       *)
(***************************************************************************)

Goto(pc) == worker' = [worker EXCEPT !.pc = pc]

\* Mutant: the shutdown flag is not looked at between jobs.
WorkerWakeAlways ==
    /\ worker.pc = "idle"
    /\ Goto("woken")
    /\ UNCHANGED <<durable, phase, call, task, observed, orphaned, budgets>>

\* A wake-up token arrived before the shutdown flag was seen.
WorkerWake ==
    /\ worker.pc = "idle"
    /\ Goto(IF phase = "running" THEN "woken" ELSE "stopped")
    /\ UNCHANGED <<durable, phase, call, task, observed, orphaned, budgets>>

Oldest(j) == /\ state[j] = "queued"
             /\ \A i \in Jobs : state[i] = "queued" => j <= i

\* The token's id is ignored: the oldest queued job is claimed.
WorkerClaim ==
    /\ worker.pc = "woken"
    /\ \/ \E j \in Jobs :
            /\ Oldest(j)
            /\ Transition(j, "queued", "scanning")
            /\ worker' = [pc |-> "claimed", job |-> j, expected |-> None]
       \/ /\ \A j \in Jobs : state[j] # "queued"
          /\ Goto("idle")
          /\ UNCHANGED state
    /\ UNCHANGED <<kind, approved, report, reservation, phase, call, task,
                   observed, orphaned, budgets>>

\* The store keeps failing until the shutdown flag is seen.
WorkerClaimFails ==
    /\ worker.pc = "woken"
    /\ phase # "running"
    /\ Fault
    /\ Goto("stopped")
    /\ UNCHANGED <<durable, phase, call, task, observed, orphaned, restarts>>

\* A claim that turns out to follow the shutdown request is undone.
WorkerClaimed ==
    /\ worker.pc = "claimed"
    /\ \/ /\ phase = "running"
          /\ Goto("scan")
          /\ UNCHANGED state
       \/ /\ phase # "running"
          /\ Transition(worker.job, "scanning", "queued")
          /\ worker' = [IdleWorker EXCEPT !.pc = "stopped"]
       \/ /\ phase # "running"
          /\ state[worker.job] # "scanning"
          /\ Goto("settle")
          /\ UNCHANGED state
    /\ UNCHANGED <<kind, approved, report, reservation, phase, call, task,
                   observed, orphaned, budgets>>

\* The three stages: where the work is done, and where its result is stored.
Stages == {[work |-> "scan",    store |-> "scanned",  from |-> "scanning",  to |-> "searching", next |-> "search"],
           [work |-> "search",  store |-> "searched", from |-> "searching", to |-> "resolving", next |-> "resolve"],
           [work |-> "resolve", store |-> "resolved", from |-> "resolving", to |-> "awaiting",  next |-> "offer"]}

\* SDK work: it fails, or it ends and the shutdown flag is looked at.
WorkerWork(s) ==
    /\ worker.pc = s.work
    /\ \/ Goto("fail")
       \/ phase = "running" /\ Goto(s.store)
       \/ phase # "running" /\ Goto("settle")
    /\ UNCHANGED <<durable, phase, call, task, observed, orphaned, budgets>>

\* Mutant: the worker survives the panic, and forgets the job.
WorkerPanicForgets ==
    /\ worker.pc \in {"scan", "search", "resolve", "autoReview", "autoExecute"}
    /\ call[Worker].pc = "idle"
    /\ Goto("idle")
    /\ UNCHANGED <<durable, phase, call, task, observed, orphaned, budgets>>

\* A provider panics; catch_unwind drops the job into interrupt_active.
WorkerPanic ==
    /\ worker.pc \in {"scan", "search", "resolve", "autoReview", "autoExecute"}
    /\ call[Worker].pc = "idle"
    /\ Goto("settle")
    /\ UNCHANGED <<durable, phase, call, task, observed, orphaned, budgets>>

\* The stage's transition; a cancelled job ends the processing.
WorkerStore(s) ==
    /\ worker.pc = s.store
    /\ s.to # "awaiting"
    /\ \/ Transition(worker.job, s.from, s.to) /\ Goto(s.next)
       \/ state[worker.job] # s.from /\ Goto("settle") /\ UNCHANGED state
    /\ UNCHANGED <<kind, approved, report, reservation, phase, call, task,
                   observed, orphaned, budgets>>

\* process_prepared: an automatic job is reviewed by the worker itself, or
\* blocked; every other job waits for a client.
WorkerOffer ==
    /\ worker.pc = "resolved"
    /\ \/ /\ kind[worker.job] = "automatic"
          /\ Goto("fail")
          /\ UNCHANGED state
       \/ /\ Transition(worker.job, "resolving", "awaiting")
          /\ Goto(IF kind[worker.job] = "automatic" THEN "autoReview" ELSE "settle")
       \/ /\ state[worker.job] # "resolving"
          /\ Goto("settle")
          /\ UNCHANGED state
    /\ UNCHANGED <<kind, approved, report, reservation, phase, call, task,
                   observed, orphaned, budgets>>

\* All four attempts at a transition, or the read of fail_active, fail in the store.
WorkerStoreFails ==
    /\ \/ worker.pc \in {"scanned", "searched", "resolved", "fail", "failing"}
       \/ worker.pc = "claimed" /\ phase # "running"
    /\ Fault
    /\ Goto("settle")
    /\ UNCHANGED <<durable, phase, call, task, observed, orphaned, restarts>>

\* review_with_auto_guard: the plan is rebuilt, or the call fails at once.
WorkerReview ==
    /\ worker.pc = "autoReview"
    /\ \/ \E p \in Plans : ReviewRead(Worker, worker.job, p)
       \/ call[Worker].pc = "idle" /\ Return(Worker, "err")
    /\ UNCHANGED <<durable, phase, worker, task, observed, orphaned, budgets>>

\* execute under AUTO_EXECUTION_KEY: likewise.
WorkerExecute ==
    /\ worker.pc = "autoExecute"
    /\ \/ RecheckRead(Worker, worker.job, AutoKey)
       \/ \E c \in Contents : ExecuteRead(Worker, worker.job, AutoKey, c)
       \/ call[Worker].pc = "idle" /\ Return(Worker, "err")
    /\ UNCHANGED <<durable, phase, worker, task, observed, orphaned, budgets>>

WorkerReturned ==
    /\ worker.pc \in {"autoReview", "autoExecute"}
    /\ call[Worker].pc \in {"ok", "err"}
    /\ Goto(IF call[Worker].pc = "err" THEN "fail"
            ELSE IF worker.pc = "autoReview" THEN "autoExecute" ELSE "settle")
    /\ call' = [call EXCEPT ![Worker] = IdleCall]
    /\ UNCHANGED <<durable, phase, task, observed, orphaned, budgets>>

\* fail_active reads the state before it takes the mutex...
WorkerFail ==
    /\ worker.pc = "fail"
    /\ worker' = IF CanTransition(state[worker.job], "failed")
                 THEN [pc |-> "failing", job |-> worker.job, expected |-> state[worker.job]]
                 ELSE [worker EXCEPT !.pc = "settle"]
    /\ UNCHANGED <<durable, phase, call, task, observed, orphaned, budgets>>

\* ...and moves whatever state it read to "failed", with a failure of its own.
WorkerFailCommit ==
    /\ worker.pc = "failing"
    /\ \/ /\ Transition(worker.job, worker.expected, "failed")
          /\ report' = [report EXCEPT ![worker.job] = "failed"]
       \/ /\ state[worker.job] # worker.expected
          /\ UNCHANGED <<state, report>>
    /\ worker' = [pc |-> "settle", job |-> worker.job, expected |-> None]
    /\ UNCHANGED <<kind, approved, reservation, phase, call, task, observed,
                   orphaned, budgets>>

\* Mutant: interrupt_active does not know the stage "resolving".
WorkerSettleEarlyStages ==
    /\ worker.pc = "settle"
    /\ \/ \E s \in {"scanning", "searching"} : Transition(worker.job, s, "interrupted")
       \/ state[worker.job] \notin {"scanning", "searching"} /\ UNCHANGED state
    /\ worker' = IdleWorker
    /\ UNCHANGED <<kind, approved, report, reservation, phase, call, task,
                   observed, orphaned, budgets>>

\* interrupt_active, run after every claimed job: it retries until it succeeds.
WorkerSettle ==
    /\ worker.pc = "settle"
    /\ \/ \E s \in Working : Transition(worker.job, s, "interrupted")
       \/ state[worker.job] \notin Working /\ UNCHANGED state
    /\ worker' = IdleWorker
    /\ UNCHANGED <<kind, approved, report, reservation, phase, call, task,
                   observed, orphaned, budgets>>

(***************************************************************************)
(* Shutdown, and the process going away.                                   *)
(***************************************************************************)

\* WorkerPool::shutdown raises the flag...
ShutdownRequest ==
    /\ phase = "running"
    /\ phase' = "stopping"
    /\ UNCHANGED <<durable, worker, call, task, observed, orphaned, budgets>>

\* ...waits for the worker, closes the registry to new registrations...
ShutdownClose ==
    /\ phase = "stopping"
    /\ worker.pc = "stopped"
    /\ phase' = "closing"
    /\ UNCHANGED <<durable, worker, call, task, observed, orphaned, budgets>>

\* Mutant: pending registrations are not waited for.
ShutdownDoneEarly ==
    /\ phase = "closing"
    /\ \A j \in Jobs : task[j].pc = "none"
    /\ phase' = "closed"
    /\ UNCHANGED <<durable, worker, call, task, observed, orphaned, budgets>>

\* ...and returns when no registration is pending and no task runs.
ShutdownDone ==
    /\ phase = "closing"
    /\ \A a \in Actors : call[a].pc # "reserve"
    /\ \A j \in Jobs : task[j].pc = "none"
    /\ phase' = "closed"
    /\ UNCHANGED <<durable, worker, call, task, observed, orphaned, budgets>>

\* The process ends at any point, and the next one opens the store.
Restart ==
    /\ restarts < MaxRestarts
    /\ restarts' = restarts + 1
    /\ state' = [j \in Jobs |-> IF state[j] \in Active THEN "interrupted" ELSE state[j]]
    /\ phase' = "running"
    /\ worker' = IdleWorker
    /\ call' = [a \in Actors |-> IdleCall]
    /\ task' = [j \in Jobs |-> NoTask]
    /\ orphaned' = {}
    /\ UNCHANGED <<kind, approved, report, reservation, observed, faults>>

WorkerNext ==
    \/ WorkerWake \/ WorkerClaim \/ WorkerClaimFails \/ WorkerClaimed
    \/ \E s \in Stages : WorkerWork(s) \/ WorkerStore(s)
    \/ WorkerPanic \/ WorkerOffer \/ WorkerStoreFails
    \/ WorkerReview \/ WorkerExecute \/ WorkerReturned
    \/ WorkerFail \/ WorkerFailCommit \/ WorkerSettle

CallNext(a) == ReviewCommit(a) \/ ReserveCommit(a) \/ RecheckCommit(a)

TaskNext(j) == \/ TaskBegin(j) \/ TaskWrite(j) \/ TaskFinish(j)
               \/ TaskManifestFails(j) \/ TaskFinishFails(j)

RequestNext(j) == Create(j) \/ Cancel(j) \/ Retry(j)

ClientNext ==
    \E c \in Clients : \/ ClientDropped(c) \/ ClientDroppedInCommit(c)
                       \/ \E j \in Jobs : ClientReview(c, j) \/ ClientExecute(c, j)

PoolNext == ShutdownRequest \/ ShutdownClose \/ ShutdownDone \/ Restart

Next ==
    \/ \E j \in Jobs : RequestNext(j) \/ TaskNext(j)
    \/ \E a \in Actors : CallNext(a)
    \/ ClientNext \/ WorkerNext \/ PoolNext

Spec == Init /\ [][Next]_vars

\* Tokio polls every spawned task and joins the pool; a provider answers or
\* times out.  Nothing obliges a client, a fault or a crash to happen.
Fairness ==
    /\ WF_vars(WorkerNext)
    /\ \A a \in Actors : WF_vars(CallNext(a))
    /\ \A j \in Jobs : WF_vars(TaskNext(j))
    /\ WF_vars(ShutdownClose) /\ WF_vars(ShutdownDone)

FairSpec == Spec /\ Fairness

(***************************************************************************)
(* Properties.                                                             *)
(***************************************************************************)

CallOK(c) ==
    \/ c = IdleCall
    \/ c.pc = "review"  /\ c.job \in Jobs /\ c.key = None /\ c.plan \in Plans
    \/ c.pc = "recheck" /\ c.job \in Jobs /\ c.key \in Keys /\ c.plan = None
    \/ c.pc \in {"reserve", "await"} /\ c.job \in Jobs /\ c.key \in Keys /\ c.plan \in Plans
    \/ c.pc \in {"ok", "err"} /\ c.job = None /\ c.key = None /\ c.plan = None

CallRecords ==
    [pc : {"idle", "review", "recheck", "reserve", "await", "ok", "err"},
     job : Jobs \cup {None}, key : Keys \cup {None}, plan : Plans \cup {None}]

CallsOK == call \in [Actors -> CallRecords] /\ \A a \in Actors : CallOK(call[a])

TaskRecords == [pc : {"none", "spawned", "writing", "wrote"}, plan : Plans \cup {None},
                outcome : {None, "completed", "failed"}]

WorkerPcs == {"idle", "woken", "stopped", "claimed", "scan", "scanned", "search",
              "searched", "resolve", "resolved", "autoReview", "autoExecute",
              "fail", "failing", "settle"}

WorkerRecords == [pc : WorkerPcs, job : Jobs \cup {None}, expected : States \cup {None}]

NoJobPcs == {"idle", "woken", "stopped"}

WorkerOK == worker \in WorkerRecords /\ (worker.pc \notin NoJobPcs => worker.job \in Jobs)

\* Every column, program counter and counter stays in its domain.
TypeOK ==
    /\ state \in [Jobs -> States \cup {"absent"}]
    /\ kind \in [Jobs -> Kinds]
    /\ approved \in [Jobs -> Plans \cup {None}]
    /\ report \in [Jobs -> {None, "completed", "failed"}]
    /\ reservation \in [Jobs -> Keys \cup {None}]
    /\ phase \in {"running", "stopping", "closing", "closed"}
    /\ WorkerOK
    /\ CallsOK
    /\ task \in [Jobs -> TaskRecords]
    /\ disk \in [Jobs -> {"untouched", "partial", "full"}]
    /\ begun \in [Jobs -> Nat]
    /\ written \in [Jobs -> Plans \cup {None}]
    /\ orphaned \subseteq Jobs
    /\ restarts \in Nat /\ faults \in Nat

\* A job's plan is executed at most once, over all retries, idempotency keys,
\* crashes and restarts (job_executions outlives the process).
AtMostOnce == \A j \in Jobs : begun[j] <= 1

\* What an execution writes is what was reviewed, though the plan is rebuilt
\* before the mutex is taken and the stored approval survives a retry; a job
\* created without `apply` is never written.
WritesAreApproved ==
    \A j \in Jobs : begun[j] > 0 => /\ kind[j] # "preview"
                                    /\ approved[j] # None
                                    /\ written[j] = approved[j]

\* Once an execution is reserved the job never runs again: neither a retry nor
\* a restart brings it back before "writing" (it fails closed).
FailClosed ==
    \A j \in Jobs : reservation[j] # None =>
        state[j] \in {"writing", "completed", "failed", "interrupted"}

\* A job reported as cancelled has not touched the library, whenever the
\* cancellation came.
CancelledIsUntouched ==
    \A j \in Jobs : state[j] = "cancelled" => disk[j] = "untouched"

\* "completed" is persisted only for a plan that is wholly on disk.
CompletedIsTruthful ==
    \A j \in Jobs : state[j] = "completed" =>
        disk[j] = "full" /\ report[j] = "completed"

\* Every job in a worker stage is the one the worker holds: no error, panic,
\* cancellation or shutdown path lets go of a job without settling it.
WorkerOwnsWork ==
    \A j \in Jobs : state[j] \in Working =>
        worker.job = j /\ worker.pc \notin NoJobPcs

\* A job in "writing" has its task, unless a fault or the panic of RecheckCommit
\* took the task away.
WritingIsSupervised ==
    \A j \in Jobs : state[j] = "writing" => task[j].pc # "none" \/ j \in orphaned

\* WorkerPool::shutdown returns with every write finished and recorded, and
\* none begins afterwards, though requests are still being served.
ShutdownDrains ==
    phase = "closed" => \A j \in Jobs : /\ task[j].pc = "none"
                                        /\ state[j] = "writing" => j \in orphaned

\* "failed" is the last word on a job: its task is over and the persisted
\* failure is its own, which is what the project's own test of failed
\* executions calls terminal and truthful.
FailureIsFinal == \A j \in Jobs : state[j] = "failed" => task[j].pc = "none"

(***************************************************************************)
(* The inductive invariant behind the safety properties.                   *)
(***************************************************************************)

\* Where a job can be once a call has found it planned and rebuilt its plan:
\* within one process no step leads from here back to a new approval.
PastReview == {"planning", "writing", "completed", "failed", "cancelled"}

\* A job without a reservation has never been near the executor.
UnreservedIsUntouched ==
    \A j \in Jobs : reservation[j] = None =>
        begun[j] = 0 /\ disk[j] = "untouched" /\ task[j].pc = "none"

PlannedIsApproved == \A j \in Jobs : state[j] = "planning" => approved[j] # None

\* A call about to reserve holds the approved plan, whatever else has happened.
CallHoldsApproval ==
    \A a \in Actors : call[a].pc = "reserve" =>
        /\ approved[call[a].job] = call[a].plan
        /\ kind[call[a].job] # "preview"
        /\ state[call[a].job] \in PastReview

\* So does its task, and what the task says of the disk is true.
TaskHoldsApproval ==
    \A j \in Jobs : task[j].pc # "none" =>
        /\ approved[j] = task[j].plan /\ approved[j] # None
        /\ kind[j] # "preview"
        /\ state[j] # "completed"
        /\ task[j].pc = "spawned" => begun[j] = 0
        /\ task[j].pc = "wrote" => task[j].outcome \in {"completed", "failed"}
        /\ task[j].pc = "wrote" /\ task[j].outcome = "completed" => disk[j] = "full"

\* The inductive strengthening of AtMostOnce, WritesAreApproved, FailClosed,
\* CancelledIsUntouched and CompletedIsTruthful.
Safe ==
    /\ AtMostOnce
    /\ WritesAreApproved
    /\ FailClosed
    /\ CompletedIsTruthful
    /\ UnreservedIsUntouched
    /\ PlannedIsApproved
    /\ CallHoldsApproval
    /\ TaskHoldsApproval

\* A closed pool has nothing in flight that could still write: no registration
\* is pending, and no task is left.  With WritingIsSupervised it is the
\* inductive strengthening of ShutdownDrains.
ClosedIsQuiet ==
    phase = "closed" => /\ \A a \in Actors : call[a].pc # "reserve"
                        /\ \A j \in Jobs : task[j].pc = "none"

\* The arm of execute marked unreachable: a job that was not in "planning"
\* when it was read is never reserved.
NonPlanningNeverReserves ==
    [][\A a \in Actors : call[a].pc = "recheck" /\ call'[a] # call[a]
            => reservation' = reservation]_vars

\* After a graceful shutdown no job is left in "writing", whoever went away.
ShutdownFinishesWrites ==
    phase = "closed" => \A j \in Jobs : state[j] # "writing"

\* The runtime implements the promise of ApprovedWrites.
Promise == INSTANCE ApprovedWrites
    WITH claimed <- {j \in Jobs : reservation[j] # None}, writes <- begun
PromiseKept == Promise!Spec

\* A claimed job leaves the worker stages, whatever the provider does.
StagesEnd == \A j \in Jobs : state[j] \in Working ~> state[j] \notin Working

\* A write that was reserved is recorded, or a fault or crash took its task.
WritesEnd ==
    \A j \in Jobs : state[j] = "writing" ~> (state[j] # "writing" \/ j \in orphaned)

\* A shutdown request ends with the pool drained (or the process gone).
ShutdownEnds == phase = "stopping" ~> phase \in {"closed", "running"}
=============================================================================
