---------------------------- MODULE JobDispatch ----------------------------
(***************************************************************************)
(* How a queued row and the worker find each other in fixer-server: every  *)
(* submission and retry owes the bounded channel one wake-up token, the    *)
(* worker ignores which job a token names and claims the oldest queued     *)
(* row, and a recovery task owes one token for every row that was queued   *)
(* when the pool started.  JobLifecycle lets the worker wake at any time;  *)
(* here it wakes for tokens only, and what it does with the job is left    *)
(* out.                                                                    *)
(***************************************************************************)
EXTENDS Naturals, FiniteSets

CONSTANTS
    Jobs,         \* job ids, in creation order
    Requests,     \* concurrent create, create_run, create_for_source and retry calls
    Capacity,     \* queue_capacity
    MaxRestarts,  \* bound: process restarts
    MaxStranded   \* bound: futures dropped between the commit and the token

ASSUME DispatchAssumption ==
    /\ Jobs \subseteq Nat /\ IsFiniteSet(Jobs)
    /\ IsFiniteSet(Requests)
    /\ Capacity \in Nat \ {0}          \* a NonZeroUsize
    /\ MaxRestarts \in Nat /\ MaxStranded \in Nat

VARIABLES
    row,        \* absent, queued, working (the worker has it), parked, interrupted
    sender,     \* JobRuntime::dispatch: "none" until start_workers, then "open"
    tokens,     \* messages in the channel
    request,    \* calls in flight: [pc, permit]
    recovery,   \* recover_queued: [pc, left]
    worker,     \* worker_loop: idle, woken, working, stopped (receiver dropped)
    stopping,   \* the shutdown flag
    stranded,   \* tokens nobody is left to send
    restarts

vars == <<row, sender, tokens, request, recovery, worker, stopping, stranded, restarts>>

Queued == {j \in Jobs : row[j] = "queued"}
Idle   == [pc |-> "idle", permit |-> FALSE]

Init ==
    /\ row = [j \in Jobs |-> "absent"]
    /\ sender = "none"
    /\ tokens = 0
    /\ request = [r \in Requests |-> Idle]
    /\ recovery = [pc |-> "off", left |-> 0]
    /\ worker = "off"
    /\ stopping = FALSE
    /\ stranded = 0
    /\ restarts = 0

(***************************************************************************)
(* The channel: a message or a permit occupies a slot; when the worker has *)
(* dropped the receiver, reservations fail and messages are lost.          *)
(***************************************************************************)

Held   == {r \in Requests : request[r].permit}
Free   == worker # "stopped" /\ tokens + Cardinality(Held) < Capacity
Closed == worker = "stopped"

Push == tokens' = IF Closed THEN tokens ELSE tokens + 1

\* start_worker_flow: the sender is published, recovery and worker are spawned.
Start ==
    /\ sender = "none"
    /\ sender' = "open"
    /\ recovery' = [pc |-> "reading", left |-> 0]
    /\ worker' = "idle"
    /\ UNCHANGED <<row, tokens, request, stopping, stranded, restarts>>

(***************************************************************************)
(* A submission: permit, row, token.                                       *)
(***************************************************************************)

\* reserve_dispatch reads the sender once.
Submit(r) ==
    /\ request[r].pc = "idle"
    /\ request' = [request EXCEPT ![r].pc = IF sender = "none" THEN "ready" ELSE "reserving"]
    /\ UNCHANGED <<row, sender, tokens, recovery, worker, stopping, stranded, restarts>>

\* Mutant: permits handed out are not counted.
GrantedTooMany(r) ==
    /\ request[r].pc = "reserving"
    /\ worker # "stopped" /\ tokens < Capacity
    /\ request' = [request EXCEPT ![r] = [pc |-> "ready", permit |-> TRUE]]
    /\ UNCHANGED <<row, sender, tokens, recovery, worker, stopping, stranded, restarts>>

\* reserve_owned: a slot is set aside before anything is stored.
Granted(r) ==
    /\ request[r].pc = "reserving"
    /\ Free
    /\ request' = [request EXCEPT ![r] = [pc |-> "ready", permit |-> TRUE]]
    /\ UNCHANGED <<row, sender, tokens, recovery, worker, stopping, stranded, restarts>>

\* Mutant: a caller waiting for a slot is not told that the receiver is gone.
RefusedNever(r) ==
    /\ request[r].pc = "reserving"
    /\ sender = "none"
    /\ request' = [request EXCEPT ![r] = Idle]
    /\ UNCHANGED <<row, sender, tokens, recovery, worker, stopping, stranded, restarts>>

\* QueueUnavailable, before anything is stored.
Refused(r) ==
    /\ request[r].pc = "reserving"
    /\ Closed
    /\ request' = [request EXCEPT ![r] = Idle]
    /\ UNCHANGED <<row, sender, tokens, recovery, worker, stopping, stranded, restarts>>

\* Under `operations`: the INSERT, or the transition of a retry.
Store(r) ==
    /\ request[r].pc = "ready"
    /\ \E j \in Jobs :
          /\ \/ row[j] = "absent" /\ \A i \in Jobs : i < j => row[i] # "absent"
             \/ row[j] = "interrupted"
          /\ row' = [row EXCEPT ![j] = "queued"]
    /\ request' = [request EXCEPT ![r].pc = "stored"]
    /\ UNCHANGED <<sender, tokens, recovery, worker, stopping, stranded, restarts>>

\* An equal live run, a source that has its job, a retry of a job that is not
\* interrupted, or a store error: the permit goes back.
StoreNothing(r) ==
    /\ request[r].pc = "ready"
    /\ request' = [request EXCEPT ![r] = Idle]
    /\ UNCHANGED <<row, sender, tokens, recovery, worker, stopping, stranded, restarts>>

\* Mutant: without a permit the sender is not looked at again.
DispatchOnce(r) ==
    /\ request[r].pc = "stored"
    /\ IF request[r].permit THEN Push ELSE UNCHANGED tokens
    /\ request' = [request EXCEPT ![r] = Idle]
    /\ UNCHANGED <<row, sender, recovery, worker, stopping, stranded, restarts>>

\* dispatch: the permit is spent; without one the sender is read again, for a
\* pool may have started meanwhile.
Dispatch(r) ==
    /\ request[r].pc = "stored"
    /\ \/ /\ request[r].permit
          /\ Push
          /\ request' = [request EXCEPT ![r] = Idle]
       \/ /\ ~request[r].permit
          /\ request' = [request EXCEPT ![r].pc = IF sender = "none" THEN "idle" ELSE "sending"]
          /\ UNCHANGED tokens
    /\ UNCHANGED <<row, sender, recovery, worker, stopping, stranded, restarts>>

\* Sender::send waits for a slot, or fails.
Send(r) ==
    /\ request[r].pc = "sending"
    /\ Free \/ Closed
    /\ Push
    /\ request' = [request EXCEPT ![r] = Idle]
    /\ UNCHANGED <<row, sender, recovery, worker, stopping, stranded, restarts>>

\* The request's future is dropped; once the row is stored, so is its token.
Dropped(r) ==
    /\ request[r].pc # "idle"
    /\ \/ request[r].pc \notin {"stored", "sending"} /\ UNCHANGED stranded
       \/ /\ request[r].pc \in {"stored", "sending"}
          /\ stranded < MaxStranded
          /\ stranded' = stranded + 1
    /\ request' = [request EXCEPT ![r] = Idle]
    /\ UNCHANGED <<row, sender, tokens, recovery, worker, stopping, restarts>>

(***************************************************************************)
(* Recovery: one token for every row that is queued at the start.          *)
(***************************************************************************)

\* Mutant: the first row is taken for the one the worker starts with.
RecoveryReadSkips ==
    /\ recovery.pc = "reading"
    /\ recovery' = [pc |-> "sending",
                    left |-> IF Queued = {} THEN 0 ELSE Cardinality(Queued) - 1]
    /\ UNCHANGED <<row, sender, tokens, request, worker, stopping, stranded, restarts>>

RecoveryRead ==
    /\ recovery.pc = "reading"
    /\ recovery' = [pc |-> "sending", left |-> Cardinality(Queued)]
    /\ UNCHANGED <<row, sender, tokens, request, worker, stopping, stranded, restarts>>

RecoverySend ==
    /\ recovery.pc = "sending"
    /\ recovery.left > 0
    /\ Free
    /\ Push
    /\ recovery' = [recovery EXCEPT !.left = @ - 1]
    /\ UNCHANGED <<row, sender, request, worker, stopping, stranded, restarts>>

\* All sent, or the shutdown flag is seen, or the receiver is gone.
RecoveryEnd ==
    /\ recovery.pc \in {"reading", "sending"}
    /\ stopping \/ Closed \/ recovery = [pc |-> "sending", left |-> 0]
    /\ recovery' = [pc |-> "done", left |-> 0]
    /\ UNCHANGED <<row, sender, tokens, request, worker, stopping, stranded, restarts>>

(***************************************************************************)
(* The worker.                                                             *)
(***************************************************************************)

\* A token is taken; the flag is looked at first and once more afterwards.
WorkerWake ==
    /\ worker = "idle"
    /\ \/ stopping /\ worker' = "stopped" /\ tokens' = 0
       \/ ~stopping /\ tokens > 0 /\ worker' = "woken" /\ tokens' = tokens - 1
    /\ UNCHANGED <<row, sender, request, recovery, stopping, stranded, restarts>>

\* claim_oldest_queued, whatever the token said.
WorkerClaim ==
    /\ worker = "woken"
    /\ \/ \E j \in Queued :
            /\ \A i \in Queued : j <= i
            /\ row' = [row EXCEPT ![j] = "working"]
            /\ worker' = "working"
       \/ Queued = {} /\ worker' = "idle" /\ UNCHANGED row
    /\ UNCHANGED <<sender, tokens, request, recovery, stopping, stranded, restarts>>

\* The job leaves the worker: done, handed over or cancelled; interrupted by a
\* panic or the shutdown; or given back, when the flag was up before it began.
WorkerSettle ==
    /\ worker = "working"
    /\ \E j \in Jobs :
          /\ row[j] = "working"
          /\ \/ /\ \E s \in {"parked", "interrupted"} : row' = [row EXCEPT ![j] = s]
                /\ worker' = "idle"
                /\ UNCHANGED tokens
             \/ /\ stopping
                /\ row' = [row EXCEPT ![j] = "queued"]
                /\ worker' = "stopped"
                /\ tokens' = 0
    /\ UNCHANGED <<sender, request, recovery, stopping, stranded, restarts>>

\* The store fails until the flag is seen.
WorkerGivesUp ==
    /\ worker = "woken"
    /\ stopping
    /\ worker' = "stopped"
    /\ tokens' = 0
    /\ UNCHANGED <<row, sender, request, recovery, stopping, stranded, restarts>>

\* A queued job is cancelled; its token stays behind.
Cancel(j) ==
    /\ row[j] = "queued"
    /\ row' = [row EXCEPT ![j] = "parked"]
    /\ UNCHANGED <<sender, tokens, request, recovery, worker, stopping, stranded, restarts>>

Shutdown ==
    /\ sender = "open"
    /\ ~stopping
    /\ stopping' = TRUE
    /\ UNCHANGED <<row, sender, tokens, request, recovery, worker, stranded, restarts>>

\* The process ends and the next one opens the store: queued rows stay, the
\* worker's job and some that were planned or writing become interrupted.
Restart ==
    /\ restarts < MaxRestarts
    /\ restarts' = restarts + 1
    /\ \E active \in SUBSET {j \in Jobs : row[j] = "parked"} :
          row' = [j \in Jobs |-> IF row[j] = "working" \/ j \in active
                                 THEN "interrupted" ELSE row[j]]
    /\ sender' = "none"
    /\ tokens' = 0
    /\ request' = [r \in Requests |-> Idle]
    /\ recovery' = [pc |-> "off", left |-> 0]
    /\ worker' = "off"
    /\ stopping' = FALSE
    /\ stranded' = 0

RequestNext(r) == \/ Submit(r) \/ Granted(r) \/ Refused(r) \/ Store(r) \/ StoreNothing(r)
                  \/ Dispatch(r) \/ Send(r) \/ Dropped(r)

RecoveryNext == RecoveryRead \/ RecoverySend \/ RecoveryEnd

WorkerNext == WorkerWake \/ WorkerClaim \/ WorkerSettle \/ WorkerGivesUp

Next ==
    \/ \E r \in Requests : RequestNext(r)
    \/ \E j \in Jobs : Cancel(j)
    \/ Start \/ RecoveryNext \/ WorkerNext \/ Shutdown \/ Restart

Spec == Init /\ [][Next]_vars

\* Tasks and the calls in flight are polled; tokio hands out slots first come
\* first served, so a waiter that could be served again and again is served.
Fairness ==
    /\ WF_vars(Start) /\ WF_vars(WorkerNext)
    /\ SF_vars(RecoverySend) /\ WF_vars(RecoveryRead \/ RecoveryEnd)
    /\ \A r \in Requests :
          /\ WF_vars(Store(r) \/ StoreNothing(r)) /\ WF_vars(Dispatch(r)) /\ WF_vars(Refused(r))
          /\ SF_vars(Granted(r)) /\ SF_vars(Send(r))

FairSpec == Spec /\ Fairness

(***************************************************************************)
(* Properties.                                                             *)
(***************************************************************************)

RequestOK(q) ==
    \/ q.pc \in {"idle", "reserving", "sending"} /\ ~q.permit
    \/ q.pc \in {"ready", "stored"}

\* The columns and program counters stay in their domains, and the channel
\* never holds more than queue_capacity.
TypeOK ==
    /\ row \in [Jobs -> {"absent", "queued", "working", "parked", "interrupted"}]
    /\ sender \in {"none", "open"}
    /\ tokens \in 0 .. Capacity
    /\ request \in [Requests -> [pc : {"idle", "reserving", "ready", "stored", "sending"},
                                 permit : BOOLEAN]]
    /\ \A r \in Requests : RequestOK(request[r])
    /\ recovery \in [pc : {"off", "reading", "sending", "done"}, left : Nat]
    /\ worker \in {"off", "idle", "woken", "working", "stopped"}
    /\ stopping \in BOOLEAN
    /\ stranded \in Nat /\ restarts \in Nat

\* Calls that will still put a token into the channel.
Owing == {r \in Requests : request[r].pc \in {"stored", "sending"}}

\* While the pool runs no queued job is forgotten: there is a token for it in
\* the channel or in the worker's hand, or somebody still owes one.  A token
\* names no job, so what counts is how many there are.
QueuedAreCovered ==
    sender = "open" /\ ~stopping /\ recovery.pc # "reading" =>
        Cardinality(Queued) <= tokens + Cardinality(Owing) + recovery.left
                               + (IF worker = "woken" THEN 1 ELSE 0) + stranded

\* A queued job is claimed or cancelled, or an older one is worked on, unless
\* a token was lost with a dropped future or the pool is told to stop.  No
\* more than that: an older job that is interrupted and retried again and
\* again is claimed first every time, and the younger ones wait for ever.
QueuedRuns ==
    \A j \in Jobs :
        row[j] = "queued" ~> \/ row[j] # "queued" \/ stopping \/ stranded > 0
                             \/ \E i \in Jobs : i < j /\ row[i] = "working"

\* A submission returns: neither a full channel nor a pool that has stopped
\* leaves a caller waiting for ever.
RequestsReturn == \A r \in Requests : request[r].pc # "idle" ~> request[r].pc = "idle"
=============================================================================
