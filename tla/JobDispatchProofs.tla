------------------------- MODULE JobDispatchProofs -------------------------
(***************************************************************************)
(* Proofs about JobDispatch, for any jobs, requests, queue capacity and    *)
(* bounds: the channel is never over-committed, and while the pool runs no *)
(* queued job is forgotten.  Both are about numbers of things, so the      *)
(* proofs count: one step changes each of the sets below by one element.   *)
(***************************************************************************)
EXTENDS JobDispatch, FiniteSetTheorems, TLAPS

Rows     == {"absent", "queued", "working", "parked", "interrupted"}
Pcs      == {"idle", "reserving", "ready", "stored", "sending"}
RequestRecords == [pc : Pcs, permit : BOOLEAN]
One(b)   == IF b THEN 1 ELSE 0

\* A message or a permit for every slot taken, as long as there is a receiver.
SlotsSuffice == worker # "stopped" => tokens + Cardinality(Held) <= Capacity

\* The receiver is dropped for a shutdown only, and lives after Start only.
StopsOnRequest ==
    /\ worker = "stopped" => stopping
    /\ sender = "none" => worker = "off"

TypeInv ==
    /\ row \in [Jobs -> Rows]
    /\ sender \in {"none", "open"}
    /\ tokens \in Nat /\ tokens <= Capacity
    /\ request \in [Requests -> RequestRecords]
    /\ \A r \in Requests : RequestOK(request[r])
    /\ recovery \in [pc : {"off", "reading", "sending", "done"}, left : Nat]
    /\ worker \in {"off", "idle", "woken", "working", "stopped"}
    /\ stopping \in BOOLEAN
    /\ stranded \in Nat /\ restarts \in Nat

Inv == TypeInv /\ SlotsSuffice /\ StopsOnRequest /\ QueuedAreCovered

\* A request whose program counter moves is the record it was.
LEMMA MoveRequest ==
    ASSUME request \in [Requests -> RequestRecords], NEW r \in Requests, NEW v \in Pcs
    PROVE  /\ [request EXCEPT ![r].pc = v] = [request EXCEPT ![r] = [pc |-> v, permit |-> request[r].permit]]
           /\ [pc |-> v, permit |-> request[r].permit] \in RequestRecords
<1>1. request[r] = [pc |-> request[r].pc, permit |-> request[r].permit] /\ request[r].permit \in BOOLEAN
  BY DEF RequestRecords
<1>2. [request[r] EXCEPT !.pc = v] = [pc |-> v, permit |-> request[r].permit]
  BY <1>1
<1> QED BY <1>1, <1>2 DEF RequestRecords

(***************************************************************************)
(* Counting.                                                               *)
(***************************************************************************)

\* The sets that are counted are finite.
LEMMA Finite ==
    /\ IsFiniteSet(Held) /\ Cardinality(Held) \in Nat
    /\ IsFiniteSet(Owing) /\ Cardinality(Owing) \in Nat
    /\ IsFiniteSet(Queued) /\ Cardinality(Queued) \in Nat
<1>1. Held \in SUBSET Requests /\ Owing \in SUBSET Requests /\ Queued \in SUBSET Jobs
  BY DEF Held, Owing, Queued
<1>2. IsFiniteSet(Held) /\ IsFiniteSet(Owing) /\ IsFiniteSet(Queued)
  BY <1>1, DispatchAssumption, FS_Subset
<1> QED BY <1>2, FS_CardinalityType

\* So they are after a step.
LEMMA FiniteNext ==
    Cardinality(Held') \in Nat /\ Cardinality(Owing') \in Nat /\ Cardinality(Queued') \in Nat
<1>1. Held' \in SUBSET Requests /\ Owing' \in SUBSET Requests /\ Queued' \in SUBSET Jobs
  BY DEF Held, Owing, Queued
<1>2. IsFiniteSet(Held') /\ IsFiniteSet(Owing') /\ IsFiniteSet(Queued')
  BY <1>1, DispatchAssumption, FS_Subset
<1> QED BY <1>2, FS_CardinalityType

\* The number of elements after one element has been put in or taken out.
LEMMA CountOne ==
    ASSUME NEW S, NEW x, IsFiniteSet(S)
    PROVE  /\ Cardinality(S \cup {x}) + One(x \in S) = Cardinality(S) + 1
           /\ Cardinality(S \ {x}) + One(x \in S) = Cardinality(S)
<1>1. Cardinality(S) \in Nat
  BY FS_CardinalityType
<1>2. Cardinality(S \cup {x}) = IF x \in S THEN Cardinality(S) ELSE Cardinality(S) + 1
  BY FS_AddElement
<1>3. Cardinality(S \ {x}) = IF x \in S THEN Cardinality(S) - 1 ELSE Cardinality(S)
  BY FS_RemoveElement
<1> QED BY <1>1, <1>2, <1>3 DEF One

\* What one request's step does to the permits held and the tokens owed.
LEMMA RequestCounts ==
    ASSUME request \in [Requests -> RequestRecords], NEW r \in Requests, NEW q \in RequestRecords,
           request' = [request EXCEPT ![r] = q]
    PROVE  /\ request' \in [Requests -> RequestRecords]
           /\ Cardinality(Held') + One(request[r].permit) = Cardinality(Held) + One(q.permit)
           /\ Cardinality(Owing') + One(request[r].pc \in {"stored", "sending"})
                = Cardinality(Owing) + One(q.pc \in {"stored", "sending"})
<1> USE DEF RequestRecords
<1>1. Held' = IF q.permit THEN Held \cup {r} ELSE Held \ {r}
  BY DEF Held
<1>2. Owing' = IF q.pc \in {"stored", "sending"} THEN Owing \cup {r} ELSE Owing \ {r}
  BY DEF Owing
<1>3. (r \in Held <=> request[r].permit) /\ (r \in Owing <=> request[r].pc \in {"stored", "sending"})
  BY DEF Held, Owing
<1>4. Cardinality(Held') + One(r \in Held) = Cardinality(Held) + One(q.permit)
  <2>1. /\ Cardinality(Held \cup {r}) + One(r \in Held) = Cardinality(Held) + 1
        /\ Cardinality(Held \ {r}) + One(r \in Held) = Cardinality(Held)
    BY Finite, CountOne
  <2> QED BY <1>1, <2>1, Finite DEF One
<1>5. Cardinality(Owing') + One(r \in Owing) = Cardinality(Owing) + One(q.pc \in {"stored", "sending"})
  <2>1. /\ Cardinality(Owing \cup {r}) + One(r \in Owing) = Cardinality(Owing) + 1
        /\ Cardinality(Owing \ {r}) + One(r \in Owing) = Cardinality(Owing)
    BY Finite, CountOne
  <2> QED BY <1>2, <2>1, Finite DEF One
<1> QED BY <1>3, <1>4, <1>5 DEF One

\* What one row's step does to the queue.
LEMMA QueueCounts ==
    ASSUME row \in [Jobs -> Rows], NEW j \in Jobs, NEW s \in Rows, row' = [row EXCEPT ![j] = s]
    PROVE  /\ row' \in [Jobs -> Rows]
           /\ Cardinality(Queued') + One(row[j] = "queued") = Cardinality(Queued) + One(s = "queued")
<1>1. Queued' = IF s = "queued" THEN Queued \cup {j} ELSE Queued \ {j}
  BY DEF Queued
<1>2. j \in Queued <=> row[j] = "queued"
  BY DEF Queued
<1>3. Cardinality(Queued') + One(j \in Queued) = Cardinality(Queued) + One(s = "queued")
  <2>1. /\ Cardinality(Queued \cup {j}) + One(j \in Queued) = Cardinality(Queued) + 1
        /\ Cardinality(Queued \ {j}) + One(j \in Queued) = Cardinality(Queued)
    BY Finite, CountOne
  <2> QED BY <1>1, <2>1, Finite DEF One
<1> QED BY <1>2, <1>3 DEF One

\* Rows or requests that a step leaves alone are counted as before.
LEMMA SameCounts ==
    /\ row' = row => Queued' = Queued
    /\ request' = request => Held' = Held /\ Owing' = Owing
BY DEF Queued, Held, Owing

(***************************************************************************)
(* The steps.                                                              *)
(***************************************************************************)

\* An empty database and a process without a pool.
LEMMA Initially == Init => Inv
<1> SUFFICES ASSUME Init PROVE Inv
  OBVIOUS
<1>1. Held = {}
  BY DEF Init, Held, Idle
<1>2. TypeInv
  <2>1. row \in [Jobs -> Rows] /\ request \in [Requests -> RequestRecords]
    BY DEF Init, Idle, Rows, RequestRecords, Pcs
  <2>2. \A r \in Requests : RequestOK(request[r])
    BY DEF Init, Idle, RequestOK
  <2>3. recovery \in [pc : {"off", "reading", "sending", "done"}, left : Nat]
    BY DEF Init
  <2>4. /\ tokens \in Nat /\ tokens <= Capacity
        /\ stranded \in Nat /\ restarts \in Nat
    BY DispatchAssumption DEF Init
  <2>5. /\ sender \in {"none", "open"} /\ stopping \in BOOLEAN
        /\ worker \in {"off", "idle", "woken", "working", "stopped"}
    BY DEF Init
  <2> QED BY <2>1, <2>2, <2>3, <2>4, <2>5 DEF TypeInv
<1>3. SlotsSuffice
  BY <1>1, FS_EmptySet, DispatchAssumption DEF Init, SlotsSuffice
<1> QED BY <1>2, <1>3 DEF Init, Inv, StopsOnRequest, QueuedAreCovered

\* Calls that wait, are granted a permit or refused, or come back with nothing.
LEMMA WaitingStep ==
    ASSUME Inv, NEW r \in Requests, Submit(r) \/ Granted(r) \/ Refused(r) \/ StoreNothing(r)
    PROVE  Inv'
<1> USE DEF Inv, TypeInv
<1>1. request[r] \in RequestRecords /\ RequestOK(request[r])
  OBVIOUS
<1>2. PICK q \in RequestRecords :
        /\ request' = [request EXCEPT ![r] = q]
        /\ request[r].pc \notin {"stored", "sending"} /\ q.pc \notin {"stored", "sending"}
        /\ RequestOK(q)
        /\ q.permit => request[r].permit \/ Free
  <2>1. CASE Submit(r)
    <3>1. request' = [request EXCEPT ![r] =
             [pc |-> IF sender = "none" THEN "ready" ELSE "reserving", permit |-> request[r].permit]]
          /\ [pc |-> IF sender = "none" THEN "ready" ELSE "reserving", permit |-> request[r].permit] \in RequestRecords
      BY <2>1, MoveRequest DEF Submit, Pcs
    <3>2. request[r].permit = FALSE /\ request[r].pc = "idle"
      BY <1>1, <2>1 DEF Submit, RequestOK, RequestRecords
    <3> QED BY <3>1, <3>2 DEF RequestOK
  <2>2. CASE Granted(r)
    BY <2>2 DEF Granted, RequestOK, RequestRecords, Pcs
  <2>3. CASE Refused(r) \/ StoreNothing(r)
    <3>1. Idle \in RequestRecords /\ RequestOK(Idle) /\ Idle.permit = FALSE /\ Idle.pc = "idle"
      BY DEF Idle, RequestRecords, Pcs, RequestOK
    <3> QED BY <2>3, <3>1 DEF Refused, StoreNothing
  <2> QED BY <2>1, <2>2, <2>3
<1>3. UNCHANGED <<row, sender, tokens, recovery, worker, stopping, stranded, restarts>>
  BY DEF Submit, Granted, Refused, StoreNothing
<1>4. /\ request' \in [Requests -> RequestRecords]
      /\ Cardinality(Held') + One(request[r].permit) = Cardinality(Held) + One(q.permit)
      /\ Cardinality(Owing') = Cardinality(Owing)
  <2>1. /\ request' \in [Requests -> RequestRecords]
        /\ Cardinality(Held') + One(request[r].permit) = Cardinality(Held) + One(q.permit)
        /\ Cardinality(Owing') + One(request[r].pc \in {"stored", "sending"})
             = Cardinality(Owing) + One(q.pc \in {"stored", "sending"})
    BY <1>2, RequestCounts
  <2> QED BY <1>2, <2>1, Finite, FiniteNext DEF One
<1>5. TypeInv'
  BY <1>2, <1>3, <1>4
<1>6. SlotsSuffice'
  BY <1>2, <1>3, <1>4, Finite, FiniteNext, DispatchAssumption DEF SlotsSuffice, Free, One
<1>7. QueuedAreCovered'
  BY <1>3, <1>4, SameCounts DEF QueuedAreCovered
<1> QED BY <1>3, <1>5, <1>6, <1>7 DEF StopsOnRequest

\* A row is stored while its call holds the slot, or none was needed.
LEMMA StoreStep == ASSUME Inv, NEW r \in Requests, Store(r) PROVE Inv'
<1> USE DEF Inv, TypeInv
<1> DEFINE q == [pc |-> "stored", permit |-> request[r].permit]
<1>1. PICK j \in Jobs : row[j] # "queued" /\ row' = [row EXCEPT ![j] = "queued"]
  BY DEF Store
<1>2. /\ request' = [request EXCEPT ![r] = q] /\ q \in RequestRecords
      /\ request[r].pc = "ready"
      /\ UNCHANGED <<sender, tokens, recovery, worker, stopping, stranded, restarts>>
  BY MoveRequest DEF Store, Pcs
<1>3. /\ request' \in [Requests -> RequestRecords]
      /\ Cardinality(Held') = Cardinality(Held)
      /\ Cardinality(Owing') = Cardinality(Owing) + 1
  <2>1. /\ request' \in [Requests -> RequestRecords]
        /\ Cardinality(Held') + One(request[r].permit) = Cardinality(Held) + One(q.permit)
        /\ Cardinality(Owing') + One(request[r].pc \in {"stored", "sending"})
             = Cardinality(Owing) + One(q.pc \in {"stored", "sending"})
    BY <1>2, RequestCounts
  <2> QED BY <1>2, <2>1, Finite, FiniteNext DEF One
<1>4. row' \in [Jobs -> Rows] /\ Cardinality(Queued') = Cardinality(Queued) + 1
  <2>1. /\ row' \in [Jobs -> Rows]
        /\ Cardinality(Queued') + One(row[j] = "queued") = Cardinality(Queued) + One("queued" = "queued")
    BY <1>1, QueueCounts DEF Rows
  <2> QED BY <1>1, <2>1, Finite, FiniteNext DEF One
<1>5. TypeInv'
  BY <1>2, <1>3, <1>4 DEF RequestOK
<1>6. SlotsSuffice' /\ QueuedAreCovered'
  BY <1>2, <1>3, <1>4, Finite, FiniteNext, DispatchAssumption DEF SlotsSuffice, QueuedAreCovered
<1> QED BY <1>2, <1>5, <1>6 DEF StopsOnRequest

\* A call that ends gives its permit back and owes nothing any more.
LEMMA EndedCounts ==
    ASSUME Inv, NEW r \in Requests, request' = [request EXCEPT ![r] = Idle]
    PROVE  /\ request' \in [Requests -> RequestRecords]
           /\ \A q \in Requests : RequestOK(request'[q])
           /\ Cardinality(Held') + One(request[r].permit) = Cardinality(Held)
           /\ Cardinality(Owing') + One(request[r].pc \in {"stored", "sending"}) = Cardinality(Owing)
<1> USE DEF Inv, TypeInv
<1>1. /\ Idle \in RequestRecords /\ RequestOK(Idle) /\ Idle.permit = FALSE /\ Idle.pc = "idle"
  BY DEF Idle, RequestRecords, Pcs, RequestOK
<1>2. /\ request' \in [Requests -> RequestRecords]
      /\ Cardinality(Held') + One(request[r].permit) = Cardinality(Held) + One(Idle.permit)
      /\ Cardinality(Owing') + One(request[r].pc \in {"stored", "sending"})
           = Cardinality(Owing) + One(Idle.pc \in {"stored", "sending"})
  BY <1>1, RequestCounts
<1>3. One(Idle.permit) = 0 /\ One(Idle.pc \in {"stored", "sending"}) = 0
  BY <1>1 DEF One
<1>4. \A q \in Requests : RequestOK(request'[q])
  BY <1>1
<1> QED BY <1>2, <1>3, <1>4, Finite, FiniteNext

\* The token is paid, or lost with the receiver.
LEMMA PayStep ==
    ASSUME Inv, NEW r \in Requests, request' = [request EXCEPT ![r] = Idle],
           request[r].pc \in {"stored", "sending"}, Push,
           Closed \/ request[r].permit \/ Free,
           UNCHANGED <<row, sender, recovery, worker, stopping, stranded, restarts>>
    PROVE  Inv'
<1> USE DEF Inv, TypeInv
<1>1. /\ request' \in [Requests -> RequestRecords]
      /\ \A q \in Requests : RequestOK(request'[q])
      /\ Cardinality(Held') + One(request[r].permit) = Cardinality(Held)
      /\ Cardinality(Owing') + 1 = Cardinality(Owing)
  BY EndedCounts DEF One
<1>2. CASE Closed
  <2>1. UNCHANGED tokens /\ worker = "stopped" /\ stopping
    BY <1>2 DEF Push, Closed, StopsOnRequest
  <2>2. TypeInv'
    BY <1>1, <2>1
  <2> QED BY <2>1, <2>2 DEF StopsOnRequest, SlotsSuffice, QueuedAreCovered
<1>3. CASE ~Closed
  <2>1. tokens' = tokens + 1 /\ worker # "stopped"
    BY <1>3 DEF Push, Closed
  <2>2. tokens' + Cardinality(Held') <= Capacity
    BY <1>1, <1>3, <2>1, Finite, FiniteNext, DispatchAssumption DEF SlotsSuffice, Free, One
  <2>3. TypeInv'
    BY <1>1, <2>1, <2>2, FiniteNext, DispatchAssumption
  <2>4. QueuedAreCovered'
    BY <1>1, <2>1, SameCounts, Finite, FiniteNext DEF QueuedAreCovered
  <2> QED BY <2>2, <2>3, <2>4 DEF StopsOnRequest, SlotsSuffice
<1> QED BY <1>2, <1>3

\* dispatch spends the permit; without one it looks for the sender again.
LEMMA DispatchStep == ASSUME Inv, NEW r \in Requests, Dispatch(r) PROVE Inv'
<1> USE DEF Inv, TypeInv
<1>1. /\ request[r] \in RequestRecords /\ request[r].pc = "stored"
      /\ UNCHANGED <<row, sender, recovery, worker, stopping, stranded, restarts>>
  BY DEF Dispatch
<1>2. CASE request[r].permit
  BY <1>1, <1>2, PayStep DEF Dispatch
<1>3. CASE ~request[r].permit
  <2> DEFINE q == [pc |-> IF sender = "none" THEN "idle" ELSE "sending", permit |-> FALSE]
  <2>1. request' = [request EXCEPT ![r] = q] /\ q \in RequestRecords /\ UNCHANGED tokens
    <3>1. request[r].permit = FALSE
      BY <1>1, <1>3 DEF RequestRecords
    <3> QED BY <1>3, <3>1, MoveRequest DEF Dispatch, Pcs
  <2>2. /\ request' \in [Requests -> RequestRecords]
        /\ Cardinality(Held') + One(request[r].permit) = Cardinality(Held) + One(q.permit)
        /\ Cardinality(Owing') + One(request[r].pc \in {"stored", "sending"})
             = Cardinality(Owing) + One(q.pc \in {"stored", "sending"})
    BY <2>1, RequestCounts
  <2>3. Cardinality(Held') = Cardinality(Held) /\ (sender # "none" => Cardinality(Owing') = Cardinality(Owing))
    BY <1>1, <1>3, <2>2, Finite, FiniteNext DEF One
  <2>4. \A i \in Requests : RequestOK(request'[i])
    <3>1. RequestOK(q)
      BY DEF RequestOK
    <3> QED BY <2>1, <3>1
  <2>5. TypeInv'
    BY <1>1, <2>1, <2>2, <2>4
  <2>6. SlotsSuffice' /\ QueuedAreCovered'
    BY <1>1, <2>1, <2>3, SameCounts DEF SlotsSuffice, QueuedAreCovered
  <2> QED BY <1>1, <2>5, <2>6 DEF StopsOnRequest
<1> QED BY <1>2, <1>3

\* A future that is dropped between its row and its token is counted.
LEMMA DroppedStep == ASSUME Inv, NEW r \in Requests, Dropped(r) PROVE Inv'
<1> USE DEF Inv, TypeInv
<1>1. /\ request' \in [Requests -> RequestRecords]
      /\ \A q \in Requests : RequestOK(request'[q])
      /\ Cardinality(Held') + One(request[r].permit) = Cardinality(Held)
      /\ Cardinality(Owing') + One(request[r].pc \in {"stored", "sending"}) = Cardinality(Owing)
  BY EndedCounts DEF Dropped
<1>2. /\ stranded' = stranded + One(request[r].pc \in {"stored", "sending"})
      /\ UNCHANGED <<row, sender, tokens, recovery, worker, stopping, restarts>>
  BY DEF Dropped, One
<1>3. TypeInv'
  BY <1>1, <1>2 DEF One
<1>4. SlotsSuffice'
  BY <1>1, <1>2, Finite, FiniteNext, DispatchAssumption DEF SlotsSuffice, One
<1>5. QueuedAreCovered'
  BY <1>1, <1>2, SameCounts, Finite, FiniteNext DEF QueuedAreCovered, One
<1> QED BY <1>2, <1>3, <1>4, <1>5 DEF StopsOnRequest

\* Every step of a call keeps the invariant.
LEMMA RequestStep == ASSUME Inv, NEW r \in Requests, RequestNext(r) PROVE Inv'
<1>1. ASSUME Send(r) PROVE Inv'
  BY <1>1, PayStep DEF Send
<1> QED BY <1>1, WaitingStep, StoreStep, DispatchStep, DroppedStep DEF RequestNext

\* start_workers: whatever was queued before is the recovery's business.
LEMMA StartStep == ASSUME Inv, Start PROVE Inv'
<1> USE DEF Inv, TypeInv
<1>1. /\ sender = "none" /\ sender' = "open" /\ recovery' = [pc |-> "reading", left |-> 0]
      /\ worker = "off" /\ worker' = "idle"
      /\ UNCHANGED <<row, tokens, request, stopping, stranded, restarts>>
  BY DEF Start, StopsOnRequest
<1>2. recovery' \in [pc : {"off", "reading", "sending", "done"}, left : Nat]
  BY <1>1
<1>3. TypeInv'
  BY <1>1, <1>2
<1>4. SlotsSuffice' /\ QueuedAreCovered'
  BY <1>1, SameCounts DEF SlotsSuffice, QueuedAreCovered
<1> QED BY <1>1, <1>3, <1>4 DEF StopsOnRequest

\* recover_queued counts the queue once and then sends as many tokens.
LEMMA RecoveryStep == ASSUME Inv, RecoveryNext PROVE Inv'
<1> USE DEF Inv, TypeInv
<1> DEFINE Records == [pc : {"off", "reading", "sending", "done"}, left : Nat]
<1>1. UNCHANGED <<row, sender, request, worker, stopping, stranded, restarts>>
  BY DEF RecoveryNext, RecoveryRead, RecoverySend, RecoveryEnd
<1>2. CASE RecoveryRead
  <2>1. recovery' = [pc |-> "sending", left |-> Cardinality(Queued)] /\ UNCHANGED tokens
    BY <1>2 DEF RecoveryRead
  <2>2. TypeInv'
    BY <1>1, <2>1, Finite
  <2>3. SlotsSuffice' /\ QueuedAreCovered'
    BY <1>1, <2>1, Finite, SameCounts DEF SlotsSuffice, QueuedAreCovered
  <2> QED BY <1>1, <2>2, <2>3 DEF StopsOnRequest
<1>3. CASE RecoverySend
  <2>1. /\ recovery.pc = "sending" /\ recovery.left \in Nat /\ recovery.left > 0
        /\ recovery' = [pc |-> "sending", left |-> recovery.left - 1]
        /\ worker # "stopped" /\ tokens + Cardinality(Held) < Capacity /\ tokens' = tokens + 1
    BY <1>3 DEF RecoverySend, Free, Push, Closed
  <2>2. recovery' \in Records
    BY <2>1
  <2>3. TypeInv'
    BY <1>1, <2>1, <2>2, Finite, DispatchAssumption
  <2>4. SlotsSuffice' /\ QueuedAreCovered'
    BY <1>1, <2>1, Finite, SameCounts, DispatchAssumption DEF SlotsSuffice, QueuedAreCovered
  <2> QED BY <1>1, <2>3, <2>4 DEF StopsOnRequest
<1>4. CASE RecoveryEnd
  <2>1. recovery' = [pc |-> "done", left |-> 0] /\ UNCHANGED tokens
    BY <1>4 DEF RecoveryEnd
  <2>2. stopping \/ (recovery.pc # "reading" /\ recovery.left = 0)
    <3>1. stopping \/ worker = "stopped" \/ recovery = [pc |-> "sending", left |-> 0]
      BY <1>4 DEF RecoveryEnd, Closed
    <3> QED BY <3>1 DEF StopsOnRequest
  <2>3. TypeInv'
    BY <1>1, <2>1
  <2>4. SlotsSuffice' /\ QueuedAreCovered'
    BY <1>1, <2>1, <2>2, Finite, SameCounts DEF SlotsSuffice, QueuedAreCovered
  <2> QED BY <1>1, <2>3, <2>4 DEF StopsOnRequest
<1> QED BY <1>2, <1>3, <1>4 DEF RecoveryNext

\* The worker takes one token for every claim; one that finds the queue empty
\* has taken it for nothing.
LEMMA WorkerStep == ASSUME Inv, WorkerNext PROVE Inv'
<1> USE DEF Inv, TypeInv
<1>1. UNCHANGED <<sender, request, recovery, stopping, stranded, restarts>> /\ worker # "off"
  BY DEF WorkerNext, WorkerWake, WorkerClaim, WorkerSettle, WorkerGivesUp
<1>2. CASE stopping /\ worker' = "stopped" /\ tokens' = 0
  <2>1. row' \in [Jobs -> Rows]
    BY <1>2 DEF WorkerNext, WorkerWake, WorkerClaim, WorkerSettle, WorkerGivesUp, Rows
  <2>2. TypeInv'
    BY <1>1, <1>2, <2>1, DispatchAssumption
  <2> QED BY <1>1, <1>2, <2>2 DEF SlotsSuffice, QueuedAreCovered, StopsOnRequest
<1>3. CASE WorkerWake /\ worker' = "woken"
  <2>1. worker = "idle" /\ tokens > 0 /\ tokens' = tokens - 1 /\ UNCHANGED row
    BY <1>3 DEF WorkerWake
  <2>2. TypeInv'
    BY <1>1, <1>3, <2>1, DispatchAssumption
  <2>3. SlotsSuffice' /\ QueuedAreCovered'
    BY <1>1, <1>3, <2>1, Finite, SameCounts, DispatchAssumption DEF SlotsSuffice, QueuedAreCovered
  <2> QED BY <1>1, <1>3, <2>2, <2>3 DEF StopsOnRequest
<1>4. CASE WorkerClaim /\ UNCHANGED row
  <2>1. worker = "woken" /\ worker' = "idle" /\ Queued = {} /\ UNCHANGED tokens
    <3>1. worker = "woken" /\ UNCHANGED tokens
      BY <1>4 DEF WorkerClaim
    <3>2. ASSUME NEW j \in Queued, row' = [row EXCEPT ![j] = "working"] PROVE FALSE
      BY <1>4, <3>2 DEF Queued
    <3> QED BY <1>4, <3>1, <3>2 DEF WorkerClaim
  <2>2. Cardinality(Queued') = 0
    BY <1>4, <2>1, SameCounts, FS_EmptySet
  <2>3. TypeInv'
    BY <1>1, <1>4, <2>1
  <2>4. SlotsSuffice' /\ QueuedAreCovered'
    BY <1>1, <1>4, <2>1, <2>2, Finite, FiniteNext, SameCounts DEF SlotsSuffice, QueuedAreCovered
  <2> QED BY <1>1, <2>1, <2>3, <2>4 DEF StopsOnRequest
<1>5. CASE WorkerClaim /\ ~UNCHANGED row
  <2>1. PICK j \in Jobs : row[j] = "queued" /\ row' = [row EXCEPT ![j] = "working"]
    BY <1>5 DEF WorkerClaim, Queued
  <2>2. worker = "woken" /\ worker' = "working" /\ UNCHANGED tokens
    BY <1>5 DEF WorkerClaim
  <2>3. row' \in [Jobs -> Rows] /\ Cardinality(Queued') + 1 = Cardinality(Queued)
    <3>1. /\ row' \in [Jobs -> Rows]
          /\ Cardinality(Queued') + One(row[j] = "queued") = Cardinality(Queued) + One("working" = "queued")
      BY <2>1, QueueCounts DEF Rows
    <3> QED BY <2>1, <3>1, Finite, FiniteNext DEF One
  <2>4. TypeInv'
    BY <1>1, <2>2, <2>3
  <2>5. SlotsSuffice' /\ QueuedAreCovered'
    BY <1>1, <2>2, <2>3, Finite, FiniteNext, SameCounts DEF SlotsSuffice, QueuedAreCovered
  <2> QED BY <1>1, <2>2, <2>4, <2>5 DEF StopsOnRequest
<1>6. CASE WorkerSettle /\ worker' = "idle"
  <2>1. PICK j \in Jobs, s \in {"parked", "interrupted"} :
          row[j] = "working" /\ row' = [row EXCEPT ![j] = s]
    BY <1>6 DEF WorkerSettle
  <2>2. worker = "working" /\ UNCHANGED tokens
    BY <1>6 DEF WorkerSettle
  <2>3. row' \in [Jobs -> Rows] /\ Queued' = Queued
    BY <2>1 DEF Rows, Queued
  <2>4. TypeInv'
    BY <1>1, <1>6, <2>2, <2>3
  <2>5. SlotsSuffice' /\ QueuedAreCovered'
    BY <1>1, <1>6, <2>2, <2>3, SameCounts DEF SlotsSuffice, QueuedAreCovered
  <2> QED BY <1>1, <1>6, <2>4, <2>5 DEF StopsOnRequest
<1> QED BY <1>2, <1>3, <1>4, <1>5, <1>6 DEF WorkerNext, WorkerWake, WorkerSettle, WorkerGivesUp

\* A cancelled job leaves its token behind.
LEMMA CancelStep == ASSUME Inv, NEW j \in Jobs, Cancel(j) PROVE Inv'
<1> USE DEF Inv, TypeInv
<1>1. /\ row[j] = "queued" /\ row' = [row EXCEPT ![j] = "parked"]
      /\ UNCHANGED <<sender, tokens, request, recovery, worker, stopping, stranded, restarts>>
  BY DEF Cancel
<1>2. row' \in [Jobs -> Rows] /\ Cardinality(Queued') + 1 = Cardinality(Queued)
  <2>1. /\ row' \in [Jobs -> Rows]
        /\ Cardinality(Queued') + One(row[j] = "queued") = Cardinality(Queued) + One("parked" = "queued")
    BY <1>1, QueueCounts DEF Rows
  <2> QED BY <1>1, <2>1, Finite, FiniteNext DEF One
<1>3. TypeInv'
  BY <1>1, <1>2
<1>4. SlotsSuffice' /\ QueuedAreCovered'
  BY <1>1, <1>2, Finite, FiniteNext, SameCounts DEF SlotsSuffice, QueuedAreCovered
<1> QED BY <1>1, <1>3, <1>4 DEF StopsOnRequest

\* The flag goes up, or the process goes away with channel, calls and pool.
LEMMA EndStep == ASSUME Inv, Shutdown \/ Restart PROVE Inv'
<1> USE DEF Inv, TypeInv
<1>1. CASE Shutdown
  <2>1. TypeInv' /\ stopping' /\ UNCHANGED <<worker, tokens, request, sender>>
    BY <1>1 DEF Shutdown
  <2> QED BY <1>1, <2>1, SameCounts DEF Shutdown, SlotsSuffice, QueuedAreCovered, StopsOnRequest
<1>2. CASE Restart
  <2>1. row' \in [Jobs -> Rows]
    BY <1>2 DEF Restart, Rows
  <2>2. request' \in [Requests -> RequestRecords] /\ \A r \in Requests : RequestOK(request'[r])
    BY <1>2 DEF Restart, Idle, RequestRecords, Pcs, RequestOK
  <2>3. /\ sender' = "none" /\ tokens' = 0 /\ recovery' = [pc |-> "off", left |-> 0]
        /\ worker' = "off" /\ stopping' = FALSE /\ stranded' = 0 /\ restarts' = restarts + 1
    BY <1>2 DEF Restart
  <2>4. Held' = {}
    BY <1>2 DEF Restart, Held, Idle
  <2>5. TypeInv'
    <3>1. /\ tokens' \in Nat /\ tokens' <= Capacity
          /\ stranded' \in Nat /\ restarts' \in Nat
      BY <2>3, DispatchAssumption
    <3>2. recovery' \in [pc : {"off", "reading", "sending", "done"}, left : Nat]
      BY <2>3
    <3> QED BY <2>1, <2>2, <2>3, <3>1, <3>2
  <2>6. SlotsSuffice'
    BY <2>3, <2>4, FS_EmptySet, DispatchAssumption DEF SlotsSuffice
  <2> QED BY <2>3, <2>5, <2>6 DEF QueuedAreCovered, StopsOnRequest
<1> QED BY <1>1, <1>2

(***************************************************************************)
(* The theorems.                                                           *)
(***************************************************************************)

\* The inductive invariant of the dispatch: the slots of the channel suffice
\* for the messages in it and the permits given out, the receiver is dropped
\* for a shutdown only, and every queued row is covered.
THEOREM DispatchInvariant == Spec => []Inv
<1>1. Inv /\ [Next]_vars => Inv'
  <2> SUFFICES ASSUME Inv, [Next]_vars PROVE Inv'
    OBVIOUS
  <2>1. CASE UNCHANGED vars
    <3>1. UNCHANGED <<row, sender, tokens, request, recovery, worker, stopping, stranded, restarts>>
      BY <2>1 DEF vars
    <3>2. TypeInv'
      BY <3>1 DEF Inv, TypeInv
    <3> QED BY <3>1, <3>2, SameCounts DEF Inv, SlotsSuffice, StopsOnRequest, QueuedAreCovered
  <2> QED BY <2>1, RequestStep, StartStep, RecoveryStep, WorkerStep, CancelStep, EndStep DEF Next
<1> QED BY Initially, <1>1, PTL DEF Spec

\* TypeOK: among the rest, the channel never holds more than queue_capacity
\* messages, however many permits are given out and dropped.
THEOREM DispatchTypes == Spec => []TypeOK
<1>1. Inv => TypeOK
  BY DispatchAssumption DEF Inv, TypeInv, TypeOK, Rows, RequestRecords, Pcs
<1> QED BY <1>1, DispatchInvariant, PTL

\* QueuedAreCovered: while the pool runs, no queued job is left without a
\* token, or somebody who still owes one; for any number of jobs, requests,
\* cancellations, retries, dropped calls and restarts.
THEOREM QueuedAreCoveredCorrect == Spec => []QueuedAreCovered
<1>1. Inv => QueuedAreCovered
  BY DEF Inv
<1> QED BY <1>1, DispatchInvariant, PTL
=============================================================================
