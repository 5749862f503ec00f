----------------------------- MODULE JobEvents -----------------------------
(***************************************************************************)
(* The event hub of fixer-server: one numbered history for all jobs, of    *)
(* which the newest HistoryCap events are retained, a broadcast channel,   *)
(* and clients who subscribe to one job with the identifier of the last    *)
(* event they have seen.                                                   *)
(*                                                                         *)
(* Transitions are published under the operations mutex.  The reservation  *)
(* of an execution, a review and a completion are published after it has   *)
(* been released: they are owed for a while.                               *)
(***************************************************************************)
EXTENDS Integers, Sequences, FiniteSets

CONSTANTS EventJobs,   \* job ids
          Readers,     \* clients of the event streams
          HistoryCap,  \* capacity of the retained history
          RingCap,     \* capacity of the broadcast channel: tokio rounds the same number up
          MaxEvents,   \* bound: events of one process
          MaxStates,   \* bound: states of one job
          MaxOwed,     \* bound: events on their way at a time
          MaxEpochs,   \* bound: processes
          NoCursor, NoReader

ASSUME EventsAssumption ==
    /\ HistoryCap \in Nat \ {0} /\ RingCap \in Nat /\ RingCap >= HistoryCap
    /\ MaxEvents \in Nat /\ MaxStates \in Nat /\ MaxOwed \in Nat /\ MaxEpochs \in Nat
    /\ NoReader \notin Readers /\ NoCursor \notin [epoch: Nat, seq: Nat]

VARIABLES epoch,   \* of the runtime
          log,     \* every event of this runtime, by sequence number
          stored,  \* how many states the row of a job has had
          owed,    \* events about to be published outside the mutex
          holder,  \* the subscription that holds the operations mutex
          reader   \* clients and their streams

eventVars == <<epoch, log, stored, owed, holder, reader>>

Sequences == 1..Len(log)
Larger(a, b) == IF a > b THEN a ELSE b
Oldest == Larger(1, Len(log) - HistoryCap + 1)
Retained == Oldest..Len(log)
Of(j, S) == {s \in S : log[s].job = j}
Knowing(j, c) == [pc |-> "away", job |-> j, cursor |-> c, replay |-> {}, next |-> 1, from |-> 0, got |-> {}]
Away == Knowing(NoReader, NoCursor)

InitEvents ==
    /\ epoch = 1
    /\ log = <<>>
    /\ stored = [j \in EventJobs |-> 0]
    /\ owed = {}
    /\ holder = NoReader
    /\ reader = [r \in Readers |-> Away]

(* publish_locked: number the event, retain it, send it. *)
Publish(e) == Len(log) < MaxEvents /\ log' = Append(log, e)
Event(j, kind, n) == [job |-> j, kind |-> kind, n |-> n]

TransitionLate(j) ==
    /\ holder = NoReader /\ stored[j] < MaxStates /\ Len(log) + Cardinality(owed) < MaxEvents
    /\ stored' = [stored EXCEPT ![j] = @ + 1]
    /\ owed' = owed \cup {Event(j, "state", stored'[j])}
    /\ UNCHANGED <<epoch, log, holder, reader>>

\* A row is created or moves, and its state is published in the same critical section.  The counts
\* of a review and the summary of an execution follow when the mutex has been released.
Transition(j) ==
    /\ holder = NoReader /\ stored[j] < MaxStates /\ Len(log) + Cardinality(owed) < MaxEvents
    /\ stored' = [stored EXCEPT ![j] = @ + 1]
    /\ Publish(Event(j, "state", stored'[j]))
    /\ owed' \in {owed} \cup {o \in {owed \cup {Event(j, "aside", stored'[j])}} : Cardinality(o) <= MaxOwed}
    /\ UNCHANGED <<epoch, holder, reader>>

\* The progress of the newest transition, before the mutex is released.
Progress(j) ==
    /\ holder = NoReader /\ stored[j] > 0
    /\ log # <<>> /\ log[Len(log)] = Event(j, "state", stored[j])
    /\ Publish(Event(j, "progress", stored[j]))
    /\ UNCHANGED <<epoch, stored, owed, holder, reader>>

\* reserve_execution commits under the mutex; execute publishes when it has let go of it.
Reserve(j) ==
    /\ holder = NoReader /\ stored[j] \in 1..MaxStates - 1
    /\ Cardinality(owed) < MaxOwed /\ Len(log) + Cardinality(owed) < MaxEvents
    /\ stored' = [stored EXCEPT ![j] = @ + 1]
    /\ owed' = owed \cup {Event(j, "writing", stored'[j])}
    /\ UNCHANGED <<epoch, log, holder, reader>>

PublishOwed ==
    /\ \E e \in owed : Publish(e) /\ owed' = owed \ {e}
    /\ UNCHANGED <<epoch, stored, holder, reader>>

(* JobRuntime::event_stream: ensure_state and subscribe, both under the mutex. *)
Ensure(r, j) ==
    /\ holder = NoReader /\ reader[r].pc = "away" /\ stored[j] > 0
    /\ reader[r].cursor # NoCursor => reader[r].job = j
    /\ IF Of(j, Retained) # {} THEN UNCHANGED log ELSE Publish(Event(j, "state", stored[j]))
    /\ holder' = r
    /\ reader' = [reader EXCEPT ![r].pc = "ensured", ![r].job = j]
    /\ UNCHANGED <<epoch, stored, owed>>

Expired(c) == c # NoCursor /\ (c.epoch # epoch \/ (log # <<>> /\ c.seq + 1 < Oldest))
Invalid(c) == c # NoCursor /\ c.epoch = epoch /\ c.seq > Len(log)

Refused(r) == reader' = [reader EXCEPT ![r] = Away]

\* The stream replays what is retained after the cursor; its receiver starts at the next event.
Opened(r, c) ==
    LET me == reader[r]
        start == IF c = NoCursor THEN Oldest - 1 ELSE c.seq
        continues == c # NoCursor /\ c = me.cursor
    IN reader' = [reader EXCEPT ![r] =
          [pc |-> "open", job |-> me.job,
           cursor |-> [epoch |-> epoch, seq |-> start],
           replay |-> {s \in Of(me.job, Retained) : s > start},
           next |-> Len(log) + 1,
           from |-> IF continues THEN me.from ELSE start,
           got |-> IF continues THEN me.got ELSE {}]]

SubscribeUnchecked(r) ==
    /\ holder = r
    /\ holder' = NoReader
    /\ LET c == reader[r].cursor
       IN IF c # NoCursor /\ c.epoch # epoch THEN Refused(r) ELSE Opened(r, c)
    /\ UNCHANGED <<epoch, log, stored, owed>>

\* A client presents the identifier it has, or one it has made up.
Subscribe(r) ==
    /\ holder = r
    /\ holder' = NoReader
    /\ \E c \in {reader[r].cursor, [epoch |-> epoch, seq |-> Len(log) + 1]} :
          IF Expired(c) \/ Invalid(c) THEN Refused(r) ELSE Opened(r, c)
    /\ UNCHANGED <<epoch, log, stored, owed>>

(* Subscription::into_stream. *)
Delivered(me, s) == [me EXCEPT !.got = @ \cup {s}, !.cursor = [epoch |-> epoch, seq |-> s]]

Replay(r) ==
    /\ reader[r].pc = "open"
    /\ LET me == reader[r]
       IN \E s \in me.replay :
             /\ \A t \in me.replay : s <= t
             /\ reader' = [reader EXCEPT ![r] = [Delivered(me, s) EXCEPT !.replay = me.replay \ {s}]]
    /\ UNCHANGED <<epoch, log, stored, owed, holder>>

Lagged(me) == me.next + RingCap <= Len(log)

Receive(r) ==
    /\ reader[r].pc = "open" /\ reader[r].replay = {}
    /\ reader[r].next <= Len(log)
    /\ LET s == reader[r].next
           me == [reader[r] EXCEPT !.next = @ + 1]
       IN reader' = [reader EXCEPT ![r] =
             IF Lagged(reader[r]) THEN [reader[r] EXCEPT !.pc = "away"]
             ELSE IF log[s].job = reader[r].job THEN Delivered(me, s) ELSE me]
    /\ UNCHANGED <<epoch, log, stored, owed, holder>>

(* The connection breaks; the client comes back with its cursor, or has lost it. *)
Disconnect(r) ==
    /\ reader[r].pc = "open"
    /\ \/ reader' = [reader EXCEPT ![r].pc = "away"]
       \/ reader' = [reader EXCEPT ![r] = Away]
    /\ UNCHANGED <<epoch, log, stored, owed, holder>>

\* A new process has a new epoch and no history; the rows, and the clients' cursors, remain.
RestartHub ==
    /\ epoch < MaxEpochs
    /\ epoch' = epoch + 1
    /\ log' = <<>> /\ owed' = {} /\ holder' = NoReader
    /\ reader' = [r \in Readers |-> Knowing(reader[r].job, reader[r].cursor)]
    /\ UNCHANGED stored

NextEvents ==
    \/ \E j \in EventJobs : Transition(j) \/ Progress(j) \/ Reserve(j)
    \/ PublishOwed
    \/ \E r \in Readers : \/ \E j \in EventJobs : Ensure(r, j)
                          \/ Subscribe(r) \/ Replay(r) \/ Receive(r) \/ Disconnect(r)
    \/ RestartHub
SpecEvents == InitEvents /\ [][NextEvents]_eventVars
-----------------------------------------------------------------------------
(* What a client has received in this process, over any number of reconnections, is every event *)
(* of its job between where it began and the last one it has, with nothing left out: a slow or  *)
(* late client is refused or cut off, never served with a gap.                                  *)
Gapless ==
    \A r \in Readers :
        LET me == reader[r]
        IN me.cursor # NoCursor /\ me.cursor.epoch = epoch =>
              me.got = {s \in Of(me.job, Sequences) : me.from < s /\ s <= me.cursor.seq}

(* The states of a job are in the history in the order in which its row went through them.  Only *)
(* the event of a reservation may come late (and what is published beside the states).           *)
StatesInOrder ==
    \A s, t \in Sequences :
        s < t /\ log[s].job = log[t].job /\ log[s].n > log[t].n =>
            log[t].kind \in {"writing", "aside"}
=============================================================================
