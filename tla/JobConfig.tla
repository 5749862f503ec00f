----------------------------- MODULE JobConfig ------------------------------
(***************************************************************************)
(* The configuration a job runs with.  Every reader that is bound to the   *)
(* job (the worker, the review of a live job) uses the snapshot kept for   *)
(* it, and takes one if there is none; the end of an attempt and its       *)
(* repetition release it.  Only the age of a configuration matters here.   *)
(***************************************************************************)
EXTENDS Integers

CONSTANTS MaxVersion,   \* bound: replacements of the configuration
          MaxReopen,    \* bound: process starts after the first
          NoSnapshot

ASSUME JobConfigAssumption == MaxVersion \in Nat /\ MaxReopen \in Nat /\ NoSnapshot \notin Nat

VARIABLES version,    \* of the configuration in use
          reopened,   \* process starts
          job,        \* its state, snapshot, and the versions of its queueing and of its attempt
          look        \* a request that reads or executes the job's review

jobConfigVars == <<version, reopened, job, look>>

NoLook == [pc |-> "idle", bound |-> FALSE]

InitJobConfig ==
    /\ version = 0 /\ reopened = 0
    /\ job = [state |-> "queued", reviewed |-> FALSE, snapshot |-> NoSnapshot, queuedAt |-> 0, used |-> NoSnapshot]
    /\ look = NoLook

\* ConfigHandle::replace_after has swapped the configuration (Settings has the steps).
Replace ==
    /\ version < MaxVersion
    /\ version' = version + 1
    /\ UNCHANGED <<reopened, job, look>>

\* A new process has no snapshots; what was under way is interrupted.
Reopen ==
    /\ reopened < MaxReopen
    /\ reopened' = reopened + 1
    /\ job' = [job EXCEPT !.snapshot = NoSnapshot,
                          !.state = IF @ \in {"working", "planning"} THEN "interrupted" ELSE @]
    /\ look' = NoLook
    /\ UNCHANGED version

(* scan_with_snapshot: the first stage that needs a configuration fixes it for the job. *)
Snapshot == IF job.snapshot = NoSnapshot THEN version ELSE job.snapshot

Attempt ==
    /\ job.state = "queued"
    /\ job' = [job EXCEPT !.state = "working", !.used = NoSnapshot]
    /\ UNCHANGED <<version, reopened, look>>

WorkerScan ==
    /\ job.state = "working" /\ job.used = NoSnapshot
    /\ job' = [job EXCEPT !.snapshot = Snapshot, !.used = Snapshot]
    /\ UNCHANGED <<version, reopened, look>>

OfferReview ==
    /\ job.state = "working" /\ job.used # NoSnapshot
    /\ job' = [job EXCEPT !.state = "awaiting", !.reviewed = TRUE]
    /\ UNCHANGED <<version, reopened, look>>

ApproveReview ==
    /\ job.state = "awaiting"
    /\ job' = [job EXCEPT !.state = "planning"]
    /\ UNCHANGED <<version, reopened, look>>

\* Every transition to a terminal state releases the snapshot.
EndAttempt ==
    /\ \E s \in {"interrupted", "done"} :
          /\ job.state \in (IF s = "done" THEN {"working", "awaiting", "planning"} ELSE {"working"})
          /\ job' = [job EXCEPT !.state = s, !.snapshot = NoSnapshot]
    /\ UNCHANGED <<version, reopened, look>>

RequeueKeep ==
    /\ job.state = "interrupted"
    /\ job' = [job EXCEPT !.state = "queued", !.queuedAt = version]
    /\ UNCHANGED <<version, reopened, look>>

\* JobRuntime::retry releases it again: a late reader of the last attempt may have put one back.
Requeue ==
    /\ job.state = "interrupted"
    /\ job' = [job EXCEPT !.state = "queued", !.queuedAt = version, !.snapshot = NoSnapshot]
    /\ UNCHANGED <<version, reopened, look>>

(* review_artifacts and approved_plan: the row is read, and the configuration taken later. *)
ReadReview ==
    /\ look.pc = "idle" /\ job.reviewed
    /\ look' = [pc |-> "read", bound |-> job.state \notin {"interrupted", "done"}]
    /\ UNCHANGED <<version, reopened, job>>

ScanReview ==
    /\ look.pc = "read"
    /\ job' = IF look.bound THEN [job EXCEPT !.snapshot = Snapshot] ELSE job
    /\ look' = NoLook
    /\ UNCHANGED <<version, reopened>>

NextJobConfig ==
    \/ Replace \/ Reopen
    \/ Attempt \/ WorkerScan \/ OfferReview \/ ApproveReview \/ EndAttempt \/ Requeue
    \/ ReadReview \/ ScanReview
SpecJobConfig == InitJobConfig /\ [][NextJobConfig]_jobConfigVars
-----------------------------------------------------------------------------
(* An attempt never runs with a configuration older than the one in use when the job was queued  *)
(* for it, whoever else looks at the job in the meantime.                                        *)
FreshSnapshot == job.state = "working" /\ job.used # NoSnapshot => job.used >= job.queuedAt
=============================================================================
