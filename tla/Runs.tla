-------------------------------- MODULE Runs --------------------------------
(***************************************************************************)
(* Unattended scrapes of one folder and their lineage: a run is retried or *)
(* corrected by a new run that may replace what its parent has reported.   *)
(* JobLifecycle has the life of one job step by step and OutputExecutor    *)
(* the system calls of one execution; here an execution is one step that   *)
(* publishes some first outputs of its plan, and the subject is what       *)
(* later runs make of its report.                                          *)
(***************************************************************************)
EXTENDS Integers, Sequences, FiniteSets, SequencesExt

CONSTANTS Targets,       \* provider entries a scrape can be for
          Paths,         \* output paths
          Outputs,       \* Outputs[t]: the paths a plan for t writes, in order
          MaxRuns,       \* bound: runs
          MaxAsked,      \* bound: retries between their reads and their insert
          MaxIncidents,  \* bound: edits by people, new provider data, crashes
          NoRun, NoReport, Absent, Owned

ASSUME RunsAssumption ==
    /\ Outputs \in [Targets -> Seq(Paths)]
    /\ MaxRuns \in Nat /\ MaxAsked \in Nat /\ MaxIncidents \in Nat
    /\ NoRun \notin Nat
    /\ Owned # Absent /\ Owned \notin [of: Targets, edition: Nat]

VARIABLES runs,       \* rows by id
          asked,      \* retries that have read their run and not yet inserted the new one
          busy,       \* the run the one worker drives
          files,      \* what is at each path
          edition,    \* of the provider's data, which the content follows
          incidents

runVars == <<runs, asked, busy, files, edition, incidents>>

Live == {"queued", "working", "awaiting", "writing"}
Stopped == {"awaiting", "failed", "interrupted", "cancelled"}
Ids == 1..Len(runs)
Set(r, state) == [runs EXCEPT ![r].state = state]
Incident == incidents < MaxIncidents /\ incidents' = incidents + 1

InitRuns ==
    /\ runs = <<>> /\ asked = {} /\ busy = NoRun /\ incidents = 0 /\ edition = 1
    /\ files \in [Paths -> {Absent, Owned}]

Content(t) == [of |-> t, edition |-> edition]
Plan(t) == [i \in DOMAIN Outputs[t] |-> [path |-> Outputs[t][i], content |-> Content(t)]]

(* create_run: under the operations mutex, an equal input that is still live is the answer. *)
Alive(input) == \E r \in Ids : runs[r].state \in Live /\ runs[r].input = input
CreateRun(input, after) ==
    /\ Len(runs) < MaxRuns /\ ~Alive(input)
    \* "after" is history: an earlier attempt of the retry chain had reported outputs
    /\ runs' = Append(runs, [input |-> input, state |-> "queued", report |-> NoReport,
                             reserved |-> FALSE, after |-> after])
    /\ UNCHANGED <<busy, files, edition, incidents>>

NewRun(t) == CreateRun([target |-> t, corrects |-> NoRun, retries |-> NoRun], FALSE) /\ UNCHANGED asked

\* Only a completed run with outputs is corrected, and only by naming another target.  The handler
\* reads that row before it comes to create_run, but a completed row changes no more.
Correct(r, t) ==
    /\ runs[r].state = "completed" /\ runs[r].report # NoReport
    /\ CreateRun([target |-> t, corrects |-> r, retries |-> NoRun], FALSE) /\ UNCHANGED asked

(* retry: the input of the stopped run once more; a run with an output behind it becomes the parent. *)
Succeeded(r) == IF runs[r].report = NoReport THEN {} ELSE runs[r].report

RetryInputAfresh(r) ==
    [runs[r].input EXCEPT !.retries = IF Succeeded(r) # {} THEN r ELSE NoRun]

RetryInput(r) ==
    IF Succeeded(r) # {} THEN [runs[r].input EXCEPT !.retries = r] ELSE runs[r].input

\* The handler reads the row and its report, and goes on to create_run, where it waits for room in
\* the dispatch channel and for the mutex.
RetryRun(r) ==
    /\ runs[r].state \in Stopped /\ Cardinality(asked) < MaxAsked /\ Len(runs) < MaxRuns
    /\ asked' = asked \cup {[input |-> RetryInput(r), after |-> runs[r].after \/ Succeeded(r) # {}]}
    /\ UNCHANGED <<runs, busy, files, edition, incidents>>

InsertRetry(q) ==
    /\ asked' = asked \ {q}
    /\ IF Alive(q.input) THEN UNCHANGED <<runs, busy, files, edition, incidents>> ELSE CreateRun(q.input, q.after)

\* JobRuntime::retry puts an interrupted job itself back into the queue.
RetryJob(r) ==
    /\ runs[r].state = "interrupted"
    /\ runs' = Set(r, "queued")
    /\ UNCHANGED <<asked, busy, files, edition, incidents>>

CancelRun(r) ==
    /\ runs[r].state \in {"queued", "working", "awaiting"}
    /\ runs' = Set(r, "cancelled")
    /\ UNCHANGED <<asked, busy, files, edition, incidents>>

(* The worker: claim the oldest queued run, decide, execute. *)
Claim(r) ==
    /\ busy = NoRun
    /\ runs[r].state = "queued" /\ \A q \in 1..r - 1 : runs[q].state # "queued"
    /\ busy' = r
    /\ runs' = Set(r, "working")
    /\ UNCHANGED <<asked, files, edition, incidents>>

Working(r, state) == busy = r /\ runs[r].state = state
First(r) == runs[r].input.corrects = NoRun /\ runs[r].input.retries = NoRun
Exists(p) == files[p] # Absent
Collides(r) == \E o \in Range(Plan(runs[r].input.target)) : Exists(o.path)

\* auto_plan_decision: a first run whose destinations exist, or any other obstacle, ends here.
Block(r) ==
    /\ Working(r, "working")
    /\ busy' = NoRun
    /\ runs' = [Set(r, "failed") EXCEPT ![r].report = {}]
    /\ UNCHANGED <<asked, files, edition, incidents>>

Approve(r) ==
    /\ Working(r, "working")
    /\ ~(First(r) /\ Collides(r))
    /\ runs' = Set(r, "awaiting")
    /\ UNCHANGED <<asked, busy, files, edition, incidents>>

\* A run that has been reserved before is never written again; a cancelled one is left alone.
ReserveRun(r) ==
    /\ Working(r, "awaiting")
    /\ IF runs[r].reserved
       THEN runs' = [Set(r, "failed") EXCEPT ![r].report = {}] /\ busy' = NoRun
       ELSE runs' = [Set(r, "writing") EXCEPT ![r].reserved = TRUE] /\ UNCHANGED busy
    /\ UNCHANGED <<asked, files, edition, incidents>>

LeaveCancelled(r) ==
    /\ Working(r, "cancelled")
    /\ busy' = NoRun
    /\ UNCHANGED <<runs, asked, files, edition, incidents>>

(* replacement_manifest: what the direct parent has reported, and nothing of its own parents. *)
Parent(r) == IF runs[r].input.retries # NoRun THEN runs[r].input.retries ELSE runs[r].input.corrects
Manifest(r) == IF First(r) THEN {} ELSE Succeeded(Parent(r))

AllowsPath(r, p) == \E o \in Manifest(r) : o.path = p

\* ReplacementManifest::allows: the path is known and its content is still the reported one.
Allows(r, p) == [path |-> p, content |-> files[p]] \in Manifest(r)

\* execute and execute_replacing look at every target before they write any.
Admitted(r) ==
    \A o \in Range(Plan(runs[r].input.target)) : Exists(o.path) => Allows(r, o.path)

\* The outputs of one plan have one content.
Written(outputs) ==
    [p \in Paths |-> IF \E o \in Range(outputs) : o.path = p
                     THEN (CHOOSE o \in Range(outputs) : o.path = p).content ELSE files[p]]

\* Some first outputs are published; the rest failed, and the report says so.
Execute(r) ==
    /\ Working(r, "writing")
    /\ LET plan == Plan(runs[r].input.target)
       IN \E n \in IF Admitted(r) THEN 0..Len(plan) ELSE {0} :
             /\ files' = Written(SubSeq(plan, 1, n))
             /\ runs' = [Set(r, IF Admitted(r) /\ n = Len(plan) THEN "completed" ELSE "failed")
                            EXCEPT ![r].report = Range(SubSeq(plan, 1, n))]
    /\ busy' = NoRun
    /\ UNCHANGED <<asked, edition, incidents>>

(* The process ends, perhaps after some outputs that no report will mention. *)
CrashRuns ==
    /\ Incident
    /\ IF busy # NoRun /\ runs[busy].state = "writing" /\ Admitted(busy)
       THEN LET plan == Plan(runs[busy].input.target)
            IN \E n \in 0..Len(plan) : files' = Written(SubSeq(plan, 1, n))
       ELSE UNCHANGED files
    /\ runs' = [r \in Ids |-> IF runs[r].state \in {"working", "writing"}
                              THEN [runs[r] EXCEPT !.state = "interrupted"] ELSE runs[r]]
    /\ busy' = NoRun /\ asked' = {}
    /\ UNCHANGED edition

(* People add, change and delete files; the provider's data changes. *)
EditOutput(p) ==
    /\ Incident
    /\ \E c \in {Absent, Owned} \ {files[p]} : files' = [files EXCEPT ![p] = c]
    /\ UNCHANGED <<runs, asked, busy, edition>>

NewEdition ==
    /\ Incident
    /\ edition' = edition + 1
    /\ UNCHANGED <<runs, asked, busy, files>>

NextRuns ==
    \/ \E t \in Targets : NewRun(t)
    \/ \E r \in Ids :
          \/ \E t \in Targets : Correct(r, t)
          \/ RetryRun(r) \/ RetryJob(r) \/ CancelRun(r)
          \/ Claim(r) \/ Block(r) \/ Approve(r) \/ ReserveRun(r) \/ LeaveCancelled(r) \/ Execute(r)
    \/ \E q \in asked : InsertRetry(q)
    \/ CrashRuns \/ NewEdition
    \/ \E p \in Paths : EditOutput(p)
SpecRuns == InitRuns /\ [][NextRuns]_runVars
-----------------------------------------------------------------------------
(* No run, first, retry or correction, replaces a file of people: not one that was there before, *)
(* and not one that took the place of an output after it was reported.                           *)
OwnedFilesSurvive ==
    [][\A p \in Paths : files[p] = Owned /\ files'[p] # Owned => EditOutput(p)]_runVars

(* A retry that is asked for after some attempt of its chain has reported outputs, this one or   *)
(* one long before, is not taken for a first run, which those very outputs would block, whatever  *)
(* happens to the chain until it is inserted.  (What has read its row before the report is: the   *)
(* handler does not look again.)                                                                  *)
NeverFirstAgain == \A r \in Ids : runs[r].after => ~First(r)
=============================================================================
