--------------------------- MODULE OutputExecutor ---------------------------
(***************************************************************************)
(* How fixer-sdk puts an output plan on disk (output/executor.rs): a plan  *)
(* is fingerprinted, checked and executed operation by operation, each as  *)
(* the sequence of system calls the code makes.  Several plans run at once *)
(* (the CLI and the server, or two jobs), users edit their files, calls    *)
(* fail and processes die.                                                 *)
(*                                                                         *)
(* Kinds: "write" (WriteBytes), "copy" (Copy, Reflink), "hardlink",        *)
(* "symlink" and "move"; CreateDirectory never touches a file and is left  *)
(* out.  An entry is what a path names: an inode with its modification     *)
(* time, the contents and, for the properties, who put it there.  The      *)
(* contents of a symlink are the path it leads to; a source is a file.     *)
(***************************************************************************)
EXTENDS Naturals, Sequences

CONSTANTS
    Executors,
    Sources, Targets,   \* media paths; paths below the output root
    Plans,              \* sequences of [kind, source, target], none empty
    Policies,           \* subset of {"create", "replace"}: execute, execute_replacing
    Remote,             \* sources on another filesystem than the targets
    Unauditable,        \* targets OperationReport::new rejects
    Prior,              \* targets an earlier run has written
    Linked,             \* the source a prior target is a link to, or Missing
    PathTo,             \* what a symlink to a source holds
    Missing,            \* no entry
    Meddling,           \* do users touch what the executions have put there?
    MaxEdits, MaxFaults, MaxCrashes  \* bounds on everybody else

Kinds == {"write", "copy", "hardlink", "symlink", "move"}

ASSUME ExecutorAssumption ==
    /\ Plans \subseteq Seq([kind : Kinds, source : Sources, target : Targets]) \ {<<>>}
    /\ Policies \subseteq {"create", "replace"}
    /\ Remote \subseteq Sources
    /\ Unauditable \subseteq Targets
    /\ Prior \subseteq Targets
    /\ Linked \in [Prior -> Sources \cup {Missing}]
    /\ DOMAIN PathTo = Sources
    /\ \A s, r \in Sources : PathTo[s] = PathTo[r] => s = r
    /\ Sources \cap Targets = {}
    /\ "world" \notin Executors
    /\ Meddling \in BOOLEAN
    /\ MaxEdits \in Nat /\ MaxFaults \in Nat /\ MaxCrashes \in Nat

VARIABLES
    fs,         \* the entries at sources and targets
    temp,       \* the temporary file of every operation of every executor
    plan, policy, manifest,  \* what each executor was called with
    run,        \* where it is: [pc, i, copied, error]
    observed,   \* PreparedOutputPlan.observed
    saved,      \* fingerprints a move holds: of its source and its placeholder
    report,     \* ExecutionReport.operations
    checked,    \* the targets as execute checked them, and those that fitted the
                \* manifest when execute_replacing compared them (observer)
    edited,     \* contents somebody else has changed or replaced (observer)
    edits, faults, crashes

input == <<plan, policy, manifest>>
world == <<edited, edits, crashes>>
vars == <<fs, temp, input, run, observed, saved, report, checked, world, faults>>

Files == Sources \cup Targets

Entry(id, data, by) == [id |-> id, data |-> data, by |-> by]

\* A path may hold a symlink to a source; only some calls follow it.
Paths == {PathTo[s] : s \in Sources}
IsLink(entry) == entry # Missing /\ entry.data \in Paths
Through(entry) == IF IsLink(entry) THEN fs[CHOOSE s \in Sources : PathTo[s] = entry.data]
                  ELSE entry

\* PathFingerprint, of the path itself: inode, length and modification time.
Fp(entry)  == IF entry = Missing THEN Missing ELSE <<entry.id, entry.data>>

\* Sha256 of the contents; output_fingerprint reads through a symlink.
Sha(entry) == entry.data

Op(e)  == plan[e][run[e].i]
Src(e) == fs[Op(e).source]
Tgt(e) == fs[Op(e).target]
Tmp(e) == temp[e][run[e].i]
Creates(e)   == policy[e] = "create"
NeedsSource(op) == op.kind # "write"
PathsOf(e) == {plan[e][k].target : k \in DOMAIN plan[e]}
              \cup {plan[e][k].source : k \in {k \in DOMAIN plan[e] : NeedsSource(plan[e][k])}}

\* Inodes that come up: an executor's temporary file and placeholder.
TempId(e) == <<e, 2 * run[e].i>>
HoldId(e) == <<e, 2 * run[e].i + 1>>

\* What the earlier run wrote, as a file of its own or as a link to a source.
PriorData(t) == IF Linked[t] = Missing THEN "prior" ELSE Linked[t]

FirstEntry(f, soft) ==
    IF f \in Sources THEN Entry(<<f, 0>>, f, "world")
    ELSE IF f \notin Prior THEN Missing
    ELSE IF Linked[f] = Missing THEN Entry(<<f, 0>>, PriorData(f), "world")
    ELSE IF f \in soft THEN Entry(<<f, 0>>, PathTo[Linked[f]], "world")
    ELSE Entry(<<Linked[f], 0>>, PriorData(f), "world")

\* The replacement manifest of a run that corrects the earlier one.
ManifestOf(e) == [t \in Targets |-> IF policy[e] = "replace" /\ t \in Prior
                                    THEN PriorData(t) ELSE Missing]

Init ==
    /\ \E soft \in SUBSET Prior : fs = [f \in Files |-> FirstEntry(f, soft)]
    /\ plan \in [Executors -> Plans]
    /\ policy \in [Executors -> Policies]
    /\ manifest = [e \in Executors |-> ManifestOf(e)]
    /\ temp = [e \in Executors |-> [k \in DOMAIN plan[e] |-> Missing]]
    /\ run = [e \in Executors |-> [pc |-> "prepare", i |-> 1, copied |-> FALSE, error |-> FALSE]]
    /\ observed = [e \in Executors |-> [f \in Files |-> Missing]]
    /\ saved = [e \in Executors |-> [source |-> Missing, target |-> Missing]]
    /\ report = [e \in Executors |-> <<>>]
    /\ checked = [e \in Executors |-> [entries |-> [t \in Targets |-> Missing], fitted |-> {}]]
    /\ edited = {}
    /\ edits = 0 /\ faults = 0 /\ crashes = 0

Goto(e, pc) == run' = [run EXCEPT ![e].pc = pc]
Put(f, entry) == fs' = [fs EXCEPT ![f] = entry]
SetTemp(e, entry) == temp' = [temp EXCEPT ![e][run[e].i] = entry]

\* push_operation_report for operation k, dropped where the path is refused.
Push(e, k, outcome, sha) ==
    report' = [report EXCEPT ![e] =
        IF plan[e][k].target \in Unauditable THEN @
        ELSE Append(@, [target |-> plan[e][k].target, kind |-> plan[e][k].kind,
                        source |-> plan[e][k].source, outcome |-> outcome, sha |-> sha])]

\* The first error ends the execution with a record of the operation.
FailAt(e, k) == Goto(e, "failed") /\ Push(e, k, "failed", Missing)
Fail(e) == FailAt(e, run[e].i)

Least(S) == CHOOSE k \in S : \A l \in S : k <= l

(***************************************************************************)
(* Preparation and the checks on the whole plan.                           *)
(***************************************************************************)

\* OutputPlan::prepare.
Prepare(e) ==
    /\ run[e].pc = "prepare"
    /\ observed' = [observed EXCEPT ![e] =
           [f \in Files |-> IF f \in PathsOf(e) THEN Fp(fs[f]) ELSE Missing]]
    /\ Goto(e, IF Creates(e) THEN "check" ELSE "manifest")
    /\ UNCHANGED <<fs, temp, input, saved, report, checked, world, faults>>

\* ensure_fresh.
IsFresh(e) == \A f \in PathsOf(e) : Fp(fs[f]) = observed[e][f]

\* A path the manifest allows to be replaced: what it holds, or what the symlink
\* it holds leads to, is what the earlier run wrote.
Fits(e, t) == Through(fs[t]) # Missing /\ Sha(Through(fs[t])) = manifest[e][t]

\* Targets that are there and that the manifest does not allow.
NotAllowed(e) == {k \in DOMAIN plan[e] :
    LET t == plan[e][k].target IN fs[t] # Missing /\ ~Fits(e, t)}

\* execute_replacing, up to its call of execute.
CheckManifest(e) ==
    /\ run[e].pc = "manifest"
    /\ \/ ~IsFresh(e) /\ Goto(e, "failed") /\ UNCHANGED report
       \/ IsFresh(e) /\ NotAllowed(e) = {} /\ Goto(e, "check") /\ UNCHANGED report
       \/ IsFresh(e) /\ NotAllowed(e) # {} /\ FailAt(e, Least(NotAllowed(e)))
    /\ checked' = [checked EXCEPT ![e].fitted = {t \in Targets : Fits(e, t)}]
    /\ UNCHANGED <<fs, temp, input, observed, saved, world, faults>>

\* ensure_source_file and ensure_target_available, for operation k.
Blocked(e, k) == \/ NeedsSource(plan[e][k]) /\ fs[plan[e][k].source] = Missing
                 \/ Creates(e) /\ fs[plan[e][k].target] # Missing
AllBlocked(e) == {k \in DOMAIN plan[e] : Blocked(e, k)}

\* Mutant: execute does not look at the fingerprints again.
CheckUnfresh(e) ==
    /\ run[e].pc = "check"
    /\ \/ AllBlocked(e) = {} /\ Goto(e, "begin") /\ UNCHANGED report
       \/ AllBlocked(e) # {} /\ FailAt(e, Least(AllBlocked(e)))
    /\ checked' = [checked EXCEPT ![e].entries = [t \in Targets |-> fs[t]]]
    /\ UNCHANGED <<fs, temp, input, observed, saved, world, faults>>

\* execute, up to its loop: ensure_fresh and preflight.
Check(e) ==
    /\ run[e].pc = "check"
    /\ \/ ~IsFresh(e) /\ Goto(e, "failed") /\ UNCHANGED report
       \/ IsFresh(e) /\ AllBlocked(e) = {} /\ Goto(e, "begin") /\ UNCHANGED report
       \/ IsFresh(e) /\ AllBlocked(e) # {} /\ FailAt(e, Least(AllBlocked(e)))
    /\ checked' = [checked EXCEPT ![e].entries = [t \in Targets |-> fs[t]]]
    /\ UNCHANGED <<fs, temp, input, observed, saved, world, faults>>

(***************************************************************************)
(* One operation: what all kinds have in common.                           *)
(***************************************************************************)

\* The operation's own checks; a move takes its source's fingerprint.
Begin(e) ==
    /\ run[e].pc = "begin"
    /\ \/ Blocked(e, run[e].i) /\ Fail(e) /\ UNCHANGED saved
       \/ /\ ~Blocked(e, run[e].i)
          /\ run' = [run EXCEPT ![e] =
                [@ EXCEPT !.copied = FALSE, !.error = FALSE,
                          !.pc = CASE Op(e).kind \in {"write", "copy"} -> "stage"
                                   [] Op(e).kind \in {"hardlink", "symlink"} -> "link"
                                   [] Op(e).kind = "move" ->
                                        IF Creates(e) THEN "reserve" ELSE "rename"]]
          /\ saved' = [saved EXCEPT ![e] =
                [source |-> IF Op(e).kind = "move" THEN Fp(Src(e)) ELSE Missing,
                 target |-> Missing]]
          /\ UNCHANGED report
    /\ UNCHANGED <<fs, temp, input, observed, checked, world, faults>>

\* Mutant: what is in the temporary file is not written before publication.
StageUnfilled(e) ==
    /\ run[e].pc = "stage"
    /\ SetTemp(e, Entry(TempId(e), "partial", e))
    /\ Goto(e, IF Op(e).kind = "move" THEN "recheck" ELSE "publish")
    /\ UNCHANGED <<fs, input, observed, saved, report, checked, world, faults>>

\* write_temp, copy_temp, reflink: a temporary file is created...
Stage(e) ==
    /\ run[e].pc = "stage"
    /\ SetTemp(e, Entry(TempId(e), "partial", e))
    /\ Goto(e, "fill")
    /\ UNCHANGED <<fs, input, observed, saved, report, checked, world, faults>>

\* ...and filled.
Fill(e) ==
    /\ run[e].pc = "fill"
    /\ \/ /\ NeedsSource(Op(e)) /\ Src(e) = Missing
          /\ SetTemp(e, Missing)
          /\ Fail(e)
       \/ /\ NeedsSource(Op(e)) => Src(e) # Missing
          /\ SetTemp(e, [Tmp(e) EXCEPT !.data =
                            IF NeedsSource(Op(e)) THEN Src(e).data ELSE "bytes"])
          /\ Goto(e, IF Op(e).kind = "move" THEN "recheck" ELSE "publish")
          /\ UNCHANGED report
    /\ UNCHANGED <<fs, input, observed, saved, checked, world, faults>>

\* Mutant: the temporary file is renamed to its place under either policy.
PublishRenames(e) ==
    /\ run[e].pc = "publish"
    /\ Put(Op(e).target, Tmp(e))
    /\ SetTemp(e, Missing)
    /\ Goto(e, "confirm")
    /\ UNCHANGED <<input, observed, saved, report, checked, world, faults>>

\* publish_temp: hard_link keeps an existing target, rename replaces it.  A
\* rename between two names of one inode does nothing, and succeeds.
Publish(e) ==
    /\ run[e].pc = "publish"
    /\ \/ /\ Creates(e) /\ Tgt(e) = Missing
          /\ Put(Op(e).target, Tmp(e))
          /\ Goto(e, "unlink")
          /\ UNCHANGED <<temp, report>>
       \/ /\ Creates(e) /\ Tgt(e) # Missing
          /\ SetTemp(e, Missing)
          /\ Fail(e)
          /\ UNCHANGED fs
       \/ /\ ~Creates(e)
          /\ IF Tgt(e) # Missing /\ Tgt(e).id = Tmp(e).id THEN UNCHANGED <<fs, temp>>
             ELSE Put(Op(e).target, Tmp(e)) /\ SetTemp(e, Missing)
          /\ Goto(e, "confirm")
          /\ UNCHANGED report
    /\ UNCHANGED <<input, observed, saved, checked, world, faults>>

Unlink(e) ==
    /\ run[e].pc = "unlink"
    /\ SetTemp(e, Missing)
    /\ Goto(e, "confirm")
    /\ UNCHANGED <<fs, input, observed, saved, report, checked, world, faults>>

\* Symlink and Hardlink: the link itself is the publication, or a temporary
\* link is made for publish_replacement.  A symlink may lead nowhere.
Link(e) ==
    LET link == IF Op(e).kind = "hardlink" THEN Entry(Src(e).id, Src(e).data, e)
                ELSE Entry(TempId(e), PathTo[Op(e).source], e)
        nothing == Op(e).kind = "hardlink" /\ Src(e) = Missing IN
    /\ run[e].pc = "link"
    /\ \/ /\ nothing \/ (Creates(e) /\ Tgt(e) # Missing)
          /\ Fail(e)
          /\ UNCHANGED <<fs, temp>>
       \/ /\ ~nothing /\ Creates(e) /\ Tgt(e) = Missing
          /\ Put(Op(e).target, link)
          /\ Goto(e, "confirm")
          /\ UNCHANGED <<temp, report>>
       \/ /\ ~nothing /\ ~Creates(e)
          /\ SetTemp(e, link)
          /\ Goto(e, "publish")
          /\ UNCHANGED <<fs, report>>
    /\ UNCHANGED <<input, observed, saved, checked, world, faults>>

\* Mutant: there is always one more operation.
ConfirmPastEnd(e) ==
    /\ run[e].pc = "confirm"
    /\ run' = [run EXCEPT ![e].pc = "begin", ![e].i = @ + 1]
    /\ UNCHANGED <<fs, temp, input, observed, saved, report, checked, world, faults>>

Output(e) == Through(Tgt(e))

\* Mutant: the last operation of a plan is not recorded.
ConfirmLater(e) ==
    /\ run[e].pc = "confirm"
    /\ Output(e) # Missing
    /\ IF run[e].i = Len(plan[e]) THEN Goto(e, "done") /\ UNCHANGED report
       ELSE /\ Push(e, run[e].i, "succeeded", Sha(Output(e)))
            /\ run' = [run EXCEPT ![e].pc = "begin", ![e].i = @ + 1]
    /\ UNCHANGED <<fs, temp, input, observed, saved, checked, world, faults>>

\* output_fingerprint and the record of success; then the next operation.
Confirm(e) ==
    /\ run[e].pc = "confirm"
    /\ \/ Output(e) = Missing /\ Fail(e)
       \/ /\ Output(e) # Missing /\ Op(e).target \in Unauditable
          /\ Goto(e, "failed")
          /\ UNCHANGED report
       \/ /\ Output(e) # Missing /\ Op(e).target \notin Unauditable
          /\ Push(e, run[e].i, "succeeded", Sha(Output(e)))
          /\ IF run[e].i = Len(plan[e]) THEN Goto(e, "done")
             ELSE run' = [run EXCEPT ![e].pc = "begin", ![e].i = @ + 1]
    /\ UNCHANGED <<fs, temp, input, observed, saved, checked, world, faults>>

(***************************************************************************)
(* A move: rename if the filesystem can, copy and remove if it cannot.     *)
(***************************************************************************)

\* The operation fails, and a copied move takes its temporary file along.
Abandon(e) == Fail(e) /\ SetTemp(e, Missing)

SourceIsSaved(e) == Fp(Src(e)) = saved[e].source
TargetIsHeld(e)  == Fp(Tgt(e)) = saved[e].target

\* Mutant: the placeholder is created over an existing file.
ReserveAnyway(e) ==
    /\ run[e].pc = "reserve"
    /\ Put(Op(e).target, Entry(HoldId(e), "empty", e))
    /\ saved' = [saved EXCEPT ![e].target = <<HoldId(e), "empty">>]
    /\ Goto(e, "verify")
    /\ UNCHANGED <<temp, input, observed, report, checked, world, faults>>

\* reserve_move_target: create_new makes an empty placeholder.
Reserve(e) ==
    /\ run[e].pc = "reserve"
    /\ \/ /\ Tgt(e) = Missing
          /\ Put(Op(e).target, Entry(HoldId(e), "empty", e))
          /\ saved' = [saved EXCEPT ![e].target = <<HoldId(e), "empty">>]
          /\ Goto(e, "verify")
          /\ UNCHANGED <<temp, report>>
       \/ Tgt(e) # Missing /\ Abandon(e) /\ UNCHANGED <<fs, saved>>
    /\ UNCHANGED <<input, observed, checked, world, faults>>

\* publish_move_no_overwrite_with: the placeholder is looked at once more.
Verify(e) ==
    /\ run[e].pc = "verify"
    /\ \/ TargetIsHeld(e) /\ Goto(e, "rename") /\ UNCHANGED <<temp, report>>
       \/ ~TargetIsHeld(e) /\ Abandon(e)
    /\ UNCHANGED <<fs, input, observed, saved, checked, world, faults>>

\* After a failed rename: the placeholder goes, or there is none.
AfterRename(e, exdev) ==
    IF Creates(e) THEN /\ run' = [run EXCEPT ![e].pc = "recapture", ![e].error = ~exdev]
                       /\ UNCHANGED <<temp, report>>
    ELSE IF exdev THEN Goto(e, "copyfresh") /\ UNCHANGED <<temp, report>>
    ELSE Abandon(e)

\* publish_move_direct: rename(source, target).
Rename(e) ==
    /\ run[e].pc = "rename" /\ ~run[e].copied
    /\ \/ Src(e) = Missing /\ AfterRename(e, FALSE) /\ UNCHANGED fs
       \/ Src(e) # Missing /\ Op(e).source \in Remote /\ AfterRename(e, TRUE) /\ UNCHANGED fs
       \/ /\ Src(e) # Missing /\ Op(e).source \notin Remote
          /\ IF Tgt(e) # Missing /\ Tgt(e).id = Src(e).id THEN UNCHANGED fs
             ELSE fs' = [fs EXCEPT ![Op(e).source] = Missing,
                                   ![Op(e).target] = [Src(e) EXCEPT !.by = e]]
          /\ Goto(e, "finish")
          /\ UNCHANGED <<temp, report>>
    /\ UNCHANGED <<input, observed, saved, checked, world, faults>>

\* publish_copied_move: rename(temp, target).
RenameCopy(e) ==
    /\ run[e].pc = "rename" /\ run[e].copied
    /\ Put(Op(e).target, Tmp(e))
    /\ SetTemp(e, Missing)
    /\ Goto(e, "lastcheck")
    /\ UNCHANGED <<input, observed, saved, report, checked, world, faults>>

\* A failed rename goes on with the copy, or ends the operation.
Resume(e) == IF run[e].error THEN Abandon(e)
             ELSE Goto(e, "copyfresh") /\ UNCHANGED <<temp, report>>

Recapture(e) ==
    /\ run[e].pc = "recapture"
    /\ \/ TargetIsHeld(e) /\ Goto(e, "cleanup") /\ UNCHANGED <<temp, report>>
       \/ Tgt(e) = Missing /\ Resume(e)
       \/ Tgt(e) # Missing /\ ~TargetIsHeld(e) /\ Abandon(e)
    /\ UNCHANGED <<fs, input, observed, saved, checked, world, faults>>

Cleanup(e) ==
    /\ run[e].pc = "cleanup"
    /\ \/ Tgt(e) # Missing /\ Put(Op(e).target, Missing) /\ Resume(e)
       \/ Tgt(e) = Missing /\ Abandon(e) /\ UNCHANGED fs
    /\ UNCHANGED <<input, observed, saved, checked, world, faults>>

\* The source is looked at before the copy...
CopyFresh(e) ==
    /\ run[e].pc = "copyfresh"
    /\ \/ SourceIsSaved(e) /\ Goto(e, "stage") /\ UNCHANGED report
       \/ ~SourceIsSaved(e) /\ Fail(e)
    /\ UNCHANGED <<fs, temp, input, observed, saved, checked, world, faults>>

\* ...after it, before publication...
Recheck(e) ==
    /\ run[e].pc = "recheck"
    /\ \/ /\ SourceIsSaved(e)
          /\ run' = [run EXCEPT ![e].pc = IF Creates(e) THEN "reserve" ELSE "rename",
                                ![e].copied = TRUE]
          /\ UNCHANGED <<temp, report>>
       \/ ~SourceIsSaved(e) /\ Abandon(e)
    /\ UNCHANGED <<fs, input, observed, saved, checked, world, faults>>

\* ...and before it is removed.
LastCheck(e) ==
    /\ run[e].pc = "lastcheck"
    /\ \/ SourceIsSaved(e) /\ Goto(e, "remove") /\ UNCHANGED report
       \/ ~SourceIsSaved(e) /\ Fail(e)
    /\ UNCHANGED <<fs, temp, input, observed, saved, checked, world, faults>>

\* finish_direct_move: the source is gone, or the target leads to it, or it was
\* one inode with the target.
Finish(e) ==
    LET sameFile == SourceIsSaved(e) /\ Tgt(e) # Missing /\ Src(e).id = Tgt(e).id
        moved == Src(e) = Missing \/ (Tgt(e) # Missing /\ Tgt(e).data = PathTo[Op(e).source]) IN
    /\ run[e].pc = "finish"
    /\ \/ moved /\ Goto(e, "confirm") /\ UNCHANGED report
       \/ ~moved /\ sameFile /\ Goto(e, "remove") /\ UNCHANGED report
       \/ ~moved /\ ~sameFile /\ Fail(e)
    /\ UNCHANGED <<fs, temp, input, observed, saved, checked, world, faults>>

\* remove_moved_source.
Remove(e) ==
    /\ run[e].pc = "remove"
    /\ \/ Src(e) # Missing /\ Put(Op(e).source, Missing) /\ Goto(e, "confirm") /\ UNCHANGED report
       \/ Src(e) = Missing /\ Fail(e) /\ UNCHANGED fs
    /\ UNCHANGED <<temp, input, observed, saved, checked, world, faults>>

(***************************************************************************)
(* What can go wrong, and what other people do.                            *)
(***************************************************************************)

\* A system call of the step fails: the operation does, and its temporary
\* file goes; a failed rename is followed by the cleanup of its placeholder;
\* a temporary file that has been published may resist its removal twice.
IoFails(e) ==
    /\ faults < MaxFaults
    /\ faults' = faults + 1
    /\ \/ /\ run[e].pc \in {"stage", "fill", "publish", "link", "reserve", "verify",
                            "recapture", "cleanup", "recheck"}
          /\ Abandon(e)
       \/ /\ run[e].pc \in {"unlink", "copyfresh", "lastcheck", "finish", "remove", "confirm"}
          /\ Fail(e)
          /\ UNCHANGED temp
       \/ run[e].pc = "rename" /\ AfterRename(e, FALSE)
    /\ UNCHANGED <<fs, input, observed, saved, checked, world>>

Ended == {"done", "failed", "crashed"}

\* The process dies; what is on disk stays.
Crash(e) ==
    /\ run[e].pc \notin Ended
    /\ crashes < MaxCrashes
    /\ crashes' = crashes + 1
    /\ Goto(e, "crashed")
    /\ UNCHANGED <<fs, temp, input, observed, saved, report, checked, edited, edits, faults>>

OtherId == <<Missing, edits>>

Theirs(f) == fs[f] # Missing /\ (Meddling \/ fs[f].by = "world")

\* What a user puts somewhere: a file or, below the output root, a symlink.
OfOthers(f, data) == {Entry(OtherId, data, "world")} \cup
    (IF f \in Targets THEN {Entry(OtherId, path, "world") : path \in Paths} ELSE {})

\* A user's file is changed in place, under all its names...
Edit(f) ==
    LET new(entry) == IF entry # Missing /\ entry.id = fs[f].id
                      THEN [entry EXCEPT !.id = OtherId, !.data = "edited"] ELSE entry
    IN /\ Theirs(f) /\ ~IsLink(fs[f])
       /\ edits < MaxEdits /\ edits' = edits + 1
       /\ edited' = edited \cup {fs[f].data}
       /\ fs' = [g \in Files |-> new(fs[g])]
       /\ temp' = [e \in Executors |-> [k \in DOMAIN temp[e] |-> new(temp[e][k])]]
       /\ UNCHANGED <<input, run, observed, saved, report, checked, crashes, faults>>

\* ...or removed, or replaced by another one...
Substitute(f) ==
    /\ Theirs(f)
    /\ edits < MaxEdits /\ edits' = edits + 1
    /\ edited' = edited \cup {fs[f].data}
    /\ \E entry \in OfOthers(f, "edited") \cup {Missing} : Put(f, entry)
    /\ UNCHANGED <<temp, input, run, observed, saved, report, checked, crashes, faults>>

\* ...or a new one appears where there was none.
Appear(f) ==
    /\ fs[f] = Missing
    /\ edits < MaxEdits /\ edits' = edits + 1
    /\ \E entry \in OfOthers(f, "foreign") : Put(f, entry)
    /\ UNCHANGED <<temp, input, run, observed, saved, report, checked, edited, crashes, faults>>

ExecutorNext(e) ==
    \/ Prepare(e) \/ CheckManifest(e) \/ Check(e) \/ Begin(e)
    \/ Stage(e) \/ Fill(e) \/ Publish(e) \/ Unlink(e) \/ Link(e) \/ Confirm(e)
    \/ Reserve(e) \/ Verify(e) \/ Rename(e) \/ RenameCopy(e) \/ Recapture(e) \/ Cleanup(e)
    \/ CopyFresh(e) \/ Recheck(e) \/ LastCheck(e) \/ Finish(e) \/ Remove(e)
    \/ IoFails(e) \/ Crash(e)

Next == \/ \E e \in Executors : ExecutorNext(e)
        \/ \E f \in Files : Edit(f) \/ Substitute(f) \/ Appear(f)

Spec == Init /\ [][Next]_vars

(***************************************************************************)
(* Properties.                                                             *)
(***************************************************************************)

Inodes == ((Files \cup {Missing} \cup Executors) \X Nat)
Texts == {"prior", "bytes", "partial", "empty", "foreign", "edited"}
Data == Sources \cup Paths \cup Texts
Entries == [id : Inodes, data : Data, by : Executors \cup {"world"}] \cup {Missing}
Fingerprints == (Inodes \X Data) \cup {Missing}

ASSUME MissingAssumption ==
    /\ Missing \notin [id : Inodes, data : Data, by : Executors \cup {"world"}]
    /\ Missing \notin Inodes \X Data
    /\ Sources \cap Texts = {} /\ Paths \cap (Sources \cup Texts) = {}
    /\ Missing \notin Files \cup Executors /\ Executors \cap Files = {}

Pcs == {"prepare", "manifest", "check", "begin", "stage", "fill", "publish", "unlink", "link",
        "confirm", "reserve", "verify", "rename", "recapture", "cleanup", "copyfresh",
        "recheck", "lastcheck", "finish", "remove"} \cup Ended

\* Entries, program counters, fingerprints and records are well formed.
TypeOK ==
    /\ fs \in [Files -> Entries]
    /\ \A e \in Executors :
          /\ plan[e] \in Plans /\ policy[e] \in Policies
          /\ temp[e] \in [DOMAIN plan[e] -> Entries]
          /\ run[e] \in [pc : Pcs, i : DOMAIN plan[e], copied : BOOLEAN, error : BOOLEAN]
          /\ observed[e] \in [Files -> Fingerprints]
          /\ saved[e] \in [source : Fingerprints, target : Fingerprints]
          /\ checked[e] \in [entries : [Targets -> Entries], fitted : SUBSET Targets]
          /\ Len(report[e]) <= Len(plan[e])
    /\ faults <= MaxFaults /\ edits <= MaxEdits /\ crashes <= MaxCrashes

Acts(e) == run'[e] # run[e]

\* Under OverwritePolicy::NoOverwrite no step of any execution removes or
\* replaces a target that somebody else put there, however late it appeared:
\* every publication is itself a no-clobber system call.
NeverClobbers ==
    [][\A e \in Executors : Acts(e) /\ Creates(e) =>
          \A t \in Targets : fs[t] # Missing /\ fs[t].by # e => fs'[t] = fs[t]]_vars

\* A media file nobody else touches is never lost: at every moment, after any
\* failure or crash, its contents are at its source or at some target.
MediaSurvives ==
    \A s \in Sources \ edited : \E f \in Files : fs[f] # Missing /\ fs[f].data = s

\* Written, copied and linked targets are published whole: at no moment, not
\* even after a crash, is a target there without all of its contents.
WritesAppearWhole ==
    \A t \in Targets : fs[t] # Missing /\ fs[t].data \in {"partial", "empty"} =>
        \E e \in Executors : \E k \in DOMAIN plan[e] :
            plan[e][k].kind = "move" /\ plan[e][k].target = t

\* What an execution has published when it ends is in its report, as succeeded
\* or as failed, if the audit accepts the path.
PublishedIsReported ==
    \A e \in Executors : run[e].pc \in {"done", "failed"} =>
        \A t \in Targets \ Unauditable :
            fs[t] # Missing /\ fs[t].by = e =>
                \E k \in DOMAIN report[e] : report[e][k].target = t

\* execute_replacing replaces of somebody else's only what the manifest names: a
\* file that was there when the plan was last checked has the contents the earlier
\* run wrote, and a symlink, whoever made it, led to them when the manifest was
\* compared, even if what it leads to has changed since.
ReplacesOnlyChecked ==
    [][\A e \in Executors : Acts(e) =>
          \A t \in Targets :
              fs[t] # Missing /\ fs[t].by # e /\ fs'[t] # fs[t] /\ fs[t] = checked[e].entries[t] =>
                  IF IsLink(fs[t]) THEN t \in checked[e].fitted
                  ELSE Sha(fs[t]) = manifest[e][t]]_vars
=============================================================================
