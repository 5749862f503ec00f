# Fixer: a TLA+ model of its server, its scrapes and its output executor

Fixer scrapes metadata for media files and organises them into a library.  A
command line and a server share the same core: *providers* answer searches,
the *SDK* selects and merges what they say, *writers* turn the result into an
output plan, and the *executor* puts the plan on disk.  The server adds
persistent jobs, folder rules that create jobs by themselves, authentication
and a Web application.

Little of what can go wrong there is in a single function.  Jobs are rows of a
SQLite table on which a worker task, any number of HTTP requests and supervised
write tasks work at once; most operations read a row, rebuild a plan for
seconds, and only then take the lock; the process may stop at any point; the
files belong to other people too; and a plan that is approved is computed again
from providers that may answer differently.  The modules of this directory
model these parts step by step, TLC explores small instances of them, and TLAPS
proves what matters most for instances of any size.

    tlc -workers 2 -config JobLifecycle_safety.cfg MCJobLifecycle.tla
    tlapm JobLifecycleProofs.tla

## 1. Inventory

Paths are below `src/crates/`.

### Job runtime (`fixer-server/src/jobs/mod.rs`, `worker.rs`, `store/sqlite.rs`)

*State.*  Table `jobs`: state, input, review summary, review decision, plan
summary with fingerprint, execution report.  Table `job_executions`: at most
one reservation per job, with its idempotency key.  In memory: the `operations`
mutex, the registry of running executions, the wake-up channel, snapshots of
the configuration per job, the event hub.

*Operations.*  `create`, `create_run`, `create_for_source`, `cancel`, `retry`,
`review`, `execute`; the worker's `claim`, its stages `scan`, `search`,
`resolve`, and `process_prepared`, which reviews and executes automatic jobs
itself; `fail_active` and `interrupt_active`; `run_reserved_execution`; start,
shutdown, and the interruption of active jobs when the store opens.

*Interactions.*  Requests and worker share rows (compare-and-set on the state
column) and the mutex; requests wake the worker through a bounded channel;
`execute` hands the write to a task of its own and waits for it; the pool's
shutdown waits for worker and tasks.

*Hard.*  Reads before the mutex; futures dropped at any await; crashes while
files are written; retries that keep columns of the attempt before; clients who
act on jobs the worker drives; panics; store errors in the middle.

*Correct when* a job's plan is written at most once and exactly as approved; a
job with a reservation never runs again; `completed`, `failed` and `cancelled`
tell the truth about the disk; nothing claimed or queued is forgotten; a
shutdown ends and leaves nothing half-written.

### Output executor (`fixer-sdk/src/output/executor.rs`)

*State.*  The file system; per execution the fingerprints taken by `prepare` and
the report.  *Operations.*  `prepare`, `execute` under either overwrite policy,
`execute_replacing` with the manifest of an earlier run; per operation temporary
file, publication, fingerprint, audit record; for moves a placeholder, a rename,
or a copy with three checks of the source. *Interactions.*  Every job, every
command line and every user share the library.  *Hard.*  Time of check against
time of use in each system call; partial failure; crashes; hardlinks and
symlinks.  *Correct when* nobody's file is lost or clobbered, files appear
whole, and the report says what happened.

### Job events (`jobs/events.rs`)

*State.*  An epoch, a sequence number, a bounded history, broadcast
subscribers.  *Operations.*  publish, `ensure_state`, `subscribe` with a
cursor.  *Hard.*  Order against the store, lag, expiry, reconnection after a
restart.  *Correct when* a subscriber sees each event once, in order, or is
told that it missed some.

### Runs (`api/v1/runs.rs`)

Unattended jobs for the Web application.  *State.*  Jobs whose input names the
run they retry or correct.  *Operations.*  create (an equal live run is returned
instead), retry (with `retry_of` if something was written), correction of a
completed run, cancel.  *Hard.*  Chains of retries whose manifests cover only
part of what is on disk; runs that count as stopped for one check and as live
for another.  *Correct when* a later run replaces what an earlier one wrote and
nothing else.

### Folder ingestion (`ingestion/`)

*State.*  Tables `ingestion_rules` and `ingestion_sources` (the fingerprint
ledger); in memory the active rules, the dirty set and the observations.
*Operations.*  rule changes, reload, reconcile, `process_item`,
`resolve_review`, `create_rule_job`, rescan.  *Hard.*  A file still being
written; three ways to create a job for one source; rules changed meanwhile;
missed and coalesced events.  *Correct when* an unchanged source gets one job,
ever, and a stable source of an enabled rule gets one eventually.

### Configuration: settings (`fixer-runtime/src/config.rs`) and snapshots (`jobs/`)

*State.*  A TOML file, the environment, the configuration in use, one snapshot
per job.  *Operations.*  load and layering, `update_settings`, `replace_after`;
`scan_with_snapshot`, `release_job_config`.  *Hard.*  Copies edited outside the
lock, crashes between file and memory, secrets with three origins, attempts that
span an update.  *Correct when* no secret of the environment reaches the file, a
restart loads what is in use, but for what the environment overrides, and an
attempt never runs with a configuration older than its queueing.

### Authentication (`auth/`, `api/v1/auth.rs`)

*State.*  One user row, sessions with an expiry and a CSRF digest; cookies in
browsers, a CSRF token in the memory of tabs; API tokens.  *Operations.*
register, login, status, logout, synchronisation of CSRF tokens.  *Hard.*
Racing registrations, databases of the releases that knew only a password, tabs
that share cookies but not memory, expiry in the middle of a request.  *Correct
when* there is one administrator, who opened every new session, and a token
once given out is good as long as its session lives.

### Scrapes (`fixer-sdk/src/orchestrator.rs`, `fixer-core`, `fixer-server/src/jobs/`, `fixer-cli/src/commands/`)

*State.*  Of a job only the decision and a fingerprint; everything else is
computed three times: when the review is prepared, when it is decided, when the
plan is executed.  *Operations.*  search, rank, choose, group, fetch, merge;
the checks of automatic jobs.  *Hard.*  Providers that fail or change between
the passes; works with the same title; documents that disagree.  *Correct when*
an automatic job writes only what every provider answered and agreed on, a group
is one work, and a merge loses nothing silently.

### Scan, organisation and paths (`fixer-provider-*`, `fixer-writer-local`, `workspace.rs`, `fs_policy.rs`)

Pure parts: what a scan makes of files and which document belongs to a path;
where a plan puts every file and every document; which places policy, workspace
and executor mean by one path.  No state; correct against a reference
definition.

### Outside

Remote providers and the HTTP client (parsing and network I/O), JSON layout, the
Web application, build and deployment.

## 2. Modules

| Module | Models | Source |
| --- | --- | --- |
| `JobStates` | job states and the transitions the store accepts | `jobs/model.rs`, `store/sqlite.rs` |
| `JobLifecycle` | rows, worker, requests, write tasks, shutdown, crash | `jobs/mod.rs`, `store/sqlite.rs`, `jobs/worker.rs` |
| `ApprovedWrites` | what the runtime promises about the library (abstract) | |
| `JobDispatch` | how queued rows reach the worker | `jobs/mod.rs`, `jobs/worker.rs` |
| `OutputExecutor` | plans on disk, system call by system call | `fixer-sdk/src/output/` |
| `JobEvents` | history, channel, cursors, streams | `jobs/events.rs`, `jobs/mod.rs` |
| `Runs` | chains of retries and corrections, manifests | `api/v1/runs.rs`, `jobs/` |
| `Ingestion` | supervisor, ledger, rule changes, reviews | `ingestion/`, `store/sqlite.rs` |
| `Settings` | load, layering, concurrent replacement, crashes | `fixer-runtime/src/config.rs`, `workspace.rs` |
| `JobConfig` | snapshots of the configuration | `jobs/worker.rs`, `jobs/mod.rs` |
| `Sessions` | registration, login, tabs, cookies, CSRF tokens | `auth/`, `api/v1/auth.rs`, `store/sqlite.rs` |
| `Positions` | sequences by the positions of their items (helpers) | |
| `Merge` | precedence, localized texts, hierarchies | `fixer-core/src/` |
| `CandidateSelection` | search, ranking, candidate groups | `orchestrator.rs`, `fixer-core/src/` |
| `Scrape` | one scrape over its passes | `orchestrator.rs`, `jobs/`, `fixer-cli/` |
| `LocalScan` | local scans, the document of a path | `fixer-provider-local/`, `jobs/worker.rs`, `fixer-cli/` |
| `Organize` | plans of every media kind | `fixer-writer-local/` |
| `Paths` | policy, workspace, executor, packages | `fs_policy.rs`, `workspace.rs`, `path_template.rs`, `executor.rs` |
| `Algorithms` | what must hold of the six modules above, for every input | |
| `...Proofs` | theorems about the module they are named after | |
| `MC...` | the sets, samples and symmetries of the runs | |

`JobLifecycle`, `JobDispatch`, `JobEvents`, `JobConfig`, `Runs` and `Scrape` are
views of one job runtime: the first lets the worker wake at any time and follows
a job to its end; `JobDispatch` follows the wake-ups and lets a claimed job
leave the worker in any way; `Scrape` computes what the stages of `JobLifecycle`
only choose ("contents"); `Runs` relates jobs that follow each other.  What
`OutputExecutor` does in fifty steps is `TaskBegin` and `TaskWrite` in
`JobLifecycle` and `Execute` in `Runs`: it ends, with everything done or with a
failure report.  The algorithms select from lists with `Positions` and build on
each other: `Merge`, `CandidateSelection`, then `Scrape` and `LocalScan`;
`Organize`, then `Paths`. `Algorithms` states what must hold of them.

### JobLifecycle

Columns are functions over job ids: `state`, `kind` (manual, automatic or
preview, the part of the input that steers a job), `approved` (decision and plan
fingerprint; the columns are kept by `COALESCE`, so they outlive a retry),
`report`, `reservation`.  A plan is a pair of a decision and the contents a
reconstruction came to; contents differ when files or providers changed.

A critical section under `operations` is one action.  What the code reads
before it is an action of its own, and the values live in `call[a]` until the
section runs: `ReviewRead`/`ReviewCommit`, `ExecuteRead`/`ReserveCommit`, and
`RecheckRead`/`RecheckCommit` for a job that was not in `planning` when read.
The worker makes the same calls as a client, under its own key.  The
registration permit of `ExecutionTaskRegistry` is held exactly while the call is
at `reserve`.  `task[j]` is the spawned task: it begins to write, has written
with an outcome, and persists it by a compare-and-set.  `disk`, `begun` and
`written` belong to the observer; `orphaned` collects the jobs in `writing`
whose task a fault took away.

A client's future may be dropped at any await (`ClientDropped`), and, as a
fault, inside the commit (`ClientDroppedInCommit`).  Other faults are store
errors that outlast every retry.  `Restart` ends the process in any state and
opens the store again.

### JobDispatch

`tokens` counts the messages in the channel, `request` the submissions on their
way from permit to row to token, `recovery` the task that owes a token to every
row queued at the start.  Tokens name a job in the code, and the worker ignores
the name, so a count is all there is.  Permits occupy slots; when the worker
drops the receiver, waiting senders fail.

### OutputExecutor

Every path holds an entry: an inode with its modification time, the contents,
and who put it there.  A fingerprint is the first two, a hash the second.  A
symlink to a source is an entry that holds the source's path (`PathTo`): the
checks of a plan look at the entry itself, the hashes that are compared with the
manifest and recorded in the report look `Through` it.  Some prior outputs are
such links from the start, others are made by the plans or put there by users.
`checked[e]` keeps what the last check saw, the entries and which of them fitted
the manifest.  An executor walks its plan (never an empty one, which would do
nothing) with one action per system call: `Stage` and `Fill` a temporary file,
`Publish` by `hard_link` (which refuses an existing target) or by `rename`
(which replaces it), `Unlink`, and `Confirm` with the record.  Moves go through
`Reserve`, `Verify`, `Rename`, `Recapture`, `Cleanup`, `CopyFresh`, `Recheck`,
`RenameCopy`, `LastCheck`, `Finish` and `Remove`.  `Rename` between two names of
one inode succeeds and does nothing, as POSIX has it.  `IoFails` lets the call
of any step fail, `Crash` ends an execution for good.  Users edit, replace,
remove and add files; with `Meddling` they also touch what executions have put
there.

### JobEvents

`log` keeps every event of the process by its number, of which only the newest
`HistoryCap` are retained in the code; `stored[j]` counts the states the row has
had.  Transitions publish under the mutex (`Transition`); the event of a
reservation, a review or a completion is published after the mutex has been
released, so it is `owed` for a while and others may pass it.  A subscriber
takes the mutex, publishes the present state if no event of the job is retained,
gets the replay after its cursor and the channel from there on; a cursor of
another epoch or one that has expired is answered by a reset.  `reader[r].got`
belongs to the observer: what the client has seen since `from`.

### Runs

A run is a row with its input (`target`, `retries`, `corrects`), state and
report; `Execute` publishes a first part of the plan's outputs and reports them,
`CrashRuns` leaves a part that no report mentions.  `Manifest(r)` is what the
direct parent has reported.  `RetryRun` only reads: what the handler has
read waits in `asked` while the runs go on, and `InsertRetry` inserts it, or
finds an equal run alive.  People edit files, the provider's data changes.
`after` is history: an earlier attempt of the chain had reported outputs when the
retry read its row.

### Ingestion

One action is one store transaction, one look at the file system or one turn of
the select loop; `engine` is the supervisor's program counter with its locals
(the rules found by a reload, the claims and fingerprints of a scan, the items
left).  `obs` is kept by rule, folder and item, as the code keeps it by
rule and canonical path (`Retained` drops what a scan has not seen, also what was
observed in the folder a rule has left), and has the age of an observation
instead of its time; `lag` is the
time that passes between the evaluation of a scan and the insertion of an
observation.  Rule changes, rescans, mounts, store and watcher errors and
restarts share the bound `MaxUpsets`; files change `MaxVersion` times.

### Settings, JobConfig

A configuration is reduced to a plain field and one token with its origins: a
value, a reference to a variable, a variable that overrides both.  Requests
replace the field, the token and the reference; at every start the variables of
the environment override the field and the reference, under their present and
their old names (`Overridden`).  A request edits a copy
(`Edit`), takes the persistence lock and resolves references (`TakeLock`), writes
the file (`Persist`), then swaps the memory (`Swap`).  `JobConfig` reduces the
configuration to its version: `queuedAt` is the version in use when the attempt
was queued, `used` the one it runs with.

### Sessions

Tokens are numbers, a row holds the CSRF token it accepts, derived from the
session or drawn by an older version of the program.  `InitSessions` starts from
a new database, from one with a user and a session, or from one of the
startup-password release: its row has a password and no name, so nobody is
registered, and the migrations keep the session (`Inherited`).  Every handler is
split at its awaits: `Register` counts, inserts, and issues a session; a tab's
request leaves with the cookies of its moment, and its response reaches a
browser whose cookies may have changed since.

### Merge, CandidateSelection, Scrape

A document is a record of localized texts, genres, credits, cours and seasons;
normalisation of texts is the constant function `Norm`.  `Scrape` is a state
machine over `stage`: each of `prepare`, `review` and `execute` is a pass of
`Search`, `Fetch` (or `FetchExact` for a named entry) in which every provider
chooses an answer anew, and `Finish...` has the checks that end it.  A stored
decision is an index and a number of accepted conflicts, as in the code.  `sound`
stands for a plan that can be built and is inside the allowed roots, which is the
subject of `Organize` and `Paths`.  The command line takes one pass.

### LocalScan, Organize, Paths

Functions only.  A path is a sequence of names and a name a sequence of parts;
what a file name spells (`S01E02`, a leading number, `Season 1`) is given by
constant functions, so that regular expressions stay out.  `LocalScan` groups
files into documents and says which one the server and the command line take for
a path; `Organize` lays out documents and source files, with all that a writer
plans (the full preset of the command line) or its metadata alone (`Metadata`);
`Paths` follows links through a tree and has the checks of policy, workspace and
executor, and what is left of a title in the name of a package.  Paths are
spelled without `..`, but for the sources of relative links.

### Algorithms

The pure parts have no state, so their properties are stated over *samples*:
a state machine in which an initial state is either one of `Scrape` or carries
one input of one algorithm, and invariants that compare what the algorithm
computes with what it must.  The samples are constants with assumptions that say
what an input is (`IsGroupSample`, `IsMergeSample`, `IsPlanSample`, `IsScanSample`,
`IsTree`): `MCScrape` and
`MCPaths` give them values, and a theorem about them is one about every input.

### MCServer, MCScrape

The small state machines share no variables.  `MCServer` checks five of them in
one run: every initial state belongs to one part, only that part moves, and the
others stay in one initial state, so that the parts add up instead of
multiplying.  Jobs that only have events and clients that put settings are
interchangeable (`Symmetry`).  `MCScrape` does the same with the behaviours of
`Scrape` and the samples of `Algorithms`.

## 3. Runs

| Run | Instance | Shows |
| --- | --- | --- |
| `safety` | one job of any kind, two requests, two contents, two keys, two restarts, one fault | at most once, as approved, fail closed, truthful states, drained shutdown; `Safe` is an invariant and `ApprovedWrites` is implemented |
| `two_jobs` | two automatic jobs, one request, one fault, fairness | the worker settles every job it claimed, every write has its task; stages end (`StagesEnd`), writes are recorded, shutdowns end (`ShutdownEnds`) |
| `dispatch` | two jobs, two submissions, one slot, a restart, a dropped future, fairness | every queued row has a token coming and is claimed, submissions return (`RequestsReturn`) |
| `create` | two no-overwrite executions at one target, a remote source, an edit, a fault, a crash | no clobbering, no lost medium |
| `replace` | a correction over a prior output, a hardlink or a symlink, beside a first run or another correction, users who touch everything, an unauditable path | nothing the last check saw is replaced without the manifest, writes appear whole, what is published is reported |
| `ingestion` | one rule, one folder, an item with two versions, one of them ambiguous, one request, one upset, fairness | one job per source, nothing observed is forgotten, automatic jobs have the kind of their version, what stays still is handled |
| `server` | events: 2 jobs, a reader, 2 of 4 events retained, 2 processes; runs: 3 runs, 1 retry between its read and its insert, 2 incidents; settings: 2 writers, 2 puts, a restart; config: 2 updates, a restart; sessions: 2 people, 2 tabs, 2 tokens, three kinds of databases, expiry | streams without gaps, states in order (`StatesInOrder`); chains that neither block nor clobber; no secret of the environment in the file (`SecretsStayOut`), which a restart loads as what is in use, overridden by the environment (`FileIsCurrent`); no attempt with an older configuration (`FreshSnapshot`); one administrator (`OneAdministrator`), CSRF tokens that stay good (`IssuedCsrfHolds`) |
| `scrape` | scrapes of 3 providers; all lists of up to 4 of 6 candidates; triples of documents; up to 5 of 12 files to organise; up to 4 files of a library; trees with up to 2 links | automatic jobs write complete and agreed data (`AutomaticIsClean`), groups are one work (`GroupIsOneWork`), merges follow precedence (`MergeByPrecedence`), plans are sound, documents are the path's own, paths stay inside the roots |

`unreachable`, `failed_early`, `dropped_commit` and `symlink_refused` are the
subject of section 4.

*Bounds.*  Jobs interact through the worker (one), the channel and nothing else:
one job with two requests and the worker has every race over a row, and two
jobs are enough for the worker to drop one for another.  Two requests, because
the races found need one actor between the read and the commit of another.  Two
contents tell an approved plan from a stale one, two keys a repeated request
from a competing one.  Two restarts allow a crash, a recovery and a crash of
what was recovered.  Two submissions over one slot leave one waiting while it
is taken.  Two executions and one target are every pairwise race on a path; a
plan of two operations has a first one that is on disk when the second fails.
One item is enough for `Ingestion`, whose items meet only in that one's failure
ends the scan of all (`Upset` covers it), and one upset between two versions is
a rule change, a restart or an error at every point of a scan.  Its one folder
keeps the run with liveness small; moves between folders are covered by the
theorems, and were explored with `Dirs = {"d", "e"}` and without fairness (8.7
million states, no violation).  Four events over
a history of two expire, lag and wrap; three runs are a run, its retry and the
retry of that, and one that is asked for while the runs go on has every race
with them.  Two writers, tabs and people are all pairs.  The `Max...`
constants bound the faults, edits, crashes and restarts.  The samples of `scrape`
have each case of the algorithms: agreement, disagreement and absence in every
field that is merged, every media kind, names with one, several and no episodes,
tags that contradict names, links that are relative, dangling or on one another.

*Preconditions.*  `OwnDocument` assumes `PlainLayout`: no season folder in a
season folder, no disc folder in a disc folder and CUE sheets alone in disc
folders (section 4 says what happens otherwise).  The files of a scan have
different paths, and none is a directory of another; a music file says whether
it is a track or a CUE sheet, and ISBNs are numbers (`IsScanSample`).  A plan
sample has a writer's plan of operations, whose targets need not differ: none is
a medium, and only a write has content; a manifest names targets of the plan,
and a series has none (`IsLaidOut`).  The NFO of an episode has a name that is
read as that episode, and other files of a series have not.  The files are those
of one directory or one file, and what is written as the folder of a season is
read as that season (`IsPlanSample`). TLC evaluates these assumptions on every
sample of `scrape`, whose plans are all laid out by the writers' own functions.
A merge sample is a list of at least one document in which an episode has one
number in its season (`NumberedOnce`); in a tree everything lies in a directory,
and spelled paths go down.  `PlanIsSound` speaks of plans that are not refused,
`PathsAreContained` of references that resolve and plans that are accepted.

*Fairness.*  Tokio polls every spawned task, and the futures of requests that
are not dropped, hence weak fairness for worker, calls, tasks and shutdown.
Providers answer or time out.  Slots of a bounded channel are granted in the
order of the requests, hence strong fairness for `Granted`, `Send` and
`RecoverySend`: a waiter cannot be overtaken for ever.  No client, user, fault or
crash is obliged to happen.  `QueuedRuns` promises no more than the code: an
older job retried again and again is claimed first every time, and `WritesEnd`
excepts jobs whose task a fault took away.  In `Ingestion` the supervisor's task
is polled and time passes (weak); `tokio::select!` chooses at random among the
branches that are ready, so a tick that is ready again and again is taken
(strong, for `DebounceTick` and `PeriodicTick`).

Deadlock checking is off in every run: a pool that has shut down, executions
that have ended, scrapes that are written and samples stop for good.

## 4. Where the code departs from what is said of it

Each of these runs checks one statement of a test, comment or document, and TLC
finds a behaviour of the code that violates it.

* `unreachable`: `execute` reads a job before the mutex.  A job that was
  retried keeps its decision; reviewed in between, it is reserved in the arm
  marked `unreachable!` (`NonPlanningNeverReserves`).  The request panics and the
  job stays in `writing`.
* `failed_early`: a client takes an automatic job over, the worker's own review
  conflicts, and `fail_active` moves the job to `failed` while its files are
  being written (`FailureIsFinal`).
* `dropped_commit`: dropped between the commit of the reservation and the spawn,
  a request leaves a job in `writing` that no task and no shutdown finishes
  (`ShutdownFinishesWrites`).
* `symlink_refused`: a symlink placement is planned with a source relative to
  the folder of its target; `FsPolicy` resolves it through that folder, which
  does not exist yet, and refuses the plan (`SymlinkJobsArePlanned`).

What else was met while the models were written is listed by component: cases
in which a property needs the exception it has, or behaviour a reader may not
expect.  None of them has a run of its own.

*Executor.*  `execute_replacing` renames over a file that came after its checks
(`ReplacesOnlyChecked` is what does hold).  The source of a cross-device move is
removed by path after its last comparison, though `docs/output.md:132` has it
verified.  Replacing a hardlink by itself leaves the temporary link.  A
no-overwrite move renames over what a replacing execution has put in the place
of its placeholder, so `NeverClobbers` holds among no-overwrite executions only;
a cross-device move shows an empty file at its target before the copy, which
`WritesAppearWhole` excepts; an output whose path the audit record refuses is
published unreported, which `PublishedIsReported` excepts.  The manifest is
compared through symlinks: a person's own link to equal contents passes for the
unchanged output (`executor.rs:92`) and is replaced, the link and not what it
leads to; `ReplacesOnlyChecked` counts it as fitting.

*Events.*  The event of `writing` is published after the mutex is released and
the task is spawned, so `completed` may come before it.  `ensure_state` publishes
only when no event of the job is retained: a new subscriber may begin with a
progress event.

*Runs.*  The retry of a run stuck in `awaiting_confirmation` returns the run
itself.  A retry that stops earlier than its parent, and the retry of a
half-failed correction, has a manifest without the parent's other outputs, and
every further retry is refused.  Two live runs with equal input can exist when
an interrupted run is requeued as a job.  A retry does not look at its run again
before it inserts: if a requeued attempt reports its first outputs in between,
the retry runs as a first one, and those outputs block it; `NeverFirstAgain`
speaks of the retries that have read a report.

*Settings and snapshots.*  Of two concurrent updates of different fields one is
lost, though both are acknowledged: the copy is edited outside the lock.  Plain
overrides from the environment are written into the file by any update, and win
again at the next start over what a request has put in their place, as
`docs/configuration.md` says, so a restart loads what is in use only where the
environment is silent.  A
review of a requeued job that still has an old review takes the snapshot while
the job is queued, so an update in between is not seen.

*Sessions.*  The session of a password-only database stays valid until it
expires, though nobody knows whose it is: neither a registration nor a login
ends it, and `OneAdministrator` excepts it until then.  The response to one
tab's status request may set a CSRF cookie that does not match a session another
tab has begun since, until the next status; a late logout response empties the
cookies of a newer login.

*Ingestion.*  The debounce compares the times at which scans are evaluated, so a
slow scan makes an item stable though it was looked at twice within the window.
Observations are kept by rule and canonical path, so a rule that is
moved takes none to its new folder; the ledger, which knows relative paths, takes
an item there with equal size and time for the one it knows.  An item that
cannot be fingerprinted, or whose job cannot be created, ends the scan of its
rule.  After a review is resolved the next scan sets the source back
to `needs_review`, though it has a job.  A reload works on the list it has read:
a rule just repaired may be disabled, and a rule just disabled may still create
a job.

*Scrapes.*  Documents say that every ranked candidate, or one explicit candidate,
is fetched (`docs/cli.md:48`, `docs/sdk.md:62`); the code fetches the group of the
candidate.  When the first candidate has no year, members of its group may
contradict each other.  A review names an index: providers that answer in another
order when it is decided may plan another candidate than the one shown.
`resolve_automatic` of the SDK merges twice and keeps the conflicts of the second
merge only.  Merging anime drops a language whose text equals another's, and
never reports a conflict; differences in runtime, credits and genres are never
conflicts.

*Scans.*  One series with mixed orderings or one invalid tag fails the scan of
the whole root.  Two series with files in one folder make every file there
belong to several works.  A season folder in a season folder makes its series
the deepest root for the files of the outer one, so the wrong document is
chosen, and so does a disc folder in a disc folder to the album of the outer
one; `PlainLayout` excludes both.  For a movie without a sidecar the command
line ranks the documents of the movies beside it, against the file's own name;
with one it ranks the file's among them (`MovieIsRanked`).  An episode in a cour
folder never finds its series, because the scan starts at its own folder.

*Plans.*  The target of a film or book is made by `set_extension` on the package
name, so "Mr. Nobody (2009)" becomes `Mr.mkv`.  A subtitle whose name continues
the stems of two videos stays where it is while the videos move.
Absolute-ordering NFO files never move beside their video.  A source file whose
target is taken by a metadata write is silently left out.  The anime writer
gives two episodes of one class and number, or two cours of one number, the same
target (`anime.rs:40-51`, `:109-118`); nothing refuses such a plan before its
second write meets the first, and `PlanIsSound` lets two writes share a place
that the writer gave to both, or that is named by the episode of both.  A title
that ends in a dot is refused (`UnsafePath`), one of forbidden characters alone
sanitizes to nothing, and its package is the folder of the author;
`PackagesAreFolders` excepts such titles.

## 5. Proofs

### JobLifecycleProofs

For any sets of jobs, clients, decisions, contents and keys, and any number of
restarts and faults, from `ConstantsAssumption` alone:

* `TypeCorrect`: `Spec => []TypeOK`;
* `SafeCorrect`: `Spec => []Safe`, and from it `AtMostOnceCorrect`,
  `WritesAreApprovedCorrect`, `FailClosedCorrect`, `CompletedIsTruthfulCorrect`
  and `CancelledIsUntouchedCorrect`;
* `PromiseCorrect`: `Spec => PromiseKept`, the refinement of `ApprovedWrites`
  with `claimed` as the jobs that have a reservation and `writes` as `begun`.

None of the properties is inductive.  A call that is about to reserve has
rebuilt its plan some time ago, and the row may have moved: `CallHoldsApproval`
says that it still holds the approved plan, and that the job is at `planning` or
past it.  That is the heart of the argument: within a process no step leads back
from there to a new approval (a retry does, but only from `interrupted`, which
within a process is only entered from the worker's stages, and a restart drops
all calls).  `TaskHoldsApproval` carries the plan on to the task,
`UnreservedIsUntouched` says that nothing touches the disk before a reservation,
and `PlannedIsApproved` that a planned job has a plan.  `Safe` is the
conjunction; TLC checks it in `safety`, and the proof goes action by action.

Three more relate the tasks of a process to the rows of its jobs:

* `WorkerOwnsWorkCorrect` and `WritingIsSupervisedCorrect`.  Both are inductive
  beside `TypeOK`: the worker and the tasks settle a job in the step in which they
  let go of it, requests move rows only between states that have no owner, and
  startup moves what a crash left before anything runs.
* `ShutdownDrainsCorrect`.  Not inductive by itself: a request might still be
  between its reservation and its `spawn`.  `ClosedIsQuiet` says that once the
  pool is closed no call and no worker step is about to reserve, and no task
  is there, because `ShutdownDone` waits for both, and every later request finds
  the pool closed first; `WritingIsSupervised` gives the rest.  TLC checks it in
  `safety`.

### JobDispatchProofs

For any jobs, requests, capacity, restarts and dropped calls
(`DispatchAssumption`): `DispatchTypes`, which has among the rest that the channel
never holds more than its capacity, and `QueuedAreCoveredCorrect`.  A token names
no job, so the proof counts: every step changes the sets of queued rows, of
calls that owe a token and of calls that hold a permit by one element at most,
and the lemmas on cardinalities (`FiniteSetTheorems`) say by how much each sum
moves.  `SlotsSuffice`, messages and permits fit in the channel, is why the token
of a committed row can always be sent; `StopsOnRequest`, the receiver goes for a
shutdown only, is why it is not lost.

### ServerProofs

Sessions, for any people, tabs and tokens.  `SessionsInvariant` is the inductive
invariant: `CreatorInv`, who is about to get a session is the registered user,
because the name of the row with id 1 is set once and a login has read that row;
the session inherited from a password-only database is nobody's for certain, and
never renewed; `MemoryInv`, what a tab remembers is the token derived from its
session, and the row, as long as it is there, accepts it (synchronisation
replaces digests only by the derived one).  `OneAdministratorHolds` and
`IssuedCsrfIsGood` follow.

Runs, for any targets, plans, paths and number of runs, if what people own is not what
an execution reports: `ChainsKeepTheirParent` (`NeverFirstAgain`), whose invariant also
holds of the retries that are asked for and not inserted, and
`PeopleKeepTheirFiles` (`OwnedFilesSurvive`).  The second is an action property,
and its heart is the lemma `OnlyReported`: an admitted plan writes only over
what the parent reported and still is there, and so over nobody's own file.

Snapshots: `SnapshotIsFresh`, because versions only grow, a snapshot is released
whenever a job is queued again, and one taken later is at least as new.

Settings, for any values, tokens, requests and restarts, provided that no secret of
the environment is also one that a user types (`SettingsAssumption`):
`SecretsNeverLeak` and `FileFollowsMemory`.  `LockInv` says that the holder of
the persistence lock is the one between `TakeLock` and `Swap`; `FileInv` that the
file is what is in use, or what its holder is about to use, once the environment
has had its say.  It holds because what a start has overridden, written to the file
and overridden again is the same (`OverriddenOnce`).

Events, for any jobs, readers and capacities (`EventsAssumption`: the channel is
at least as large as the history, as tokio rounds the same number up):

* `EventsInOrder`: the history never names an older state of a job after a newer
  one.  Inductive with `KnownInv`, that no event names a state the row has not
  had, and `OwedInv`, that what is owed is of the kinds that may be late, and
  names only states its row has had.
* `StreamsAreGapless`: per reader, what it has is every event of its job between
  where it began and its cursor (`Has`), and what it is still owed is every one
  between its cursor and the next number of the channel (`Owes`).  The cases that
  need the argument are a replay that starts inside the retained part, and a lag
  that ends the stream before the cursor moves.

### OutputExecutorProofs

For any plans, policies, executors, users and faults:

* `PublishedWhole` (`WritesAppearWhole`): an unfinished file is seen at the target
  of a move only.  `TempInv` says that a temporary file is filled when it is
  published, `FsInv` that no source of a plan is ever unfinished.
* `ReplacesWhatIsChecked` (`ReplacesOnlyChecked`): what a replacing execution
  removes was admitted by the manifest at its last check, directly or through a
  link, or arrived since.
  `Known` relates three observations made at different times: the fingerprints
  of `prepare`, the hashes compared with the manifest, and the entry found by
  the last check; equal fingerprints carry the hash from the one to the other.
* `CreatesClobberNothing` (`NeverClobbers`): if all executions are no-overwrite
  ones and nobody touches what they have put there (`OnlyCreates`, which is what
  the run `create` instantiates; section 4 says why a replacing execution breaks
  it), no step of an execution changes a target that somebody else has filled.
  `Held`: between the reservation of a target and the rename over it, what is
  there is the mover's own placeholder.
* `ReportsAreComplete` (`PublishedIsReported`), for all policies: `ReportInv` says
  of every target whose entry is an execution's own that the report has a line
  for it, or that the operation in hand is about it.  When a failure ends the
  execution, the operation in hand gets its line first; a check that refuses
  plans before anything is published names the first refused operation, and
  `LeastIsIn` says there is one.
* `NoMediumIsLost` (`MediaSurvives`), for no-overwrite executions (`OnlyCreates`).
  Inodes carry the argument: a source's own inode holds that source, and its
  contents are in that inode or in a copy an executor has made (`Sound`,
  `Origins`).  So a comparison of inodes is one of contents.  `MoveInv` says that a
  move that has copied has a true copy of a source that is as it was, and that
  before it removes the source the contents are at a target; no other execution
  takes them from there (`Held`).  `MediaInv` adds that every medium is at its
  source, at a target, or edited; TLC checks it on the instance of `create`.

### IngestionProofs

For any rules, folders, items, versions, requests and restarts:
`SourcesHaveOneJob` (`OneJobPerSource`).  What is inductive is `Ledger`: a job is
the one that the ledger has for its source, or its source has gone with its
rule, whose id is never used again.  The other parts (`FilesInv`, `EngineInv`,
`CallsInv`) say that what the supervisor and the requests carry from one
transaction to the next is about rules and items there have been.

`NothingIsForgotten` (`NothingForgotten`) and `KindsFitTheirVersions`
(`KindFitsVersion`) hold for any number of folders, while rules are added,
changed, moved between folders, paused, resumed and deleted.

Contents never go back to an earlier version.  A scan asks the scanners first
and takes the fingerprints afterwards; if the fingerprint is the one that was
observed before, the version between the two looks is that version, and so the
claims are the claims of the version that is filed.  `LooksInv` states this at
each program counter of a scan, `ObservedInv` that observations were in the
folder it is kept for, `HomesInv` that the supervisor knows a rule in one
version.  `DirtyInv`, `ItemsInv` and `DoneInv` follow the items of a scan until
its rule leaves the dirty set.  `ScanInv` is the conjunction (`ScansAreSound`).
`FitsInv` carries the claims on to rows, calls and jobs.

### ScrapeProofs

For any providers, requests, answers, documents and limits, provided that an answer
is a list or a failure (`ScrapeAssumption`): `AutomaticWritesAreClean`
(`AutomaticIsClean`).  `PassInv` says that the warnings of a pass tell of every
provider that did not answer and of every candidate that was not fetched, and
that it is about the candidate decided on; the execution, which looks at the
warnings, at their number and at the index, lets no other pass through.

The code counts failures by comparing the lengths of lists, so the proof is about
sequences of any length: selected positions (`NthIsIn`, `Picked`, `PickedSet`),
concatenations (`Joined`) and the joined answers (`Flattened`).  That is why
`Positions` selects by positions (`Pick`): nothing can be proved about `SelectSeq`,
which the provers do not expand.

The same lemmas give the group of a candidate for every list of candidates:
`GroupMembers` as a set, without its order; `GroupsAreOneWork`, no provider
contributes two works to it; `GroupsAreDecidedApart`, neither the order of the
others, nor the candidates of some providers, decide whether one of another
provider is taken in.

### AlgorithmProofs

Three of the five invariants over samples, for all samples there are (`SamplesStay`: a
sample never changes, so each theorem is one about the operators).

* `GroupsHold` (`GroupIsOneWork`), from the group as a set: `ReorderedItems` and
  `LeftBehind` say that reordering and leaving out providers do to a list what
  they do to its set.
* `MergesHold` (`MergeByPrecedence`), for any documents and any policy.  A list
  sorted by keys that are all different has one order (`SortsOnce`), and documents
  with equal keys keep theirs, so the order of the answers is forgotten wherever
  precedence decides (`OrderedAlike`).  A field joins the texts of the documents in
  their rank (`OffersInRank`), and what is kept of a key is the first
  (`UniqueKeeps`, `KeptIs`), hence from the best ranked provider.  `LocalizedTells`
  says that the conflicts of a field are exactly the pairs of texts that differ
  from one that was kept.  For television, seasons and episodes come
  from sets (`MergedNumbers`), and the path of a conflict tells season, episode and
  field apart from every other (`SeasonTells`, `EpisodesTell`); that is where
  `NumberedOnce` is needed.
* `PathsHold` (`PathsAreContained`), for any tree with links.  Resolution is recursive
  twice: link by link, with a bound on links, and name by name.  `Walks` and
  `FollowIs` carry one statement through both: what is reached is an entry of the
  tree whose path has no link in it, and resolving that path again stays where it
  is (`Itself`).  From there on paths are plain, and containment is a
  prefix (`AllowedBelow`).  What the policy does to a path whose end is missing, and
  the executor by walking it, meet in `TailLeads` and `SafeIsPlain`; a relative
  link, spelled with `..`, leads back to its source, both for the executor, who
  walks it (`LinkLeads`), and for the policy, which normalises it first
  (`LinkSpelled`).  For removals, the tree without a file resolves every path as
  before, or loses it with the file (`FollowGone`).

### LibraryProofs

The other two, for any files of any library and any plan of a writer.

* `DocumentsHold` (`OwnDocument`).  A scan is described by what it finds and not by
  how: `Finds` says that each file that tells its work has a document with the
  file, its root and its work's title, and that every document has the root of one of them.
  `SeriesFound`, `AnimeFound`, `AlbumsFound` and `BooksFound` show it for each kind of
  scan; a book's work is that of the first file with its ISBN, which
  later files do not take away (`FirstStays`, `WorkIs`).  What is chosen for
  a path is then a question of roots: under `PlainLayout` the deepest root around a file is its own
  document's (`DeepestRoot`), and a directory has one document only if all that
  tell their work below it agree (`WholeIs`).  Movies have no root but their own
  sidecar; a movie file has its own document, and one that the command line
  ranks has its title (`ChosenMovie`).  For the other kinds the command line takes
  the document that the server takes, or none (`CommandIs`).
* `OrganizingHolds` (`PlanIsSound`).  `PlansAreSound`, for one plan: everything is
  placed strictly below the package (`PlacedWithin`, `WrittenWithin`).  No medium is
  left out, because nothing that is written has the extension of one (`WrittenWithin`).  The
  NFO of an episode goes beside its video, under the video's name, where nothing
  else is planned, since a name in a plan is read as an episode only if it is
  one's NFO (`BesideAlone`).  That two of them never meet (`BesideApart`) rests on
  the one episode of each video in a plan that is not ambiguous, and on the folder
  of a season being read back as its season.  Writes that share a place did so in
  the writer's plan, or are NFO files of one episode (`WritesApart`).  Manifests follow what is
  kept of a plan (`MetadataIs`), and a relative link leads back, however
  often it goes up (`LinkFollowed`, from `RelativePathIs`).  `PackagesHold`, for
  the folders of a package: a text is cut at each slash and nowhere
  else (`NextNth`, `SegmentsIs`), a sanitized title has no slash left (`SanitizeIs`),
  so a built-in template makes one folder of it (`SegmentsOne`), or two with the
  artist's or author's (`SegmentsTwo`).

Both attempts corrected the model.  That only a write has content and that a series
writes no manifest was used and not stated of the inputs (`IsLaidOut`), and
`PlainLayout` did not exclude a disc folder in a disc folder, where `OwnDocument` is
false and which is a case of section 4 now.

### Model-checked only

* Liveness (`StableIsHandled`, `QueuedRuns`, `RequestsReturn`, `StagesEnd`, `WritesEnd`,
  `ShutdownEnds`): the fairness speaks of `ENABLED`.
* That the writers' own plans, `TelevisionPlan` to `BookPlan`, are as
  `IsLaidOut` says: their names are spelled from numbers, about which the provers
  know nothing.
* Of `Merge`, the union of equal credits; of `Paths`, `SymlinkJobsArePlanned`,
  which is false.

## 6. Not modelled

* Remote providers and parsers: each translates one document; a provider's
  answer is a choice of `Scrape`.  HTTP client, media model (validated records),
  Web application, build files.
* Store lease and schema: one process has the store, which `JobLifecycle`
  assumes; `serve_inner`, which orders the shutdown of HTTP, ingestion and
  workers.
* In the modelled components: the text and limits of summaries, artifacts and
  queries, which change nothing; `CreateDirectory`, dry runs, the reflink
  fallback and the Windows variants of the executor; the overlap filter of
  destinations and the limits of ingestion; API tokens, origins, proxies and
  throttling; validation of configuration fields; locale tags, artwork and
  ratings of documents; the bytes of files.

## 7. Plan

The modules of section 2 are written and checked.  What would come next, in
this order:

1. `serve_inner` above `JobLifecycle` and `Ingestion`: in which order HTTP, the
   supervisor and the workers stop, and the store lease that lets a second
   process in.
2. API tokens beside sessions; validation of configuration fields in `Settings`.
