------------------------------ MODULE Ingestion ------------------------------
(***************************************************************************)
(* Folder ingestion: the supervisor that scans the folders of enabled      *)
(* rules, waits until an item has stopped changing, enters its fingerprint *)
(* in a persistent ledger and creates a job for it; the requests that      *)
(* change rules, resolve reviews and ask for the job of a folder           *)
(* meanwhile; the people who copy files into the folders; restarts.        *)
(*                                                                         *)
(* One action is one store transaction, one look at the file system or     *)
(* one turn of the supervisor's select loop.                               *)
(***************************************************************************)
EXTENDS Integers, Sequences, FiniteSets

CONSTANTS Rules,       \* ids of ingestion_rules, never used twice
          Dirs,        \* source directories
          Removed,     \* directories of roots that are no longer configured
          Items,       \* relative paths beneath a source directory
          MaxVersion,  \* an item's contents change at most so often
          Kinds(_),    \* the scanners that claim a version of an item
          Broken,      \* versions that cannot be fingerprinted
          Modes,       \* "auto" or the one kind of a fixed rule
          Callers,     \* requests in flight
          Debounce,    \* ticks an observation has to last
          HasWatcher,  \* whether the platform provides a watcher
          NoticeCap,   \* capacity of the notification channel
          MaxUpsets,   \* rule changes, rescans, mounts, store and watcher errors, and restarts together
          NoRow,       \* no row of ingestion_sources, no observation
          Unused, Deleted  \* a rule id not given yet, and one that never is again

ASSUME IngestionAssumption ==
    /\ Removed \subseteq Dirs
    /\ MaxVersion \in Nat \ {0} /\ Debounce \in Nat \ {0} /\ NoticeCap \in Nat \ {0}
    /\ MaxUpsets \in Nat /\ HasWatcher \in BOOLEAN

VARIABLES files,     \* what is in the directories
          lost,      \* directories that are not there at the moment
          rules,     \* table ingestion_rules
          rows,      \* table ingestion_sources, by its unique key
          jobs,      \* the jobs created for sources, in order
          engine,    \* the supervisor's program counter and locals
          active, dirty, obs, watched,  \* fields of Engine
          notices, event,               \* its two channels
          calls,     \* requests
          upsets

vars == <<files, lost, rules, rows, jobs, engine, active, dirty, obs, watched, notices,
          event, calls, upsets>>
tables == <<rules, rows, jobs>>
memory == <<active, dirty, obs, watched, notices, event>>
disk == <<files, lost>>

Versions == 1..MaxVersion
Keys == Rules \X Items \X Versions
Statuses == {"processing", "needs_review", "paused", "error"}
AllKinds == UNION {Kinds(v) : v \in Versions}
Row == [status: Statuses, review: SUBSET AllKinds, job: Nat]
ASSUME NoRowAssumption == NoRow \notin Row /\ NoRow \notin [v: Versions, age: Nat]
Rule == [enabled: BOOLEAN, dir: Dirs, mode: Modes, error: {"none", "watcher", "scan", "removed"}]
ASSUME RuleAssumption == Unused # Deleted /\ Unused \notin Rule /\ Deleted \notin Rule
Resolved == [id: Rules, dir: Dirs, mode: Modes, error: {"none", "watcher", "scan", "removed"}]
Idle == [pc |-> "idle"]
Process(todo) == IF todo = {} THEN Idle ELSE [pc |-> "process", todo |-> todo]
Starting == [pc |-> "reload", after |-> "process"]
At(s) == engine.pc = s
\* The supervisor goes on with what it knows and some more.
With(new) == [f \in DOMAIN new \cup DOMAIN engine |-> IF f \in DOMAIN new THEN new[f] ELSE engine[f]]
Ids(set) == {a.id : a \in set}
\* Observations are kept by the canonical path of an item, not by the path beneath its rule's folder.
Unobserved == [d \in Dirs |-> [i \in Items |-> NoRow]]
Lesser(a, b) == IF a < b THEN a ELSE b
\* One more of what is bounded: a change, an error, a restart.
Upset == upsets < MaxUpsets /\ upsets' = upsets + 1
-----------------------------------------------------------------------------
(* What discovery makes of an item: the scanners the rule's mode allows. *)
Claims(mode, v) == IF mode = "auto" THEN Kinds(v) ELSE Kinds(v) \cap {mode}
Outcome(claims) == CASE claims = {} -> "ignored"
                     [] Cardinality(claims) = 1 -> "ready"
                     [] OTHER -> "review"
Here(d) == IF d \in lost THEN {} ELSE {i \in Items : files[d][i].here}

(* Statements of the store. *)
Exists(r) == rules[r] \notin {Unused, Deleted}
Listed == {[id |-> r, dir |-> rules[r].dir, mode |-> rules[r].mode, error |-> rules[r].error] :
             r \in {s \in Rules : Exists(s) /\ rules[s].enabled}}
WithError(set, e) == [r \in Rules |-> IF r \in set /\ Exists(r)
                                      THEN [rules[r] EXCEPT !.error = e] ELSE rules[r]]
DisableRule(r) == [rules EXCEPT ![r] = IF Exists(r) THEN [@ EXCEPT !.enabled = FALSE, !.error = "removed"]
                                                    ELSE @]
Inserted(k) == IF rows[k] = NoRow
               THEN [rows EXCEPT ![k] = [status |-> "processing", review |-> {}, job |-> 0]] ELSE rows
WithStatus(k, s) == [rows EXCEPT ![k].status = s]
WithReview(k, kinds) == [rows EXCEPT ![k].status = "needs_review", ![k].review = kinds]
Paused(r) == [k \in Keys |-> IF k[1] = r /\ rows[k] # NoRow
                             THEN [rows[k] EXCEPT !.status = "paused", !.review = {}] ELSE rows[k]]
Reviewable(k) == rows[k] # NoRow /\ rows[k].status = "needs_review" /\ rows[k].job = 0

CreateUnchecked(k, kind, auto) ==
    /\ rows[k] # NoRow
    /\ jobs' = Append(jobs, [key |-> k, kind |-> kind, auto |-> auto])
    /\ rows' = [rows EXCEPT ![k] = [status |-> "processing", review |-> {}, job |-> Len(jobs')]]
\* create_for_source: insert the job and give it to the source in one transaction, which is
\* rolled back when the source has a job by now; that job is the answer then.
CreateForSource(k, kind, auto) ==
    /\ rows[k] # NoRow
    /\ IF rows[k].job = 0
       THEN /\ jobs' = Append(jobs, [key |-> k, kind |-> kind, auto |-> auto])
            /\ rows' = [rows EXCEPT ![k] = [status |-> "processing", review |-> {}, job |-> Len(jobs')]]
       ELSE UNCHANGED <<jobs, rows>>

Init ==
    /\ files = [d \in Dirs |-> [i \in Items |-> [v |-> 0, here |-> FALSE]]]
    /\ lost = {}
    /\ \E r \in Rules, m \in Modes, d \in Dirs :
          rules = [s \in Rules |-> IF s = r THEN [enabled |-> TRUE, dir |-> d, mode |-> m, error |-> "none"]
                                            ELSE Unused]
    /\ rows = [k \in Keys |-> NoRow]
    /\ jobs = <<>>
    /\ engine = Starting
    /\ active = {} /\ dirty = {} /\ obs = [r \in Rules |-> Unobserved] /\ watched = {}
    /\ notices = 0 /\ event = "none"
    /\ calls = [c \in Callers |-> Idle]
    /\ upsets = 0
-----------------------------------------------------------------------------
(* The select loop. *)
TakeNotice ==      \* a rescan reloads as well, and a reload marks every active rule dirty
    /\ At("idle") /\ notices > 0
    /\ notices' = notices - 1
    /\ engine' = [pc |-> "reload", after |-> "idle"]
    /\ UNCHANGED <<tables, disk, active, dirty, obs, watched, event, calls, upsets>>

TakeEvent ==
    /\ At("idle") /\ event # "none"
    /\ event' = "none"
    /\ dirty' = IF event = "change" THEN Ids(active) ELSE dirty
    /\ rules' = IF event = "error" THEN WithError(Ids(active), "watcher") ELSE rules
    /\ UNCHANGED <<rows, jobs, disk, engine, active, obs, watched, notices, calls, upsets>>

DebounceTick ==
    /\ At("idle") /\ dirty # {}
    /\ engine' = Process(dirty)
    /\ UNCHANGED <<tables, disk, memory, calls, upsets>>

PeriodicTickDirty ==
    /\ At("idle")
    /\ engine' = Process(dirty)
    /\ UNCHANGED <<tables, disk, memory, calls, upsets>>
PeriodicTick ==
    /\ At("idle")
    /\ engine' = [pc |-> "reload", after |-> "process"]
    /\ UNCHANGED <<tables, disk, memory, calls, upsets>>

Stop ==
    /\ At("idle") /\ Upset
    /\ engine' = [pc |-> "stopped"]
    /\ UNCHANGED <<tables, disk, memory, calls>>
-----------------------------------------------------------------------------
(* Engine::reload: list the rules, resolve their directories one by one, watch them. *)
AfterReload(next, d) == IF next = "idle" THEN Idle ELSE Process(d)

ReloadRead ==
    /\ At("reload")
    /\ \/ /\ engine' = [pc |-> "resolve", after |-> engine.after, todo |-> Listed, found |-> {}]
          /\ UNCHANGED upsets
       \/ Upset /\ engine' = AfterReload(engine.after, dirty)
    /\ UNCHANGED <<tables, disk, memory, calls>>

Resolve ==
    /\ At("resolve")
    /\ \E a \in engine.todo :
          LET missing == a.dir \in lost \cup Removed
          IN /\ engine' = [engine EXCEPT !.todo = @ \ {a},
                                         !.found = IF missing THEN @ ELSE @ \cup {a}]
             /\ rules' = IF a.dir \in Removed THEN DisableRule(a.id)
                         ELSE IF missing THEN WithError({a.id}, "scan") ELSE rules
    /\ UNCHANGED <<rows, jobs, disk, memory, calls, upsets>>

\* Watches that fail leave an error on their rules; those that hold clear the error the rule
\* had when it was listed.
SyncWatches(found, failed) ==
    LET desired == {a.dir : a \in found} \ failed
    IN /\ watched' = IF HasWatcher THEN desired ELSE {}
       /\ rules' = [r \in Rules |->
            IF ~Exists(r) \/ r \notin Ids(found) THEN rules[r]
            ELSE IF ~HasWatcher \/ (\E a \in found : a.id = r /\ a.dir \in failed)
                 THEN [rules[r] EXCEPT !.error = "watcher"]
            ELSE IF \E a \in found : a.id = r /\ a.error # "none" THEN [rules[r] EXCEPT !.error = "none"]
            ELSE rules[r]]

ReloadEnd ==
    /\ At("resolve") /\ engine.todo = {}
    /\ \E failed \in SUBSET ({a.dir : a \in engine.found} \ watched) :
          /\ IF failed = {} THEN UNCHANGED upsets ELSE HasWatcher /\ Upset
          /\ SyncWatches(engine.found, failed)
    /\ active' = engine.found
    /\ dirty' = Ids(engine.found)
    /\ obs' = [r \in Rules |-> IF r \in dirty' THEN obs[r] ELSE Unobserved]
    /\ engine' = AfterReload(engine.after, dirty')
    /\ UNCHANGED <<rows, jobs, disk, notices, event, calls>>
-----------------------------------------------------------------------------
(* Engine::process_dirty and reconcile_rule. *)
\* An error of any step ends the reconciliation of the rule; it stays dirty.
Fail ==
    /\ engine' = Process(engine.todo)
    /\ rules' = WithError({engine.rule.id}, "scan")

Discover ==
    /\ At("process")
    /\ \E a \in {x \in active : x.id \in engine.todo} :
          IF a.dir \in lost
          THEN engine' = Process(engine.todo \ {a.id}) /\ rules' = WithError({a.id}, "scan")
          ELSE /\ engine' = [pc |-> "fingerprint", todo |-> engine.todo \ {a.id}, rule |-> a,
                             claims |-> [i \in Here(a.dir) |-> Claims(a.mode, files[a.dir][i].v)]]
               /\ UNCHANGED rules
    /\ UNCHANGED <<rows, jobs, disk, memory, calls, upsets>>

Fingerprint ==
    /\ At("fingerprint")
    /\ LET d == engine.rule.dir
           found == DOMAIN engine.claims
       IN IF \E i \in found : i \notin Here(d) \/ files[d][i].v \in Broken
          THEN Fail
          ELSE /\ engine' = With([pc |-> "pause",
                   seen |-> [i \in found |-> [claims |-> engine.claims[i], v |-> files[d][i].v]]])
               /\ UNCHANGED rules
    /\ UNCHANGED <<rows, jobs, disk, memory, calls, upsets>>

StableAtOnce(a, seen) == DOMAIN seen
\* Observations that have lasted: compared with the time at which the scan is evaluated.
Stable(a, seen) == {i \in DOMAIN seen : LET o == obs[a.id][a.dir][i] IN
                                        o # NoRow /\ o.v = seen[i].v /\ o.age >= Debounce}

Pause ==
    /\ At("pause")
    /\ \/ /\ rows' = Paused(engine.rule.id)
          /\ engine' = With([pc |-> "items", left |-> DOMAIN engine.seen, lag |-> 0,
                             stable |-> Stable(engine.rule, engine.seen)])
          /\ UNCHANGED <<rules, upsets>>
       \/ Upset /\ Fail /\ UNCHANGED rows
    /\ UNCHANGED <<jobs, disk, memory, calls>>

Observe ==
    /\ At("items")
    /\ \E i \in engine.left \ engine.stable :
          LET r == engine.rule.id
              d == engine.rule.dir
              v == engine.seen[i].v
          IN /\ obs' = IF obs[r][d][i] # NoRow /\ obs[r][d][i].v = v
                       THEN obs ELSE [obs EXCEPT ![r][d][i] = [v |-> v, age |-> engine.lag]]
             /\ engine' = [engine EXCEPT !.left = @ \ {i}]
    /\ UNCHANGED <<tables, disk, active, dirty, watched, notices, event, calls, upsets>>

\* process_item: reserve_source, whose foreign key fails when the rule has been deleted.
ReserveSource ==
    /\ At("items")
    /\ \E i \in engine.left \cap engine.stable :
          LET k == <<engine.rule.id, i, engine.seen[i].v>>
          IN \/ /\ Exists(k[1])
                /\ rows' = Inserted(k)
                /\ engine' = With([pc |-> "settle", key |-> k, job |-> rows'[k].job])
                /\ UNCHANGED <<rules, upsets>>
             \/ ~Exists(k[1]) /\ Fail /\ UNCHANGED <<rows, upsets>>
             \/ Upset /\ Fail /\ UNCHANGED rows
    /\ UNCHANGED <<jobs, disk, memory, calls>>

ItemDone == engine' = [engine EXCEPT !.pc = "items", !.left = @ \ {engine.key[2]}]

\* ... then what the outcome asks for. The job of the source is the one reserve_source returned.
Settle ==
    /\ At("settle")
    /\ LET k == engine.key
           claims == engine.seen[k[2]].claims
       IN /\ rows[k] # NoRow
          /\ \/ Outcome(claims) = "ignored" /\ rows' = WithStatus(k, "paused") /\ UNCHANGED jobs
             \/ Outcome(claims) = "review" /\ rows' = WithReview(k, claims) /\ UNCHANGED jobs
             \/ /\ Outcome(claims) = "ready" /\ engine.job # 0
                /\ rows' = WithStatus(k, "processing") /\ UNCHANGED jobs
             \/ /\ Outcome(claims) = "ready" /\ engine.job = 0
                /\ \E kind \in claims : CreateForSource(k, kind, TRUE)
    /\ ItemDone
    /\ UNCHANGED <<rules, disk, memory, calls, upsets>>

\* The source is gone with its rule, the job cannot be created (the item has been moved away,
\* or the store fails), which marks the source, or the store fails at a status.
SettleFails ==
    /\ At("settle")
    /\ LET k == engine.key
           creates == Outcome(engine.seen[k[2]].claims) = "ready" /\ engine.job = 0
       IN \/ rows[k] = NoRow /\ UNCHANGED <<rows, upsets>>
          \/ /\ rows[k] # NoRow /\ creates
             /\ IF k[2] \in Here(engine.rule.dir) THEN Upset ELSE UNCHANGED upsets
             /\ rows' = WithStatus(k, "error")
          \/ rows[k] # NoRow /\ ~creates /\ Upset /\ UNCHANGED rows
    /\ Fail
    /\ UNCHANGED <<jobs, disk, memory, calls>>

FinishRuleAnyway ==
    /\ At("items") /\ engine.left = {}
    /\ dirty' = dirty \ {engine.rule.id}
    /\ engine' = Process(engine.todo)
    /\ UNCHANGED <<tables, disk, active, obs, watched, notices, event, calls, upsets>>
\* Only what was seen stays observed. The rule stays dirty while an item is not stable yet.
Retained(a, seen) ==
    [d \in Dirs |-> [i \in Items |-> IF d = a.dir /\ i \in DOMAIN seen THEN obs[a.id][d][i] ELSE NoRow]]
FinishRule ==
    /\ At("items") /\ engine.left = {}
    /\ obs' = [obs EXCEPT ![engine.rule.id] = Retained(engine.rule, engine.seen)]
    /\ dirty' = IF engine.stable = DOMAIN engine.seen THEN dirty \ {engine.rule.id} ELSE dirty
    /\ engine' = Process(engine.todo)
    /\ UNCHANGED <<tables, disk, active, watched, notices, event, calls, upsets>>
-----------------------------------------------------------------------------
(* Requests: resolve_review, and create_rule_job for a folder that holds one item. *)
Request(c, s) == calls' = [calls EXCEPT ![c] = s]

ReviewRead(c) ==
    /\ calls[c] = Idle
    /\ \E k \in {l \in Keys : Reviewable(l)} : \E kind \in rows[k].review :
          /\ rules[k[1]].dir \notin lost \cup Removed
          /\ Request(c, [pc |-> "create", key |-> k, kind |-> kind, auto |-> TRUE])
    /\ UNCHANGED <<tables, disk, engine, memory, upsets>>

RuleJobRead(c) ==      \* without an override of the rule's kind
    /\ calls[c] = Idle
    /\ \E a \in Listed, i \in Items :
          /\ a.dir \notin Removed /\ i \in Here(a.dir)
          /\ \E kind \in Claims(a.mode, files[a.dir][i].v) :
                /\ Outcome(Claims(a.mode, files[a.dir][i].v)) = "ready"
                /\ Request(c, [pc |-> "fingerprint", rule |-> a, item |-> i, kind |-> kind])
    /\ UNCHANGED <<tables, disk, engine, memory, upsets>>

\* An edit between the fingerprint and the reservation is no different from one after it.
RuleJobReserve(c) ==
    /\ calls[c].pc = "fingerprint"
    /\ LET a == calls[c].rule
           i == calls[c].item
           k == <<a.id, i, files[a.dir][i].v>>
           possible == i \in Here(a.dir) /\ k[3] \notin Broken /\ Exists(a.id)
       IN /\ rows' = IF possible THEN Inserted(k) ELSE rows
          /\ Request(c, IF possible /\ rows'[k].job = 0
                        THEN [pc |-> "create", key |-> k, kind |-> calls[c].kind, auto |-> FALSE]
                        ELSE Idle)
    /\ UNCHANGED <<rules, jobs, disk, engine, memory, upsets>>

Create(c) ==
    /\ calls[c].pc = "create"
    /\ CreateForSource(calls[c].key, calls[c].kind, calls[c].auto)
    /\ Request(c, Idle)
    /\ UNCHANGED <<rules, disk, engine, memory, upsets>>

\* The source has gone, the store fails, or the client does: the request ends where it is.
RequestFails(c) ==
    /\ calls[c] # Idle
    /\ \/ calls[c].pc = "create" /\ rows[calls[c].key] = NoRow /\ UNCHANGED upsets
       \/ Upset
    /\ Request(c, Idle)
    /\ UNCHANGED <<tables, disk, engine, memory>>

(* Rule changes. A change that succeeds notifies the supervisor. *)
Notify == notices' = Lesser(notices + 1, NoticeCap)

PutRule ==
    /\ Upset /\ Notify
    /\ \E r \in Rules, on \in BOOLEAN, d \in Dirs \ (lost \cup Removed), m \in Modes :
          /\ rules[r] # Deleted
          /\ rules' = [rules EXCEPT ![r] = [enabled |-> on, dir |-> d, mode |-> m, error |-> "none"]]
    /\ UNCHANGED <<rows, jobs, disk, engine, active, dirty, obs, watched, event, calls>>

DeleteRuleOnly ==
    /\ Upset /\ Notify
    /\ \E r \in Rules : Exists(r) /\ rules' = [rules EXCEPT ![r] = Deleted]
    /\ UNCHANGED <<rows, jobs, disk, engine, active, dirty, obs, watched, event, calls>>
DeleteRule ==
    /\ Upset /\ Notify
    /\ \E r \in Rules :
          /\ Exists(r)
          /\ rules' = [rules EXCEPT ![r] = Deleted]
          /\ rows' = [k \in Keys |-> IF k[1] = r THEN NoRow ELSE rows[k]]
    /\ UNCHANGED <<jobs, disk, engine, active, dirty, obs, watched, event, calls>>

Rescan ==
    /\ Upset /\ Notify
    /\ \E r \in Rules : Exists(r)
    /\ UNCHANGED <<tables, disk, engine, active, dirty, obs, watched, event, calls>>

(* The outside: files, mounts, time, the end of the process. *)
FileEvent(d) == event' = IF d \in watched /\ event = "none" THEN "change" ELSE event

EditFile ==
    /\ \E d \in Dirs \ lost, i \in Items :
          /\ \/ /\ files[d][i].v < MaxVersion
                /\ files' = [files EXCEPT ![d][i] = [v |-> @.v + 1, here |-> TRUE]]
             \/ files[d][i].here /\ files' = [files EXCEPT ![d][i].here = FALSE]
          /\ FileEvent(d)
    /\ UNCHANGED <<lost, tables, engine, active, dirty, obs, watched, notices, calls, upsets>>

Mount ==
    /\ Upset
    /\ \E d \in Dirs : lost' = IF d \in lost THEN lost \ {d} ELSE lost \cup {d}
    /\ UNCHANGED <<files, tables, engine, memory, calls>>

WatcherFails ==
    /\ HasWatcher /\ event = "none" /\ Upset
    /\ event' = "error"
    /\ UNCHANGED <<tables, disk, engine, active, dirty, obs, watched, notices, calls>>

Tick ==
    /\ obs' = [r \in Rules |-> [d \in Dirs |-> [i \in Items |->
                  IF obs[r][d][i] = NoRow THEN NoRow
                  ELSE [obs[r][d][i] EXCEPT !.age = Lesser(@ + 1, Debounce)]]]]
    /\ engine' = IF "lag" \in DOMAIN engine THEN [engine EXCEPT !.lag = Lesser(@ + 1, Debounce)] ELSE engine
    /\ UNCHANGED <<tables, disk, active, dirty, watched, notices, event, calls, upsets>>

Restart ==
    /\ \/ Upset
       \/ At("stopped") /\ UNCHANGED upsets
    /\ engine' = Starting
    /\ active' = {} /\ dirty' = {} /\ watched' = {}
    /\ obs' = [r \in Rules |-> Unobserved]
    /\ notices' = 0 /\ event' = "none"
    /\ calls' = [c \in Callers |-> Idle]
    /\ UNCHANGED <<tables, disk>>
-----------------------------------------------------------------------------
Reload == ReloadRead \/ Resolve \/ ReloadEnd
Reconcile == \/ Discover \/ Fingerprint \/ Pause \/ Observe \/ ReserveSource \/ Settle \/ SettleFails
             \/ FinishRule
Engine == Reload \/ Reconcile
Loop == TakeNotice \/ TakeEvent \/ DebounceTick \/ PeriodicTick \/ Stop
Requests == \E c \in Callers : \/ ReviewRead(c) \/ RuleJobRead(c) \/ RuleJobReserve(c) \/ Create(c) \/ RequestFails(c)
Outside == PutRule \/ DeleteRule \/ Rescan \/ EditFile \/ Mount \/ WatcherFails \/ Tick \/ Restart

Next == Engine \/ Loop \/ Requests \/ Outside
Spec == Init /\ [][Next]_vars

\* The supervisor's task is polled and its blocking scans end; time goes on; select! chooses
\* among the branches that are ready at random.
Fairness == /\ WF_vars(Engine) /\ WF_vars(Tick)
            /\ SF_vars(DebounceTick) /\ SF_vars(PeriodicTick)
FairSpec == Spec /\ Fairness
-----------------------------------------------------------------------------
(* Every column, local of the supervisor and channel stays in its domain, and every source has *)
(* its rule.                                                                                   *)
TypeOK ==
    /\ files \in [Dirs -> [Items -> [v: 0..MaxVersion, here: BOOLEAN]]]
    /\ lost \subseteq Dirs
    /\ rules \in [Rules -> Rule \cup {Unused, Deleted}]
    /\ \A k \in Keys : rows[k] # NoRow =>
          rows[k] \in Row /\ rows[k].job <= Len(jobs) /\ Exists(k[1])
    /\ active \subseteq Resolved /\ Ids(active) \subseteq Rules
    /\ dirty \subseteq Ids(active)
    /\ watched \subseteq Dirs /\ (watched # {} => HasWatcher)
    /\ notices \in 0..NoticeCap /\ event \in {"none", "change", "error"}
    /\ upsets \in 0..MaxUpsets

(* The supervisor, a review and an explicit request may create the job of a source at the same *)
(* time, and again after a restart: an unchanged source has one job, and the ledger knows it.  *)
OneJobPerSource ==
    /\ \A m, n \in 1..Len(jobs) : jobs[m].key = jobs[n].key => m = n
    /\ \A k \in Keys : rows[k] # NoRow /\ rows[k].job # 0 => jobs[rows[k].job].key = k

(* A rule leaves the dirty set only when nothing is owed to what was observed beneath it: every *)
(* observed version of an item is in the ledger, and has its job if it needs no review.         *)
NothingForgotten ==
    At("idle") => \A a \in active : a.id \notin dirty /\ Exists(a.id) =>
        \A i \in Items : obs[a.id][a.dir][i] # NoRow =>
            LET k == <<a.id, i, obs[a.id][a.dir][i].v>>
            IN rows[k] # NoRow /\ (Outcome(Claims(a.mode, k[3])) = "ready" => rows[k].job # 0)

(* Discovery looks at an item before its fingerprint is taken, and the item may change between: *)
(* waiting for a second equal fingerprint is what makes the kind of an automatic job the one of *)
(* the version it is filed under.                                                               *)
KindFitsVersion ==
    \A n \in 1..Len(jobs) : jobs[n].auto => jobs[n].kind \in Kinds(jobs[n].key[3])

(* An item that stays as it is beneath an enabled rule, with nothing beside it that breaks the  *)
(* scan, gets its job, or a review if its kind is ambiguous, whatever happened before.          *)
Calm(r, d, m) == /\ Exists(r) /\ rules[r].enabled /\ rules[r].dir = d /\ rules[r].mode = m
                 /\ d \notin lost \cup Removed
                 /\ \A i \in Items : files[d][i].here => files[d][i].v \notin Broken
                 /\ engine.pc # "stopped"
Handled(k, claims) ==
    /\ rows[k] # NoRow
    /\ Outcome(claims) = "ready" => rows[k].job # 0
    /\ Outcome(claims) = "review" => rows[k].job # 0 \/ Reviewable(k)
StableIsHandled ==
    \A r \in Rules, d \in Dirs, m \in Modes, i \in Items, v \in Versions :
        [](<>~(Calm(r, d, m) /\ files[d][i].here /\ files[d][i].v = v)
           \/ <>Handled(<<r, i, v>>, Claims(m, v)))
=============================================================================
