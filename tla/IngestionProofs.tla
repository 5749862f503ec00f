-------------------------- MODULE IngestionProofs --------------------------
(***************************************************************************)
(* Proofs about Ingestion, for any rules, folders, items, numbers of       *)
(* requests in flight, changes, failures and restarts.                     *)
(***************************************************************************)
EXTENDS Ingestion, TLAPS

Job == [key: Keys, kind: AllKinds, auto: BOOLEAN]

FilesInv == /\ files \in [Dirs -> [Items -> [v: 0..MaxVersion, here: BOOLEAN]]]
            /\ \A d \in Dirs, i \in Items : files[d][i].here => files[d][i].v \in Versions

\* A job is the one its source knows, unless the source has gone with its rule,
\* which is never made again; so no two jobs are for one source.
Ledger ==
    /\ \A m, n \in DOMAIN jobs : jobs[m].key = jobs[n].key => m = n
    /\ \A n \in DOMAIN jobs : LET k == jobs[n].key IN
          /\ rows[k] = NoRow => rules[k[1]] = Deleted
          /\ rows[k] # NoRow => rows[k].job = n
    /\ \A k \in Keys : rows[k] # NoRow /\ rows[k].job # 0 =>
          rows[k].job \in DOMAIN jobs /\ jobs[rows[k].job].key = k

StoreInv ==
    /\ rules \in [Rules -> Rule \cup {Unused, Deleted}]
    /\ rows \in [Keys -> Row \cup {NoRow}]
    /\ jobs \in Seq(Job)
    /\ Ledger

SeenOK(seen) == /\ DOMAIN seen \subseteq Items
                /\ \A i \in DOMAIN seen : seen[i].claims \subseteq AllKinds /\ seen[i].v \in Versions

\* What the supervisor has in hand is about rules and items there have been.
EngineInv ==
    /\ "pc" \in DOMAIN engine
    /\ At("resolve") => /\ {"todo", "found"} \subseteq DOMAIN engine
                        /\ engine.todo \subseteq Resolved /\ engine.found \subseteq Resolved
    /\ At("fingerprint") => /\ {"rule", "claims"} \subseteq DOMAIN engine
                            /\ engine.rule \in Resolved /\ DOMAIN engine.claims \subseteq Items
                            /\ \A i \in DOMAIN engine.claims : engine.claims[i] \subseteq AllKinds
    /\ engine.pc \in {"pause", "items", "settle"} =>
          {"rule", "seen"} \subseteq DOMAIN engine /\ engine.rule \in Resolved /\ SeenOK(engine.seen)
    /\ engine.pc \in {"items", "settle"} =>
          "left" \in DOMAIN engine /\ engine.left \subseteq DOMAIN engine.seen
    /\ At("settle") => /\ {"key", "job"} \subseteq DOMAIN engine
                       /\ engine.key \in Keys /\ engine.key[2] \in DOMAIN engine.seen

CallsInv ==
    /\ DOMAIN calls = Callers
    /\ \A c \in Callers :
          /\ calls[c].pc = "fingerprint" =>
                calls[c].rule \in Resolved /\ calls[c].item \in Items /\ calls[c].kind \in AllKinds
          /\ calls[c].pc = "create" =>
                calls[c].key \in Keys /\ calls[c].kind \in AllKinds /\ calls[c].auto \in BOOLEAN

Inv == FilesInv /\ StoreInv /\ active \subseteq Resolved /\ EngineInv /\ CallsInv

-----------------------------------------------------------------------------
LEMMA RowTypes ==
    /\ \A row \in Row : /\ row # NoRow /\ row.job \in Nat /\ row.review \subseteq AllKinds
                        /\ \A s \in Statuses : /\ [row EXCEPT !.status = s] \in Row
                                               /\ [row EXCEPT !.status = s].job = row.job
    /\ \A s \in Statuses, kinds \in SUBSET AllKinds, n \in Nat :
          [status |-> s, review |-> kinds, job |-> n] \in Row
BY NoRowAssumption DEF Row

LEMMA KeyTypes ==
    /\ \A r \in Rules, i \in Items, v \in Versions : <<r, i, v>> \in Keys
    /\ \A k \in Keys : k[1] \in Rules /\ k[2] \in Items /\ k[3] \in Versions
BY DEF Keys

LEMMA ListedTypes == ASSUME StoreInv PROVE Listed \subseteq Resolved
BY DEF StoreInv, Listed, Exists, Rule, Resolved

LEMMA ClaimTypes == ASSUME NEW m, NEW v \in Versions PROVE Claims(m, v) \subseteq AllKinds
BY DEF Claims, AllKinds

LEMMA HereTypes ==
    ASSUME FilesInv, NEW d \in Dirs, NEW i \in Here(d)
    PROVE  i \in Items /\ files[d][i].v \in Versions
BY DEF FilesInv, Here

\* Rows that keep their job, appear without one, or go with their rule.
LEMMA LedgerKept ==
    ASSUME StoreInv, UNCHANGED jobs, rules' \in [Rules -> Rule \cup {Unused, Deleted}],
           rows' \in [Keys -> Row \cup {NoRow}],
           \A r \in Rules : rules[r] = Deleted => rules'[r] = Deleted,
           \A k \in Keys : \/ rows'[k] = rows[k]
                           \/ rows'[k] # NoRow /\ rows[k] # NoRow /\ rows'[k].job = rows[k].job
                           \/ rows'[k] = NoRow /\ rules'[k[1]] = Deleted
                           \/ /\ rows[k] = NoRow /\ rules[k[1]] # Deleted
                              /\ rows'[k] # NoRow /\ rows'[k].job = 0
    PROVE  StoreInv'
<1>1. \A n \in DOMAIN jobs : jobs[n].key \in Keys /\ jobs[n].key[1] \in Rules
  <2>1. \A n \in DOMAIN jobs : jobs[n] \in Job
    BY DEF StoreInv
  <2> QED BY <2>1, KeyTypes DEF Job
<1>2. ASSUME NEW n \in DOMAIN jobs
      PROVE  /\ rows'[jobs[n].key] = NoRow => rules'[jobs[n].key[1]] = Deleted
             /\ rows'[jobs[n].key] # NoRow => rows'[jobs[n].key].job = n
  BY <1>1 DEF StoreInv, Ledger
<1>3. ASSUME NEW k \in Keys, rows'[k] # NoRow, rows'[k].job # 0
      PROVE  rows'[k].job \in DOMAIN jobs /\ jobs[rows'[k].job].key = k
  BY <1>3 DEF StoreInv, Ledger
<1>4. Ledger'
  BY <1>2, <1>3 DEF StoreInv, Ledger
<1> QED BY <1>4 DEF StoreInv

\* create_for_source numbers the job of a source that has none.
LEMMA Creating ==
    ASSUME StoreInv, NEW k \in Keys, NEW kind \in AllKinds, NEW auto \in BOOLEAN,
           CreateForSource(k, kind, auto), UNCHANGED rules
    PROVE  StoreInv'
<1>1. CASE UNCHANGED <<jobs, rows>>
  BY <1>1 DEF StoreInv, Ledger
<1>2. CASE rows[k].job = 0
  <2> DEFINE job == [key |-> k, kind |-> kind, auto |-> auto]
             row == [status |-> "processing", review |-> {}, job |-> Len(jobs')]
  <2>1. job \in Job /\ jobs \in Seq(Job) /\ jobs' = Append(jobs, job)
    BY <1>2 DEF Job, CreateForSource, StoreInv
  <2>2. /\ jobs' \in Seq(Job) /\ Len(jobs') = Len(jobs) + 1 /\ Len(jobs) \in Nat
        /\ DOMAIN jobs = 1 .. Len(jobs) /\ DOMAIN jobs' = 1 .. Len(jobs')
        /\ jobs'[Len(jobs')] = job /\ \A n \in DOMAIN jobs : jobs'[n] = jobs[n]
    BY <2>1
  <2>3. row \in Row /\ row # NoRow /\ row.job = Len(jobs')
    <3>1. "processing" \in Statuses /\ {} \in SUBSET AllKinds /\ Len(jobs') \in Nat
      BY <2>2 DEF Statuses
    <3> QED BY <3>1, NoRowAssumption DEF Row
  <2>4. /\ rows' \in [Keys -> Row \cup {NoRow}] /\ rows'[k] = row
        /\ \A l \in Keys \ {k} : rows'[l] = rows[l]
    <3>1. rows' = [rows EXCEPT ![k] = row]
      BY <1>2 DEF CreateForSource
    <3> HIDE DEF row
    <3> QED BY <2>3, <3>1 DEF StoreInv
  <2>5. \A n \in DOMAIN jobs : jobs[n].key \in Keys /\ jobs[n].key # k
    <3>1. rows[k] # NoRow
      BY DEF CreateForSource
    <3>2. \A n \in DOMAIN jobs : jobs[n] \in Job
      BY <2>1
    <3> QED BY <1>2, <2>2, <3>1, <3>2 DEF StoreInv, Ledger, Job
  <2>6. \A m, n \in DOMAIN jobs' : jobs'[m].key = jobs'[n].key => m = n
    BY <2>2, <2>5 DEF StoreInv, Ledger
  <2>7. ASSUME NEW n \in DOMAIN jobs'
        PROVE  /\ rows'[jobs'[n].key] = NoRow => rules'[jobs'[n].key[1]] = Deleted
               /\ rows'[jobs'[n].key] # NoRow => rows'[jobs'[n].key].job = n
    <3>1. CASE n = Len(jobs')
      BY <2>2, <2>3, <2>4, <3>1
    <3>2. CASE n \in DOMAIN jobs
      BY <2>2, <2>4, <2>5, <3>2 DEF StoreInv, Ledger
    <3> QED BY <2>2, <3>1, <3>2
  <2>8. ASSUME NEW l \in Keys, rows'[l] # NoRow, rows'[l].job # 0
        PROVE  rows'[l].job \in DOMAIN jobs' /\ jobs'[rows'[l].job].key = l
    <3>1. CASE l = k
      BY <2>2, <2>3, <2>4, <3>1
    <3>2. CASE l # k
      BY <2>2, <2>4, <2>8, <3>2 DEF StoreInv, Ledger
    <3> QED BY <3>1, <3>2
  <2>9. Ledger'
    BY <2>6, <2>7, <2>8 DEF Ledger
  <2> QED BY <2>2, <2>4, <2>9 DEF StoreInv
<1> QED BY <1>1, <1>2 DEF CreateForSource

-----------------------------------------------------------------------------
\* The supervisor between two rules, or out of its reconciliation.
Rests == \/ \E s : engine' = Process(s)
         \/ \E s : engine' = [pc |-> "reload", after |-> s]
         \/ engine' = [pc |-> "stopped"]

LEMMA Resting == ASSUME Rests PROVE EngineInv'
<1>1. "pc" \in DOMAIN engine' /\ engine'.pc \in {"idle", "process", "reload", "stopped"}
  BY DEF Rests, Process, Idle
<1> QED BY <1>1 DEF EngineInv, At

LEMMA SameCalls == ASSUME CallsInv, UNCHANGED calls PROVE CallsInv'
BY DEF CallsInv

LEMMA SameEngine == ASSUME EngineInv, UNCHANGED engine PROVE EngineInv'
BY DEF EngineInv, At

LEMMA SameFiles == ASSUME FilesInv, UNCHANGED files PROVE FilesInv'
BY DEF FilesInv

\* Errors and switches of rules leave the deleted ones deleted.
LEMMA ErrorTypes ==
    ASSUME rules \in [Rules -> Rule \cup {Unused, Deleted}]
    PROVE  /\ \A set, e : e \in {"none", "watcher", "scan", "removed"} =>
                 /\ WithError(set, e) \in [Rules -> Rule \cup {Unused, Deleted}]
                 /\ \A r \in Rules : rules[r] = Deleted => WithError(set, e)[r] = Deleted
           /\ \A r \in Rules :
                 /\ DisableRule(r) \in [Rules -> Rule \cup {Unused, Deleted}]
                 /\ \A s \in Rules : rules[s] = Deleted => DisableRule(r)[s] = Deleted
<1>1. ASSUME NEW r \in Rules, Exists(r), NEW e \in {"none", "watcher", "scan", "removed"}
      PROVE  /\ [rules[r] EXCEPT !.error = e] \in Rule
             /\ [rules[r] EXCEPT !.enabled = FALSE, !.error = e] \in Rule
  <2>1. rules[r] \in Rule
    BY <1>1 DEF Exists
  <2> QED BY <2>1 DEF Rule
<1>2. ASSUME NEW set, NEW e \in {"none", "watcher", "scan", "removed"}
      PROVE  /\ WithError(set, e) \in [Rules -> Rule \cup {Unused, Deleted}]
             /\ \A r \in Rules : rules[r] = Deleted => WithError(set, e)[r] = Deleted
  <2>1. ASSUME NEW r \in Rules
        PROVE  WithError(set, e)[r] \in Rule \cup {Unused, Deleted}
               /\ (rules[r] = Deleted => WithError(set, e)[r] = Deleted)
    BY <1>1 DEF WithError, Exists
  <2> QED BY <2>1 DEF WithError
<1>3. ASSUME NEW r \in Rules
      PROVE  /\ DisableRule(r) \in [Rules -> Rule \cup {Unused, Deleted}]
             /\ \A s \in Rules : rules[s] = Deleted => DisableRule(r)[s] = Deleted
  <2>1. CASE Exists(r)
    <3> DEFINE new == [rules[r] EXCEPT !.enabled = FALSE, !.error = "removed"]
    <3>1. new \in Rule /\ DisableRule(r) = [rules EXCEPT ![r] = new]
      BY <1>1, <2>1 DEF DisableRule
    <3> HIDE DEF new
    <3> QED BY <2>1, <3>1 DEF Exists
  <2>2. CASE ~Exists(r)
    BY <2>2 DEF DisableRule
  <2> QED BY <2>1, <2>2
<1> QED BY <1>2, <1>3

\* A step that changes at most the rules' errors.
LEMMA RulesOnly ==
    ASSUME StoreInv, UNCHANGED <<rows, jobs>>,
           \/ UNCHANGED rules
           \/ \E set : rules' = WithError(set, "scan") \/ rules' = WithError(set, "watcher")
           \/ \E r \in Rules : rules' = DisableRule(r)
    PROVE  StoreInv'
<1>1. /\ rules' \in [Rules -> Rule \cup {Unused, Deleted}]
      /\ \A r \in Rules : rules[r] = Deleted => rules'[r] = Deleted
  BY ErrorTypes DEF StoreInv
<1> QED BY <1>1, LedgerKept DEF StoreInv

\* Status and review of rows that are there change, and no job.
LEMMA RowsOnly ==
    ASSUME StoreInv, UNCHANGED <<rules, jobs>>,
           \/ UNCHANGED rows
           \/ \E k \in Keys, s \in Statuses : rows[k] # NoRow /\ rows' = WithStatus(k, s)
           \/ \E k \in Keys, kinds \in SUBSET AllKinds : rows[k] # NoRow /\ rows' = WithReview(k, kinds)
           \/ \E r \in Rules : rows' = Paused(r)
           \/ \E k \in Keys : Exists(k[1]) /\ rows' = Inserted(k)
    PROVE  StoreInv'
<1> DEFINE Kept(k) == \/ rows'[k] = rows[k]
                      \/ rows'[k] # NoRow /\ rows[k] # NoRow /\ rows'[k].job = rows[k].job
                      \/ /\ rows[k] = NoRow /\ rules[k[1]] # Deleted
                         /\ rows'[k] # NoRow /\ rows'[k].job = 0
<1>1. rows \in [Keys -> Row \cup {NoRow}] /\ \A k \in Keys : rows[k] # NoRow => rows[k] \in Row
  BY DEF StoreInv
<1>2. ASSUME NEW row \in Row, NEW s \in Statuses, NEW kinds \in SUBSET AllKinds
      PROVE  /\ [row EXCEPT !.status = s, !.review = kinds] \in Row
             /\ [row EXCEPT !.status = s, !.review = kinds].job = row.job
  BY DEF Row
<1>3. {"needs_review", "paused", "processing"} \subseteq Statuses /\ {} \in SUBSET AllKinds
  BY DEF Statuses
<1>4. ASSUME NEW k \in Keys, NEW new \in Row, rows[k] # NoRow, new.job = rows[k].job,
             rows' = [rows EXCEPT ![k] = new]
      PROVE  rows' \in [Keys -> Row \cup {NoRow}] /\ \A l \in Keys : Kept(l)
  BY <1>1, <1>4, NoRowAssumption
<1>5. CASE \E k \in Keys, s \in Statuses : rows[k] # NoRow /\ rows' = WithStatus(k, s)
  <2>1. PICK k \in Keys, s \in Statuses : rows[k] # NoRow /\ rows' = WithStatus(k, s)
    BY <1>5
  <2> DEFINE new == [rows[k] EXCEPT !.status = s]
  <2>2. new \in Row /\ new.job = rows[k].job /\ rows' = [rows EXCEPT ![k] = new]
    BY <1>1, <2>1, RowTypes DEF WithStatus
  <2> HIDE DEF new
  <2> QED BY <1>4, <2>1, <2>2, LedgerKept DEF StoreInv
<1>6. CASE \E k \in Keys, kinds \in SUBSET AllKinds : rows[k] # NoRow /\ rows' = WithReview(k, kinds)
  <2>1. PICK k \in Keys, kinds \in SUBSET AllKinds : rows[k] # NoRow /\ rows' = WithReview(k, kinds)
    BY <1>6
  <2> DEFINE new == [rows[k] EXCEPT !.status = "needs_review", !.review = kinds]
  <2>2. new \in Row /\ new.job = rows[k].job
    BY <1>1, <1>2, <1>3, <2>1
  <2>3. rows' = [rows EXCEPT ![k] = new]
    BY <1>1, <2>1 DEF WithReview
  <2> HIDE DEF new
  <2> QED BY <1>4, <2>1, <2>2, <2>3, LedgerKept DEF StoreInv
<1>7. CASE \E r \in Rules : rows' = Paused(r)
  <2>1. PICK r \in Rules : rows' = Paused(r)
    BY <1>7
  <2>2. ASSUME NEW k \in Keys PROVE rows'[k] \in Row \cup {NoRow} /\ Kept(k)
    <3>1. CASE k[1] = r /\ rows[k] # NoRow
      <4> DEFINE new == [rows[k] EXCEPT !.status = "paused", !.review = {}]
      <4>1. new \in Row /\ new.job = rows[k].job /\ rows'[k] = new
        BY <1>1, <1>2, <1>3, <2>1, <3>1 DEF Paused
      <4> HIDE DEF new
      <4> QED BY <3>1, <4>1, NoRowAssumption
    <3>2. CASE ~(k[1] = r /\ rows[k] # NoRow)
      BY <1>1, <2>1, <3>2 DEF Paused
    <3> QED BY <3>1, <3>2
  <2>3. rows' \in [Keys -> Row \cup {NoRow}]
    BY <2>1, <2>2 DEF Paused
  <2> QED BY <2>2, <2>3, LedgerKept DEF StoreInv
<1>8. CASE \E k \in Keys : Exists(k[1]) /\ rows' = Inserted(k)
  <2>1. PICK k \in Keys : Exists(k[1]) /\ rows' = Inserted(k)
    BY <1>8
  <2>2. CASE rows[k] # NoRow
    BY <2>1, <2>2, LedgerKept DEF Inserted, StoreInv
  <2>3. CASE rows[k] = NoRow
    <3> DEFINE new == [status |-> "processing", review |-> {}, job |-> 0]
    <3>1. new \in Row /\ new.job = 0 /\ rows' = [rows EXCEPT ![k] = new]
      BY <1>3, <2>1, <2>3, RowTypes DEF Inserted
    <3> HIDE DEF new
    <3>2. rows' \in [Keys -> Row \cup {NoRow}] /\ \A l \in Keys : Kept(l)
      BY <1>1, <2>1, <2>3, <3>1, NoRowAssumption DEF Exists
    <3> QED BY <3>2, LedgerKept DEF StoreInv
  <2> QED BY <2>2, <2>3
<1>9. CASE UNCHANGED rows
  BY <1>9, LedgerKept DEF StoreInv
<1> QED BY <1>5, <1>6, <1>7, <1>8, <1>9

-----------------------------------------------------------------------------
(***************************************************************************)
(* The supervisor.                                                         *)
(***************************************************************************)

LEMMA LoopKeeps == ASSUME Inv, Loop PROVE Inv'
<1>1. CASE TakeEvent
  <2>1. StoreInv'
    BY <1>1, RulesOnly DEF TakeEvent, Inv
  <2> QED BY <1>1, <2>1, SameFiles, SameEngine, SameCalls DEF TakeEvent, Inv, disk
<1>2. CASE TakeNotice \/ DebounceTick \/ PeriodicTick \/ Stop
  <2>1. Rests
    BY <1>2 DEF TakeNotice, DebounceTick, PeriodicTick, Stop, Rests
  <2>2. UNCHANGED <<rules, rows, jobs, files, active, calls>>
    BY <1>2 DEF TakeNotice, DebounceTick, PeriodicTick, Stop, tables, disk, memory
  <2> QED BY <2>1, <2>2, Resting, RulesOnly, SameFiles, SameCalls DEF Inv
<1> QED BY <1>1, <1>2 DEF Loop

LEMMA SyncWatchesKeeps ==
    ASSUME StoreInv, NEW found, NEW failed, SyncWatches(found, failed), UNCHANGED <<rows, jobs>>
    PROVE  StoreInv'
<1>1. ASSUME NEW r \in Rules
      PROVE  /\ rules'[r] \in Rule \cup {Unused, Deleted}
             /\ rules[r] = Deleted => rules'[r] = Deleted
  <2>1. CASE ~Exists(r) \/ r \notin Ids(found)
    BY <2>1 DEF SyncWatches, StoreInv
  <2>2. CASE Exists(r)
    <3>1. rules[r] \in Rule
      BY <2>2 DEF Exists, StoreInv
    <3>2. [rules[r] EXCEPT !.error = "watcher"] \in Rule /\ [rules[r] EXCEPT !.error = "none"] \in Rule
      BY <3>1 DEF Rule
    <3>3. \/ rules'[r] = rules[r]
          \/ rules'[r] = [rules[r] EXCEPT !.error = "watcher"]
          \/ rules'[r] = [rules[r] EXCEPT !.error = "none"]
      BY DEF SyncWatches
    <3> QED BY <2>2, <3>1, <3>2, <3>3 DEF Exists
  <2> QED BY <2>1, <2>2
<1>2. rules' \in [Rules -> Rule \cup {Unused, Deleted}]
  BY <1>1 DEF SyncWatches
<1> QED BY <1>1, <1>2, LedgerKept DEF StoreInv

LEMMA ReloadKeeps == ASSUME Inv, Reload PROVE Inv'
<1>1. CASE ReloadRead
  <2>1. UNCHANGED <<rules, rows, jobs, files, active, calls>>
    BY <1>1 DEF ReloadRead, tables, disk, memory
  <2>2. EngineInv'
    <3>1. CASE engine' = [pc |-> "resolve", after |-> engine.after, todo |-> Listed, found |-> {}]
      BY <3>1, ListedTypes DEF EngineInv, At, Inv
    <3>2. CASE engine' = AfterReload(engine.after, dirty)
      <4>1. Rests
        BY <3>2 DEF AfterReload, Rests, Process
      <4> QED BY <4>1, Resting
    <3> QED BY <1>1, <3>1, <3>2 DEF ReloadRead
  <2> QED BY <2>1, <2>2, RulesOnly, SameFiles, SameCalls DEF Inv
<1>2. CASE Resolve
  <2>1. PICK a \in engine.todo :
           LET missing == a.dir \in lost \cup Removed
           IN /\ engine' = [engine EXCEPT !.todo = @ \ {a},
                                          !.found = IF missing THEN @ ELSE @ \cup {a}]
              /\ rules' = IF a.dir \in Removed THEN DisableRule(a.id)
                          ELSE IF missing THEN WithError({a.id}, "scan") ELSE rules
    BY <1>2 DEF Resolve
  <2>2. /\ UNCHANGED <<rows, jobs, files, active, calls>> /\ engine.pc = "resolve"
        /\ a \in Resolved /\ a.id \in Rules
    BY <1>2 DEF Resolve, disk, memory, At, Inv, EngineInv, Resolved
  <2>3. PICK found \in {engine.found, engine.found \cup {a}} :
           engine' = [engine EXCEPT !.todo = @ \ {a}, !.found = found]
    BY <2>1
  <2>4. EngineInv'
    BY <2>2, <2>3 DEF Inv, EngineInv, At
  <2>5. StoreInv'
    BY <2>1, <2>2, RulesOnly DEF Inv
  <2> QED BY <2>2, <2>4, <2>5, SameFiles, SameCalls DEF Inv
<1>3. CASE ReloadEnd
  <2>1. /\ UNCHANGED <<rows, jobs, files, calls>> /\ active' \subseteq Resolved
        /\ \E failed : SyncWatches(engine.found, failed)
    BY <1>3 DEF ReloadEnd, disk, Inv, EngineInv, At
  <2>2. Rests
    BY <1>3 DEF ReloadEnd, AfterReload, Rests, Process
  <2> QED BY <2>1, <2>2, Resting, SyncWatchesKeeps, SameFiles, SameCalls DEF Inv
<1> QED BY <1>1, <1>2, <1>3 DEF Reload

\* An error ends the reconciliation of a rule, with the ledger as it may be.
LEMMA FailTypes == ASSUME Fail PROVE Rests /\ \E set : rules' = WithError(set, "scan")
BY DEF Fail, Rests

LEMMA DiscoverKeeps == ASSUME Inv, Discover PROVE Inv'
<1>1. UNCHANGED <<rows, jobs, files, active, calls>>
  BY DEF Discover, disk, memory
<1>2. PICK a \in {x \in active : x.id \in engine.todo} :
         \/ engine' = Process(engine.todo \ {a.id}) /\ rules' = WithError({a.id}, "scan")
         \/ /\ engine' = [pc |-> "fingerprint", todo |-> engine.todo \ {a.id}, rule |-> a,
                          claims |-> [i \in Here(a.dir) |-> Claims(a.mode, files[a.dir][i].v)]]
            /\ UNCHANGED rules
  BY DEF Discover
<1>3. StoreInv'
  BY <1>1, <1>2, RulesOnly DEF Inv
<1>4. EngineInv'
  <2>1. CASE engine' = Process(engine.todo \ {a.id})
    BY <2>1, Resting DEF Rests
  <2>2. CASE engine' = [pc |-> "fingerprint", todo |-> engine.todo \ {a.id}, rule |-> a,
                        claims |-> [i \in Here(a.dir) |-> Claims(a.mode, files[a.dir][i].v)]]
    <3>1. a \in Resolved /\ a.dir \in Dirs
      BY DEF Inv, Resolved
    <3>2. \A i \in Here(a.dir) : i \in Items /\ Claims(a.mode, files[a.dir][i].v) \subseteq AllKinds
      BY <3>1, HereTypes, ClaimTypes DEF Inv
    <3> DEFINE claims == [i \in Here(a.dir) |-> Claims(a.mode, files[a.dir][i].v)]
    <3>3. DOMAIN claims \subseteq Items /\ \A i \in DOMAIN claims : claims[i] \subseteq AllKinds
      BY <3>2
    <3>4. engine' = [pc |-> "fingerprint", todo |-> engine.todo \ {a.id}, rule |-> a, claims |-> claims]
      BY <2>2
    <3> HIDE DEF claims
    <3> QED BY <3>1, <3>3, <3>4 DEF EngineInv, At
  <2> QED BY <1>2, <2>1, <2>2
<1> QED BY <1>1, <1>3, <1>4, SameFiles, SameCalls DEF Inv

LEMMA FingerprintKeeps == ASSUME Inv, Fingerprint PROVE Inv'
<1> DEFINE d == engine.rule.dir
           found == DOMAIN engine.claims
           seen == [i \in found |-> [claims |-> engine.claims[i], v |-> files[d][i].v]]
<1>1. /\ UNCHANGED <<rows, jobs, files, active, calls>> /\ engine.pc = "fingerprint"
      /\ engine.rule \in Resolved /\ d \in Dirs /\ found \subseteq Items
      /\ \A i \in found : engine.claims[i] \subseteq AllKinds
      /\ {"rule", "claims"} \subseteq DOMAIN engine
  BY DEF Fingerprint, disk, memory, At, Inv, EngineInv, Resolved
<1>2. CASE Fail
  BY <1>1, <1>2, FailTypes, Resting, RulesOnly, SameFiles, SameCalls DEF Inv
<1>3. CASE /\ \A i \in found : i \in Here(d)
           /\ engine' = With([pc |-> "pause", seen |-> seen]) /\ UNCHANGED rules
  <2>1. SeenOK(seen)
    BY <1>1, <1>3, HereTypes DEF SeenOK, Inv
  <2> HIDE DEF seen
  <2>2. /\ engine'.pc = "pause" /\ engine'.seen = seen /\ engine'.rule = engine.rule
        /\ {"pc", "rule", "seen"} \subseteq DOMAIN engine'
    BY <1>1, <1>3 DEF With
  <2>3. EngineInv'
    BY <1>1, <2>1, <2>2 DEF EngineInv, At
  <2> QED BY <1>1, <1>3, <2>3, RulesOnly, SameFiles, SameCalls DEF Inv
<1> QED BY <1>2, <1>3 DEF Fingerprint

\* What is in hand at the items of a rule.
LEMMA InHand ==
    ASSUME Inv, engine.pc \in {"pause", "items", "settle"}
    PROVE  /\ {"pc", "rule", "seen"} \subseteq DOMAIN engine
           /\ engine.rule \in Resolved /\ engine.rule.id \in Rules /\ SeenOK(engine.seen)
BY DEF Inv, EngineInv, Resolved

LEMMA PauseKeeps == ASSUME Inv, Pause PROVE Inv'
<1>1. UNCHANGED <<jobs, files, active, calls>> /\ engine.pc = "pause"
  BY DEF Pause, disk, memory, At
<1>2. CASE Fail /\ UNCHANGED rows
  BY <1>1, <1>2, FailTypes, Resting, RulesOnly, SameFiles, SameCalls DEF Inv
<1>3. CASE /\ rows' = Paused(engine.rule.id) /\ UNCHANGED rules
           /\ engine' = With([pc |-> "items", left |-> DOMAIN engine.seen, lag |-> 0,
                              stable |-> Stable(engine.rule, engine.seen)])
  <2>1. StoreInv'
    BY <1>1, <1>3, InHand, RowsOnly DEF Inv
  <2>2. /\ engine'.pc = "items" /\ engine'.seen = engine.seen /\ engine'.rule = engine.rule
        /\ engine'.left = DOMAIN engine.seen /\ {"pc", "rule", "seen", "left"} \subseteq DOMAIN engine'
    BY <1>1, <1>3, InHand DEF With
  <2>3. EngineInv'
    BY <1>1, <2>2, InHand DEF EngineInv, At
  <2> QED BY <1>1, <2>1, <2>3, SameFiles, SameCalls DEF Inv
<1> QED BY <1>2, <1>3 DEF Pause

\* An item of the rule is done with.
LEMMA NextItem ==
    ASSUME Inv, engine.pc \in {"items", "settle"}, NEW i,
           \/ engine' = [engine EXCEPT !.left = @ \ {i}]
           \/ engine' = [engine EXCEPT !.pc = "items", !.left = @ \ {i}]
    PROVE  EngineInv'
<1>1. "left" \in DOMAIN engine /\ engine.left \subseteq DOMAIN engine.seen
  BY DEF Inv, EngineInv
<1>2. /\ engine'.left \subseteq engine.left /\ engine'.pc \in {"items", engine.pc}
      /\ engine'.seen = engine.seen /\ engine'.rule = engine.rule /\ DOMAIN engine' = DOMAIN engine
  BY <1>1, InHand
<1>3. engine.pc = "settle" => engine'.key = engine.key /\ {"key", "job"} \subseteq DOMAIN engine
  BY <1>1 DEF Inv, EngineInv, At
<1> QED BY <1>1, <1>2, <1>3, InHand DEF Inv, EngineInv, At

LEMMA ObserveKeeps == ASSUME Inv, Observe PROVE Inv'
<1>1. UNCHANGED <<rules, rows, jobs, files, active, calls>> /\ engine.pc = "items"
  BY DEF Observe, tables, disk, At
<1>2. EngineInv'
  BY <1>1, NextItem DEF Observe
<1> QED BY <1>1, <1>2, RulesOnly, SameFiles, SameCalls DEF Inv

LEMMA ReserveSourceKeeps == ASSUME Inv, ReserveSource PROVE Inv'
<1>1. UNCHANGED <<jobs, files, active, calls>> /\ engine.pc = "items"
  BY DEF ReserveSource, disk, memory, At
<1>2. PICK i \in engine.left \cap engine.stable :
         LET k == <<engine.rule.id, i, engine.seen[i].v>>
         IN \/ /\ Exists(k[1])
               /\ rows' = Inserted(k)
               /\ engine' = With([pc |-> "settle", key |-> k, job |-> rows'[k].job])
               /\ UNCHANGED rules
            \/ Fail /\ UNCHANGED rows
  BY DEF ReserveSource
<1> DEFINE k == <<engine.rule.id, i, engine.seen[i].v>>
<1>3. CASE Fail /\ UNCHANGED rows
  BY <1>1, <1>3, FailTypes, Resting, RulesOnly, SameFiles, SameCalls DEF Inv
<1>4. CASE /\ Exists(k[1]) /\ rows' = Inserted(k) /\ UNCHANGED rules
           /\ engine' = With([pc |-> "settle", key |-> k, job |-> rows'[k].job])
  <2>1. i \in DOMAIN engine.seen /\ "left" \in DOMAIN engine /\ engine.left \subseteq DOMAIN engine.seen
    BY <1>1 DEF Inv, EngineInv
  <2>2. k \in Keys /\ k[2] = i
    BY <1>1, <2>1, InHand, KeyTypes DEF SeenOK
  <2> HIDE DEF k
  <2>3. StoreInv'
    BY <1>1, <1>4, <2>2, RowsOnly DEF Inv
  <2>4. /\ engine'.pc = "settle" /\ engine'.seen = engine.seen /\ engine'.rule = engine.rule
        /\ engine'.left = engine.left /\ engine'.key = k
        /\ {"pc", "rule", "seen", "left", "key", "job"} \subseteq DOMAIN engine'
    BY <1>1, <1>4, <2>1, InHand DEF With
  <2>5. EngineInv'
    BY <1>1, <2>1, <2>2, <2>4, InHand DEF EngineInv, At
  <2> QED BY <1>1, <2>3, <2>5, SameFiles, SameCalls DEF Inv
<1> QED BY <1>2, <1>3, <1>4

LEMMA SettleKeeps == ASSUME Inv, Settle PROVE Inv'
<1> DEFINE k == engine.key
           claims == engine.seen[k[2]].claims
<1>1. /\ UNCHANGED <<rules, files, active, calls>> /\ engine.pc = "settle"
      /\ k \in Keys /\ claims \in SUBSET AllKinds /\ rows[k] # NoRow
      /\ ItemDone
  BY DEF Settle, disk, memory, At, Inv, EngineInv, SeenOK
<1>2. EngineInv'
  BY <1>1, NextItem DEF ItemDone
<1>3. StoreInv'
  <2>1. CASE UNCHANGED jobs /\ \/ rows' = WithStatus(k, "paused")
                               \/ rows' = WithStatus(k, "processing")
                               \/ rows' = WithReview(k, claims)
    <3> HIDE DEF k, claims
    <3> QED BY <1>1, <2>1, RowsOnly DEF Statuses, Inv
  <2>2. CASE \E kind \in claims : CreateForSource(k, kind, TRUE)
    <3> HIDE DEF k, claims
    <3> QED BY <1>1, <2>2, Creating DEF Inv
  <2> QED BY <2>1, <2>2 DEF Settle
<1> QED BY <1>1, <1>2, <1>3, SameFiles, SameCalls DEF Inv

LEMMA SettleFailsKeeps == ASSUME Inv, SettleFails PROVE Inv'
<1>1. UNCHANGED <<jobs, files, active, calls>> /\ Fail /\ engine.key \in Keys
  BY DEF SettleFails, disk, memory, At, Inv, EngineInv
<1>2. PICK set : rules' = WithError(set, "scan")
  BY <1>1, FailTypes
<1>3. /\ rules' \in [Rules -> Rule \cup {Unused, Deleted}]
      /\ \A r \in Rules : rules[r] = Deleted => rules'[r] = Deleted
  BY <1>2, ErrorTypes DEF Inv, StoreInv
<1>4. StoreInv'
  <2>1. CASE UNCHANGED rows
    BY <1>1, <1>2, <2>1, RulesOnly DEF Inv
  <2>2. CASE rows[engine.key] # NoRow /\ rows' = WithStatus(engine.key, "error")
    <3> DEFINE new == [rows[engine.key] EXCEPT !.status = "error"]
    <3>1. rows \in [Keys -> Row \cup {NoRow}] /\ rows[engine.key] \in Row
      BY <1>1, <2>2 DEF Inv, StoreInv
    <3>2. new \in Row /\ new.job = rows[engine.key].job /\ new # NoRow
      BY <3>1, RowTypes DEF Statuses
    <3>3. rows' = [rows EXCEPT ![engine.key] = new]
      BY <2>2, <3>1 DEF WithStatus
    <3> HIDE DEF new
    <3> QED BY <1>1, <1>3, <2>2, <3>1, <3>2, <3>3, LedgerKept DEF Inv
  <2> QED BY <2>1, <2>2 DEF SettleFails
<1> QED BY <1>1, <1>4, FailTypes, Resting, SameFiles, SameCalls DEF Inv

LEMMA FinishRuleKeeps == ASSUME Inv, FinishRule PROVE Inv'
<1>1. UNCHANGED <<rules, rows, jobs, files, active, calls>> /\ Rests
  BY DEF FinishRule, tables, disk, Rests
<1> QED BY <1>1, Resting, RulesOnly, SameFiles, SameCalls DEF Inv

LEMMA ReconcileKeeps == ASSUME Inv, Reconcile PROVE Inv'
BY DiscoverKeeps, FingerprintKeeps, PauseKeeps, ObserveKeeps, ReserveSourceKeeps, SettleKeeps,
   SettleFailsKeeps, FinishRuleKeeps DEF Reconcile

-----------------------------------------------------------------------------
(***************************************************************************)
(* Requests, and the outside.                                              *)
(***************************************************************************)

\* A request that stays idle, or goes on with what is good.
LEMMA Requesting ==
    ASSUME CallsInv, NEW c \in Callers, NEW s, Request(c, s),
           s.pc = "fingerprint" => s.rule \in Resolved /\ s.item \in Items /\ s.kind \in AllKinds,
           s.pc = "create" => s.key \in Keys /\ s.kind \in AllKinds /\ s.auto \in BOOLEAN
    PROVE  CallsInv'
<1>1. DOMAIN calls' = Callers /\ calls'[c] = s /\ \A d \in Callers \ {c} : calls'[d] = calls[d]
  BY DEF CallsInv, Request
<1> QED BY <1>1 DEF CallsInv

LEMMA IdleCall == Idle.pc = "idle"
BY DEF Idle

LEMMA RequestsKeep == ASSUME Inv, NEW c \in Callers,
                             \/ ReviewRead(c) \/ RuleJobRead(c) \/ RuleJobReserve(c)
                             \/ Create(c) \/ RequestFails(c)
                      PROVE  Inv'
<1>1. UNCHANGED <<files, engine, active, rules>>
  BY DEF ReviewRead, RuleJobRead, RuleJobReserve, Create, RequestFails, tables, disk, memory
<1>2. ASSUME StoreInv', CallsInv' PROVE Inv'
  BY <1>1, <1>2, SameFiles, SameEngine DEF Inv
<1>3. CASE ReviewRead(c)
  <2>1. PICK k \in {l \in Keys : Reviewable(l)} : \E kind \in rows[k].review :
           Request(c, [pc |-> "create", key |-> k, kind |-> kind, auto |-> TRUE])
    BY <1>3 DEF ReviewRead
  <2>2. PICK kind \in rows[k].review :
           Request(c, [pc |-> "create", key |-> k, kind |-> kind, auto |-> TRUE])
    BY <2>1
  <2>3. rows[k] \in Row /\ k \in Keys
    BY <2>1 DEF Inv, StoreInv, Reviewable
  <2>4. kind \in AllKinds
    BY <2>2, <2>3, RowTypes
  <2>5. CallsInv'
    BY <2>2, <2>3, <2>4, Requesting DEF Inv
  <2>6. StoreInv'
    BY <1>3, RulesOnly DEF ReviewRead, tables, Inv
  <2> QED BY <1>2, <2>5, <2>6
<1>4. CASE RuleJobRead(c)
  <2>1. PICK a \in Listed, i \in Items :
           /\ i \in Here(a.dir)
           /\ \E kind \in Claims(a.mode, files[a.dir][i].v) :
                 Request(c, [pc |-> "fingerprint", rule |-> a, item |-> i, kind |-> kind])
    BY <1>4 DEF RuleJobRead
  <2>2. PICK kind \in Claims(a.mode, files[a.dir][i].v) :
           Request(c, [pc |-> "fingerprint", rule |-> a, item |-> i, kind |-> kind])
    BY <2>1
  <2>3. a \in Resolved /\ a.dir \in Dirs
    BY ListedTypes DEF Inv, Resolved
  <2>4. files[a.dir][i].v \in Versions
    BY <2>1, <2>3, HereTypes DEF Inv
  <2>5. kind \in AllKinds
    BY <2>2, <2>4, ClaimTypes
  <2>6. CallsInv'
    BY <2>2, <2>3, <2>5, Requesting DEF Inv
  <2>7. StoreInv'
    BY <1>4, RulesOnly DEF RuleJobRead, tables, Inv
  <2> QED BY <1>2, <2>6, <2>7
<1>5. CASE RuleJobReserve(c)
  <2> DEFINE a == calls[c].rule
             i == calls[c].item
             k == <<a.id, i, files[a.dir][i].v>>
             possible == i \in Here(a.dir) /\ k[3] \notin Broken /\ Exists(a.id)
  <2>1. a \in Resolved /\ a.id \in Rules /\ a.dir \in Dirs /\ i \in Items /\ calls[c].kind \in AllKinds
    BY <1>5 DEF RuleJobReserve, Inv, CallsInv, Resolved
  <2>2. possible => k \in Keys /\ Exists(k[1])
    BY <2>1, HereTypes, KeyTypes DEF Inv
  <2>3. /\ UNCHANGED jobs
        /\ \/ possible /\ rows' = Inserted(k)
           \/ UNCHANGED rows
        /\ \/ /\ possible
              /\ Request(c, [pc |-> "create", key |-> k, kind |-> calls[c].kind, auto |-> FALSE])
           \/ Request(c, Idle)
    BY <1>5 DEF RuleJobReserve
  <2> HIDE DEF k, possible
  <2>4. StoreInv'
    BY <1>1, <2>2, <2>3, RowsOnly DEF Inv
  <2>5. CallsInv'
    BY <2>1, <2>2, <2>3, Requesting, IdleCall DEF Inv
  <2> QED BY <1>2, <2>4, <2>5
<1>6. CASE Create(c)
  <2>1. CreateForSource(calls[c].key, calls[c].kind, calls[c].auto) /\ Request(c, Idle)
    BY <1>6 DEF Create
  <2>2. calls[c].key \in Keys /\ calls[c].kind \in AllKinds /\ calls[c].auto \in BOOLEAN
    BY <1>6 DEF Create, Inv, CallsInv
  <2>3. StoreInv'
    BY <1>1, <2>1, <2>2, Creating DEF Inv
  <2>4. CallsInv'
    BY <2>1, Requesting, IdleCall DEF Inv
  <2> QED BY <1>2, <2>3, <2>4
<1>7. CASE RequestFails(c)
  <2>1. StoreInv' /\ CallsInv'
    BY <1>7, RulesOnly, Requesting, IdleCall DEF RequestFails, tables, Inv
  <2> QED BY <1>2, <2>1
<1> QED BY <1>3, <1>4, <1>5, <1>6, <1>7

LEMMA PutRuleKeeps == ASSUME Inv, PutRule PROVE Inv'
<1>1. UNCHANGED <<rows, jobs, files, engine, active, calls>>
  BY DEF PutRule, disk
<1>2. PICK r \in Rules, on \in BOOLEAN, d \in Dirs, m \in Modes :
         /\ rules[r] # Deleted
         /\ rules' = [rules EXCEPT ![r] = [enabled |-> on, dir |-> d, mode |-> m, error |-> "none"]]
  BY DEF PutRule
<1> DEFINE new == [enabled |-> on, dir |-> d, mode |-> m, error |-> "none"]
<1>3. new \in Rule /\ rules' = [rules EXCEPT ![r] = new]
  BY <1>2 DEF Rule
<1> HIDE DEF new
<1>4. /\ rules' \in [Rules -> Rule \cup {Unused, Deleted}]
      /\ \A s \in Rules : rules[s] = Deleted => rules'[s] = Deleted
  BY <1>2, <1>3 DEF Inv, StoreInv
<1>5. StoreInv'
  BY <1>1, <1>4, LedgerKept DEF Inv, StoreInv
<1> QED BY <1>1, <1>5, SameFiles, SameEngine, SameCalls DEF Inv

LEMMA DeleteRuleKeeps == ASSUME Inv, DeleteRule PROVE Inv'
<1>1. UNCHANGED <<jobs, files, engine, active, calls>>
  BY DEF DeleteRule, disk
<1>2. PICK r \in Rules : /\ rules' = [rules EXCEPT ![r] = Deleted]
                         /\ rows' = [k \in Keys |-> IF k[1] = r THEN NoRow ELSE rows[k]]
  BY DEF DeleteRule
<1>3. /\ rules' \in [Rules -> Rule \cup {Unused, Deleted}] /\ rules'[r] = Deleted
      /\ \A s \in Rules : rules[s] = Deleted => rules'[s] = Deleted
  BY <1>2 DEF Inv, StoreInv
<1>4. rows' \in [Keys -> Row \cup {NoRow}]
      /\ \A k \in Keys : rows'[k] = rows[k] \/ (rows'[k] = NoRow /\ rules'[k[1]] = Deleted)
  BY <1>2, <1>3 DEF Inv, StoreInv
<1>5. StoreInv'
  BY <1>1, <1>3, <1>4, LedgerKept DEF Inv
<1> QED BY <1>1, <1>5, SameFiles, SameEngine, SameCalls DEF Inv

LEMMA EditFileKeeps == ASSUME Inv, EditFile PROVE Inv'
<1>1. UNCHANGED <<rules, rows, jobs, engine, active, calls>>
  BY DEF EditFile, tables
<1>2. PICK d \in Dirs, i \in Items :
         \/ /\ files[d][i].v < MaxVersion
            /\ files' = [files EXCEPT ![d][i] = [v |-> @.v + 1, here |-> TRUE]]
         \/ files' = [files EXCEPT ![d][i].here = FALSE]
  BY DEF EditFile
<1>3. files[d][i] \in [v: 0..MaxVersion, here: BOOLEAN]
  BY DEF Inv, FilesInv
<1>4. PICK new \in [v: 0..MaxVersion, here: BOOLEAN] :
         files' = [files EXCEPT ![d][i] = new] /\ (new.here => new.v \in Versions)
  <2>1. CASE files[d][i].v < MaxVersion /\ files' = [files EXCEPT ![d][i] = [v |-> @.v + 1, here |-> TRUE]]
    <3> DEFINE new == [v |-> files[d][i].v + 1, here |-> TRUE]
    <3>1. new \in [v: 0..MaxVersion, here: BOOLEAN] /\ new.v \in Versions
      BY <1>3, <2>1, IngestionAssumption DEF Versions
    <3>2. files' = [files EXCEPT ![d][i] = new]
      BY <1>3, <2>1 DEF Inv, FilesInv
    <3> QED BY <3>1, <3>2
  <2>2. CASE files' = [files EXCEPT ![d][i].here = FALSE]
    <3> DEFINE new == [files[d][i] EXCEPT !.here = FALSE]
    <3>1. new \in [v: 0..MaxVersion, here: BOOLEAN] /\ new.here = FALSE
      BY <1>3
    <3>2. files' = [files EXCEPT ![d][i] = new]
      BY <1>3, <2>2 DEF Inv, FilesInv
    <3> QED BY <3>1, <3>2
  <2> QED BY <1>2, <2>1, <2>2
<1>5. FilesInv'
  BY <1>4 DEF Inv, FilesInv
<1> QED BY <1>1, <1>5, RulesOnly, SameEngine, SameCalls DEF Inv

LEMMA TickKeeps == ASSUME Inv, Tick PROVE Inv'
<1>1. UNCHANGED <<rules, rows, jobs, files, active, calls>>
  BY DEF Tick, tables, disk
<1>2. EngineInv'
  <2>1. CASE UNCHANGED engine
    BY <2>1, SameEngine DEF Inv
  <2>2. CASE engine' = [engine EXCEPT !.lag = Lesser(@ + 1, Debounce)]
    BY <2>2 DEF Inv, EngineInv, At
  <2> QED BY <2>1, <2>2 DEF Tick
<1> QED BY <1>1, <1>2, RulesOnly, SameFiles, SameCalls DEF Inv

LEMMA RestartKeeps == ASSUME Inv, Restart PROVE Inv'
<1>1. UNCHANGED <<rules, rows, jobs, files>> /\ active' \subseteq Resolved /\ Rests
  BY DEF Restart, tables, disk, Rests, Starting
<1>2. CallsInv'
  BY IdleCall DEF Restart, CallsInv
<1> QED BY <1>1, <1>2, Resting, RulesOnly, SameFiles DEF Inv

LEMMA OutsideKeeps == ASSUME Inv, Outside PROVE Inv'
<1>1. ASSUME UNCHANGED <<rules, rows, jobs, files, engine, active, calls>> PROVE Inv'
  BY <1>1, RulesOnly, SameFiles, SameEngine, SameCalls DEF Inv
<1>2. CASE Rescan \/ Mount \/ WatcherFails
  BY <1>1, <1>2 DEF Rescan, Mount, WatcherFails, tables, disk, memory
<1> QED BY <1>2, PutRuleKeeps, DeleteRuleKeeps, EditFileKeeps, TickKeeps, RestartKeeps DEF Outside

-----------------------------------------------------------------------------
LEMMA Initially == Init => Inv
<1> SUFFICES ASSUME Init PROVE Inv
  OBVIOUS
<1>1. FilesInv
  BY IngestionAssumption DEF Init, FilesInv
<1>2. StoreInv
  <2>1. rules \in [Rules -> Rule \cup {Unused, Deleted}]
    BY DEF Init, Rule
  <2>2. rows \in [Keys -> Row \cup {NoRow}] /\ jobs \in Seq(Job) /\ DOMAIN jobs = {}
    BY DEF Init
  <2>3. Ledger
    BY <2>2 DEF Init, Ledger
  <2> QED BY <2>1, <2>2, <2>3 DEF StoreInv
<1>3. EngineInv /\ active \subseteq Resolved
  BY DEF Init, EngineInv, Starting, At
<1>4. CallsInv
  BY IdleCall DEF Init, CallsInv
<1> QED BY <1>1, <1>2, <1>3, <1>4 DEF Inv

LEMMA Steps == Inv /\ [Next]_vars => Inv'
<1> SUFFICES ASSUME Inv, [Next]_vars PROVE Inv'
  OBVIOUS
<1>1. CASE UNCHANGED vars
  BY <1>1, RulesOnly, SameFiles, SameEngine, SameCalls DEF vars, Inv
<1>2. CASE Requests
  BY <1>2, RequestsKeep DEF Requests
<1> QED BY <1>1, <1>2, ReloadKeeps, ReconcileKeeps, LoopKeeps, OutsideKeeps DEF Next, Engine

\* The inductive invariant: a job is the one its source knows, or its source has
\* gone with its rule, and what the supervisor and the requests have in hand is
\* about rules and items there have been.
THEOREM IngestionInvariant == Spec => []Inv
BY Initially, Steps, PTL DEF Spec

\* However the supervisor, reviews, requests, rule changes, failures and
\* restarts interleave, a source has one job and the ledger knows it.
THEOREM SourcesHaveOneJob == Spec => []OneJobPerSource
<1>1. Inv => OneJobPerSource
  <2> SUFFICES ASSUME Inv PROVE OneJobPerSource
    OBVIOUS
  <2>1. DOMAIN jobs = 1..Len(jobs)
    BY DEF Inv, StoreInv
  <2> QED BY <2>1 DEF Inv, StoreInv, Ledger, OneJobPerSource
<1> QED BY <1>1, IngestionInvariant, PTL
-----------------------------------------------------------------------------
(***************************************************************************)
(* What a step does to the tables: rules do not come back, rows go with    *)
(* their rules only, and rows keep their jobs.                             *)
(***************************************************************************)
RulesLive == \A r \in Rules : /\ rules[r] = Deleted => rules'[r] = Deleted
                              /\ rules[r] # Unused => rules'[r] # Unused
RowsLive == \A k \in Keys : rows[k] # NoRow => rows'[k] # NoRow \/ rules'[k[1]] = Deleted
JobsLive == \A n \in DOMAIN jobs : n \in DOMAIN jobs' /\ jobs'[n] = jobs[n]

\* A rule whose columns change is a rule that exists.
LEMMA RuleChanges ==
    ASSUME Inv,
           \A r \in Rules : \/ rules'[r] = rules[r]
                            \/ rules'[r] = Deleted
                            \/ rules'[r] \in Rule /\ rules[r] # Deleted
    PROVE  RulesLive
BY RuleAssumption DEF RulesLive

\* Errors and switches are columns of rules that exist.
LEMMA RuleColumns ==
    ASSUME Inv, \/ UNCHANGED rules
                \/ \E set, e : e \in {"none", "watcher", "scan", "removed"} /\ rules' = WithError(set, e)
                \/ \E r \in Rules : rules' = DisableRule(r)
                \/ \E found, failed : SyncWatches(found, failed)
    PROVE  RulesLive
<1>1. ASSUME NEW r \in Rules, Exists(r), NEW e \in {"none", "watcher", "scan", "removed"}
      PROVE  /\ [rules[r] EXCEPT !.error = e] \in Rule
             /\ [rules[r] EXCEPT !.enabled = FALSE, !.error = e] \in Rule
  <2>1. rules[r] \in Rule
    BY <1>1 DEF Exists, Inv, StoreInv
  <2> QED BY <2>1 DEF Rule
<1>2. ASSUME NEW set, NEW e \in {"none", "watcher", "scan", "removed"}, rules' = WithError(set, e),
             NEW r \in Rules
      PROVE  rules'[r] = rules[r] \/ (rules'[r] \in Rule /\ rules[r] # Deleted)
  BY <1>1, <1>2 DEF WithError, Exists
<1>3. ASSUME NEW s \in Rules, rules' = DisableRule(s), NEW r \in Rules
      PROVE  rules'[r] = rules[r] \/ (rules'[r] \in Rule /\ rules[r] # Deleted)
  <2>1. CASE ~Exists(s)
    BY <1>3, <2>1 DEF DisableRule, Inv, StoreInv
  <2>2. CASE Exists(s)
    <3> DEFINE new == [rules[s] EXCEPT !.enabled = FALSE, !.error = "removed"]
    <3>1. new \in Rule /\ rules' = [rules EXCEPT ![s] = new]
      BY <1>1, <1>3, <2>2 DEF DisableRule
    <3> HIDE DEF new
    <3> QED BY <2>2, <3>1 DEF Exists, Inv, StoreInv
  <2> QED BY <2>1, <2>2
<1>4. ASSUME NEW found, NEW failed, SyncWatches(found, failed), NEW r \in Rules
      PROVE  rules'[r] = rules[r] \/ (rules'[r] \in Rule /\ rules[r] # Deleted)
  <2>1. CASE ~Exists(r)
    BY <1>4, <2>1 DEF SyncWatches
  <2>2. CASE Exists(r)
    <3>1. [rules[r] EXCEPT !.error = "watcher"] \in Rule /\ [rules[r] EXCEPT !.error = "none"] \in Rule
      BY <1>1, <2>2
    <3>2. \/ rules'[r] = rules[r]
          \/ rules'[r] = [rules[r] EXCEPT !.error = "watcher"]
          \/ rules'[r] = [rules[r] EXCEPT !.error = "none"]
      BY <1>4 DEF SyncWatches
    <3> QED BY <2>2, <3>1, <3>2 DEF Exists
  <2> QED BY <2>1, <2>2
<1>5. \A r \in Rules : \/ rules'[r] = rules[r]
                       \/ rules'[r] = Deleted
                       \/ rules'[r] \in Rule /\ rules[r] # Deleted
  BY <1>2, <1>3, <1>4
<1> QED BY <1>5, RuleChanges

\* The statements of the store on rows leave the rows that are there.
LEMMA RowColumns ==
    ASSUME Inv, \/ UNCHANGED rows
                \/ \E k \in Keys, s \in Statuses : rows[k] # NoRow /\ rows' = WithStatus(k, s)
                \/ \E k \in Keys, kinds \in SUBSET AllKinds : rows[k] # NoRow /\ rows' = WithReview(k, kinds)
                \/ \E r \in Rules : rows' = Paused(r)
                \/ \E k \in Keys : rows' = Inserted(k)
                \/ \E k \in Keys : \E kind, auto : CreateForSource(k, kind, auto)
    PROVE  RowsLive
<1>1. rows \in [Keys -> Row \cup {NoRow}] /\ \A k \in Keys : rows[k] # NoRow => rows[k] \in Row
  BY DEF Inv, StoreInv
<1>2. ASSUME NEW k \in Keys, NEW new \in Row, rows' = [rows EXCEPT ![k] = new]
      PROVE  RowsLive
  BY <1>1, <1>2, NoRowAssumption DEF RowsLive
<1>3. ASSUME NEW row \in Row, NEW s \in Statuses, NEW kinds \in SUBSET AllKinds
      PROVE  [row EXCEPT !.status = s, !.review = kinds] \in Row
  BY DEF Row
<1>4. {"needs_review", "paused", "processing"} \subseteq Statuses /\ {} \in SUBSET AllKinds
  BY DEF Statuses
<1>5. CASE \E k \in Keys, s \in Statuses : rows[k] # NoRow /\ rows' = WithStatus(k, s)
  <2>1. PICK k \in Keys, s \in Statuses : rows[k] # NoRow /\ rows' = WithStatus(k, s)
    BY <1>5
  <2> DEFINE new == [rows[k] EXCEPT !.status = s]
  <2>2. new \in Row /\ rows' = [rows EXCEPT ![k] = new]
    BY <1>1, <2>1, RowTypes DEF WithStatus
  <2> HIDE DEF new
  <2> QED BY <1>2, <2>2
<1>6. CASE \E k \in Keys, kinds \in SUBSET AllKinds : rows[k] # NoRow /\ rows' = WithReview(k, kinds)
  <2>1. PICK k \in Keys, kinds \in SUBSET AllKinds : rows[k] # NoRow /\ rows' = WithReview(k, kinds)
    BY <1>6
  <2> DEFINE new == [rows[k] EXCEPT !.status = "needs_review", !.review = kinds]
  <2>2. new \in Row
    BY <1>1, <1>3, <1>4, <2>1
  <2>3. rows' = [rows EXCEPT ![k] = new]
    BY <1>1, <2>1 DEF WithReview
  <2> HIDE DEF new
  <2> QED BY <1>2, <2>2, <2>3
<1>7. CASE \E r \in Rules : rows' = Paused(r)
  <2>1. PICK r \in Rules : rows' = Paused(r)
    BY <1>7
  <2>2. ASSUME NEW k \in Keys, rows[k] # NoRow PROVE rows'[k] # NoRow
    <3> DEFINE new == [rows[k] EXCEPT !.status = "paused", !.review = {}]
    <3>1. new \in Row /\ (rows'[k] = new \/ rows'[k] = rows[k])
      BY <1>1, <1>3, <1>4, <2>1, <2>2 DEF Paused
    <3> HIDE DEF new
    <3> QED BY <2>2, <3>1, NoRowAssumption
  <2> QED BY <2>2 DEF RowsLive
<1>8. CASE \E k \in Keys : rows' = Inserted(k)
  <2>1. PICK k \in Keys : rows' = Inserted(k)
    BY <1>8
  <2> DEFINE new == [status |-> "processing", review |-> {}, job |-> 0]
  <2>2. new \in Row /\ (rows' = [rows EXCEPT ![k] = new] \/ rows' = rows)
    BY <1>4, <2>1, RowTypes DEF Inserted
  <2> HIDE DEF new
  <2> QED BY <1>2, <2>2 DEF RowsLive
<1>9. CASE \E k \in Keys : \E kind, auto : CreateForSource(k, kind, auto)
  <2>1. PICK k \in Keys : \E kind, auto : CreateForSource(k, kind, auto)
    BY <1>9
  <2>0. PICK kind, auto : CreateForSource(k, kind, auto)
    BY <2>1
  <2> DEFINE new == [status |-> "processing", review |-> {}, job |-> Len(jobs')]
  <2>2. \/ rows' = [rows EXCEPT ![k] = new] /\ jobs' = Append(jobs, [key |-> k, kind |-> kind, auto |-> auto])
        \/ rows' = rows
    BY <2>0 DEF CreateForSource
  <2>3. CASE jobs' = Append(jobs, [key |-> k, kind |-> kind, auto |-> auto]) /\ rows' = [rows EXCEPT ![k] = new]
    <3>1. Len(jobs') \in Nat
      BY <2>3 DEF Inv, StoreInv
    <3>2. new \in Row
      BY <1>4, <3>1, RowTypes
    <3> HIDE DEF new
    <3> QED BY <1>2, <2>3, <3>2
  <2> QED BY <2>2, <2>3 DEF RowsLive
<1> QED BY <1>5, <1>6, <1>7, <1>8, <1>9 DEF RowsLive

\* Jobs are appended.
LEMMA JobsAppended ==
    ASSUME Inv, UNCHANGED jobs \/ \E job : jobs' = Append(jobs, job)
    PROVE  JobsLive
BY DEF Inv, StoreInv, JobsLive

\* Contents are replaced by newer ones only.
FilesGrow == \A d \in Dirs, i \in Items : files[d][i].v <= files'[d][i].v

LEMMA FilesSame == ASSUME Inv, UNCHANGED files PROVE FilesGrow
BY DEF Inv, FilesInv, FilesGrow

LEMMA EngineEffects ==
    ASSUME Inv, Engine \/ Loop
    PROVE  RulesLive /\ RowsLive /\ JobsLive /\ FilesGrow /\ UNCHANGED <<files, calls>>
<1> DEFINE ThisStep == RulesLive /\ RowsLive /\ JobsLive /\ FilesGrow /\ UNCHANGED <<files, calls>>
<1>1. ASSUME RulesLive, RowsLive, UNCHANGED <<files, jobs, calls>> PROVE ThisStep
  BY <1>1, JobsAppended, FilesSame
<1>2. ASSUME UNCHANGED <<rows, jobs, files, calls>>, RulesLive PROVE ThisStep
  BY <1>1, <1>2, RowColumns
<1>3. ASSUME UNCHANGED <<rules, rows, jobs, files, calls>> PROVE ThisStep
  BY <1>2, <1>3, RuleColumns
<1>4. ASSUME Fail PROVE RulesLive
  BY <1>4, RuleColumns DEF Fail
<1>5. CASE TakeNotice \/ DebounceTick \/ PeriodicTick \/ Stop \/ ReloadRead \/ Observe \/ FinishRule
  BY <1>3, <1>5 DEF TakeNotice, DebounceTick, PeriodicTick, Stop, ReloadRead, Observe, FinishRule,
                    tables, disk, memory
<1>6. CASE TakeEvent
  <2>1. RulesLive
    BY <1>6, RuleColumns DEF TakeEvent
  <2> QED BY <1>2, <1>6, <2>1 DEF TakeEvent, disk
<1>7. CASE Resolve
  <2>1. PICK a \in engine.todo : rules' \in {DisableRule(a.id), WithError({a.id}, "scan"), rules}
    BY <1>7 DEF Resolve
  <2>2. a.id \in Rules
    BY <1>7 DEF Resolve, Inv, EngineInv, Resolved, At
  <2>3. RulesLive
    BY <2>1, <2>2, RuleColumns
  <2> QED BY <1>2, <1>7, <2>3 DEF Resolve, disk, memory
<1>8. CASE ReloadEnd
  <2>1. RulesLive
    BY <1>8, RuleColumns DEF ReloadEnd
  <2> QED BY <1>2, <1>8, <2>1 DEF ReloadEnd, disk
<1>9. CASE Discover
  <2>1. RulesLive
    BY <1>9, RuleColumns DEF Discover
  <2> QED BY <1>2, <1>9, <2>1 DEF Discover, disk, memory
<1>10. CASE Fingerprint
  <2>1. RulesLive
    BY <1>4, <1>10, RuleColumns DEF Fingerprint
  <2> QED BY <1>2, <1>10, <2>1 DEF Fingerprint, disk, memory
<1>11. CASE Pause
  <2>1. RulesLive
    BY <1>4, <1>11, RuleColumns DEF Pause
  <2>2. RowsLive
    BY <1>11, InHand, RowColumns DEF Pause, At
  <2> QED BY <1>1, <1>11, <2>1, <2>2 DEF Pause, disk, memory
<1>12. CASE ReserveSource
  <2>1. RulesLive
    BY <1>4, <1>12, RuleColumns DEF ReserveSource
  <2>2. RowsLive
    <3>1. PICK i \in engine.left \cap engine.stable :
             rows' \in {Inserted(<<engine.rule.id, i, engine.seen[i].v>>), rows}
      BY <1>12 DEF ReserveSource
    <3>2. i \in DOMAIN engine.seen
      BY <1>12, <3>1 DEF ReserveSource, Inv, EngineInv, At
    <3>3. <<engine.rule.id, i, engine.seen[i].v>> \in Keys
      BY <1>12, <3>2, InHand, KeyTypes DEF SeenOK, ReserveSource, At
    <3> QED BY <3>1, <3>3, RowColumns
  <2> QED BY <1>1, <1>12, <2>1, <2>2 DEF ReserveSource, disk, memory
<1>13. CASE Settle
  <2> DEFINE k == engine.key
             claims == engine.seen[k[2]].claims
  <2>1. /\ k \in Keys /\ claims \in SUBSET AllKinds /\ rows[k] # NoRow
        /\ UNCHANGED <<rules, files, calls>>
    BY <1>13 DEF Settle, disk, memory, At, Inv, EngineInv, SeenOK
  <2>2. \/ UNCHANGED jobs /\ \E s \in Statuses : rows' = WithStatus(k, s)
        \/ UNCHANGED jobs /\ rows' = WithReview(k, claims)
        \/ \E kind \in claims : CreateForSource(k, kind, TRUE)
    BY <1>13 DEF Settle, Statuses
  <2> HIDE DEF k, claims
  <2>3. RowsLive /\ JobsLive
    BY <2>1, <2>2, RowColumns, JobsAppended DEF CreateForSource
  <2> QED BY <2>1, <2>3, RuleColumns, FilesSame
<1>14. CASE SettleFails
  <2>1. RulesLive
    BY <1>4, <1>14 DEF SettleFails
  <2>2. RowsLive
    BY <1>14, RowColumns DEF SettleFails, Statuses, At, Inv, EngineInv
  <2> QED BY <1>1, <1>14, <2>1, <2>2 DEF SettleFails, disk, memory
<1> QED BY <1>5, <1>6, <1>7, <1>8, <1>9, <1>10, <1>11, <1>12, <1>13, <1>14
        DEF Engine, Loop, Reload, Reconcile

LEMMA RequestEffects ==
    ASSUME Inv, Requests
    PROVE  /\ RulesLive /\ RowsLive /\ JobsLive /\ FilesGrow
           /\ UNCHANGED <<rules, files, engine, active, dirty, obs>>
<1>1. PICK c \in Callers : ReviewRead(c) \/ RuleJobRead(c) \/ RuleJobReserve(c) \/ Create(c) \/ RequestFails(c)
  BY DEF Requests
<1>2. UNCHANGED <<rules, files, engine, active, dirty, obs>>
  BY <1>1 DEF ReviewRead, RuleJobRead, RuleJobReserve, Create, RequestFails, tables, disk, memory
<1>3. CASE ReviewRead(c) \/ RuleJobRead(c) \/ RequestFails(c)
  BY <1>2, <1>3, RuleColumns, RowColumns, JobsAppended, FilesSame
     DEF ReviewRead, RuleJobRead, RequestFails, tables
<1>4. CASE RuleJobReserve(c)
  <2> DEFINE a == calls[c].rule
             k == <<a.id, calls[c].item, files[a.dir][calls[c].item].v>>
             possible == calls[c].item \in Here(a.dir) /\ k[3] \notin Broken /\ Exists(a.id)
  <2>1. a.id \in Rules /\ a.dir \in Dirs /\ calls[c].item \in Items
    BY <1>4 DEF RuleJobReserve, Inv, CallsInv, Resolved
  <2>2. possible => k \in Keys
    BY <2>1, HereTypes, KeyTypes DEF Inv
  <2>3. rows' = (IF possible THEN Inserted(k) ELSE rows) /\ UNCHANGED jobs
    BY <1>4 DEF RuleJobReserve
  <2> HIDE DEF k, possible
  <2> QED BY <1>2, <2>2, <2>3, RuleColumns, RowColumns, JobsAppended, FilesSame
<1>5. CASE Create(c)
  <2>1. calls[c].key \in Keys /\ CreateForSource(calls[c].key, calls[c].kind, calls[c].auto)
    BY <1>5 DEF Create, Inv, CallsInv
  <2>2. UNCHANGED jobs \/ \E job : jobs' = Append(jobs, job)
    BY <2>1 DEF CreateForSource
  <2> QED BY <1>2, <2>1, <2>2, RuleColumns, RowColumns, JobsAppended, FilesSame
<1> QED BY <1>1, <1>3, <1>4, <1>5

LEMMA OutsideEffects ==
    ASSUME Inv, Outside \/ UNCHANGED vars
    PROVE  RulesLive /\ RowsLive /\ JobsLive /\ FilesGrow
<1>1. CASE Rescan \/ Mount \/ WatcherFails \/ Tick \/ Restart \/ UNCHANGED vars
  BY <1>1, RuleColumns, RowColumns, JobsAppended, FilesSame
     DEF Rescan, Mount, WatcherFails, Tick, Restart, vars, tables, disk
<1>2. CASE PutRule
  <2>1. PICK r \in Rules, on \in BOOLEAN, d \in Dirs, m \in Modes :
           /\ rules[r] # Deleted
           /\ rules' = [rules EXCEPT ![r] = [enabled |-> on, dir |-> d, mode |-> m, error |-> "none"]]
    BY <1>2 DEF PutRule
  <2> DEFINE new == [enabled |-> on, dir |-> d, mode |-> m, error |-> "none"]
  <2>2. new \in Rule /\ rules' = [rules EXCEPT ![r] = new]
    BY <2>1 DEF Rule
  <2> HIDE DEF new
  <2>3. RulesLive
    BY <2>1, <2>2, RuleChanges DEF Inv, StoreInv
  <2> QED BY <1>2, <2>3, RowColumns, JobsAppended, FilesSame DEF PutRule, disk
<1>3. CASE DeleteRule
  <2>1. PICK r \in Rules : /\ rules' = [rules EXCEPT ![r] = Deleted]
                           /\ rows' = [k \in Keys |-> IF k[1] = r THEN NoRow ELSE rows[k]]
    BY <1>3 DEF DeleteRule
  <2>2. RulesLive /\ rules'[r] = Deleted
    BY <2>1, RuleChanges DEF Inv, StoreInv
  <2>3. RowsLive
    BY <2>1, <2>2 DEF RowsLive
  <2> QED BY <1>3, <2>2, <2>3, JobsAppended, FilesSame DEF DeleteRule, disk
<1>4. CASE EditFile
  <2>1. RulesLive /\ RowsLive /\ JobsLive
    BY <1>4, RuleColumns, RowColumns, JobsAppended DEF EditFile, tables
  <2>2. PICK d \in Dirs, i \in Items :
           \/ /\ files[d][i].v < MaxVersion
              /\ files' = [files EXCEPT ![d][i] = [v |-> @.v + 1, here |-> TRUE]]
           \/ files' = [files EXCEPT ![d][i].here = FALSE]
    BY <1>4 DEF EditFile
  <2>3. \A e \in Dirs, j \in Items : files'[e][j].v \in {files[e][j].v, files[e][j].v + 1}
    <3>1. files[d][i] \in [v: 0..MaxVersion, here: BOOLEAN]
      BY DEF Inv, FilesInv
    <3>2. PICK new : /\ files' = [files EXCEPT ![d][i] = new]
                     /\ new.v \in {files[d][i].v, files[d][i].v + 1}
      <4>1. CASE files' = [files EXCEPT ![d][i] = [v |-> @.v + 1, here |-> TRUE]]
        <5> DEFINE new == [v |-> files[d][i].v + 1, here |-> TRUE]
        <5>1. files' = [files EXCEPT ![d][i] = new] /\ new.v = files[d][i].v + 1
          BY <4>1 DEF Inv, FilesInv
        <5> HIDE DEF new
        <5> QED BY <5>1
      <4>2. CASE files' = [files EXCEPT ![d][i].here = FALSE]
        <5> DEFINE new == [files[d][i] EXCEPT !.here = FALSE]
        <5>1. files' = [files EXCEPT ![d][i] = new] /\ new.v = files[d][i].v
          BY <3>1, <4>2 DEF Inv, FilesInv
        <5> QED BY <5>1
      <4> QED BY <2>2, <4>1, <4>2
    <3> QED BY <3>2 DEF Inv, FilesInv
  <2>4. \A e \in Dirs, j \in Items : files[e][j].v \in Nat
    BY DEF Inv, FilesInv
  <2>5. FilesGrow
    <3> SUFFICES ASSUME NEW e \in Dirs, NEW j \in Items PROVE files[e][j].v <= files'[e][j].v
      BY DEF FilesGrow
    <3> QED BY <2>3, <2>4
  <2> QED BY <2>1, <2>5
<1> QED BY <1>1, <1>2, <1>3, <1>4 DEF Outside

\* Nothing goes back: files have newer contents, rules and rows go for good, jobs stay.
LEMMA StepEffects ==
    ASSUME Inv, [Next]_vars
    PROVE  RulesLive /\ RowsLive /\ JobsLive /\ FilesGrow
BY EngineEffects, RequestEffects, OutsideEffects DEF Next

-----------------------------------------------------------------------------
(***************************************************************************)
(* What was looked at twice.                                               *)
(*                                                                         *)
(* Discovery looks at an item before its fingerprint is taken, and the     *)
(* item may change between the two.  An item is stable when its            *)
(* fingerprint is the one observed by an earlier scan.  Contents never go  *)
(* back, so they have been the same at the discovery between the two       *)
(* fingerprints: what the scanners claimed is what they claim of the       *)
(* version that is filed.  A rule that is moved to another folder takes no *)
(* observation along.  And it leaves the dirty set only after a scan in    *)
(* which every item was stable and has been dealt with.                    *)
(***************************************************************************)
Scanning == {"fingerprint", "pause", "items", "settle"}
Listing == IF At("resolve") THEN engine.todo \cup engine.found ELSE {}

\* The supervisor knows each rule in one version, and no rule that never was.
HomesInv ==
    /\ \A a, b \in active : a.id = b.id => a = b
    /\ \A a, b \in Listing : a.id = b.id => a = b
    /\ \A a \in active \cup Listing : rules[a.id] # Unused

\* What has been observed has been in the folder.
Observations == [Rules -> [Dirs -> [Items -> {NoRow} \cup [v: Versions, age: Nat]]]]
ObservedInv ==
    /\ obs \in Observations
    /\ \A r \in Rules, d \in Dirs, i \in Items : obs[r][d][i] # NoRow => obs[r][d][i].v <= files[d][i].v

\* What is scanned, or still is to be scanned, is dirty.
DirtyInv ==
    /\ engine.pc \in Scanning \cup {"process"} =>
          "todo" \in DOMAIN engine /\ engine.todo \subseteq dirty
    /\ engine.pc \in Scanning => engine.rule \in active /\ engine.rule.id \in dirty \ engine.todo

Twice(i) == LET o == obs[engine.rule.id][engine.rule.dir][i] IN o # NoRow /\ o.v = engine.seen[i].v
Claimed(i) == engine.seen[i].claims = Claims(engine.rule.mode, engine.seen[i].v)
Looked(i, v) ==
    /\ engine.claims[i] = Claims(engine.rule.mode, v) /\ v <= files[engine.rule.dir][i].v
    /\ LET o == obs[engine.rule.id][engine.rule.dir][i] IN o # NoRow => o.v <= v

\* The claims of a scan are those of a version between the one observed and the one found next.
LooksInv ==
    /\ At("fingerprint") => \A i \in DOMAIN engine.claims : \E v \in Versions : Looked(i, v)
    /\ engine.pc \in {"pause", "items", "settle"} =>
          \A i \in DOMAIN engine.seen : engine.seen[i].v <= files[engine.rule.dir][i].v
    /\ At("pause") => \A i \in DOMAIN engine.seen : Twice(i) => Claimed(i)
    /\ engine.pc \in {"items", "settle"} =>
          /\ {"stable", "lag"} \subseteq DOMAIN engine /\ engine.lag \in Nat
          /\ engine.stable \subseteq DOMAIN engine.seen
          /\ \A i \in engine.stable : Twice(i) /\ Claimed(i)

Answered(k, mode) == rows[k] # NoRow /\ (Outcome(Claims(mode, k[3])) = "ready" => rows[k].job # 0)

\* The stable items that are not left have their rows and jobs.
ItemsInv ==
    /\ engine.pc \in {"items", "settle"} => \A i \in engine.stable \ engine.left :
          Exists(engine.rule.id) => Answered(<<engine.rule.id, i, engine.seen[i].v>>, engine.rule.mode)
    /\ At("settle") => LET k == engine.key IN
          /\ k[2] \in engine.stable
          /\ k = <<engine.rule.id, k[2], engine.seen[k[2]].v>>
          /\ Exists(k[1]) => rows[k] # NoRow /\ (engine.job # 0 => rows[k].job # 0)

\* Nothing is owed to a rule that is not dirty.
DoneInv ==
    \A a \in active : a.id \notin dirty /\ Exists(a.id) =>
        \A i \in Items : LET o == obs[a.id][a.dir][i] IN o # NoRow => Answered(<<a.id, i, o.v>>, a.mode)

ScanInv == HomesInv /\ ObservedInv /\ DirtyInv /\ LooksInv /\ ItemsInv /\ DoneInv

\* A rule that is there after a step was there before it.
LEMMA SameHome ==
    ASSUME Inv, RulesLive, NEW r \in Rules, rules[r] # Unused
    PROVE  rules'[r] # Unused /\ (Exists(r)' => Exists(r))
BY DEF RulesLive, Exists

\* An answer stays one as long as the rule exists.
LEMMA AnswersStay ==
    ASSUME Inv, Inv', RulesLive, RowsLive, JobsLive, NEW k \in Keys, rows[k] # NoRow, Exists(k[1])'
    PROVE  rows'[k] # NoRow /\ (rows[k].job # 0 => rows'[k].job # 0)
<1>1. rows'[k] # NoRow
  BY DEF RowsLive, Exists
<1>2. ASSUME rows[k].job # 0 PROVE rows'[k].job # 0
  <2>1. PICK n \in DOMAIN jobs : n = rows[k].job /\ jobs[n].key = k
    BY <1>2 DEF Inv, StoreInv, Ledger
  <2>2. n \in DOMAIN jobs' /\ jobs'[n].key = k
    BY <2>1 DEF JobsLive
  <2>3. rows'[k].job = n
    BY <1>1, <2>2 DEF Inv, StoreInv, Ledger
  <2> QED BY <1>2, <2>1, <2>3
<1> QED BY <1>1, <1>2

LEMMA ListingTypes == ASSUME Inv PROVE /\ active \cup Listing \subseteq Resolved
                                       /\ \A a \in active \cup Listing : a.id \in Rules /\ a.dir \in Dirs
BY DEF Inv, EngineInv, Listing, At, Resolved

\* The supervisor knows no more than before.
LEMMA HomesLess ==
    ASSUME Inv, HomesInv, RulesLive, active' \subseteq active, Listing' \subseteq Listing
    PROVE  HomesInv'
<1>1. \A a \in active \cup Listing : rules'[a.id] # Unused
  BY ListingTypes, SameHome DEF HomesInv
<1> QED BY <1>1 DEF HomesInv

LEMMA HomesStep == ASSUME Inv, HomesInv, [Next]_vars PROVE HomesInv'
<1>0. RulesLive
  BY StepEffects
<1>1. CASE ReloadRead
  <2>1. CASE engine' = [pc |-> "resolve", after |-> engine.after, todo |-> Listed, found |-> {}]
    <3>1. Listing' = Listed /\ active' = active /\ rules' = rules
      BY <1>1, <2>1 DEF ReloadRead, Listing, At, tables, memory
    <3>2. \A a, b \in Listed : a.id = b.id => a = b
      BY DEF Listed
    <3>3. \A a \in Listed : rules'[a.id] # Unused
      BY <3>1 DEF Listed, Exists
    <3> QED BY <3>1, <3>2, <3>3 DEF HomesInv
  <2>2. CASE engine' = AfterReload(engine.after, dirty)
    <3>1. engine'.pc # "resolve"
      BY <2>2 DEF AfterReload, Process, Idle
    <3> QED BY <1>0, <1>1, <3>1, HomesLess DEF ReloadRead, Listing, At, memory
  <2> QED BY <1>1, <2>1, <2>2 DEF ReloadRead
<1>2. CASE ReloadEnd
  <2>1. active' \subseteq Listing /\ Listing' = {}
    BY <1>2 DEF ReloadEnd, Listing, AfterReload, Process, Idle, At
  <2>2. \A a \in Listing : rules'[a.id] # Unused
    BY <1>0, ListingTypes, SameHome DEF HomesInv
  <2> QED BY <2>1, <2>2 DEF HomesInv
<1>3. CASE Resolve
  <2>1. PICK a \in engine.todo : \E found \in {engine.found, engine.found \cup {a}} :
           engine' = [engine EXCEPT !.todo = @ \ {a}, !.found = found]
    BY <1>3 DEF Resolve
  <2>2. Listing' \subseteq Listing /\ active' = active
    BY <1>3, <2>1 DEF Resolve, Listing, At, Inv, EngineInv, memory
  <2> QED BY <1>0, <2>2, HomesLess
<1>4. ASSUME ~ReloadRead, ~ReloadEnd, ~Resolve
      PROVE  active' \subseteq active /\ Listing' \subseteq Listing
  <2>1. CASE Requests \/ UNCHANGED vars
    BY <2>1, RequestEffects DEF Listing, At, vars
  <2>2. CASE Loop
    BY <2>2 DEF Loop, TakeNotice, TakeEvent, DebounceTick, PeriodicTick, Stop, Listing, At, Process, Idle,
                memory
  <2>3. CASE Outside
    <3>1. CASE Restart
      BY <3>1 DEF Restart, Starting, Listing, At
    <3>2. CASE Tick
      <4>1. \/ engine' = engine
            \/ engine' = [engine EXCEPT !.lag = Lesser(@ + 1, Debounce)]
        BY <3>2 DEF Tick
      <4> QED BY <3>2, <4>1 DEF Tick, Listing, At, Inv, EngineInv
    <3> QED BY <2>3, <3>1, <3>2 DEF Outside, PutRule, DeleteRule, Rescan, EditFile, Mount, WatcherFails,
                                   Listing, At, memory
  <2>4. CASE Reconcile
    <3>1. engine.pc # "resolve" /\ engine'.pc # "resolve" /\ active' = active
      <4>0. Fail => engine'.pc # "resolve"
        BY DEF Fail, Process, Idle
      <4>1. CASE Discover
        BY <4>1 DEF Discover, Process, Idle, At, memory
      <4>5. CASE SettleFails
        BY <4>0, <4>5 DEF SettleFails, At, memory
      <4>6. CASE FinishRule
        BY <4>6 DEF FinishRule, Process, Idle, At
      <4>2. CASE Fingerprint
        BY <4>0, <4>2 DEF Fingerprint, With, At, memory
      <4>7. CASE Pause
        BY <4>0, <4>7 DEF Pause, With, At, memory
      <4>8. CASE ReserveSource
        BY <4>0, <4>8 DEF ReserveSource, With, At, memory
      <4>3. CASE Observe \/ Settle
        BY <4>3 DEF Observe, Settle, ItemDone, At, memory, Inv, EngineInv
      <4> QED BY <2>4, <4>1, <4>2, <4>3, <4>5, <4>6, <4>7, <4>8 DEF Reconcile
    <3> QED BY <3>1 DEF Listing, At
  <2> QED BY <1>4, <2>1, <2>2, <2>3, <2>4 DEF Next, Engine, Reload
<1> QED BY <1>0, <1>1, <1>2, <1>3, <1>4, HomesLess

\* The observations are the ones there were, however old.
ObsKept ==
    /\ obs' \in Observations
    /\ \A r \in Rules, d \in Dirs, i \in Items :
          /\ obs'[r][d][i] = NoRow <=> obs[r][d][i] = NoRow
          /\ obs[r][d][i] # NoRow => obs'[r][d][i].v = obs[r][d][i].v

LEMMA ObsSame == ASSUME ObservedInv, UNCHANGED obs PROVE ObsKept
BY DEF ObservedInv, ObsKept

LEMMA Observation ==
    ASSUME ObservedInv, NEW r \in Rules, NEW d \in Dirs, NEW i \in Items, obs[r][d][i] # NoRow
    PROVE  obs[r][d][i].v \in Versions /\ obs[r][d][i].v \in Nat
BY IngestionAssumption DEF ObservedInv, Observations, Versions

LEMMA FileTypes == ASSUME Inv, NEW d \in Dirs, NEW i \in Items PROVE files[d][i].v \in Nat
BY IngestionAssumption DEF Inv, FilesInv

LEMMA OutcomeStays ==
    ASSUME Inv, Inv', RulesLive, RowsLive, JobsLive, NEW k \in Keys, NEW mode, Answered(k, mode), Exists(k[1])'
    PROVE  Answered(k, mode)'
BY AnswersStay DEF Answered

\* Observations may be dropped; the ones that stay are of what has been in the folder.
LEMMA ObservedLess ==
    ASSUME Inv, Inv', ObservedInv, FilesGrow, obs' \in Observations,
           \A r \in Rules, d \in Dirs, i \in Items : obs'[r][d][i] # NoRow =>
                obs[r][d][i] # NoRow /\ obs'[r][d][i].v = obs[r][d][i].v
    PROVE  ObservedInv'
<1>1. ASSUME NEW r \in Rules, NEW d \in Dirs, NEW i \in Items, obs'[r][d][i] # NoRow
      PROVE  obs'[r][d][i].v <= files'[d][i].v
  <2>1. /\ obs'[r][d][i].v = obs[r][d][i].v /\ obs[r][d][i].v <= files[d][i].v
        /\ files[d][i].v <= files'[d][i].v /\ obs[r][d][i].v \in Nat
    BY <1>1, Observation DEF ObservedInv, FilesGrow
  <2>2. files[d][i].v \in Nat /\ files'[d][i].v \in Nat
    BY FileTypes, IngestionAssumption DEF Inv, FilesInv
  <2> QED BY <2>1, <2>2
<1> QED BY <1>1 DEF ObservedInv

LEMMA DoneKept ==
    ASSUME Inv, Inv', HomesInv, ObservedInv, DoneInv, RulesLive, RowsLive, JobsLive,
           active' = active, dirty \subseteq dirty', ObsKept
    PROVE  DoneInv'
<1> SUFFICES ASSUME NEW a \in active, a.id \notin dirty', Exists(a.id)', NEW i \in Items, obs'[a.id][a.dir][i] # NoRow
             PROVE  Answered(<<a.id, i, obs[a.id][a.dir][i].v>>, a.mode)' /\ obs'[a.id][a.dir][i].v = obs[a.id][a.dir][i].v
  BY DEF DoneInv, Answered
<1>1. a.id \in Rules /\ a.dir \in Dirs /\ rules[a.id] # Unused
  BY ListingTypes DEF HomesInv
<1>2. Exists(a.id)
  BY <1>1, SameHome
<1>3. obs[a.id][a.dir][i] # NoRow /\ obs'[a.id][a.dir][i].v = obs[a.id][a.dir][i].v /\ obs[a.id][a.dir][i].v \in Versions
  BY <1>1, Observation DEF ObsKept
<1>4. PICK v \in Versions : v = obs[a.id][a.dir][i].v
  BY <1>3
<1>5. Answered(<<a.id, i, v>>, a.mode) /\ <<a.id, i, v>> \in Keys
  BY <1>1, <1>2, <1>3, <1>4, KeyTypes DEF DoneInv
<1>6. Answered(<<a.id, i, v>>, a.mode)'
  BY <1>5, OutcomeStays
<1> QED BY <1>3, <1>4, <1>6 DEF Answered

\* The supervisor stays where it is, and time may pass.
SameHand == engine' = engine \/ engine' = [engine EXCEPT !.lag = Lesser(@ + 1, Debounce)]

LEMMA HandStays ==
    ASSUME Inv, DirtyInv, LooksInv, SameHand
    PROVE  /\ engine'.pc = engine.pc /\ DOMAIN engine' = DOMAIN engine
           /\ engine.pc \in Scanning \cup {"process"} => engine'.todo = engine.todo
           /\ engine.pc \in Scanning => engine'.rule = engine.rule
           /\ At("fingerprint") => engine'.claims = engine.claims
           /\ engine.pc \in {"pause", "items", "settle"} => engine'.seen = engine.seen
           /\ engine.pc \in {"items", "settle"} =>
                 engine'.left = engine.left /\ engine'.stable = engine.stable /\ engine'.lag \in Nat
           /\ At("settle") => engine'.key = engine.key /\ engine'.job = engine.job
<1>1. CASE engine' = engine
  BY <1>1 DEF LooksInv
<1>2. CASE engine' = [engine EXCEPT !.lag = Lesser(@ + 1, Debounce)]
  <2>1. engine'.pc = engine.pc /\ DOMAIN engine' = DOMAIN engine
    BY <1>2 DEF Inv, EngineInv
  <2>2. /\ engine.pc \in Scanning \cup {"process"} => engine'.todo = engine.todo
        /\ engine.pc \in Scanning => engine'.rule = engine.rule
    BY <1>2 DEF DirtyInv, Inv, EngineInv, Scanning, At
  <2>3. /\ At("fingerprint") => engine'.claims = engine.claims
        /\ engine.pc \in {"pause", "items", "settle"} => engine'.seen = engine.seen
        /\ At("settle") => engine'.key = engine.key /\ engine'.job = engine.job
    BY <1>2 DEF Inv, EngineInv, At
  <2>4. engine.pc \in {"items", "settle"} => engine'.left = engine.left /\ engine'.stable = engine.stable
    BY <1>2 DEF Inv, EngineInv, LooksInv
  <2>5. engine.pc \in {"items", "settle"} => engine'.lag \in Nat
    BY <1>2, IngestionAssumption DEF LooksInv, Lesser
  <2> QED BY <2>1, <2>2, <2>3, <2>4, <2>5
<1> QED BY <1>1, <1>2 DEF SameHand

\* What is scanned is of a rule there has been, in its folder.
LEMMA InScan ==
    ASSUME Inv, HomesInv, DirtyInv, engine.pc \in Scanning
    PROVE  /\ engine.rule \in active /\ engine.rule.id \in Rules /\ engine.rule.dir \in Dirs
           /\ rules[engine.rule.id] # Unused
BY ListingTypes DEF DirtyInv, HomesInv

\* The items, by what is known of them.
LEMMA SeenTypes ==
    ASSUME Inv, engine.pc \in {"pause", "items", "settle"}, NEW i \in DOMAIN engine.seen
    PROVE  i \in Items /\ engine.seen[i].v \in Versions /\ engine.seen[i].v \in Nat
BY IngestionAssumption DEF Inv, EngineInv, SeenOK, Versions

LEMMA LooksKept ==
    ASSUME Inv, Inv', HomesInv, ObservedInv, DirtyInv, LooksInv, FilesGrow, ObsKept, SameHand
    PROVE  LooksInv'
<1>1. ASSUME At("fingerprint")', NEW i \in DOMAIN engine'.claims
      PROVE  \E v \in Versions : Looked(i, v)'
  <2>1. At("fingerprint") /\ i \in DOMAIN engine.claims /\ engine.pc \in Scanning
    BY <1>1, HandStays DEF At, Scanning
  <2>2. PICK v \in Versions : Looked(i, v)
    BY <2>1 DEF LooksInv
  <2>3. i \in Items /\ engine.rule.id \in Rules /\ engine.rule.dir \in Dirs
    BY <2>1, InScan DEF Inv, EngineInv
  <2>4. engine'.rule = engine.rule /\ engine'.claims = engine.claims
    BY <2>1, HandStays
  <2>5. v <= files'[engine.rule.dir][i].v
    <3>1. /\ v <= files[engine.rule.dir][i].v /\ files[engine.rule.dir][i].v <= files'[engine.rule.dir][i].v
          /\ v \in Nat /\ files[engine.rule.dir][i].v \in Nat /\ files'[engine.rule.dir][i].v \in Nat
      BY <2>2, <2>3, FileTypes, IngestionAssumption DEF Looked, FilesGrow, Versions, Inv, FilesInv
    <3> QED BY <3>1
  <2>6. LET o == obs'[engine.rule.id][engine.rule.dir][i] IN o # NoRow => o.v <= v
    BY <2>2, <2>3 DEF ObsKept, Looked
  <2> QED BY <2>2, <2>4, <2>5, <2>6 DEF Looked
<1>2. ASSUME engine'.pc \in {"pause", "items", "settle"}
      PROVE  /\ engine.pc = engine'.pc /\ engine'.seen = engine.seen /\ engine'.rule = engine.rule
             /\ engine.rule.id \in Rules /\ engine.rule.dir \in Dirs
  BY <1>2, HandStays, InScan DEF Scanning
<1>3. ASSUME engine'.pc \in {"pause", "items", "settle"}, NEW i \in DOMAIN engine'.seen
      PROVE  engine'.seen[i].v <= files'[engine'.rule.dir][i].v
  <2>1. /\ i \in Items /\ engine.seen[i].v \in Nat
        /\ engine.seen[i].v <= files[engine.rule.dir][i].v
    BY <1>2, <1>3, SeenTypes DEF LooksInv
  <2>2. /\ files[engine.rule.dir][i].v <= files'[engine.rule.dir][i].v
        /\ files[engine.rule.dir][i].v \in Nat /\ files'[engine.rule.dir][i].v \in Nat
    BY <1>2, <1>3, <2>1, FileTypes, IngestionAssumption DEF FilesGrow, Inv, FilesInv
  <2> QED BY <1>2, <1>3, <2>1, <2>2
<1>4. ASSUME engine'.pc \in {"pause", "items", "settle"}, NEW i \in DOMAIN engine'.seen
      PROVE  (Twice(i)' <=> Twice(i)) /\ (Claimed(i)' <=> Claimed(i))
  <2>1. i \in Items
    BY <1>2, <1>4, SeenTypes
  <2> QED BY <1>2, <1>4, <2>1 DEF Twice, Claimed, ObsKept
<1>5. At("pause")' => \A i \in DOMAIN engine'.seen : Twice(i)' => Claimed(i)'
  BY <1>2, <1>4 DEF LooksInv, At
<1>6. ASSUME engine'.pc \in {"items", "settle"}
      PROVE  /\ {"stable", "lag"} \subseteq DOMAIN engine' /\ engine'.lag \in Nat
             /\ engine'.stable \subseteq DOMAIN engine'.seen
             /\ \A i \in engine'.stable : Twice(i)' /\ Claimed(i)'
  <2>1. /\ engine.pc \in {"items", "settle"} /\ engine'.stable = engine.stable /\ engine'.lag \in Nat
        /\ DOMAIN engine' = DOMAIN engine
    BY <1>6, HandStays
  <2> QED BY <1>2, <1>4, <1>6, <2>1 DEF LooksInv
<1> QED BY <1>1, <1>3, <1>5, <1>6 DEF LooksInv

LEMMA ItemsKept ==
    ASSUME Inv, Inv', HomesInv, ObservedInv, DirtyInv, LooksInv, ItemsInv,
           RulesLive, RowsLive, JobsLive, SameHand
    PROVE  ItemsInv'
<1>1. ASSUME engine'.pc \in {"items", "settle"}, Exists(engine.rule.id)'
      PROVE  /\ engine.pc = engine'.pc /\ engine'.rule = engine.rule /\ engine'.seen = engine.seen
             /\ engine'.left = engine.left /\ engine'.stable = engine.stable
             /\ Exists(engine.rule.id) /\ engine.rule.id \in Rules
  <2>1. /\ engine.pc = engine'.pc /\ engine'.rule = engine.rule /\ engine'.seen = engine.seen
        /\ engine'.left = engine.left /\ engine'.stable = engine.stable /\ engine.pc \in Scanning
    BY <1>1, HandStays DEF Scanning
  <2>2. engine.rule.id \in Rules /\ rules[engine.rule.id] # Unused
    BY <2>1, InScan
  <2>3. PICK r \in Rules : r = engine.rule.id
    BY <2>2
  <2>4. Exists(r)'
    BY <1>1, <2>1, <2>3 DEF Exists
  <2>5. Exists(r)
    BY <2>2, <2>3, <2>4, SameHome
  <2> QED BY <2>1, <2>2, <2>3, <2>5
<1>2. ASSUME engine'.pc \in {"items", "settle"}, NEW i \in engine'.stable \ engine'.left,
             Exists(engine.rule.id)'
      PROVE  Answered(<<engine.rule.id, i, engine.seen[i].v>>, engine.rule.mode)'
  <2>1. i \in DOMAIN engine.seen /\ engine.seen[i].v \in Versions /\ i \in Items
    BY <1>1, <1>2, SeenTypes DEF LooksInv
  <2>2. PICK k \in Keys, mode \in {engine.rule.mode} : k = <<engine.rule.id, i, engine.seen[i].v>>
    BY <1>1, <1>2, <2>1, KeyTypes
  <2>3. Answered(k, mode) /\ Exists(k[1])'
    BY <1>1, <1>2, <2>2 DEF ItemsInv, Exists
  <2>4. Answered(k, mode)'
    BY <2>3, OutcomeStays
  <2>5. engine'.rule = engine.rule /\ engine'.seen = engine.seen
    BY <1>1, <1>2
  <2> QED BY <2>2, <2>4, <2>5 DEF Answered
<1>3. ASSUME At("settle")'
      PROVE  /\ engine'.key[2] \in engine'.stable
             /\ engine'.key = <<engine'.rule.id, engine'.key[2], engine'.seen[engine'.key[2]].v>>
             /\ Exists(engine.key[1])' =>
                   rows'[engine'.key] # NoRow /\ (engine'.job # 0 => rows'[engine'.key].job # 0)
  <2>1. /\ At("settle") /\ engine.pc \in Scanning /\ engine'.key = engine.key /\ engine'.job = engine.job
        /\ engine'.rule = engine.rule /\ engine'.seen = engine.seen /\ engine'.stable = engine.stable
    BY <1>3, HandStays DEF At, Scanning
  <2>2. PICK k \in Keys : k = engine.key
    BY <2>1 DEF Inv, EngineInv
  <2>3. k[1] = engine.rule.id /\ k[1] \in Rules /\ rules[k[1]] # Unused
    BY <2>1, <2>2, InScan DEF ItemsInv
  <2>4. ASSUME Exists(k[1])' PROVE rows'[k] # NoRow /\ (engine.job # 0 => rows'[k].job # 0)
    <3>1. Exists(k[1])
      BY <2>3, <2>4, SameHome
    <3>2. rows[k] # NoRow /\ (engine.job # 0 => rows[k].job # 0)
      BY <2>1, <2>2, <3>1 DEF ItemsInv
    <3> QED BY <2>4, <3>2, AnswersStay
  <2>5. Exists(engine.key[1])' => Exists(k[1])'
    BY <2>1, <2>2 DEF Exists
  <2>6. k[2] \in engine.stable /\ k = <<engine.rule.id, k[2], engine.seen[k[2]].v>>
    BY <2>1, <2>2 DEF ItemsInv
  <2> QED BY <2>1, <2>2, <2>4, <2>5, <2>6
<1>4. engine'.pc \in {"items", "settle"} => \A i \in engine'.stable \ engine'.left :
         Exists(engine.rule.id)' => Answered(<<engine.rule.id, i, engine.seen[i].v>>, engine.rule.mode)'
  BY <1>2
<1>5. At("settle")' => /\ engine'.key[2] \in engine'.stable
                       /\ engine'.key = <<engine'.rule.id, engine'.key[2], engine'.seen[engine'.key[2]].v>>
                       /\ Exists(engine.key[1])' =>
                             rows'[engine'.key] # NoRow /\ (engine'.job # 0 => rows'[engine'.key].job # 0)
  BY <1>3
<1> QED BY <1>4, <1>5 DEF ItemsInv

LEMMA DirtyKept ==
    ASSUME Inv, DirtyInv, LooksInv, active' = active, dirty \subseteq dirty', SameHand
    PROVE  DirtyInv'
BY HandStays DEF DirtyInv, Scanning

\* A step that leaves the supervisor where it is, and what it knows.
LEMMA ScanKept ==
    ASSUME Inv, Inv', ScanInv, RulesLive, RowsLive, JobsLive, FilesGrow,
           active' = active, dirty \subseteq dirty', ObsKept, SameHand
    PROVE  ObservedInv' /\ DirtyInv' /\ LooksInv' /\ ItemsInv' /\ DoneInv'
<1>1. ObservedInv'
  BY ObservedLess DEF ScanInv, ObsKept
<1> QED BY <1>1, DirtyKept, LooksKept, ItemsKept, DoneKept DEF ScanInv

\* The supervisor out of its scans, with what is dirty ahead of it.
LEMMA AtRest ==
    ASSUME engine'.pc \notin Scanning,
           engine'.pc = "process" => "todo" \in DOMAIN engine' /\ engine'.todo \subseteq dirty'
    PROVE  DirtyInv' /\ LooksInv' /\ ItemsInv'
BY DEF Scanning, DirtyInv, LooksInv, ItemsInv, At

LEMMA Processing ==
    ASSUME NEW s, engine' = Process(s), s \subseteq dirty'
    PROVE  DirtyInv' /\ LooksInv' /\ ItemsInv'
<1>1. \/ engine' = [pc |-> "idle"]
      \/ engine' = [pc |-> "process", todo |-> s]
  BY DEF Process, Idle
<1> QED BY <1>1, AtRest DEF Scanning

\* A step that leaves the observations, the active rules and what is dirty.
LEMMA EngineOnly ==
    ASSUME Inv, Inv', ScanInv, RulesLive, RowsLive, JobsLive, FilesGrow,
           UNCHANGED <<active, dirty, obs>>
    PROVE  ObservedInv' /\ DoneInv'
<1>1. ObsKept
  BY ObsSame DEF ScanInv
<1>2. ObservedInv'
  BY <1>1, ObservedLess DEF ScanInv, ObsKept
<1> QED BY <1>1, <1>2, DoneKept DEF ScanInv

LEMMA LoopScans ==
    ASSUME Inv, Inv', ScanInv, RulesLive, RowsLive, JobsLive, FilesGrow, Loop
    PROVE  ObservedInv' /\ DirtyInv' /\ LooksInv' /\ ItemsInv' /\ DoneInv'
<1>1. CASE TakeNotice \/ DebounceTick \/ PeriodicTick \/ Stop
  <2>1. UNCHANGED <<active, dirty, obs>>
    BY <1>1 DEF TakeNotice, DebounceTick, PeriodicTick, Stop, memory
  <2>2. \/ engine' = Process(dirty)
        \/ engine'.pc \in {"reload", "stopped"}
    BY <1>1 DEF TakeNotice, DebounceTick, PeriodicTick, Stop
  <2>3. DirtyInv' /\ LooksInv' /\ ItemsInv'
    BY <2>1, <2>2, Processing, AtRest DEF Scanning
  <2> QED BY <2>1, <2>3, EngineOnly
<1>2. CASE TakeEvent
  <2>1. engine'.pc = "idle" /\ UNCHANGED <<active, obs>> /\ dirty' \in {dirty, Ids(active)}
    BY <1>2 DEF TakeEvent, At
  <2>2. DirtyInv' /\ LooksInv' /\ ItemsInv'
    BY <2>1, AtRest DEF Scanning
  <2>3. CASE dirty' = dirty
    BY <2>1, <2>2, <2>3, EngineOnly
  <2>4. CASE dirty' = Ids(active)
    <3>1. DoneInv'
      BY <2>1, <2>4 DEF DoneInv, Ids
    <3>2. ObservedInv'
      BY <2>1, ObsSame, ObservedLess DEF ScanInv, ObsKept
    <3> QED BY <2>2, <3>1, <3>2
  <2> QED BY <2>1, <2>3, <2>4
<1> QED BY <1>1, <1>2 DEF Loop

LEMMA ReloadScans ==
    ASSUME Inv, Inv', ScanInv, RulesLive, RowsLive, JobsLive, FilesGrow, Reload
    PROVE  ObservedInv' /\ DirtyInv' /\ LooksInv' /\ ItemsInv' /\ DoneInv'
<1>0. \A s, d : AfterReload(s, d) = Process({}) \/ AfterReload(s, d) = Process(d)
  BY DEF AfterReload, Process
<1>1. CASE ReloadRead \/ Resolve
  <2>1. UNCHANGED <<active, dirty, obs>>
    BY <1>1 DEF ReloadRead, Resolve, memory
  <2>2. \/ engine' = Process({})
        \/ engine' = Process(dirty)
        \/ engine'.pc = "resolve"
    <3>1. CASE ReloadRead
      BY <1>0, <3>1 DEF ReloadRead
    <3>2. CASE Resolve
      BY <3>2 DEF Resolve, At, Inv, EngineInv
    <3> QED BY <1>1, <3>1, <3>2
  <2>3. DirtyInv' /\ LooksInv' /\ ItemsInv'
    BY <2>1, <2>2, Processing, AtRest DEF Scanning
  <2> QED BY <2>1, <2>3, EngineOnly
<1>2. CASE ReloadEnd
  <2>1. /\ active' = engine.found /\ dirty' = Ids(active') /\ At("resolve") /\ UNCHANGED files
        /\ obs' = [r \in Rules |-> IF r \in dirty' THEN obs[r] ELSE Unobserved]
        /\ engine' = AfterReload(engine.after, dirty')
    BY <1>2 DEF ReloadEnd, disk
  <2>2. DirtyInv' /\ LooksInv' /\ ItemsInv'
    BY <1>0, <2>1, Processing
  <2>3. DoneInv'
    BY <2>1 DEF DoneInv, Ids
  <2>4. /\ obs' \in Observations
        /\ \A r \in Rules, d \in Dirs, i \in Items : obs'[r][d][i] # NoRow => obs'[r][d][i] = obs[r][d][i]
    BY <2>1 DEF ScanInv, ObservedInv, Observations, Unobserved
  <2>5. ObservedInv'
    BY <2>4, ObservedLess DEF ScanInv
  <2> QED BY <2>2, <2>3, <2>5
<1> QED BY <1>1, <1>2 DEF Reload

LEMMA OutsideScans ==
    ASSUME Inv, Inv', ScanInv, RulesLive, RowsLive, JobsLive, FilesGrow,
           Requests \/ Outside \/ UNCHANGED vars
    PROVE  ObservedInv' /\ DirtyInv' /\ LooksInv' /\ ItemsInv' /\ DoneInv'
<1>1. ASSUME UNCHANGED <<engine, active, dirty, obs>>
      PROVE  ObservedInv' /\ DirtyInv' /\ LooksInv' /\ ItemsInv' /\ DoneInv'
  BY <1>1, ObsSame, ScanKept DEF SameHand, ScanInv
<1>2. CASE Restart
  <2>1. /\ engine' = [pc |-> "reload", after |-> "process"] /\ active' = {}
        /\ obs' = [r \in Rules |-> Unobserved]
    BY <1>2 DEF Restart, Starting
  <2>2. obs' \in Observations /\ \A r \in Rules, d \in Dirs, i \in Items : obs'[r][d][i] = NoRow
    BY <2>1 DEF Observations, Unobserved
  <2> QED BY <2>1, <2>2, AtRest DEF Scanning, ObservedInv, DoneInv
<1>3. CASE Tick
  <2>1. ASSUME NEW r \in Rules, NEW d \in Dirs, NEW i \in Items, obs[r][d][i] # NoRow
        PROVE  /\ obs'[r][d][i] \in [v: Versions, age: Nat] /\ obs'[r][d][i].v = obs[r][d][i].v
    <3>1. obs[r][d][i] \in [v: Versions, age: Nat]
      BY <2>1 DEF ScanInv, ObservedInv, Observations
    <3>2. obs'[r][d][i] = [obs[r][d][i] EXCEPT !.age = Lesser(@ + 1, Debounce)]
      BY <1>3, <2>1 DEF Tick
    <3>3. Lesser(obs[r][d][i].age + 1, Debounce) \in Nat
      BY <3>1, IngestionAssumption DEF Lesser
    <3> QED BY <3>1, <3>2, <3>3
  <2>2. \A r \in Rules, d \in Dirs, i \in Items : obs[r][d][i] = NoRow => obs'[r][d][i] = NoRow
    BY <1>3 DEF Tick
  <2>3. ObsKept
    <3>1. obs' \in Observations
      <4>1. \A r \in Rules, d \in Dirs, i \in Items : obs'[r][d][i] \in {NoRow} \cup [v: Versions, age: Nat]
        BY <2>1, <2>2
      <4>2. obs' = [r \in Rules |-> [d \in Dirs |-> [i \in Items |-> obs'[r][d][i]]]]
        BY <1>3 DEF Tick
      <4> HIDE DEF Tick
      <4> QED BY <4>1, <4>2 DEF Observations
    <3> QED BY <2>1, <2>2, <3>1, NoRowAssumption DEF ObsKept
  <2>4. SameHand /\ UNCHANGED <<active, dirty>>
    BY <1>3 DEF Tick, SameHand
  <2> QED BY <2>3, <2>4, ScanKept
<1>4. CASE Requests
  BY <1>1, <1>4, RequestEffects
<1> QED BY <1>1, <1>2, <1>3, <1>4
        DEF Outside, PutRule, DeleteRule, Rescan, EditFile, Mount, WatcherFails, memory, vars

\* A scan that fails leaves its rule dirty.
LEMMA FailScans ==
    ASSUME Inv, Inv', ScanInv, RulesLive, RowsLive, JobsLive, FilesGrow,
           UNCHANGED <<active, dirty, obs>>, engine.pc \in Scanning, Fail
    PROVE  ObservedInv' /\ DirtyInv' /\ LooksInv' /\ ItemsInv' /\ DoneInv'
<1>1. engine' = Process(engine.todo) /\ engine.todo \subseteq dirty'
  BY DEF Fail, ScanInv, DirtyInv
<1> QED BY <1>1, Processing, EngineOnly

LEMMA DiscoverScans ==
    ASSUME Inv, Inv', ScanInv, RulesLive, RowsLive, JobsLive, FilesGrow, Discover
    PROVE  ObservedInv' /\ DirtyInv' /\ LooksInv' /\ ItemsInv' /\ DoneInv'
<1>1. UNCHANGED <<files, active, dirty, obs>> /\ engine.todo \subseteq dirty
  BY DEF Discover, disk, memory, ScanInv, DirtyInv, At
<1>2. PICK a \in {x \in active : x.id \in engine.todo} :
         \/ engine' = Process(engine.todo \ {a.id})
         \/ engine' = [pc |-> "fingerprint", todo |-> engine.todo \ {a.id}, rule |-> a,
                       claims |-> [i \in Here(a.dir) |-> Claims(a.mode, files[a.dir][i].v)]]
  BY DEF Discover
<1>3. CASE engine' = Process(engine.todo \ {a.id})
  BY <1>1, <1>3, Processing, EngineOnly
<1>4. CASE engine' = [pc |-> "fingerprint", todo |-> engine.todo \ {a.id}, rule |-> a,
                      claims |-> [i \in Here(a.dir) |-> Claims(a.mode, files[a.dir][i].v)]]
  <2>1. a \in active /\ a.dir \in Dirs /\ a.id \in engine.todo
    BY ListingTypes
  <2>2. DirtyInv'
    BY <1>1, <1>4, <2>1 DEF DirtyInv
  <2>3. ASSUME NEW i \in Here(a.dir) PROVE \E v \in Versions : Looked(i, v)'
    <3>1. i \in Items /\ files[a.dir][i].v \in Versions
      BY <2>1, HereTypes DEF Inv
    <3>2. obs[a.id][a.dir][i] # NoRow => obs[a.id][a.dir][i].v <= files[a.dir][i].v
      BY <2>1, <3>1, ListingTypes DEF ScanInv, ObservedInv
    <3>3. files[a.dir][i].v <= files[a.dir][i].v
      BY <2>1, <3>1, FileTypes
    <3>4. engine'.claims[i] = Claims(a.mode, files[a.dir][i].v) /\ engine'.rule = a
      BY <1>4
    <3>5. PICK v \in Versions : v = files[a.dir][i].v
      BY <3>1
    <3>6. Looked(i, v)'
      BY <1>1, <3>2, <3>3, <3>4, <3>5 DEF Looked
    <3> QED BY <3>6
  <2>4. LooksInv'
    BY <1>4, <2>3 DEF LooksInv, At
  <2>5. ItemsInv'
    BY <1>4 DEF ItemsInv, At
  <2> QED BY <1>1, <2>2, <2>4, <2>5, EngineOnly
<1> QED BY <1>2, <1>3, <1>4

LEMMA FingerprintScans ==
    ASSUME Inv, Inv', ScanInv, RulesLive, RowsLive, JobsLive, FilesGrow, Fingerprint
    PROVE  ObservedInv' /\ DirtyInv' /\ LooksInv' /\ ItemsInv' /\ DoneInv'
<1> DEFINE d == engine.rule.dir
           found == DOMAIN engine.claims
           seen == [i \in found |-> [claims |-> engine.claims[i], v |-> files[d][i].v]]
<1>1. UNCHANGED <<files, active, dirty, obs>> /\ engine.pc = "fingerprint" /\ engine.pc \in Scanning
  BY DEF Fingerprint, disk, memory, At, Scanning
<1>2. CASE Fail
  BY <1>1, <1>2, FailScans
<1>3. CASE engine' = With([pc |-> "pause", seen |-> seen])
  <2>1. /\ {"pc", "rule", "claims", "todo"} \subseteq DOMAIN engine /\ found \subseteq Items
        /\ engine.rule.id \in Rules /\ d \in Dirs
    BY <1>1, InScan DEF Inv, EngineInv, At, ScanInv, DirtyInv, Scanning
  <2>2. /\ engine'.pc = "pause" /\ engine'.rule = engine.rule /\ engine'.todo = engine.todo
        /\ engine'.seen = seen /\ "todo" \in DOMAIN engine'
    <3> HIDE DEF seen
    <3> QED BY <1>3, <2>1 DEF With
  <2>3. DirtyInv'
    BY <1>1, <2>2 DEF ScanInv, DirtyInv
  <2>4. ASSUME NEW i \in found
        PROVE  /\ seen[i].v <= files'[d][i].v
               /\ Twice(i)' => Claimed(i)'
    <3>1. i \in Items /\ files[d][i].v \in Nat
      BY <2>1, FileTypes
    <3>2. PICK v \in Versions : Looked(i, v)
      BY <1>1 DEF ScanInv, LooksInv, At
    <3>3. ASSUME Twice(i)' PROVE Claimed(i)'
      <4>1. obs[engine.rule.id][d][i] # NoRow /\ obs[engine.rule.id][d][i].v = files[d][i].v
        BY <1>1, <2>2, <3>3 DEF Twice
      <4>2. files[d][i].v <= v /\ v <= files[d][i].v /\ v \in Nat
        BY <3>2, <4>1, IngestionAssumption DEF Looked, Versions
      <4>3. v = files[d][i].v
        BY <3>1, <4>2
      <4> QED BY <2>2, <3>2, <4>3 DEF Looked, Claimed
    <3> QED BY <1>1, <3>1, <3>3
  <2>5. LooksInv'
    BY <1>1, <2>2, <2>4 DEF LooksInv, At
  <2>6. ItemsInv'
    BY <2>2 DEF ItemsInv, At
  <2> QED BY <1>1, <2>3, <2>5, <2>6, EngineOnly
<1> QED BY <1>2, <1>3 DEF Fingerprint

LEMMA PauseScans ==
    ASSUME Inv, Inv', ScanInv, RulesLive, RowsLive, JobsLive, FilesGrow, Pause
    PROVE  ObservedInv' /\ DirtyInv' /\ LooksInv' /\ ItemsInv' /\ DoneInv'
<1>1. UNCHANGED <<files, active, dirty, obs>> /\ engine.pc = "pause" /\ engine.pc \in Scanning
  BY DEF Pause, disk, memory, At, Scanning
<1>2. CASE Fail
  BY <1>1, <1>2, FailScans
<1>3. CASE engine' = With([pc |-> "items", left |-> DOMAIN engine.seen, lag |-> 0,
                           stable |-> Stable(engine.rule, engine.seen)])
  <2> DEFINE stable == Stable(engine.rule, engine.seen)
  <2>1. {"pc", "rule", "seen", "todo"} \subseteq DOMAIN engine
    BY <1>1, InHand DEF ScanInv, DirtyInv
  <2>2. /\ engine'.pc = "items" /\ engine'.rule = engine.rule /\ engine'.todo = engine.todo
        /\ engine'.seen = engine.seen /\ engine'.left = DOMAIN engine.seen /\ engine'.lag = 0
        /\ engine'.stable = stable /\ {"todo", "stable", "lag"} \subseteq DOMAIN engine'
    <3> DEFINE new == [pc |-> "items", left |-> DOMAIN engine.seen, lag |-> 0, stable |-> stable]
    <3>1. /\ DOMAIN new = {"pc", "left", "lag", "stable"}
          /\ new.pc = "items" /\ new.left = DOMAIN engine.seen /\ new.lag = 0 /\ new.stable = stable
      OBVIOUS
    <3>2. engine' = With(new)
      BY <1>3
    <3> HIDE DEF new, stable
    <3>3. engine' = [f \in DOMAIN new \cup DOMAIN engine |->
                       IF f \in DOMAIN new THEN new[f] ELSE engine[f]]
      BY <3>2 DEF With
    <3>4. \A f \in {"pc", "left", "lag", "stable"} : f \in DOMAIN engine' /\ engine'[f] = new[f]
      BY <3>1, <3>3
    <3>5. \A f \in {"rule", "seen", "todo"} : f \in DOMAIN engine' /\ engine'[f] = engine[f]
      BY <2>1, <3>1, <3>3
    <3> QED BY <3>1, <3>4, <3>5
  <2>3. DirtyInv'
    BY <1>1, <2>2 DEF ScanInv, DirtyInv
  <2>4. stable \subseteq DOMAIN engine.seen /\ \A i \in stable : Twice(i) /\ Claimed(i)
    BY <1>1 DEF Stable, ScanInv, LooksInv, At, Twice
  <2>5. \A i \in stable : Twice(i)' /\ Claimed(i)'
    BY <1>1, <2>2, <2>4 DEF Twice, Claimed
  <2>6. \A i \in DOMAIN engine.seen : engine.seen[i].v <= files'[engine.rule.dir][i].v
    BY <1>1 DEF ScanInv, LooksInv
  <2> HIDE DEF stable
  <2>7. LooksInv'
    BY <2>2, <2>4, <2>5, <2>6 DEF LooksInv, At
  <2>8. ItemsInv'
    BY <2>2, <2>4 DEF ItemsInv, At
  <2> QED BY <1>1, <2>3, <2>7, <2>8, EngineOnly
<1> QED BY <1>2, <1>3 DEF Pause

\* What the supervisor knows at the items of a rule.
LEMMA AtItems ==
    ASSUME Inv, ScanInv, engine.pc \in {"items", "settle"}
    PROVE  /\ {"pc", "rule", "seen", "todo", "left", "stable", "lag"} \subseteq DOMAIN engine
           /\ engine.pc \in Scanning /\ engine.lag \in Nat
           /\ engine.left \subseteq DOMAIN engine.seen /\ engine.stable \subseteq DOMAIN engine.seen
           /\ engine.rule \in active /\ engine.rule.id \in dirty \ engine.todo /\ engine.todo \subseteq dirty
           /\ engine.rule.id \in Rules /\ engine.rule.dir \in Dirs /\ rules[engine.rule.id] # Unused
<1>1. engine.pc \in Scanning
  BY DEF Scanning
<1> QED BY <1>1, InHand, InScan DEF Inv, EngineInv, ScanInv, DirtyInv, LooksInv

\* Answers of the scan stay as long as the rule exists.
LEMMA ItemStays ==
    ASSUME Inv, Inv', ScanInv, RulesLive, RowsLive, JobsLive,
           engine.pc \in {"items", "settle"}, NEW i \in engine.stable \ engine.left,
           NEW r, r = engine.rule.id, NEW k, k = <<r, i, engine.seen[i].v>>,
           NEW mode, mode = engine.rule.mode, Exists(r)'
    PROVE  Answered(k, mode)'
<1>1. k \in Keys /\ r \in Rules /\ rules[r] # Unused /\ k[1] = r
  BY AtItems, SeenTypes, KeyTypes
<1>2. Exists(r)
  BY <1>1, SameHome
<1>3. Answered(k, mode)
  BY <1>2 DEF ScanInv, ItemsInv
<1> QED BY <1>1, <1>3, OutcomeStays DEF Exists

LEMMA ObserveScans ==
    ASSUME Inv, Inv', ScanInv, RulesLive, RowsLive, JobsLive, FilesGrow, Observe
    PROVE  ObservedInv' /\ DirtyInv' /\ LooksInv' /\ ItemsInv' /\ DoneInv'
<1>1. UNCHANGED <<rules, rows, jobs, files, active, dirty>> /\ engine.pc = "items"
  BY DEF Observe, tables, disk, At
<1>2. PICK i \in engine.left \ engine.stable :
         /\ obs' = IF obs[engine.rule.id][engine.rule.dir][i] # NoRow
                      /\ obs[engine.rule.id][engine.rule.dir][i].v = engine.seen[i].v
                   THEN obs
                   ELSE [obs EXCEPT ![engine.rule.id][engine.rule.dir][i] = [v |-> engine.seen[i].v, age |-> engine.lag]]
         /\ engine' = [engine EXCEPT !.left = @ \ {i}]
  BY DEF Observe
<1>3. i \in DOMAIN engine.seen /\ i \in Items /\ engine.seen[i].v \in Versions
  BY <1>1, <1>2, AtItems, SeenTypes
<1>4. /\ engine'.pc = "items" /\ engine'.rule = engine.rule /\ engine'.seen = engine.seen
      /\ engine'.left = engine.left \ {i} /\ engine'.stable = engine.stable /\ engine'.lag = engine.lag
      /\ engine'.todo = engine.todo /\ DOMAIN engine' = DOMAIN engine
  BY <1>1, <1>2, AtItems
<1> DEFINE Here0(r, d, j) == r = engine.rule.id /\ d = engine.rule.dir /\ j = i
<1>5. /\ obs' \in Observations
      /\ \A r \in Rules, d \in Dirs, j \in Items : ~Here0(r, d, j) => obs'[r][d][j] = obs[r][d][j]
      /\ obs'[engine.rule.id][engine.rule.dir][i].v = engine.seen[i].v
  <2> DEFINE new == [v |-> engine.seen[i].v, age |-> engine.lag]
  <2>1. new \in [v: Versions, age: Nat] /\ new.v = engine.seen[i].v
    BY <1>1, <1>3, AtItems
  <2>2. \/ obs' = obs /\ obs[engine.rule.id][engine.rule.dir][i].v = engine.seen[i].v
        \/ obs' = [obs EXCEPT ![engine.rule.id][engine.rule.dir][i] = new]
    BY <1>2
  <2> HIDE DEF new
  <2>3. engine.rule.id \in Rules /\ engine.rule.dir \in Dirs /\ obs \in Observations
    BY <1>1, AtItems DEF ScanInv, ObservedInv
  <2>4. CASE obs' = [obs EXCEPT ![engine.rule.id][engine.rule.dir][i] = new]
    <3>1. obs' \in Observations
      BY <1>3, <2>1, <2>3, <2>4 DEF Observations
    <3>2. obs'[engine.rule.id][engine.rule.dir][i] = new
      BY <1>3, <2>3, <2>4 DEF Observations
    <3>3. \A r \in Rules, d \in Dirs, j \in Items : ~Here0(r, d, j) => obs'[r][d][j] = obs[r][d][j]
      BY <1>3, <2>3, <2>4 DEF Observations
    <3> QED BY <2>1, <3>1, <3>2, <3>3
  <2> QED BY <2>2, <2>3, <2>4
<1>7. ObservedInv'
  <2>1. ASSUME NEW r \in Rules, NEW d \in Dirs, NEW j \in Items, obs'[r][d][j] # NoRow
        PROVE  obs'[r][d][j].v <= files'[d][j].v
    <3>1. CASE Here0(r, d, j)
      BY <1>1, <1>3, <1>5, <3>1 DEF ScanInv, LooksInv
    <3>2. CASE ~Here0(r, d, j)
      BY <1>1, <1>5, <2>1, <3>2 DEF ScanInv, ObservedInv
    <3> QED BY <3>1, <3>2
  <2> QED BY <1>5, <2>1 DEF ObservedInv
<1>8. DirtyInv'
  BY <1>1, <1>4, AtItems DEF DirtyInv
<1>9. LooksInv'
  <2>1. \A j \in engine.stable : Twice(j)' /\ Claimed(j)'
    <3> SUFFICES ASSUME NEW j \in engine.stable PROVE Twice(j)' /\ Claimed(j)'
      OBVIOUS
    <3>1. j # i /\ j \in Items
      BY <1>1, <1>2, AtItems, SeenTypes
    <3>2. obs'[engine.rule.id][engine.rule.dir][j] = obs[engine.rule.id][engine.rule.dir][j]
          /\ Twice(j) /\ Claimed(j)
      BY <1>1, <1>5, <3>1, AtItems DEF ScanInv, LooksInv
    <3> QED BY <1>4, <3>2 DEF Twice, Claimed
  <2> QED BY <1>1, <1>4, <2>1, AtItems DEF LooksInv, At, ScanInv
<1>10. ItemsInv'
  <2>1. engine'.stable \ engine'.left = engine.stable \ engine.left
    BY <1>2, <1>4
  <2> QED BY <1>1, <1>4, <2>1 DEF ScanInv, ItemsInv, At, Answered, Exists
<1>11. DoneInv'
  <2>1. \A a \in active, j \in Items : a.id \notin dirty => obs'[a.id][a.dir][j] = obs[a.id][a.dir][j]
    BY <1>1, <1>5, AtItems, ListingTypes
  <2> QED BY <1>1, <2>1 DEF ScanInv, DoneInv, Answered, Exists
<1> QED BY <1>7, <1>8, <1>9, <1>10, <1>11

LEMMA ReserveSourceScans ==
    ASSUME Inv, Inv', ScanInv, RulesLive, RowsLive, JobsLive, FilesGrow, ReserveSource
    PROVE  ObservedInv' /\ DirtyInv' /\ LooksInv' /\ ItemsInv' /\ DoneInv'
<1>1. UNCHANGED <<files, active, dirty, obs>> /\ engine.pc = "items"
  BY DEF ReserveSource, disk, memory, At
<1>2. PICK i \in engine.left \cap engine.stable :
         LET k == <<engine.rule.id, i, engine.seen[i].v>>
         IN \/ /\ rows' = Inserted(k)
               /\ engine' = With([pc |-> "settle", key |-> k, job |-> rows'[k].job])
            \/ Fail
  BY DEF ReserveSource
<1>3. CASE Fail
  BY <1>1, <1>3, FailScans, AtItems
<1>4. PICK k \in Keys : k = <<engine.rule.id, i, engine.seen[i].v>>
  BY <1>1, <1>2, AtItems, SeenTypes, KeyTypes
<1>5. CASE rows' = Inserted(k) /\ engine' = With([pc |-> "settle", key |-> k, job |-> rows'[k].job])
  <2>1. /\ engine'.pc = "settle" /\ engine'.rule = engine.rule /\ engine'.seen = engine.seen
        /\ engine'.left = engine.left /\ engine'.stable = engine.stable /\ engine'.lag = engine.lag
        /\ engine'.todo = engine.todo /\ engine'.key = k /\ engine'.job = rows'[k].job
        /\ {"todo", "stable", "lag"} \subseteq DOMAIN engine'
    <3> DEFINE new == [pc |-> "settle", key |-> k, job |-> rows'[k].job]
    <3>1. /\ DOMAIN new = {"pc", "key", "job"}
          /\ new.pc = "settle" /\ new.key = k /\ new.job = rows'[k].job
      OBVIOUS
    <3>2. engine' = With(new)
      BY <1>5
    <3> HIDE DEF new
    <3>3. engine' = [f \in DOMAIN new \cup DOMAIN engine |->
                       IF f \in DOMAIN new THEN new[f] ELSE engine[f]]
      BY <3>2 DEF With
    <3>4. \A f \in {"pc", "key", "job"} : f \in DOMAIN engine' /\ engine'[f] = new[f]
      BY <3>1, <3>3
    <3>5. \A f \in {"rule", "seen", "todo", "left", "stable", "lag"} :
             f \in DOMAIN engine' /\ engine'[f] = engine[f]
      BY <1>1, <3>1, <3>3, AtItems
    <3> QED BY <3>1, <3>4, <3>5
  <2>2. DirtyInv'
    BY <1>1, <2>1, AtItems DEF DirtyInv
  <2>3. \A j \in engine.stable : Twice(j)' /\ Claimed(j)'
    BY <1>1, <2>1 DEF ScanInv, LooksInv, Twice, Claimed
  <2>4. LooksInv'
    BY <1>1, <2>1, <2>3, AtItems DEF LooksInv, At, ScanInv
  <2>5. rows'[k] # NoRow
    <3> DEFINE new == [status |-> "processing", review |-> {}, job |-> 0]
    <3>1. new \in Row /\ (rows[k] = NoRow => rows' = [rows EXCEPT ![k] = new])
          /\ (rows[k] # NoRow => rows' = rows)
      BY <1>5, RowTypes DEF Inserted, Statuses
    <3> HIDE DEF new
    <3> QED BY <3>1, NoRowAssumption DEF Inv, StoreInv
  <2>6. ItemsInv'
    <3>1. ASSUME NEW j \in engine'.stable \ engine'.left, Exists(engine.rule.id)'
          PROVE  Answered(<<engine.rule.id, j, engine.seen[j].v>>, engine.rule.mode)'
      <4>1. PICK r \in {engine.rule.id}, mode \in {engine.rule.mode} : TRUE
        OBVIOUS
      <4>2. PICK l \in {<<r, j, engine.seen[j].v>>} : TRUE
        OBVIOUS
      <4>3. Exists(r)'
        BY <2>1, <3>1, <4>1 DEF Exists
      <4>4. Answered(l, mode)'
        BY <1>1, <2>1, <3>1, <4>1, <4>2, <4>3, ItemStays
      <4>5. r = engine'.rule.id /\ mode = engine'.rule.mode /\ l = <<r, j, engine'.seen[j].v>>
        BY <2>1, <4>1, <4>2
      <4> QED BY <4>4, <4>5 DEF Answered
    <3>2. k[2] = i /\ engine'.key[2] = i
      BY <1>4, <2>1
    <3> QED BY <1>2, <1>4, <2>1, <2>5, <3>1, <3>2 DEF ItemsInv, At
  <2> QED BY <1>1, <2>2, <2>4, <2>6, EngineOnly
<1> QED BY <1>2, <1>3, <1>4, <1>5

LEMMA SettleScans ==
    ASSUME Inv, Inv', ScanInv, RulesLive, RowsLive, JobsLive, FilesGrow, Settle
    PROVE  ObservedInv' /\ DirtyInv' /\ LooksInv' /\ ItemsInv' /\ DoneInv'
<1>1. /\ UNCHANGED <<rules, files, active, dirty, obs>> /\ engine.pc = "settle"
      /\ engine' = [engine EXCEPT !.pc = "items", !.left = @ \ {engine.key[2]}]
  BY DEF Settle, ItemDone, disk, memory, At
<1>2. PICK k \in Keys : k = engine.key
  BY <1>1 DEF Inv, EngineInv, At
<1>3. PICK i \in engine.stable : /\ i = k[2] /\ k = <<engine.rule.id, i, engine.seen[i].v>>
                                 /\ Twice(i) /\ Claimed(i) /\ i \in DOMAIN engine.seen
  BY <1>1, <1>2 DEF ScanInv, ItemsInv, LooksInv, At
<1>4. /\ engine'.pc = "items" /\ engine'.rule = engine.rule /\ engine'.seen = engine.seen
      /\ engine'.left = engine.left \ {i} /\ engine'.stable = engine.stable /\ engine'.lag = engine.lag
      /\ engine'.todo = engine.todo /\ DOMAIN engine' = DOMAIN engine
  BY <1>1, <1>2, <1>3, AtItems
<1>5. DirtyInv'
  BY <1>1, <1>4, AtItems DEF DirtyInv
<1>6. \A j \in engine.stable : Twice(j)' /\ Claimed(j)'
  BY <1>1, <1>4 DEF ScanInv, LooksInv, Twice, Claimed
<1>7. LooksInv'
  BY <1>1, <1>4, <1>6, AtItems DEF LooksInv, At, ScanInv
<1>8. PICK mode \in {engine.rule.mode}, r \in {engine.rule.id} : TRUE
  OBVIOUS
<1>9. ASSUME Exists(r)' PROVE Answered(k, mode)'
  <2>1. Exists(k[1]) /\ k[1] = r
    BY <1>1, <1>3, <1>8, <1>9 DEF Exists
  <2>2. rows[k] # NoRow /\ (engine.job # 0 => rows[k].job # 0)
    BY <1>1, <1>2, <2>1 DEF ScanInv, ItemsInv, At
  <2>3. rows'[k] # NoRow /\ (rows[k].job # 0 => rows'[k].job # 0)
    BY <1>1, <2>1, <2>2, AnswersStay DEF Exists
  <2>4. ASSUME Outcome(Claims(mode, k[3])) = "ready", engine.job = 0 PROVE rows'[k].job # 0
    <3>1. engine.seen[k[2]].claims = Claims(mode, k[3])
      BY <1>3, <1>8 DEF Claimed
    <3>2. Outcome(engine.seen[k[2]].claims) = "ready"
      BY <2>4, <3>1
    <3>3. PICK kind : CreateForSource(k, kind, TRUE)
      BY <1>2, <2>4, <3>2 DEF Settle
    <3>4. CASE rows[k].job = 0
      <4>1. rows' = [rows EXCEPT ![k] = [status |-> "processing", review |-> {}, job |-> Len(jobs')]]
            /\ jobs' = Append(jobs, [key |-> k, kind |-> kind, auto |-> TRUE])
        BY <3>3, <3>4 DEF CreateForSource
      <4>2. rows'[k].job = Len(jobs')
        BY <4>1 DEF Inv, StoreInv
      <4>3. Len(jobs') # 0
        BY <4>1 DEF Inv, StoreInv
      <4> QED BY <4>2, <4>3
    <3> QED BY <2>3, <3>4
  <2> QED BY <2>2, <2>3, <2>4 DEF Answered
<1>10. ASSUME NEW j \in engine'.stable \ engine'.left, Exists(engine.rule.id)'
       PROVE  Answered(<<engine.rule.id, j, engine.seen[j].v>>, engine.rule.mode)'
  <2>1. PICK l \in {<<r, j, engine.seen[j].v>>} : TRUE
    OBVIOUS
  <2>2. Exists(r)'
    BY <1>4, <1>8, <1>10 DEF Exists
  <2>3. Answered(l, mode)'
    <3>1. CASE j = i
      BY <1>3, <1>8, <1>9, <2>1, <2>2, <3>1
    <3>2. CASE j # i
      BY <1>1, <1>4, <1>8, <1>10, <2>1, <2>2, <3>2, ItemStays
    <3> QED BY <3>1, <3>2
  <2>4. r = engine'.rule.id /\ mode = engine'.rule.mode /\ l = <<r, j, engine'.seen[j].v>>
    BY <1>4, <1>8, <2>1
  <2> QED BY <2>3, <2>4 DEF Answered
<1>11. ItemsInv'
  BY <1>4, <1>10 DEF ItemsInv, At
<1> QED BY <1>1, <1>5, <1>7, <1>11, EngineOnly

LEMMA FinishRuleScans ==
    ASSUME Inv, Inv', ScanInv, RulesLive, RowsLive, JobsLive, FilesGrow, FinishRule
    PROVE  ObservedInv' /\ DirtyInv' /\ LooksInv' /\ ItemsInv' /\ DoneInv'
<1>1. /\ UNCHANGED <<rules, rows, jobs, files, active>> /\ engine.pc = "items" /\ engine.left = {}
      /\ engine' = Process(engine.todo)
      /\ obs' = [obs EXCEPT ![engine.rule.id] = Retained(engine.rule, engine.seen)]
      /\ dirty' = IF engine.stable = DOMAIN engine.seen THEN dirty \ {engine.rule.id} ELSE dirty
  BY DEF FinishRule, tables, disk, At
<1>2. engine.rule.id \in Rules /\ obs \in Observations
  BY <1>1, AtItems DEF ScanInv, ObservedInv
<1>3. DirtyInv' /\ LooksInv' /\ ItemsInv'
  <2>1. engine.todo \subseteq dirty'
    BY <1>1, AtItems
  <2> QED BY <1>1, <2>1, Processing
<1>4. /\ obs' \in Observations
      /\ \A r \in Rules, d \in Dirs, i \in Items : obs'[r][d][i] # NoRow =>
            obs'[r][d][i] = obs[r][d][i] /\ (r = engine.rule.id => i \in DOMAIN engine.seen)
  <2> DEFINE new == Retained(engine.rule, engine.seen)
  <2>1. /\ new \in [Dirs -> [Items -> {NoRow} \cup [v: Versions, age: Nat]]]
        /\ \A d \in Dirs, i \in Items : new[d][i] # NoRow =>
              new[d][i] = obs[engine.rule.id][d][i] /\ i \in DOMAIN engine.seen
    BY <1>2 DEF Retained, Observations
  <2>2. obs' = [obs EXCEPT ![engine.rule.id] = new]
    BY <1>1
  <2> HIDE DEF new
  <2> QED BY <1>2, <2>1, <2>2 DEF Observations
<1>5. ObservedInv'
  BY <1>1, <1>4, ObservedLess DEF ScanInv
<1>6. ASSUME NEW a \in active, a.id \notin dirty', Exists(a.id)', NEW i \in Items, obs'[a.id][a.dir][i] # NoRow
      PROVE  Answered(<<a.id, i, obs[a.id][a.dir][i].v>>, a.mode)
  <2>1. a.id \in Rules /\ obs'[a.id][a.dir][i] = obs[a.id][a.dir][i] /\ Exists(a.id)
    BY <1>1, <1>4, <1>6, ListingTypes DEF Exists
  <2>2. CASE a.id = engine.rule.id
    <3>1. a = engine.rule
      BY <1>1, <2>2, AtItems DEF ScanInv, HomesInv
    <3>2. i \in engine.stable
      <4>1. a.dir \in Dirs
        BY <1>6, ListingTypes
      <4>2. i \in DOMAIN engine.seen
        BY <1>4, <1>6, <2>1, <2>2, <4>1
      <4>3. engine.stable = DOMAIN engine.seen
        <5>1. engine.rule.id \in dirty
          BY <1>1, AtItems
        <5> QED BY <1>1, <1>6, <2>2, <5>1
      <4> QED BY <4>2, <4>3
    <3>3. obs[a.id][a.dir][i].v = engine.seen[i].v
      BY <1>1, <3>1, <3>2 DEF ScanInv, LooksInv, Twice
    <3> QED BY <1>1, <2>1, <3>1, <3>2, <3>3 DEF ScanInv, ItemsInv
  <2>3. CASE a.id # engine.rule.id
    BY <1>1, <1>6, <2>1, <2>3 DEF ScanInv, DoneInv
  <2> QED BY <2>2, <2>3
<1>7. DoneInv'
  <2>1. \A a \in active, i \in Items : obs'[a.id][a.dir][i] # NoRow => obs'[a.id][a.dir][i] = obs[a.id][a.dir][i]
    BY <1>4, ListingTypes
  <2> QED BY <1>1, <1>6, <2>1 DEF DoneInv, Answered, Exists
<1> QED BY <1>3, <1>5, <1>7

LEMMA ScanSteps ==
    ASSUME Inv, Inv', ScanInv, [Next]_vars
    PROVE  ScanInv'
<1>1. RulesLive /\ RowsLive /\ JobsLive /\ FilesGrow
  BY StepEffects
<1>2. HomesInv'
  BY HomesStep DEF ScanInv
<1>3. CASE Reconcile
  <2>1. CASE SettleFails
    BY <1>1, <1>2, <2>1, FailScans DEF SettleFails, At, Scanning, memory, ScanInv
  <2> QED BY <1>1, <1>2, <1>3, <2>1, DiscoverScans, FingerprintScans, PauseScans, ObserveScans,
             ReserveSourceScans, SettleScans, FinishRuleScans DEF Reconcile, ScanInv
<1> QED BY <1>1, <1>2, <1>3, LoopScans, ReloadScans, OutsideScans DEF Next, Engine, ScanInv

LEMMA ScanStarts == Init => ScanInv
<1> SUFFICES ASSUME Init PROVE ScanInv
  OBVIOUS
<1>1. engine = [pc |-> "reload", after |-> "process"] /\ active = {}
      /\ obs = [r \in Rules |-> Unobserved]
  BY DEF Init, Starting
<1>2. obs \in Observations /\ \A r \in Rules, d \in Dirs, i \in Items : obs[r][d][i] = NoRow
  BY <1>1 DEF Observations, Unobserved
<1> QED BY <1>1, <1>2 DEF ScanInv, HomesInv, ObservedInv, DirtyInv, LooksInv, ItemsInv, DoneInv, Listing, Scanning, At

\* What is known of a scan is of one folder, what is stable has the claims of its version, and
\* nothing is owed to a rule that is not dirty, whatever rules are changed, moved and deleted.
THEOREM ScansAreSound == Spec => []ScanInv
<1>1. Inv /\ Inv' /\ ScanInv /\ [Next]_vars => ScanInv'
  BY ScanSteps
<1> QED BY <1>1, ScanStarts, IngestionInvariant, PTL DEF Spec

\* A rule leaves the dirty set only when nothing is owed to what was observed beneath it: every
\* observed version has its row, and its job if the version needs no review, whatever fails,
\* restarts, and is changed, moved to another folder, disabled or deleted meanwhile.
THEOREM NothingIsForgotten == Spec => []NothingForgotten
<1>1. Inv /\ ScanInv => NothingForgotten
  BY DEF ScanInv, DoneInv, NothingForgotten, Answered
<1> QED BY <1>1, IngestionInvariant, ScansAreSound, PTL

-----------------------------------------------------------------------------
(***************************************************************************)
(* The kinds of automatic jobs come from what scanners claim of a version. *)
(***************************************************************************)
RowsFit == \A k \in Keys : rows[k] # NoRow => rows[k].review \subseteq Kinds(k[3])
JobsFit == \A n \in DOMAIN jobs : jobs[n].auto => jobs[n].kind \in Kinds(jobs[n].key[3])
CallsFit == \A c \in Callers : calls[c].pc = "create" /\ calls[c].auto =>
               calls[c].kind \in Kinds(calls[c].key[3])
FitsInv == RowsFit /\ JobsFit /\ CallsFit

\* Reviews offer what was claimed, or are emptied.
LEMMA RowsStayFit ==
    ASSUME Inv, RowsFit,
           \/ UNCHANGED rows
           \/ \E k \in Keys, s \in Statuses : rows[k] # NoRow /\ rows' = WithStatus(k, s)
           \/ \E k \in Keys : \E kinds \in SUBSET Kinds(k[3]) : rows[k] # NoRow /\ rows' = WithReview(k, kinds)
           \/ \E r \in Rules : rows' = Paused(r)
           \/ \E k \in Keys : rows' = Inserted(k)
           \/ \E k \in Keys : \E kind, auto : CreateForSource(k, kind, auto)
    PROVE  RowsFit'
<1>1. rows \in [Keys -> Row \cup {NoRow}] /\ \A k \in Keys : rows[k] # NoRow => rows[k] \in Row
  BY DEF Inv, StoreInv
<1>2. ASSUME NEW k \in Keys, NEW new, rows' = [rows EXCEPT ![k] = new], new.review \subseteq Kinds(k[3])
      PROVE  RowsFit'
  BY <1>1, <1>2 DEF RowsFit
<1>3. CASE \E k \in Keys, s \in Statuses : rows[k] # NoRow /\ rows' = WithStatus(k, s)
  <2>1. PICK k \in Keys, s \in Statuses : rows[k] # NoRow /\ rows' = WithStatus(k, s)
    BY <1>3
  <2> DEFINE new == [rows[k] EXCEPT !.status = s]
  <2>2. rows' = [rows EXCEPT ![k] = new] /\ new.review = rows[k].review
    BY <1>1, <2>1 DEF WithStatus, Row
  <2> HIDE DEF new
  <2> QED BY <1>2, <2>1, <2>2 DEF RowsFit
<1>4. CASE \E k \in Keys : \E kinds \in SUBSET Kinds(k[3]) : rows[k] # NoRow /\ rows' = WithReview(k, kinds)
  <2>0. PICK k \in Keys : \E kinds \in SUBSET Kinds(k[3]) : rows[k] # NoRow /\ rows' = WithReview(k, kinds)
    BY <1>4
  <2>1. PICK kinds \in SUBSET Kinds(k[3]) : rows[k] # NoRow /\ rows' = WithReview(k, kinds)
    BY <2>0
  <2> DEFINE new == [rows[k] EXCEPT !.status = "needs_review", !.review = kinds]
  <2>2. rows' = [rows EXCEPT ![k] = new] /\ new.review = kinds
    BY <1>1, <2>1 DEF WithReview, Row
  <2> HIDE DEF new
  <2> QED BY <1>2, <2>1, <2>2
<1>5. CASE \E r \in Rules : rows' = Paused(r)
  <2>1. PICK r \in Rules : rows' = Paused(r)
    BY <1>5
  <2>2. ASSUME NEW k \in Keys, rows'[k] # NoRow PROVE rows'[k].review \subseteq Kinds(k[3])
    <3>1. CASE k[1] = r /\ rows[k] # NoRow
      <4> DEFINE new == [rows[k] EXCEPT !.status = "paused", !.review = {}]
      <4>1. rows'[k] = new /\ new.review = {}
        BY <1>1, <2>1, <3>1 DEF Paused, Row
      <4> HIDE DEF new
      <4> QED BY <4>1
    <3>2. CASE ~(k[1] = r /\ rows[k] # NoRow)
      BY <2>1, <2>2, <3>2 DEF Paused, RowsFit
    <3> QED BY <3>1, <3>2
  <2> QED BY <2>2 DEF RowsFit
<1>6. CASE \E k \in Keys : rows' = Inserted(k)
  <2>1. PICK k \in Keys : rows' = Inserted(k)
    BY <1>6
  <2> DEFINE new == [status |-> "processing", review |-> {}, job |-> 0]
  <2>2. new.review = {} /\ (rows' = rows \/ rows' = [rows EXCEPT ![k] = new])
    BY <2>1 DEF Inserted
  <2> HIDE DEF new
  <2> QED BY <1>2, <2>2 DEF RowsFit
<1>7. CASE \E k \in Keys : \E kind, auto : CreateForSource(k, kind, auto)
  <2>1. PICK k \in Keys : \E kind, auto : CreateForSource(k, kind, auto)
    BY <1>7
  <2> DEFINE new == [status |-> "processing", review |-> {}, job |-> Len(jobs')]
  <2>2. new.review = {} /\ (rows' = rows \/ rows' = [rows EXCEPT ![k] = new])
    BY <2>1 DEF CreateForSource
  <2> HIDE DEF new
  <2> QED BY <1>2, <2>2 DEF RowsFit
<1> QED BY <1>3, <1>4, <1>5, <1>6, <1>7 DEF RowsFit

\* The job of a source has the kind that was asked for.
LEMMA JobsStayFit ==
    ASSUME Inv, JobsFit, NEW k, NEW kind, NEW auto, auto => kind \in Kinds(k[3]),
           CreateForSource(k, kind, auto)
    PROVE  JobsFit'
<1> DEFINE job == [key |-> k, kind |-> kind, auto |-> auto]
<1>1. UNCHANGED jobs \/ jobs' = Append(jobs, job)
  BY DEF CreateForSource
<1>2. job.auto => job.kind \in Kinds(job.key[3])
  OBVIOUS
<1> HIDE DEF job
<1>3. CASE jobs' = Append(jobs, job)
  <2>1. \A n \in DOMAIN jobs' : jobs'[n] = job \/ (n \in DOMAIN jobs /\ jobs'[n] = jobs[n])
    BY <1>3 DEF Inv, StoreInv
  <2> QED BY <1>2, <2>1 DEF JobsFit
<1> QED BY <1>1, <1>3 DEF JobsFit

\* A request that is not about to create a job, or about to create one that fits.
LEMMA CallsStayFit ==
    ASSUME Inv, CallsFit, NEW c \in Callers, NEW s, Request(c, s),
           s.pc = "create" /\ s.auto => s.kind \in Kinds(s.key[3])
    PROVE  CallsFit'
<1>1. calls'[c] = s /\ \A d \in Callers \ {c} : calls'[d] = calls[d]
  BY DEF Inv, CallsInv, Request
<1> QED BY <1>1 DEF CallsFit

LEMMA EngineFits == ASSUME Inv, ScanInv, FitsInv, Engine \/ Loop PROVE FitsInv'
<1>1. CallsFit'
  BY EngineEffects DEF FitsInv, CallsFit
<1>2. CASE Settle
  <2> DEFINE claims == engine.seen[engine.key[2]].claims
  <2>1. PICK k \in Keys : k = engine.key
    BY <1>2 DEF Settle, At, Inv, EngineInv
  <2>2. claims \subseteq Kinds(k[3])
    <3>1. /\ engine.key[2] \in engine.stable /\ k[3] = engine.seen[engine.key[2]].v
          /\ Claimed(engine.key[2])
      BY <1>2, <2>1 DEF Settle, At, ScanInv, LooksInv, ItemsInv
    <3> QED BY <3>1 DEF Claimed, Claims
  <2> HIDE DEF claims
  <2>3. \/ UNCHANGED jobs /\ \E s \in Statuses : rows' = WithStatus(k, s)
        \/ UNCHANGED jobs /\ rows' = WithReview(k, claims)
        \/ \E kind \in claims : CreateForSource(k, kind, TRUE)
    BY <1>2, <2>1 DEF Settle, Statuses, claims
  <2>4. rows[k] # NoRow
    BY <1>2, <2>1 DEF Settle
  <2>5. RowsFit'
    BY <2>2, <2>3, <2>4, RowsStayFit DEF FitsInv
  <2>6. JobsFit'
    <3>1. CASE UNCHANGED jobs
      BY <3>1 DEF FitsInv, JobsFit
    <3>2. CASE \E kind \in claims : CreateForSource(k, kind, TRUE)
      BY <2>2, <3>2, JobsStayFit DEF FitsInv
    <3> QED BY <2>3, <3>1, <3>2
  <2> QED BY <1>1, <2>5, <2>6 DEF FitsInv
<1>3. ASSUME UNCHANGED jobs,
             \/ UNCHANGED rows
             \/ \E k \in Keys, s \in Statuses : rows[k] # NoRow /\ rows' = WithStatus(k, s)
             \/ \E r \in Rules : rows' = Paused(r)
             \/ \E k \in Keys : rows' = Inserted(k)
      PROVE  FitsInv'
  BY <1>1, <1>3, RowsStayFit DEF FitsInv, JobsFit
<1>4. CASE ReserveSource
  <2>1. PICK i \in engine.left \cap engine.stable :
           rows' \in {Inserted(<<engine.rule.id, i, engine.seen[i].v>>), rows}
    BY <1>4 DEF ReserveSource
  <2>2. <<engine.rule.id, i, engine.seen[i].v>> \in Keys
    BY <1>4, <2>1, AtItems, SeenTypes, KeyTypes DEF ReserveSource, At
  <2> QED BY <1>3, <1>4, <2>1, <2>2 DEF ReserveSource
<1>5. CASE SettleFails
  BY <1>3, <1>5 DEF SettleFails, Statuses, At, Inv, EngineInv
<1>6. CASE Pause
  BY <1>3, <1>6, InHand DEF Pause, At
<1>7. CASE Loop \/ Reload \/ Discover \/ Fingerprint \/ Observe \/ FinishRule
  BY <1>3, <1>7 DEF Loop, TakeNotice, TakeEvent, DebounceTick, PeriodicTick, Stop, Reload, ReloadRead,
                    Resolve, ReloadEnd, Discover, Fingerprint, Observe, FinishRule, tables
<1> QED BY <1>2, <1>4, <1>5, <1>6, <1>7 DEF Engine, Reconcile

LEMMA RequestsFit == ASSUME Inv, FitsInv, Requests PROVE FitsInv'
<1>1. PICK c \in Callers : ReviewRead(c) \/ RuleJobRead(c) \/ RuleJobReserve(c) \/ Create(c) \/ RequestFails(c)
  BY DEF Requests
<1>2. CASE ReviewRead(c)
  <2>1. PICK k \in Keys : rows[k] # NoRow /\ \E kind \in rows[k].review :
           Request(c, [pc |-> "create", key |-> k, kind |-> kind, auto |-> TRUE])
    BY <1>2 DEF ReviewRead, Reviewable
  <2>2. PICK kind \in rows[k].review :
           Request(c, [pc |-> "create", key |-> k, kind |-> kind, auto |-> TRUE])
    BY <2>1
  <2>3. kind \in Kinds(k[3])
    BY <2>1, <2>2 DEF FitsInv, RowsFit
  <2> QED BY <1>2, <2>2, <2>3, CallsStayFit DEF FitsInv, RowsFit, JobsFit, ReviewRead, tables
<1>3. CASE RuleJobRead(c)
  <2>1. PICK a, i, kind : Request(c, [pc |-> "fingerprint", rule |-> a, item |-> i, kind |-> kind])
    BY <1>3 DEF RuleJobRead
  <2> QED BY <1>3, <2>1, CallsStayFit DEF FitsInv, RowsFit, JobsFit, RuleJobRead, tables
<1>4. CASE RuleJobReserve(c)
  <2> DEFINE a == calls[c].rule
             k == <<a.id, calls[c].item, files[a.dir][calls[c].item].v>>
             possible == calls[c].item \in Here(a.dir) /\ k[3] \notin Broken /\ Exists(a.id)
  <2>1. a.id \in Rules /\ a.dir \in Dirs /\ calls[c].item \in Items
    BY <1>4 DEF RuleJobReserve, Inv, CallsInv, Resolved
  <2>2. possible => k \in Keys
    BY <2>1, HereTypes, KeyTypes DEF Inv
  <2>3. /\ rows' = (IF possible THEN Inserted(k) ELSE rows) /\ UNCHANGED jobs
        /\ \/ Request(c, [pc |-> "create", key |-> k, kind |-> calls[c].kind, auto |-> FALSE])
           \/ Request(c, Idle)
    BY <1>4 DEF RuleJobReserve
  <2> HIDE DEF k, possible
  <2>4. RowsFit'
    BY <2>2, <2>3, RowsStayFit DEF FitsInv
  <2>5. CallsFit'
    BY <2>3, IdleCall, CallsStayFit DEF FitsInv
  <2> QED BY <2>3, <2>4, <2>5 DEF FitsInv, JobsFit
<1>5. CASE Create(c)
  <2>1. /\ calls[c].key \in Keys /\ CreateForSource(calls[c].key, calls[c].kind, calls[c].auto)
        /\ calls[c].pc = "create" /\ Request(c, Idle)
    BY <1>5 DEF Create, Inv, CallsInv
  <2>2. calls[c].auto => calls[c].kind \in Kinds(calls[c].key[3])
    BY <2>1 DEF FitsInv, CallsFit
  <2>3. RowsFit'
    BY <2>1, RowsStayFit DEF FitsInv
  <2>4. JobsFit'
    BY <2>1, <2>2, JobsStayFit DEF FitsInv
  <2>5. CallsFit'
    BY <2>1, IdleCall, CallsStayFit DEF FitsInv
  <2> QED BY <2>3, <2>4, <2>5 DEF FitsInv
<1>6. CASE RequestFails(c)
  BY <1>6, IdleCall, CallsStayFit DEF RequestFails, FitsInv, RowsFit, JobsFit, tables
<1> QED BY <1>1, <1>2, <1>3, <1>4, <1>5, <1>6

LEMMA OutsideFits == ASSUME Inv, FitsInv, Outside \/ UNCHANGED vars PROVE FitsInv'
<1>1. CASE DeleteRule
  <2>1. PICK r \in Rules : rows' = [k \in Keys |-> IF k[1] = r THEN NoRow ELSE rows[k]]
    BY <1>1 DEF DeleteRule
  <2>2. RowsFit'
    BY <2>1 DEF FitsInv, RowsFit
  <2> QED BY <1>1, <2>2 DEF DeleteRule, FitsInv, JobsFit, CallsFit
<1>2. CASE Restart
  BY <1>2, IdleCall DEF Restart, FitsInv, RowsFit, JobsFit, CallsFit, tables
<1>3. ASSUME UNCHANGED <<rows, jobs, calls>> PROVE FitsInv'
  BY <1>3 DEF FitsInv, RowsFit, JobsFit, CallsFit
<1> QED BY <1>1, <1>2, <1>3 DEF Outside, PutRule, Rescan, EditFile, Mount, WatcherFails, Tick, tables, vars

\* Waiting for a second equal fingerprint makes the kind of an automatic job, and the kinds that a
\* review offers, the ones of the version it is filed under, however often items change between
\* their discovery and their fingerprint, and wherever rules are moved: observations are kept by
\* the canonical path of an item, so a rule takes none along to another folder.
THEOREM KindsFitTheirVersions == Spec => []KindFitsVersion
<1>1. Init => FitsInv
  BY IdleCall DEF Init, FitsInv, RowsFit, JobsFit, CallsFit
<1>2. Inv /\ ScanInv /\ FitsInv /\ [Next]_vars => FitsInv'
  BY EngineFits, RequestsFit, OutsideFits DEF Next
<1>3. Inv /\ FitsInv => KindFitsVersion
  <2> SUFFICES ASSUME Inv, FitsInv PROVE KindFitsVersion
    OBVIOUS
  <2>1. DOMAIN jobs = 1..Len(jobs)
    BY DEF Inv, StoreInv
  <2> QED BY <2>1 DEF FitsInv, JobsFit, KindFitsVersion
<1> QED BY <1>1, <1>2, <1>3, IngestionInvariant, ScansAreSound, PTL DEF Spec
=============================================================================
