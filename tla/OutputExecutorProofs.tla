------------------------ MODULE OutputExecutorProofs ------------------------
(***************************************************************************)
(* Proofs about OutputExecutor, for any plans, executors, users and faults. *)
(***************************************************************************)
EXTENDS OutputExecutor, WellFoundedInduction, TLAPS

Partial == {"partial", "empty"}
Records == [id : Inodes, data : Data, by : Executors \cup {"world"}]
Runs == [pc : Pcs, i : Nat, copied : BOOLEAN, error : BOOLEAN]
Views == [entries : [Targets -> Entries], fitted : SUBSET Targets]
Operations == [kind : Kinds, source : Sources, target : Targets]

\* Where an execution is when it moves, and when its temporary file is ready.
MovePcs == {"reserve", "verify", "rename", "recapture", "cleanup", "copyfresh", "recheck",
            "lastcheck", "finish", "remove"}
ReadyPcs == {"publish", "recheck"}
CopiedPcs == {"reserve", "verify", "rename"}
EarlyPcs == {"prepare", "manifest", "check"} \cup Ended

\* Entries are entries, and an unfinished one is at the target of a move only.
FsInv ==
    /\ fs \in [Files -> Entries]
    /\ \A s \in Sources : fs[s] # Missing => fs[s].data \notin Partial
    /\ WritesAppearWhole

Shape ==
    /\ plan \in [Executors -> Plans] /\ policy \in [Executors -> Policies]
    /\ edits \in Nat
    /\ run \in [Executors -> Runs]
    /\ DOMAIN temp = Executors /\ DOMAIN observed = Executors /\ checked \in [Executors -> Views]

\* The manifest has these contents of t, or t is a symlink that led to what it has.
Vetted(t, data, fitted, named) == IF data \in Paths THEN t \in fitted ELSE data = named[t]

\* What e knows of its targets: the manifest has what it observed of them when
\* it passed the manifest's check, and what was there at the last check.
Known(e) ==
    /\ run[e].pc = "check" /\ ~Creates(e) =>
          \A k \in DOMAIN plan[e] : LET t == plan[e][k].target IN
              observed[e][t] # Missing =>
                  \E x \in Inodes, data \in Data : observed[e][t] = <<x, data>>
                                                   /\ Vetted(t, data, checked[e].fitted, manifest[e])
    /\ run[e].pc \notin EarlyPcs =>
          \A k \in DOMAIN plan[e] : LET t == plan[e][k].target IN
              checked[e].entries[t] # Missing => 
                  Vetted(t, checked[e].entries[t].data, checked[e].fitted, manifest[e])

\* Its temporary file: made before it is filled, filled before it is published.
TempInv(e) ==
    /\ temp[e] \in [DOMAIN plan[e] -> Entries]
    /\ run[e].pc = "fill" => Tmp(e) # Missing
    /\ run[e].pc \in ReadyPcs \/ (run[e].pc \in CopiedPcs /\ run[e].copied)
          => Tmp(e) # Missing /\ Tmp(e).data \notin Partial

Placed(e) ==
    /\ run[e].i \in DOMAIN plan[e]
    /\ run[e].pc \in MovePcs => Op(e).kind = "move"

EInv(e) == Placed(e) /\ TempInv(e) /\ Known(e)

Inv == Shape /\ FsInv /\ \A e \in Executors : EInv(e)

-----------------------------------------------------------------------------
LEMMA EntryTypes ==
    /\ Entries = Records \cup {Missing} /\ Missing \notin Records
    /\ \A r \in Records : /\ r.id \in Inodes /\ r.data \in Data /\ r.by \in Executors \cup {"world"}
                          /\ r # Missing /\ Fp(r) = <<r.id, r.data>> /\ Fp(r) # Missing
    /\ \A id \in Inodes, data \in Data, by \in Executors \cup {"world"} :
          Entry(id, data, by) \in Records
    /\ Fp(Missing) = Missing
BY MissingAssumption DEF Entries, Records, Fp, Entry

\* A path to a source is nothing else.
LEMMA PathTypes ==
    ASSUME NEW s \in Sources
    PROVE  /\ PathTo[s] \in Paths /\ PathTo[s] \in Data
           /\ PathTo[s] \notin Partial /\ PathTo[s] \notin Sources
BY MissingAssumption DEF Paths, Data, Texts, Partial

LEMMA OpTypes ==
    ASSUME Shape, NEW e \in Executors, Placed(e)
    PROVE  /\ plan[e] \in Seq(Operations)
           /\ Op(e) \in Operations /\ Op(e).target \in Targets /\ Op(e).source \in Sources
           /\ Op(e).target \in Files /\ Op(e).source \in Files /\ Op(e).source # Op(e).target
           /\ \A k \in DOMAIN plan[e] : plan[e][k] \in Operations
<1>1. plan[e] \in Seq(Operations)
  BY ExecutorAssumption DEF Shape, Operations
<1>2. \A k \in DOMAIN plan[e] : plan[e][k] \in Operations
  BY <1>1
<1>3. Op(e) \in Operations
  BY <1>2 DEF Placed, Op
<1> QED BY <1>1, <1>2, <1>3, ExecutorAssumption DEF Operations, Files

LEMMA InodeTypes ==
    ASSUME Shape, NEW e \in Executors
    PROVE  TempId(e) \in Inodes /\ HoldId(e) \in Inodes /\ OtherId \in Inodes
<1>1. run[e].i \in Nat /\ edits \in Nat
  BY DEF Shape, Runs
<1> QED BY <1>1 DEF TempId, HoldId, OtherId, Inodes

\* A step of e leaves what belongs to the others alone.
Mine(e) ==
    /\ UNCHANGED <<plan, policy, manifest, edits>>
    /\ run' \in [Executors -> Runs]
    /\ DOMAIN temp' = Executors /\ DOMAIN observed' = Executors /\ checked' \in [Executors -> Views]
    /\ \A d \in Executors \ {e} : /\ run'[d] = run[d] /\ temp'[d] = temp[d]
                                  /\ observed'[d] = observed[d] /\ checked'[d] = checked[d]

\* So it keeps the invariant if it keeps its own part and that of the files.
LEMMA Keep == ASSUME Inv, NEW e \in Executors, Mine(e), FsInv', EInv(e)' PROVE Inv'
<1>1. Shape'
  BY DEF Inv, Shape, Mine
<1>2. ASSUME NEW d \in Executors, d # e PROVE EInv(d)'
  <2>1. EInv(d) /\ run'[d] = run[d] /\ temp'[d] = temp[d] /\ observed'[d] = observed[d]
        /\ checked'[d] = checked[d] /\ plan' = plan /\ policy' = policy /\ manifest' = manifest
    BY <1>2 DEF Inv, Mine
  <2>2. Placed(d)'
    BY <2>1 DEF EInv, Placed, Op
  <2>3. TempInv(d)'
    BY <2>1 DEF EInv, TempInv, Tmp
  <2>4. Known(d)'
    BY <2>1 DEF EInv, Known, Creates
  <2> QED BY <2>2, <2>3, <2>4 DEF EInv
<1> QED BY <1>1, <1>2 DEF Inv

\* What the assignments of the actions come to.
LEMMA Going ==
    ASSUME Shape, NEW e \in Executors, NEW pc \in Pcs, Goto(e, pc)
    PROVE  /\ run' \in [Executors -> Runs]
           /\ run'[e].pc = pc /\ run'[e].i = run[e].i /\ run'[e].copied = run[e].copied
           /\ \A d \in Executors \ {e} : run'[d] = run[d]
BY DEF Shape, Runs, Goto

LEMMA Setting ==
    ASSUME Shape, NEW e \in Executors, Placed(e), TempInv(e), NEW entry \in Entries, SetTemp(e, entry)
    PROVE  /\ DOMAIN temp' = Executors /\ \A d \in Executors \ {e} : temp'[d] = temp[d]
           /\ temp'[e] \in [DOMAIN plan[e] -> Entries] /\ temp'[e][run[e].i] = entry
BY DEF Shape, Placed, TempInv, SetTemp

LEMMA Putting ==
    ASSUME FsInv, NEW f \in Files, NEW entry \in Entries, Put(f, entry)
    PROVE  /\ fs' \in [Files -> Entries] /\ fs'[f] = entry
           /\ \A g \in Files \ {f} : fs'[g] = fs[g]
BY DEF FsInv, Put

\* A file put at the target of the operation, whole or by a move.
LEMMA PutTarget ==
    ASSUME Inv, NEW e \in Executors, UNCHANGED plan,
           NEW entry \in Entries, Put(Op(e).target, entry),
           \/ entry = Missing \/ entry.data \notin Partial \/ Op(e).kind = "move"
    PROVE  FsInv'
<1>1. /\ Op(e).target \in Targets /\ Op(e).target \in Files /\ Op(e).target \notin Sources
      /\ run[e].i \in DOMAIN plan[e]
  BY OpTypes, ExecutorAssumption DEF Inv, EInv, Placed
<1>2. /\ fs' \in [Files -> Entries] /\ fs'[Op(e).target] = entry
      /\ \A g \in Files \ {Op(e).target} : fs'[g] = fs[g]
  BY <1>1, Putting DEF Inv
<1>3. \A s \in Sources : fs'[s] # Missing => fs'[s].data \notin Partial
  BY <1>1, <1>2 DEF Inv, FsInv, Files
<1>4. WritesAppearWhole'
  <2> SUFFICES ASSUME NEW t \in Targets, fs'[t] # Missing, fs'[t].data \in Partial
               PROVE  \E d \in Executors : \E k \in DOMAIN plan[d] :
                         plan[d][k].kind = "move" /\ plan[d][k].target = t
    BY DEF WritesAppearWhole, Partial
  <2>1. CASE t = Op(e).target
    BY <1>1, <1>2, <2>1 DEF Op
  <2>2. CASE t # Op(e).target
    BY <1>2, <2>2 DEF Inv, FsInv, WritesAppearWhole, Files, Partial
  <2> QED BY <2>1, <2>2
<1> QED BY <1>2, <1>3, <1>4 DEF FsInv

LEMMA SameFiles == ASSUME FsInv, UNCHANGED <<fs, plan>> PROVE FsInv'
BY DEF FsInv, WritesAppearWhole

\* An execution that ends needs no more than entries in its temporary files.
LEMMA Ending ==
    ASSUME Inv, NEW e \in Executors, Mine(e), FsInv', run'[e].pc \in Ended, run'[e].i = run[e].i,
           temp'[e] \in [DOMAIN plan[e] -> Entries]
    PROVE  Inv'
<1>1. EInv(e)'
  BY DEF Inv, EInv, Placed, TempInv, Known, Mine, Ended, MovePcs, ReadyPcs, CopiedPcs, EarlyPcs
<1> QED BY <1>1, Keep

\* A step in the middle of the plan: what it has to see to for its operation.
LEMMA Proceed ==
    ASSUME Inv, NEW e \in Executors, Mine(e), FsInv',
           run[e].pc \notin EarlyPcs, run'[e].pc # "check", checked'[e] = checked[e],
           run'[e].i = run[e].i, temp'[e] \in [DOMAIN plan[e] -> Entries],
           run'[e].pc \in MovePcs => Op(e).kind = "move",
           run'[e].pc = "fill" => temp'[e][run[e].i] # Missing,
           run'[e].pc \in ReadyPcs \/ (run'[e].pc \in CopiedPcs /\ run'[e].copied)
              => temp'[e][run[e].i] # Missing /\ temp'[e][run[e].i].data \notin Partial
    PROVE  Inv'
<1>1. Placed(e)'
  BY DEF Inv, EInv, Placed, Op, Mine
<1>2. TempInv(e)'
  BY DEF TempInv, Tmp, Mine
<1>3. Known(e)'
  BY DEF Inv, EInv, Known, Mine
<1> QED BY <1>1, <1>2, <1>3, Keep DEF EInv

\* What most steps leave alone.
Still == UNCHANGED <<plan, policy, manifest, edits, observed, checked>>

LEMMA StillMine ==
    ASSUME Inv, NEW e \in Executors, Still, run' \in [Executors -> Runs],
           \A d \in Executors \ {e} : run'[d] = run[d],
           DOMAIN temp' = Executors /\ \A d \in Executors \ {e} : temp'[d] = temp[d]
    PROVE  Mine(e)
BY DEF Inv, Shape, Still, Mine

\* The two ways in which an operation fails.
LEMMA Failing ==
    ASSUME Inv, NEW e \in Executors, NEW pc \in Ended, Goto(e, pc), Still, FsInv',
           UNCHANGED temp \/ SetTemp(e, Missing)
    PROVE  Inv'
<1>1. pc \in Pcs /\ Missing \in Entries /\ Shape /\ Placed(e) /\ TempInv(e)
  BY DEF Pcs, Entries, Inv, EInv
<1>2. /\ run' \in [Executors -> Runs] /\ run'[e].pc = pc /\ run'[e].i = run[e].i
      /\ \A d \in Executors \ {e} : run'[d] = run[d]
  BY <1>1, Going
<1>3. /\ DOMAIN temp' = Executors /\ \A d \in Executors \ {e} : temp'[d] = temp[d]
      /\ temp'[e] \in [DOMAIN plan[e] -> Entries]
  BY <1>1, Setting DEF Shape, TempInv
<1> QED BY <1>2, <1>3, StillMine, Ending

\* A step to the next system call that leaves the temporary file alone.
LEMMA GoingOn ==
    ASSUME Inv, NEW e \in Executors, NEW pc \in Pcs, Goto(e, pc), Still, FsInv', UNCHANGED temp,
           run[e].pc \notin EarlyPcs, pc \notin {"check", "fill"} \cup ReadyPcs,
           pc \in MovePcs => Op(e).kind = "move",
           pc \in CopiedPcs /\ run[e].copied => Tmp(e) # Missing /\ Tmp(e).data \notin Partial
    PROVE  Inv'
<1>1. /\ run' \in [Executors -> Runs] /\ run'[e].pc = pc /\ run'[e].i = run[e].i
      /\ run'[e].copied = run[e].copied /\ \A d \in Executors \ {e} : run'[d] = run[d]
  BY Going DEF Inv
<1>2. temp'[e] = temp[e] /\ temp'[e] \in [DOMAIN plan[e] -> Entries] /\ DOMAIN temp' = Executors
  BY DEF Inv, EInv, TempInv, Shape
<1>3. Mine(e) /\ checked'[e] = checked[e]
  BY <1>1, <1>2, StillMine DEF Still
<1> QED BY <1>1, <1>2, <1>3, Proceed DEF Tmp

\* A step that makes, fills or gives away the temporary file.
LEMMA GoingWith ==
    ASSUME Inv, NEW e \in Executors, NEW pc \in Pcs, Goto(e, pc), Still, FsInv',
           NEW entry \in Entries, SetTemp(e, entry),
           run[e].pc \notin EarlyPcs, pc # "check",
           pc \in MovePcs => Op(e).kind = "move",
           pc = "fill" => entry # Missing,
           pc \in ReadyPcs \cup CopiedPcs => entry # Missing /\ entry.data \notin Partial
    PROVE  Inv'
<1>1. /\ run' \in [Executors -> Runs] /\ run'[e].pc = pc /\ run'[e].i = run[e].i
      /\ \A d \in Executors \ {e} : run'[d] = run[d]
  BY Going DEF Inv
<1>2. /\ DOMAIN temp' = Executors /\ \A d \in Executors \ {e} : temp'[d] = temp[d]
      /\ temp'[e] \in [DOMAIN plan[e] -> Entries] /\ temp'[e][run[e].i] = entry
  BY Setting DEF Inv, EInv
<1>3. Mine(e) /\ checked'[e] = checked[e]
  BY <1>1, <1>2, StillMine DEF Still
<1> QED BY <1>1, <1>2, <1>3, Proceed

-----------------------------------------------------------------------------
LEMMA PrepareKeeps == ASSUME Inv, NEW e \in Executors, Prepare(e) PROVE Inv'
<1> DEFINE pc == IF Creates(e) THEN "check" ELSE "manifest"
<1>1. /\ pc \in Pcs /\ Shape /\ Placed(e) /\ Goto(e, pc)
      /\ UNCHANGED <<fs, temp, plan, policy, manifest, checked, edits>>
  BY DEF Pcs, Inv, EInv, Prepare, input, world
<1>2. /\ run' \in [Executors -> Runs] /\ run'[e].pc = pc /\ run'[e].i = run[e].i
      /\ \A d \in Executors \ {e} : run'[d] = run[d]
  BY <1>1, Going
<1>3. Mine(e)
  BY <1>1, <1>2 DEF Mine, Prepare, Shape
<1>4. Placed(e)' /\ TempInv(e)' /\ FsInv'
  BY <1>1, <1>2, SameFiles DEF Inv, EInv, Placed, TempInv, Op, Tmp, MovePcs, ReadyPcs, CopiedPcs
<1>5. Known(e)'
  BY <1>1, <1>2 DEF Known, Creates, EarlyPcs
<1> QED BY <1>3, <1>4, <1>5, Keep DEF EInv

\* The fingerprints that were observed are those of the files as they are.
LEMMA FreshTargets ==
    ASSUME Inv, NEW e \in Executors, IsFresh(e), NEW k \in DOMAIN plan[e]
    PROVE  LET t == plan[e][k].target IN
           /\ t \in Targets /\ t \in Files /\ fs[t] \in Entries
           /\ observed[e][t] = Fp(fs[t])
<1>1. plan[e][k].target \in Targets /\ plan[e][k].target \in Files
  BY OpTypes DEF Inv, EInv, Operations, Files
<1>2. plan[e][k].target \in PathsOf(e)
  BY DEF PathsOf
<1> QED BY <1>1, <1>2 DEF IsFresh, Inv, FsInv

LEMMA CheckManifestKeeps == ASSUME Inv, NEW e \in Executors, CheckManifest(e) PROVE Inv'
<1> DEFINE fitted == {t \in Targets : Fits(e, t)}
<1>1. /\ UNCHANGED <<fs, temp, plan, policy, manifest, observed, edits>> /\ FsInv' /\ Shape /\ EInv(e)
      /\ checked' = [checked EXCEPT ![e].fitted = fitted]
  BY SameFiles DEF CheckManifest, input, world, Inv
<1>2. /\ checked' \in [Executors -> Views] /\ checked'[e].fitted = fitted
      /\ \A d \in Executors \ {e} : checked'[d] = checked[d]
  <2>1. fitted \in SUBSET Targets
    OBVIOUS
  <2> HIDE DEF fitted
  <2> QED BY <1>1, <2>1 DEF Shape, Views
<1>3. ASSUME NEW pc \in Pcs, Goto(e, pc)
      PROVE  Mine(e) /\ run'[e].pc = pc /\ run'[e].i = run[e].i
  <2>1. /\ run' \in [Executors -> Runs] /\ run'[e].pc = pc /\ run'[e].i = run[e].i
        /\ \A d \in Executors \ {e} : run'[d] = run[d]
    BY <1>1, <1>3, Going
  <2> QED BY <1>1, <1>2, <2>1 DEF Mine, Shape
<1>4. CASE Goto(e, "failed")
  <2>1. Mine(e) /\ run'[e].pc \in Ended /\ run'[e].i = run[e].i
    BY <1>3, <1>4 DEF Pcs, Ended
  <2> QED BY <1>1, <2>1, Ending DEF EInv, TempInv
<1>5. CASE IsFresh(e) /\ NotAllowed(e) = {} /\ Goto(e, "check")
  <2>1. Mine(e) /\ run'[e].pc = "check" /\ run'[e].i = run[e].i
    BY <1>3, <1>5 DEF Pcs
  <2>2. Placed(e)' /\ TempInv(e)'
    BY <1>1, <2>1 DEF EInv, Placed, TempInv, Op, Tmp, MovePcs, ReadyPcs, CopiedPcs
  <2>3. ASSUME NEW k \in DOMAIN plan[e], observed[e][plan[e][k].target] # Missing
        PROVE  \E x \in Inodes, data \in Data :
                  /\ observed[e][plan[e][k].target] = <<x, data>>
                  /\ Vetted(plan[e][k].target, data, fitted, manifest[e])
    <3> DEFINE t == plan[e][k].target
    <3>1. t \in Targets /\ fs[t] \in Entries /\ observed[e][t] = Fp(fs[t])
      BY <1>5, FreshTargets
    <3>2. fs[t] \in Records /\ observed[e][t] = <<fs[t].id, fs[t].data>> /\ fs[t] # Missing
      BY <2>3, <3>1, EntryTypes
    <3>3. Fits(e, t)
      BY <1>5, <3>2 DEF NotAllowed
    <3>4. fs[t].data \in Paths => t \in fitted
      BY <3>1, <3>3
    <3>5. fs[t].data \notin Paths => fs[t].data = manifest[e][t]
      BY <3>3 DEF Fits, Through, IsLink, Sha
    <3> HIDE DEF t, fitted
    <3>6. Vetted(t, fs[t].data, fitted, manifest[e])
      BY <3>4, <3>5 DEF Vetted
    <3>7. fs[t].id \in Inodes /\ fs[t].data \in Data
      BY <3>2, EntryTypes
    <3> QED BY <3>2, <3>6, <3>7 DEF t
  <2>4. Known(e)'
    <3> HIDE DEF fitted
    <3>1. run'[e].pc \in EarlyPcs /\ UNCHANGED <<plan, policy, manifest, observed>>
      BY <1>1, <2>1 DEF EarlyPcs
    <3> QED BY <1>2, <2>3, <3>1 DEF Known
  <2> QED BY <1>1, <2>1, <2>2, <2>4, Keep DEF EInv
<1> QED BY <1>4, <1>5 DEF CheckManifest, FailAt

LEMMA CheckKeeps == ASSUME Inv, NEW e \in Executors, Check(e) PROVE Inv'
<1>1. /\ UNCHANGED <<fs, temp, plan, policy, manifest, observed, edits>> /\ FsInv' /\ Shape /\ EInv(e)
      /\ run[e].pc = "check" /\ checked' = [checked EXCEPT ![e].entries = [t \in Targets |-> fs[t]]]
  BY SameFiles DEF Check, input, world, Inv
<1>7. /\ checked' \in [Executors -> Views] /\ checked'[e].entries = [t \in Targets |-> fs[t]]
      /\ checked'[e].fitted = checked[e].fitted
      /\ \A d \in Executors \ {e} : checked'[d] = checked[d]
  <2>1. [t \in Targets |-> fs[t]] \in [Targets -> Entries]
    BY DEF Inv, FsInv, Files
  <2> QED BY <1>1, <2>1 DEF Shape, Views
<1>2. ASSUME NEW pc \in Pcs, Goto(e, pc)
      PROVE  /\ Mine(e) /\ run'[e].pc = pc /\ run'[e].i = run[e].i
  <2>1. /\ run' \in [Executors -> Runs] /\ run'[e].pc = pc /\ run'[e].i = run[e].i
        /\ \A d \in Executors \ {e} : run'[d] = run[d]
    BY <1>1, <1>2, Going
  <2> QED BY <1>1, <1>7, <2>1 DEF Mine, Shape
<1>3. CASE Goto(e, "failed")
  <2>1. Mine(e) /\ run'[e].pc \in Ended /\ run'[e].i = run[e].i
    BY <1>2, <1>3 DEF Pcs, Ended
  <2> QED BY <1>1, <2>1, Ending DEF EInv, TempInv
<1>4. CASE IsFresh(e) /\ AllBlocked(e) = {} /\ Goto(e, "begin")
  <2>1. Mine(e) /\ run'[e].pc = "begin" /\ run'[e].i = run[e].i
    BY <1>2, <1>4 DEF Pcs
  <2>2. Placed(e)' /\ TempInv(e)'
    BY <1>1, <2>1 DEF EInv, Placed, TempInv, Op, Tmp, MovePcs, ReadyPcs, CopiedPcs
  <2>3. ASSUME NEW k \in DOMAIN plan[e], checked'[e].entries[plan[e][k].target] # Missing
        PROVE  Vetted(plan[e][k].target, checked'[e].entries[plan[e][k].target].data,
                      checked'[e].fitted, manifest[e])
    <3> DEFINE t == plan[e][k].target
    <3>1. t \in Targets /\ fs[t] \in Entries /\ observed[e][t] = Fp(fs[t])
      BY <1>4, FreshTargets
    <3>2. checked'[e].entries[t] = fs[t]
      BY <1>7, <3>1
    <3>3. fs[t] \in Records
      BY <2>3, <3>1, <3>2, EntryTypes
    <3>4. ~Creates(e)
      BY <1>4, <3>3, EntryTypes DEF AllBlocked, Blocked
    <3>5. observed[e][t] = <<fs[t].id, fs[t].data>> /\ observed[e][t] # Missing
      BY <3>1, <3>3, EntryTypes
    <3>6. PICK x \in Inodes, data \in Data : /\ observed[e][t] = <<x, data>>
                                             /\ Vetted(t, data, checked[e].fitted, manifest[e])
      BY <1>1, <3>4, <3>5 DEF EInv, Known
    <3>7. data = fs[t].data
      BY <3>5, <3>6
    <3> QED BY <1>7, <3>2, <3>6, <3>7
  <2>4. Known(e)'
    BY <1>1, <1>7, <2>1, <2>3 DEF Known, EarlyPcs
  <2> QED BY <1>1, <2>1, <2>2, <2>4, Keep DEF EInv
<1> QED BY <1>3, <1>4 DEF Check, FailAt

\* The sources hold whole files only, and so does what is made of them.
LEMMA SourceTypes ==
    ASSUME Inv, NEW e \in Executors
    PROVE  /\ Src(e) \in Entries /\ Tgt(e) \in Entries /\ Tmp(e) \in Entries /\ Missing \in Entries
           /\ Src(e) # Missing => Src(e).data \notin Partial
           /\ Shape /\ FsInv /\ EInv(e)
<1>1. Op(e).target \in Files /\ Op(e).source \in Files /\ Op(e).source \in Sources
  BY OpTypes DEF Inv, EInv
<1> QED BY <1>1 DEF Inv, EInv, FsInv, TempInv, Placed, Src, Tgt, Tmp, Entries

LEMMA BeginKeeps == ASSUME Inv, NEW e \in Executors, Begin(e) PROVE Inv'
<1>1. Still /\ UNCHANGED <<fs, temp>> /\ FsInv' /\ run[e].pc = "begin"
  BY SameFiles DEF Begin, Still, input, world, Inv
<1>2. CASE Goto(e, "failed")
  BY <1>1, <1>2, Failing DEF Ended
<1>3. ASSUME NEW pc \in {"stage", "link", "reserve", "rename"},
             pc \in MovePcs => Op(e).kind = "move",
             run' = [run EXCEPT ![e] = [@ EXCEPT !.copied = FALSE, !.error = FALSE, !.pc = pc]]
      PROVE  Inv'
  <2>1. /\ run' \in [Executors -> Runs] /\ run'[e].pc = pc /\ run'[e].i = run[e].i
        /\ run'[e].copied = FALSE /\ \A d \in Executors \ {e} : run'[d] = run[d]
    BY <1>3 DEF Inv, Shape, Runs, Pcs
  <2>2. temp'[e] = temp[e] /\ temp'[e] \in [DOMAIN plan[e] -> Entries] /\ DOMAIN temp' = Executors
    BY <1>1 DEF Inv, EInv, TempInv, Shape
  <2>3. Mine(e) /\ checked'[e] = checked[e]
    BY <1>1, <2>1, <2>2, StillMine DEF Still
  <2> QED BY <1>1, <1>3, <2>1, <2>2, <2>3, Proceed DEF EarlyPcs, Ended, ReadyPcs
<1>4. CASE ~Blocked(e, run[e].i)
  <2> DEFINE pc == CASE Op(e).kind \in {"write", "copy"} -> "stage"
                     [] Op(e).kind \in {"hardlink", "symlink"} -> "link"
                     [] Op(e).kind = "move" -> IF Creates(e) THEN "reserve" ELSE "rename"
  <2>1. run' = [run EXCEPT ![e] = [@ EXCEPT !.copied = FALSE, !.error = FALSE, !.pc = pc]]
    BY <1>4 DEF Begin
  <2>2. Op(e).kind \in Kinds
    BY OpTypes DEF Operations, Inv, EInv
  <2>3. pc \in {"stage", "link", "reserve", "rename"} /\ (pc \in MovePcs => Op(e).kind = "move")
    BY <2>2 DEF Kinds, MovePcs
  <2> HIDE DEF pc
  <2> QED BY <1>3, <2>1, <2>3
<1> QED BY <1>2, <1>4 DEF Begin, Fail, FailAt

LEMMA StageKeeps == ASSUME Inv, NEW e \in Executors, Stage(e) PROVE Inv'
<1>1. /\ Still /\ FsInv' /\ run[e].pc = "stage" /\ Goto(e, "fill")
      /\ SetTemp(e, Entry(TempId(e), "partial", e))
  BY SameFiles DEF Stage, Still, input, world, Inv
<1>2. Entry(TempId(e), "partial", e) \in Records
  BY InodeTypes, EntryTypes DEF Inv, Data, Texts
<1>3. Entry(TempId(e), "partial", e) \in Entries /\ Entry(TempId(e), "partial", e) # Missing
  BY <1>2, EntryTypes
<1> QED BY <1>1, <1>3, GoingWith DEF Pcs, EarlyPcs, Ended, MovePcs, ReadyPcs, CopiedPcs

LEMMA FillKeeps == ASSUME Inv, NEW e \in Executors, Fill(e) PROVE Inv'
<1>1. Still /\ FsInv' /\ run[e].pc = "fill"
  BY SameFiles DEF Fill, Still, input, world, Inv
<1>2. CASE SetTemp(e, Missing) /\ Fail(e)
  BY <1>1, <1>2, Failing DEF Ended, Fail, FailAt
<1>3. CASE NeedsSource(Op(e)) => Src(e) # Missing
  <2> DEFINE data == IF NeedsSource(Op(e)) THEN Src(e).data ELSE "bytes"
             entry == [Tmp(e) EXCEPT !.data = data]
             pc == IF Op(e).kind = "move" THEN "recheck" ELSE "publish"
  <2>1. CASE SetTemp(e, entry) /\ Goto(e, pc)
    <3>1. data \in Data /\ data \notin Partial
      BY <1>3, SourceTypes, EntryTypes DEF Data, Texts, Partial
    <3>2. Tmp(e) \in Records
      BY <1>1, SourceTypes, EntryTypes DEF EInv, TempInv
    <3>3. entry \in Records /\ entry.data = data
      BY <3>1, <3>2 DEF Records
    <3>4. entry \in Entries /\ entry # Missing /\ entry.data \notin Partial
      BY <3>1, <3>3, EntryTypes
    <3>5. pc \in Pcs /\ pc # "check" /\ pc # "fill" /\ (pc \in MovePcs => Op(e).kind = "move")
      BY DEF Pcs, MovePcs
    <3>6. run[e].pc \notin EarlyPcs
      BY <1>1 DEF EarlyPcs, Ended
    <3> HIDE DEF entry, pc
    <3> QED BY <1>1, <2>1, <3>4, <3>5, <3>6, GoingWith
  <2>2. CASE SetTemp(e, Missing) /\ Fail(e)
    BY <2>2, <1>2
  <2> QED BY <2>1, <2>2, <1>3 DEF Fill
<1> QED BY <1>2, <1>3 DEF Fill

LEMMA PublishKeeps == ASSUME Inv, NEW e \in Executors, Publish(e) PROVE Inv'
<1>1. /\ Still /\ run[e].pc = "publish" /\ run[e].pc \notin EarlyPcs /\ UNCHANGED plan
      /\ Tmp(e) \in Entries /\ Missing \in Entries /\ Tmp(e).data \notin Partial
  BY SourceTypes DEF Publish, Still, input, world, EarlyPcs, Ended, EInv, TempInv, ReadyPcs
<1>2. CASE Put(Op(e).target, Tmp(e)) /\ Goto(e, "unlink") /\ UNCHANGED temp
  <2>1. FsInv'
    BY <1>1, <1>2, PutTarget
  <2> QED BY <1>1, <1>2, <2>1, GoingOn DEF Pcs, MovePcs, ReadyPcs, CopiedPcs
<1>3. CASE SetTemp(e, Missing) /\ Fail(e) /\ UNCHANGED fs
  BY <1>1, <1>3, Failing, SameFiles DEF Ended, Fail, FailAt, Inv
<1>4. CASE UNCHANGED <<fs, temp>> /\ Goto(e, "confirm")
  <2>1. FsInv'
    BY <1>1, <1>4, SameFiles DEF Inv
  <2> QED BY <1>1, <1>4, <2>1, GoingOn DEF Pcs, MovePcs, ReadyPcs, CopiedPcs
<1>5. CASE Put(Op(e).target, Tmp(e)) /\ SetTemp(e, Missing) /\ Goto(e, "confirm")
  <2>1. FsInv'
    BY <1>1, <1>5, PutTarget
  <2> QED BY <1>1, <1>5, <2>1, GoingWith DEF Pcs, MovePcs, ReadyPcs, CopiedPcs
<1> QED BY <1>2, <1>3, <1>4, <1>5 DEF Publish

LEMMA UnlinkKeeps == ASSUME Inv, NEW e \in Executors, Unlink(e) PROVE Inv'
<1>1. /\ Still /\ FsInv' /\ run[e].pc = "unlink" /\ Goto(e, "confirm") /\ SetTemp(e, Missing)
      /\ Missing \in Entries
  BY SameFiles DEF Unlink, Still, input, world, Inv, Entries
<1> QED BY <1>1, GoingWith DEF Pcs, EarlyPcs, Ended, MovePcs, ReadyPcs, CopiedPcs

LEMMA LinkKeeps == ASSUME Inv, NEW e \in Executors, Link(e) PROVE Inv'
<1> DEFINE link == IF Op(e).kind = "hardlink" THEN Entry(Src(e).id, Src(e).data, e)
                   ELSE Entry(TempId(e), PathTo[Op(e).source], e)
<1>1. Still /\ run[e].pc = "link" /\ run[e].pc \notin EarlyPcs /\ UNCHANGED plan
  BY DEF Link, Still, input, world, EarlyPcs, Ended
<1>2. CASE Fail(e) /\ UNCHANGED <<fs, temp>>
  BY <1>1, <1>2, Failing, SameFiles DEF Ended, Fail, FailAt, Inv
<1>3. CASE ~(Op(e).kind = "hardlink" /\ Src(e) = Missing)
  <2>1. link \in Records /\ link.data \notin Partial
    <3>1. CASE Op(e).kind = "hardlink"
      <4>1. Src(e) \in Records /\ Src(e).data \notin Partial
        BY <1>3, <3>1, SourceTypes, EntryTypes
      <4> QED BY <3>1, <4>1, EntryTypes DEF Entry
    <3>2. CASE Op(e).kind # "hardlink"
      <4>1. TempId(e) \in Inodes /\ Op(e).source \in Sources
        BY InodeTypes, OpTypes DEF Inv, EInv
      <4>2. PathTo[Op(e).source] \in Data /\ PathTo[Op(e).source] \notin Partial
        BY <4>1, PathTypes
      <4> QED BY <3>2, <4>1, <4>2, EntryTypes DEF Entry
    <3> QED BY <3>1, <3>2
  <2>2. link \in Entries /\ link # Missing
    BY <2>1, EntryTypes
  <2>3. CASE Put(Op(e).target, link) /\ Goto(e, "confirm") /\ UNCHANGED temp
    <3> HIDE DEF link
    <3>1. FsInv'
      BY <1>1, <2>1, <2>2, <2>3, PutTarget
    <3> QED BY <1>1, <2>3, <3>1, GoingOn DEF Pcs, MovePcs, ReadyPcs, CopiedPcs
  <2>4. CASE SetTemp(e, link) /\ Goto(e, "publish") /\ UNCHANGED fs
    <3> HIDE DEF link
    <3>1. FsInv'
      BY <1>1, <2>4, SameFiles DEF Inv
    <3> QED BY <1>1, <2>1, <2>2, <2>4, <3>1, GoingWith DEF Pcs, MovePcs, ReadyPcs, CopiedPcs
  <2> QED BY <1>2, <1>3, <2>3, <2>4 DEF Link
<1> QED BY <1>2, <1>3 DEF Link

LEMMA ConfirmKeeps == ASSUME Inv, NEW e \in Executors, Confirm(e) PROVE Inv'
<1>1. Still /\ UNCHANGED <<fs, temp>> /\ FsInv' /\ run[e].pc = "confirm"
  BY SameFiles DEF Confirm, Still, input, world, Inv
<1>2. ASSUME NEW pc \in Ended, Goto(e, pc) PROVE Inv'
  BY <1>1, <1>2, Failing
<1>3. CASE run[e].i # Len(plan[e]) /\ run' = [run EXCEPT ![e].pc = "begin", ![e].i = @ + 1]
  <2>1. /\ run[e] \in Runs /\ run[e].i \in DOMAIN plan[e] /\ plan[e] \in Seq(Operations)
        /\ run \in [Executors -> Runs]
    BY OpTypes DEF Inv, Shape, EInv, Placed
  <2>2. /\ run' \in [Executors -> Runs] /\ run'[e].pc = "begin" /\ run'[e].i = run[e].i + 1
        /\ \A d \in Executors \ {e} : run'[d] = run[d]
    BY <1>3, <2>1 DEF Runs, Pcs
  <2>3. run'[e].i \in DOMAIN plan[e]
    BY <1>3, <2>1, <2>2
  <2>4. Mine(e)
    BY <1>1, <2>2, StillMine DEF Inv, Shape
  <2>5. Placed(e)' /\ TempInv(e)' /\ Known(e)'
    BY <1>1, <2>2, <2>3 DEF Inv, EInv, Placed, TempInv, Known, Still, MovePcs, ReadyPcs,
                           CopiedPcs, EarlyPcs, Ended
  <2> QED BY <1>1, <2>4, <2>5, Keep DEF EInv
<1> QED BY <1>2, <1>3 DEF Confirm, Fail, FailAt, Ended

-----------------------------------------------------------------------------
(***************************************************************************)
(* A move.                                                                 *)
(***************************************************************************)

LEMMA ReserveKeeps == ASSUME Inv, NEW e \in Executors, Reserve(e) PROVE Inv'
<1>1. /\ Still /\ run[e].pc = "reserve" /\ run[e].pc \notin EarlyPcs /\ UNCHANGED plan
      /\ Op(e).kind = "move"
      /\ run[e].copied => Tmp(e) # Missing /\ Tmp(e).data \notin Partial
  BY DEF Reserve, Still, input, world, EarlyPcs, Ended, Inv, EInv, Placed, TempInv, MovePcs, CopiedPcs
<1>2. CASE Abandon(e) /\ UNCHANGED fs
  BY <1>1, <1>2, Failing, SameFiles DEF Ended, Abandon, Fail, FailAt, Inv
<1>3. CASE /\ Put(Op(e).target, Entry(HoldId(e), "empty", e))
           /\ Goto(e, "verify") /\ UNCHANGED temp
  <2>1. Entry(HoldId(e), "empty", e) \in Entries
    BY InodeTypes, EntryTypes DEF Inv, Data, Texts
  <2>2. FsInv'
    BY <1>1, <1>3, <2>1, PutTarget
  <2> QED BY <1>1, <1>3, <2>2, GoingOn DEF Pcs, ReadyPcs, CopiedPcs
<1> QED BY <1>2, <1>3 DEF Reserve

LEMMA VerifyKeeps == ASSUME Inv, NEW e \in Executors, Verify(e) PROVE Inv'
<1>1. /\ Still /\ run[e].pc = "verify" /\ run[e].pc \notin EarlyPcs /\ UNCHANGED fs /\ FsInv'
      /\ Op(e).kind = "move"
      /\ run[e].copied => Tmp(e) # Missing /\ Tmp(e).data \notin Partial
  BY SameFiles DEF Verify, Still, input, world, EarlyPcs, Ended, Inv, EInv, Placed, TempInv,
                   MovePcs, CopiedPcs
<1>2. CASE Abandon(e)
  BY <1>1, <1>2, Failing DEF Ended, Abandon, Fail, FailAt
<1>3. CASE Goto(e, "rename") /\ UNCHANGED temp
  BY <1>1, <1>3, GoingOn DEF Pcs, ReadyPcs, CopiedPcs
<1> QED BY <1>2, <1>3 DEF Verify

LEMMA AfterRenameKeeps ==
    ASSUME Inv, NEW e \in Executors, NEW exdev \in BOOLEAN, AfterRename(e, exdev),
           run[e].pc = "rename", Still, FsInv'
    PROVE  Inv'
<1>1. run[e].pc \notin EarlyPcs /\ Op(e).kind = "move"
  BY DEF EarlyPcs, Ended, Inv, EInv, Placed, MovePcs
<1>2. CASE Abandon(e)
  BY <1>1, <1>2, Failing DEF Ended, Abandon, Fail, FailAt
<1>3. CASE Goto(e, "copyfresh") /\ UNCHANGED temp
  BY <1>1, <1>3, GoingOn DEF Pcs, ReadyPcs, CopiedPcs
<1>4. CASE /\ run' = [run EXCEPT ![e].pc = "recapture", ![e].error = ~exdev]
           /\ UNCHANGED temp
  <2>1. /\ run' \in [Executors -> Runs] /\ run'[e].pc = "recapture" /\ run'[e].i = run[e].i
        /\ \A d \in Executors \ {e} : run'[d] = run[d]
    <3>1. PICK error \in BOOLEAN :
             run' = [run EXCEPT ![e].pc = "recapture", ![e].error = error]
      BY <1>4, Zenon
    <3>2. run \in [Executors -> Runs] /\ run[e] \in Runs
      BY DEF Inv, Shape
    <3>3. run'[e] = [run[e] EXCEPT !.pc = "recapture", !.error = error]
      BY <3>1, <3>2
    <3> QED BY <3>1, <3>2, <3>3 DEF Runs, Pcs
  <2>2. temp'[e] \in [DOMAIN plan[e] -> Entries] /\ DOMAIN temp' = Executors
    BY <1>4 DEF Inv, EInv, TempInv, Shape
  <2>3. Mine(e) /\ checked'[e] = checked[e]
    BY <1>4, <2>1, <2>2, StillMine DEF Still
  <2> QED BY <1>1, <2>1, <2>2, <2>3, Proceed DEF ReadyPcs, CopiedPcs
<1> QED BY <1>2, <1>3, <1>4 DEF AfterRename

LEMMA RenameKeeps == ASSUME Inv, NEW e \in Executors, Rename(e) PROVE Inv'
<1>1. /\ Still /\ run[e].pc = "rename" /\ run[e].pc \notin EarlyPcs /\ UNCHANGED plan
      /\ Op(e).kind = "move"
  BY DEF Rename, Still, input, world, EarlyPcs, Ended, Inv, EInv, Placed, MovePcs
<1>2. ASSUME NEW exdev \in BOOLEAN, AfterRename(e, exdev), UNCHANGED fs PROVE Inv'
  BY <1>1, <1>2, AfterRenameKeeps, SameFiles DEF Inv
<1>3. CASE UNCHANGED fs /\ Goto(e, "finish") /\ UNCHANGED temp
  BY <1>1, <1>3, GoingOn, SameFiles DEF Pcs, ReadyPcs, CopiedPcs, Inv
<1>4. CASE /\ Src(e) # Missing
           /\ fs' = [fs EXCEPT ![Op(e).source] = Missing, ![Op(e).target] = [Src(e) EXCEPT !.by = e]]
           /\ Goto(e, "finish") /\ UNCHANGED temp
  <2> DEFINE entry == [Src(e) EXCEPT !.by = e]
  <2>1. /\ Op(e).target \in Targets /\ Op(e).target \in Files /\ Op(e).target \notin Sources
        /\ Op(e).source \in Sources /\ Op(e).source \in Files /\ run[e].i \in DOMAIN plan[e]
    BY OpTypes, ExecutorAssumption DEF Inv, EInv, Placed
  <2>2. entry \in Entries
    <3>1. Src(e) \in Records
      BY <1>4, SourceTypes, EntryTypes
    <3>2. entry \in Records
      BY <3>1 DEF Records
    <3> QED BY <3>2, EntryTypes
  <2>3. /\ fs' \in [Files -> Entries] /\ fs'[Op(e).target] = entry /\ fs'[Op(e).source] = Missing
        /\ \A g \in Files \ {Op(e).target, Op(e).source} : fs'[g] = fs[g]
    <3> HIDE DEF entry
    <3>1. fs \in [Files -> Entries] /\ Missing \in Entries
      BY SourceTypes DEF FsInv
    <3>2. fs' = [fs EXCEPT ![Op(e).source] = Missing, ![Op(e).target] = entry]
      BY <1>4 DEF entry
    <3> QED BY <2>1, <2>2, <3>1, <3>2
  <2>4. \A s \in Sources : fs'[s] # Missing => fs'[s].data \notin Partial
    BY <2>1, <2>3 DEF Inv, FsInv, Files
  <2>5. WritesAppearWhole'
    <3> SUFFICES ASSUME NEW t \in Targets, fs'[t] # Missing, fs'[t].data \in Partial
                 PROVE  \E d \in Executors : \E k \in DOMAIN plan[d] :
                           plan[d][k].kind = "move" /\ plan[d][k].target = t
      BY <1>1 DEF WritesAppearWhole, Partial
    <3>1. CASE t = Op(e).target
      BY <1>1, <2>1, <3>1 DEF Op
    <3>2. CASE t # Op(e).target
      BY <2>1, <2>3, <3>2, ExecutorAssumption DEF Inv, FsInv, WritesAppearWhole, Files, Partial
    <3> QED BY <3>1, <3>2
  <2>6. FsInv'
    BY <2>3, <2>4, <2>5 DEF FsInv
  <2> QED BY <1>1, <1>4, <2>6, GoingOn DEF Pcs, ReadyPcs, CopiedPcs
<1> QED BY <1>2, <1>3, <1>4 DEF Rename

LEMMA RenameCopyKeeps == ASSUME Inv, NEW e \in Executors, RenameCopy(e) PROVE Inv'
<1>1. /\ Still /\ run[e].pc = "rename" /\ run[e].pc \notin EarlyPcs /\ UNCHANGED plan
      /\ Op(e).kind = "move" /\ Tmp(e) \in Entries /\ Missing \in Entries
      /\ Put(Op(e).target, Tmp(e)) /\ SetTemp(e, Missing) /\ Goto(e, "lastcheck")
  BY SourceTypes DEF RenameCopy, Still, input, world, EarlyPcs, Ended, EInv, Placed, MovePcs
<1>2. FsInv'
  BY <1>1, PutTarget
<1> QED BY <1>1, <1>2, GoingWith DEF Pcs, ReadyPcs, CopiedPcs

LEMMA ResumeKeeps ==
    ASSUME Inv, NEW e \in Executors, Resume(e), run[e].pc \in {"recapture", "cleanup"}, Still, FsInv'
    PROVE  Inv'
<1>1. run[e].pc \notin EarlyPcs /\ Op(e).kind = "move"
  BY DEF EarlyPcs, Ended, Inv, EInv, Placed, MovePcs
<1>2. CASE Abandon(e)
  BY <1>1, <1>2, Failing DEF Ended, Abandon, Fail, FailAt
<1>3. CASE Goto(e, "copyfresh") /\ UNCHANGED temp
  BY <1>1, <1>3, GoingOn DEF Pcs, ReadyPcs, CopiedPcs
<1> QED BY <1>2, <1>3 DEF Resume

LEMMA RecaptureKeeps == ASSUME Inv, NEW e \in Executors, Recapture(e) PROVE Inv'
<1>1. /\ Still /\ run[e].pc = "recapture" /\ run[e].pc \notin EarlyPcs /\ FsInv'
      /\ Op(e).kind = "move"
  BY SameFiles DEF Recapture, Still, input, world, EarlyPcs, Ended, Inv, EInv, Placed, MovePcs
<1>2. CASE Goto(e, "cleanup") /\ UNCHANGED temp
  BY <1>1, <1>2, GoingOn DEF Pcs, ReadyPcs, CopiedPcs
<1>3. CASE Resume(e)
  BY <1>1, <1>3, ResumeKeeps
<1>4. CASE Abandon(e)
  BY <1>1, <1>4, Failing DEF Ended, Abandon, Fail, FailAt
<1> QED BY <1>2, <1>3, <1>4 DEF Recapture

LEMMA CleanupKeeps == ASSUME Inv, NEW e \in Executors, Cleanup(e) PROVE Inv'
<1>1. Still /\ run[e].pc = "cleanup" /\ UNCHANGED plan /\ Missing \in Entries
  BY DEF Cleanup, Still, input, world, Entries
<1>2. CASE Put(Op(e).target, Missing) /\ Resume(e)
  <2>1. FsInv'
    BY <1>1, <1>2, PutTarget
  <2> QED BY <1>1, <1>2, <2>1, ResumeKeeps
<1>3. CASE Abandon(e) /\ UNCHANGED fs
  BY <1>1, <1>3, Failing, SameFiles DEF Ended, Abandon, Fail, FailAt, Inv
<1> QED BY <1>2, <1>3 DEF Cleanup

LEMMA CopyFreshKeeps == ASSUME Inv, NEW e \in Executors, CopyFresh(e) PROVE Inv'
<1>1. /\ Still /\ run[e].pc = "copyfresh" /\ run[e].pc \notin EarlyPcs /\ FsInv'
      /\ UNCHANGED temp
  BY SameFiles DEF CopyFresh, Still, input, world, EarlyPcs, Ended, Inv
<1>2. CASE Goto(e, "stage")
  BY <1>1, <1>2, GoingOn DEF Pcs, MovePcs, ReadyPcs, CopiedPcs
<1>3. CASE Fail(e)
  BY <1>1, <1>3, Failing DEF Ended, Fail, FailAt
<1> QED BY <1>2, <1>3 DEF CopyFresh

LEMMA RecheckKeeps == ASSUME Inv, NEW e \in Executors, Recheck(e) PROVE Inv'
<1>1. /\ Still /\ run[e].pc = "recheck" /\ run[e].pc \notin EarlyPcs /\ FsInv'
      /\ Op(e).kind = "move" /\ Tmp(e) # Missing /\ Tmp(e).data \notin Partial
  BY SameFiles DEF Recheck, Still, input, world, EarlyPcs, Ended, Inv, EInv, Placed, TempInv,
                   MovePcs, ReadyPcs
<1>2. CASE Abandon(e)
  BY <1>1, <1>2, Failing DEF Ended, Abandon, Fail, FailAt
<1>3. CASE /\ run' = [run EXCEPT ![e].pc = IF Creates(e) THEN "reserve" ELSE "rename",
                                 ![e].copied = TRUE]
           /\ UNCHANGED temp
  <2>1. /\ run' \in [Executors -> Runs] /\ run'[e].pc \in {"reserve", "rename"}
        /\ run'[e].i = run[e].i /\ \A d \in Executors \ {e} : run'[d] = run[d]
    <3>1. PICK pc \in {"reserve", "rename"} :
             run' = [run EXCEPT ![e].pc = pc, ![e].copied = TRUE]
      BY <1>3
    <3>2. run \in [Executors -> Runs] /\ run[e] \in Runs
      BY DEF Inv, Shape
    <3>3. run'[e] = [run[e] EXCEPT !.pc = pc, !.copied = TRUE]
      BY <3>1, <3>2
    <3> QED BY <3>1, <3>2, <3>3 DEF Runs, Pcs
  <2>2. temp'[e] = temp[e] /\ temp'[e] \in [DOMAIN plan[e] -> Entries] /\ DOMAIN temp' = Executors
    BY <1>3 DEF Inv, EInv, TempInv, Shape
  <2>3. Mine(e) /\ checked'[e] = checked[e]
    BY <1>1, <1>3, <2>1, <2>2, StillMine DEF Still
  <2> QED BY <1>1, <2>1, <2>2, <2>3, Proceed DEF Tmp
<1> QED BY <1>2, <1>3 DEF Recheck

LEMMA LastCheckKeeps == ASSUME Inv, NEW e \in Executors, LastCheck(e) PROVE Inv'
<1>1. /\ Still /\ run[e].pc = "lastcheck" /\ run[e].pc \notin EarlyPcs /\ FsInv'
      /\ UNCHANGED temp /\ Op(e).kind = "move"
  BY SameFiles DEF LastCheck, Still, input, world, EarlyPcs, Ended, Inv, EInv, Placed, MovePcs
<1>2. CASE Goto(e, "remove")
  BY <1>1, <1>2, GoingOn DEF Pcs, ReadyPcs, CopiedPcs
<1>3. CASE Fail(e)
  BY <1>1, <1>3, Failing DEF Ended, Fail, FailAt
<1> QED BY <1>2, <1>3 DEF LastCheck

LEMMA FinishKeeps == ASSUME Inv, NEW e \in Executors, Finish(e) PROVE Inv'
<1>1. /\ Still /\ run[e].pc = "finish" /\ run[e].pc \notin EarlyPcs /\ FsInv'
      /\ UNCHANGED temp /\ Op(e).kind = "move"
  BY SameFiles DEF Finish, Still, input, world, EarlyPcs, Ended, Inv, EInv, Placed, MovePcs
<1>2. CASE Goto(e, "remove") \/ Goto(e, "confirm")
  BY <1>1, <1>2, GoingOn DEF Pcs, MovePcs, ReadyPcs, CopiedPcs
<1>3. CASE Fail(e)
  BY <1>1, <1>3, Failing DEF Ended, Fail, FailAt
<1> QED BY <1>2, <1>3 DEF Finish

LEMMA RemoveKeeps == ASSUME Inv, NEW e \in Executors, Remove(e) PROVE Inv'
<1>1. /\ Still /\ run[e].pc = "remove" /\ run[e].pc \notin EarlyPcs /\ UNCHANGED <<plan, temp>>
  BY DEF Remove, Still, input, world, EarlyPcs, Ended
<1>2. CASE Put(Op(e).source, Missing) /\ Goto(e, "confirm")
  <2>1. Op(e).source \in Files /\ Op(e).source \notin Targets
    BY OpTypes, ExecutorAssumption DEF Inv, EInv
  <2>2. /\ fs' \in [Files -> Entries] /\ fs'[Op(e).source] = Missing
        /\ \A g \in Files \ {Op(e).source} : fs'[g] = fs[g]
    BY <1>2, <2>1, Putting DEF Inv, Entries
  <2>3. FsInv'
    BY <1>1, <2>1, <2>2 DEF Inv, FsInv, WritesAppearWhole, Files
  <2> QED BY <1>1, <1>2, <2>3, GoingOn DEF Pcs, MovePcs, ReadyPcs, CopiedPcs
<1>3. CASE Fail(e) /\ UNCHANGED fs
  BY <1>1, <1>3, Failing, SameFiles DEF Ended, Fail, FailAt, Inv
<1> QED BY <1>2, <1>3 DEF Remove

LEMMA IoFailsKeeps == ASSUME Inv, NEW e \in Executors, IoFails(e) PROVE Inv'
<1>1. Still /\ FsInv'
  BY SameFiles DEF IoFails, Still, input, world, Inv
<1>2. CASE Abandon(e)
  BY <1>1, <1>2, Failing DEF Ended, Abandon, Fail, FailAt
<1>3. CASE Fail(e) /\ UNCHANGED temp
  BY <1>1, <1>3, Failing DEF Ended, Fail, FailAt
<1>4. CASE run[e].pc = "rename" /\ AfterRename(e, FALSE)
  BY <1>1, <1>4, AfterRenameKeeps
<1> QED BY <1>2, <1>3, <1>4 DEF IoFails

LEMMA CrashKeeps == ASSUME Inv, NEW e \in Executors, Crash(e) PROVE Inv'
<1>1. Still /\ FsInv' /\ Goto(e, "crashed") /\ UNCHANGED temp
  BY SameFiles DEF Crash, Still, input, Inv
<1> QED BY <1>1, Failing DEF Ended

-----------------------------------------------------------------------------
(***************************************************************************)
(* Everybody else.                                                         *)
(***************************************************************************)

\* What a change to the files alone has to see to.
LEMMA FilesAlone ==
    ASSUME Inv, UNCHANGED <<plan, policy, manifest, run, observed, checked>>, edits' \in Nat,
           fs' \in [Files -> Entries], DOMAIN temp' = Executors,
           \A g \in Files : \/ fs'[g] = fs[g] \/ fs'[g] = Missing \/ fs'[g].data \notin Partial,
           \A e \in Executors :
              /\ temp'[e] \in [DOMAIN plan[e] -> Entries]
              /\ \A k \in DOMAIN plan[e] :
                    \/ temp'[e][k] = temp[e][k]
                    \/ temp'[e][k] # Missing /\ temp'[e][k].data \notin Partial
    PROVE  Inv'
<1>1. Shape'
  BY DEF Inv, Shape
<1>2. FsInv'
  BY DEF Inv, FsInv, WritesAppearWhole, Files, Partial
<1>3. ASSUME NEW e \in Executors PROVE EInv(e)'
  <2>1. Placed(e)' /\ Known(e)'
    BY DEF Inv, EInv, Placed, Known, Op, Creates
  <2>2. TempInv(e)'
    BY DEF Inv, EInv, TempInv, Placed, Tmp
  <2> QED BY <2>1, <2>2 DEF EInv
<1> QED BY <1>1, <1>2, <1>3 DEF Inv

LEMMA EditKeeps == ASSUME Inv, NEW f \in Files, Edit(f) PROVE Inv'
<1> DEFINE new(entry) == IF entry # Missing /\ entry.id = fs[f].id
                         THEN [entry EXCEPT !.id = OtherId, !.data = "edited"] ELSE entry
<1>1. /\ fs' = [g \in Files |-> new(fs[g])]
      /\ temp' = [e \in Executors |-> [k \in DOMAIN temp[e] |-> new(temp[e][k])]]
      /\ UNCHANGED <<plan, policy, manifest, run, observed, checked>> /\ edits' = edits + 1
  BY DEF Edit, input
<1>2. ASSUME NEW entry \in Entries
      PROVE  /\ new(entry) \in Entries
             /\ new(entry) = entry \/ (new(entry) # Missing /\ new(entry).data \notin Partial)
  <2>1. CASE entry # Missing /\ entry.id = fs[f].id
    <3>1. OtherId \in Inodes /\ "edited" \in Data
      <4>1. edits \in Nat
        BY DEF Inv, Shape
      <4> QED BY <4>1 DEF OtherId, Inodes, Data, Texts
    <3>2. new(entry) = [entry EXCEPT !.id = OtherId, !.data = "edited"]
      BY <2>1
    <3>3. entry \in Records
      BY <2>1, EntryTypes
    <3>4. new(entry) \in Records /\ new(entry).data = "edited"
      BY <3>1, <3>2, <3>3 DEF Records
    <3> HIDE DEF new
    <3> QED BY <3>4, EntryTypes DEF Partial
  <2>2. CASE ~(entry # Missing /\ entry.id = fs[f].id)
    BY <2>2
  <2> QED BY <2>1, <2>2
<1> HIDE DEF new
<1>3. fs \in [Files -> Entries] /\ edits' \in Nat
  BY <1>1 DEF Inv, FsInv, Shape
<1>4. \A g \in Files : /\ fs'[g] \in Entries
                       /\ fs'[g] = fs[g] \/ fs'[g] = Missing \/ fs'[g].data \notin Partial
  BY <1>1, <1>2, <1>3
<1>5. ASSUME NEW e \in Executors
      PROVE  /\ temp'[e] \in [DOMAIN plan[e] -> Entries]
             /\ \A k \in DOMAIN plan[e] :
                   \/ temp'[e][k] = temp[e][k]
                   \/ temp'[e][k] # Missing /\ temp'[e][k].data \notin Partial
  <2>1. temp[e] \in [DOMAIN plan[e] -> Entries]
    BY DEF Inv, EInv, TempInv
  <2> QED BY <1>1, <1>2, <2>1
<1>6. fs' \in [Files -> Entries] /\ DOMAIN temp' = Executors
  BY <1>1, <1>4
<1> QED BY <1>1, <1>3, <1>4, <1>5, <1>6, FilesAlone

\* A file is removed, replaced or made by a user.
LEMMA PutKeeps ==
    ASSUME Inv, NEW f \in Files, NEW entry \in Entries, Put(f, entry),
           entry # Missing => entry.data \notin Partial, edits' = edits + 1,
           UNCHANGED <<plan, policy, manifest, run, observed, checked, temp>>
    PROVE  Inv'
<1>1. fs' \in [Files -> Entries] /\ fs'[f] = entry /\ \A g \in Files \ {f} : fs'[g] = fs[g]
  BY Putting DEF Inv
<1>2. edits' \in Nat /\ DOMAIN temp' = Executors
  BY DEF Inv, Shape
<1>3. \A e \in Executors : temp'[e] \in [DOMAIN plan[e] -> Entries] /\ temp'[e] = temp[e]
  BY DEF Inv, EInv, TempInv
<1> QED BY <1>1, <1>2, <1>3, FilesAlone

\* What users put somewhere is whole and no medium.
LEMMA OthersTypes ==
    ASSUME Inv, NEW f \in Files, NEW data \in {"edited", "foreign"}, NEW x \in OfOthers(f, data)
    PROVE  /\ x \in Entries /\ x # Missing /\ x.id = OtherId /\ x.by = "world"
           /\ x.data \notin Partial /\ x.data \notin Sources
<1>1. PICK contents \in Paths \cup {data} : x = Entry(OtherId, contents, "world")
  BY DEF OfOthers
<1>2. OtherId \in Inodes
  BY DEF OtherId, Inodes, Inv, Shape
<1>3. contents \in Data /\ contents \notin Partial /\ contents \notin Sources
  BY MissingAssumption, PathTypes DEF Data, Texts, Partial, Paths
<1>4. x \in Records
  BY <1>1, <1>2, <1>3, EntryTypes
<1> QED BY <1>1, <1>3, <1>4, EntryTypes DEF Entry

LEMMA WorldKeeps ==
    ASSUME Inv, NEW f \in Files, Edit(f) \/ Substitute(f) \/ Appear(f) PROVE Inv'
<1>1. CASE Substitute(f)
  <2>1. PICK entry \in OfOthers(f, "edited") \cup {Missing} : Put(f, entry)
    BY <1>1 DEF Substitute
  <2>2. entry \in Entries /\ (entry # Missing => entry.data \notin Partial)
    BY <2>1, OthersTypes DEF Entries
  <2> QED BY <1>1, <2>1, <2>2, PutKeeps DEF Substitute, input
<1>2. CASE Appear(f)
  <2>1. PICK entry \in OfOthers(f, "foreign") : Put(f, entry)
    BY <1>2 DEF Appear
  <2>2. entry \in Entries /\ entry.data \notin Partial
    BY OthersTypes
  <2> QED BY <1>2, <2>1, <2>2, PutKeeps DEF Appear, input
<1> QED BY <1>1, <1>2, EditKeeps

-----------------------------------------------------------------------------
LEMMA Initially == Init => Inv
<1> SUFFICES ASSUME Init PROVE Inv
  OBVIOUS
<1>5. PICK soft \in SUBSET Prior : fs = [f \in Files |-> FirstEntry(f, soft)]
  BY DEF Init
<1>1. ASSUME NEW f \in Files
      PROVE  /\ FirstEntry(f, soft) \in Entries
             /\ FirstEntry(f, soft) # Missing => FirstEntry(f, soft).data \notin Partial
  <2>1. ASSUME NEW g \in Files, NEW data \in Sources \cup Paths \cup {"prior"}
        PROVE  /\ Entry(<<g, 0>>, data, "world") \in Entries
               /\ Entry(<<g, 0>>, data, "world").data \notin Partial
    <3>1. <<g, 0>> \in Inodes /\ data \in Data /\ data \notin Partial
      BY MissingAssumption DEF Inodes, Data, Texts, Partial
    <3> QED BY <3>1, EntryTypes DEF Entry
  <2>2. CASE f \in Sources
    BY <2>1, <2>2 DEF FirstEntry
  <2>3. CASE f \notin Sources /\ f \notin Prior
    BY <2>3 DEF FirstEntry, Entries
  <2>4. CASE f \notin Sources /\ f \in Prior /\ Linked[f] = Missing
    BY <2>1, <2>4 DEF FirstEntry, PriorData
  <2>5. CASE f \notin Sources /\ f \in Prior /\ Linked[f] # Missing
    <3>1. Linked[f] \in Sources /\ Linked[f] \in Files
      BY <2>5, ExecutorAssumption DEF Files
    <3>2. PathTo[Linked[f]] \in Paths
      BY <3>1, PathTypes
    <3> QED BY <2>1, <2>5, <3>1, <3>2 DEF FirstEntry, PriorData
  <2> QED BY <2>2, <2>3, <2>4, <2>5
<1>2. FsInv
  <2>1. fs \in [Files -> Entries] /\ \A f \in Files : fs[f] # Missing => fs[f].data \notin Partial
    BY <1>5, <1>1
  <2> QED BY <2>1 DEF FsInv, WritesAppearWhole, Files, Partial
<1>3. Shape
  BY DEF Init, Shape, Runs, Pcs, Views, Entries
<1>4. ASSUME NEW e \in Executors PROVE EInv(e)
  <2>1. run[e].pc = "prepare" /\ run[e].i = 1 /\ plan[e] \in Plans
        /\ temp[e] = [k \in DOMAIN plan[e] |-> Missing]
    BY DEF Init
  <2>2. Placed(e)
    <3>1. plan[e] \in Seq(Operations) /\ plan[e] # <<>>
      BY <2>1, ExecutorAssumption DEF Operations
    <3>2. Len(plan[e]) # 0 /\ Len(plan[e]) \in Nat /\ DOMAIN plan[e] = 1 .. Len(plan[e])
      BY <3>1
    <3> QED BY <2>1, <3>2 DEF Placed, MovePcs
  <2> QED BY <2>1, <2>2 DEF EInv, TempInv, Known, ReadyPcs, CopiedPcs, EarlyPcs, Entries
<1> QED BY <1>2, <1>3, <1>4 DEF Inv

LEMMA Steps == Inv /\ [Next]_vars => Inv'
<1> SUFFICES ASSUME Inv, [Next]_vars PROVE Inv'
  OBVIOUS
<1>1. ASSUME NEW e \in Executors, ExecutorNext(e) PROVE Inv'
  BY <1>1, PrepareKeeps, CheckManifestKeeps, CheckKeeps, BeginKeeps, StageKeeps, FillKeeps,
     PublishKeeps, UnlinkKeeps, LinkKeeps, ConfirmKeeps, ReserveKeeps, VerifyKeeps, RenameKeeps,
     RenameCopyKeeps, RecaptureKeeps, CleanupKeeps, CopyFreshKeeps, RecheckKeeps, LastCheckKeeps,
     FinishKeeps, RemoveKeeps, IoFailsKeeps, CrashKeeps DEF ExecutorNext
<1>2. ASSUME NEW f \in Files, Edit(f) \/ Substitute(f) \/ Appear(f) PROVE Inv'
  BY <1>2, WorldKeeps
<1>3. CASE UNCHANGED vars
  <2>1. UNCHANGED <<fs, temp, plan, policy, manifest, run, observed, checked, edits>>
    BY <1>3 DEF vars, input, world
  <2>2. FsInv' /\ Shape'
    BY <2>1, SameFiles DEF Inv, Shape
  <2>3. ASSUME NEW e \in Executors PROVE EInv(e)'
    BY <2>1 DEF Inv, EInv, Placed, TempInv, Known, Op, Tmp, Creates
  <2> QED BY <2>2, <2>3 DEF Inv
<1> QED BY <1>1, <1>2, <1>3 DEF Next

-----------------------------------------------------------------------------
\* A step of e changes no other execution's place, and, of the targets, that of
\* its operation only, once it has checked its plan.
LEMMA Touches ==
    ASSUME Inv, NEW e \in Executors, ExecutorNext(e)
    PROVE  /\ \A d \in Executors \ {e} : run'[d] = run[d]
           /\ \/ \A t \in Targets : fs'[t] = fs[t]
              \/ /\ run[e].pc \notin EarlyPcs
                 /\ \A t \in Targets \ {Op(e).target} : fs'[t] = fs[t]
<1>1. \A d \in Executors \ {e} : run'[d] = run[d]
  BY DEF Inv, Shape, ExecutorNext, Prepare, CheckManifest, Check, Begin, Stage, Fill, Publish, Unlink,
         Link, Confirm, Reserve, Verify, Rename, RenameCopy, Recapture, Cleanup, CopyFresh, Recheck,
         LastCheck, Finish, Remove, IoFails, Crash, Goto, Fail, FailAt, Abandon, AfterRename, Resume
<1>2. CASE UNCHANGED fs
  BY <1>1, <1>2
<1>3. ASSUME NEW entry, Put(Op(e).target, entry), run[e].pc \notin EarlyPcs
      PROVE  \A t \in Targets \ {Op(e).target} : fs'[t] = fs[t]
  BY <1>3 DEF Put, Inv, FsInv, Files
<1>4. CASE Publish(e) \/ Link(e) \/ Reserve(e) \/ RenameCopy(e) \/ Cleanup(e)
  <2>1. run[e].pc \notin EarlyPcs
    BY <1>4 DEF Publish, Link, Reserve, RenameCopy, Cleanup, EarlyPcs, Ended
  <2>2. UNCHANGED fs \/ \E entry : Put(Op(e).target, entry)
    BY <1>4 DEF Publish, Link, Reserve, RenameCopy, Cleanup
  <2> QED BY <1>1, <1>2, <1>3, <2>1, <2>2
<1>5. CASE Rename(e) \/ Remove(e)
  <2>1. run[e].pc \notin EarlyPcs
    BY <1>5 DEF Rename, Remove, EarlyPcs, Ended
  <2>2. Op(e).source \in Files /\ Op(e).target \in Files /\ Op(e).source \notin Targets
    BY OpTypes, ExecutorAssumption DEF Inv, EInv
  <2>3. \A t \in Targets \ {Op(e).target} : fs'[t] = fs[t]
    BY <1>5, <2>2 DEF Rename, Remove, Put, Inv, FsInv, Files
  <2> QED BY <1>1, <2>1, <2>3
<1>6. CASE ~(Publish(e) \/ Link(e) \/ Reserve(e) \/ RenameCopy(e) \/ Cleanup(e) \/ Rename(e) \/ Remove(e))
  <2>1. UNCHANGED fs
    BY <1>6 DEF ExecutorNext, Prepare, CheckManifest, Check, Begin, Stage, Fill, Unlink, Confirm,
                Verify, Recapture, CopyFresh, Recheck, LastCheck, Finish, IoFails, Crash
  <2> QED BY <1>2, <2>1
<1> QED BY <1>4, <1>5, <1>6

\* Who acts in a step is who takes it.
LEMMA Actor ==
    ASSUME Inv, [Next]_vars, NEW e \in Executors, Acts(e) PROVE ExecutorNext(e)
<1>1. ~UNCHANGED run
  BY DEF Acts
<1>2. PICK d \in Executors : ExecutorNext(d)
  BY <1>1 DEF Next, vars, Edit, Substitute, Appear
<1>3. d = e
  BY <1>2, Touches DEF Acts
<1> QED BY <1>2, <1>3

\* The inductive invariant: entries are whole except at the target of a move,
\* temporary files are ready when they are published, and an execution past its
\* checks has seen in its targets nothing but what its manifest names.
THEOREM ExecutorInvariant == Spec => []Inv
<1>1. Init => Inv
  BY Initially
<1>2. Inv /\ [Next]_vars => Inv'
  BY Steps
<1> QED BY <1>1, <1>2, PTL DEF Spec

\* Written, copied and linked targets are published whole, whatever fails,
\* crashes or interferes.
THEOREM PublishedWhole == Spec => []WritesAppearWhole
<1>1. Inv => WritesAppearWhole
  BY DEF Inv, FsInv
<1> QED BY <1>1, ExecutorInvariant, PTL

\* Of somebody else's, a file is replaced only if it is what the manifest says,
\* a symlink only if it led to that when the manifest was compared, or either
\* was not there as it is when the plan was checked for the last time.
THEOREM ReplacesWhatIsChecked == Spec => ReplacesOnlyChecked
<1>1. ASSUME Inv, [Next]_vars, NEW e \in Executors, Acts(e), NEW t \in Targets,
             fs[t] # Missing, fs'[t] # fs[t], fs[t] = checked[e].entries[t]
      PROVE  IF IsLink(fs[t]) THEN t \in checked[e].fitted ELSE Sha(fs[t]) = manifest[e][t]
  <2>1. run[e].pc \notin EarlyPcs /\ t = Op(e).target
    BY <1>1, Actor, Touches
  <2>2. run[e].i \in DOMAIN plan[e] /\ Known(e)
    BY <1>1 DEF Inv, EInv, Placed
  <2>3. Vetted(t, fs[t].data, checked[e].fitted, manifest[e])
    BY <1>1, <2>1, <2>2 DEF Known, Op
  <2> QED BY <1>1, <2>3 DEF Vetted, IsLink, Sha
<1>2. Inv /\ [Next]_vars =>
        [\A e \in Executors : Acts(e) =>
            \A t \in Targets :
                fs[t] # Missing /\ fs[t].by # e /\ fs'[t] # fs[t] /\ fs[t] = checked[e].entries[t] =>
                    IF IsLink(fs[t]) THEN t \in checked[e].fitted
                    ELSE Sha(fs[t]) = manifest[e][t]]_vars
  BY <1>1
<1> QED BY <1>2, ExecutorInvariant, PTL DEF Spec, ReplacesOnlyChecked

-----------------------------------------------------------------------------
(***************************************************************************)
(* No overwriting, where every execution creates and users leave what the  *)
(* executions have published to them.                                      *)
(***************************************************************************)
HeldPcs == {"verify", "rename", "recapture", "cleanup"}

\* Between its reservation and the rename the target of a move is e's own, and
\* no medium.
Holds(e) == Tgt(e) # Missing /\ Tgt(e).by = e /\ Tgt(e).data \notin Sources
Held == \A e \in Executors : run[e].pc \in HeldPcs => Holds(e)

OnlyCreates == Policies = {"create"} /\ Meddling = FALSE

LEMMA OwnOnly ==
    ASSUME OnlyCreates, Inv, Held, NEW e \in Executors, ExecutorNext(e),
           NEW t \in Targets, fs[t] # Missing, fs[t].by # e
    PROVE  fs'[t] = fs[t]
<1>1. Creates(e)
  BY DEF OnlyCreates, Inv, Shape, Creates
<1>2. CASE \A u \in Targets : fs'[u] = fs[u]
  BY <1>2
<1>3. CASE \A u \in Targets \ {Op(e).target} : fs'[u] = fs[u]
  <2>1. CASE t # Op(e).target
    BY <1>3, <2>1
  <2>2. CASE t = Op(e).target
    <3>1. Tgt(e) # Missing /\ Tgt(e).by # e /\ run[e].pc \notin HeldPcs
      BY <2>2 DEF Tgt, Held, Holds
    <3>2. CASE Remove(e)
      <4>1. Op(e).source \in Files /\ Op(e).source # t
        BY <2>2, OpTypes DEF Inv, EInv
      <4> QED BY <2>2, <3>2, <4>1 DEF Remove, Put, Inv, FsInv, Files
    <3>3. CASE ~Remove(e)
      <4>1. UNCHANGED fs
        BY <1>1, <3>1, <3>3 DEF ExecutorNext, HeldPcs, Prepare, CheckManifest, Check, Begin, Stage,
                Fill, Publish, Unlink, Link, Confirm, Reserve, Verify, Rename, RenameCopy, Recapture,
                Cleanup, CopyFresh, Recheck, LastCheck, Finish, IoFails, Crash
      <4> QED BY <4>1
    <3> QED BY <3>2, <3>3
  <2> QED BY <2>1, <2>2
<1> QED BY <1>2, <1>3, Touches

\* An execution that comes to hold its target, or goes on holding it, does.
LEMMA HoldsOn ==
    ASSUME OnlyCreates, Inv, Held, NEW e \in Executors, ExecutorNext(e), run'[e].pc \in HeldPcs
    PROVE  Holds(e)'
<1>1. /\ Creates(e) /\ Shape /\ run[e] \in Runs /\ run \in [Executors -> Runs]
      /\ UNCHANGED plan /\ Op(e).target \in Files /\ fs \in [Files -> Entries]
  BY OpTypes DEF OnlyCreates, Inv, EInv, Shape, Creates, FsInv, ExecutorNext, Prepare, CheckManifest,
         Check, Begin, Stage, Fill, Publish, Unlink, Link, Confirm, Reserve, Verify, Rename, RenameCopy,
         Recapture, Cleanup, CopyFresh, Recheck, LastCheck, Finish, Remove, IoFails, Crash, input
<1>2. ASSUME NEW pc \in Pcs, Goto(e, pc) PROVE run'[e].pc = pc /\ run'[e].i = run[e].i
  BY <1>1, <1>2, Going
<1>3. ~Fail(e) /\ ~Abandon(e) /\ ~Goto(e, "failed") /\ ~Goto(e, "crashed")
  BY <1>2 DEF Fail, FailAt, Abandon, Pcs, Ended, HeldPcs
<1>4. CASE Reserve(e)
  <2>1. /\ fs' = [fs EXCEPT ![Op(e).target] = Entry(HoldId(e), "empty", e)]
        /\ run'[e].i = run[e].i
    BY <1>2, <1>3, <1>4 DEF Reserve, Put, Pcs
  <2>2. Tgt(e)' = Entry(HoldId(e), "empty", e)
    BY <1>1, <2>1 DEF Tgt, Op
  <2>3. Entry(HoldId(e), "empty", e) \in Records
    BY <1>1, InodeTypes, EntryTypes DEF Data, Texts
  <2> QED BY <2>2, <2>3, EntryTypes, MissingAssumption DEF Entry, Holds, Texts
<1>5. CASE UNCHANGED fs /\ run'[e].i = run[e].i /\ run[e].pc \in HeldPcs
  BY <1>1, <1>5 DEF Held, Holds, Tgt, Op
<1>6. CASE Verify(e)
  BY <1>2, <1>3, <1>5, <1>6 DEF Verify, Pcs, HeldPcs
<1>7. ASSUME NEW exdev \in BOOLEAN, AfterRename(e, exdev) PROVE run'[e].i = run[e].i
  <2>1. PICK error \in BOOLEAN : run' = [run EXCEPT ![e].pc = "recapture", ![e].error = error]
    BY <1>1, <1>7 DEF AfterRename
  <2>2. run'[e] = [run[e] EXCEPT !.pc = "recapture", !.error = error]
    BY <1>1, <2>1
  <2> QED BY <1>1, <2>2 DEF Runs
<1>8. CASE Rename(e)
  <2>1. ~Goto(e, "finish") /\ run[e].pc \in HeldPcs
    BY <1>2, <1>8 DEF Rename, Pcs, Ended, HeldPcs
  <2>2. UNCHANGED fs /\ (AfterRename(e, TRUE) \/ AfterRename(e, FALSE))
    BY <1>8, <2>1 DEF Rename
  <2> QED BY <1>5, <1>7, <2>1, <2>2
<1>9. CASE Recapture(e)
  BY <1>2, <1>3, <1>5, <1>9 DEF Recapture, Resume, Pcs, HeldPcs
<1>10. CASE IoFails(e)
  BY <1>3, <1>5, <1>7, <1>10 DEF IoFails, HeldPcs
<1>11. CASE Begin(e)
  <2>1. PICK pc \in {"stage", "link", "reserve"} :
           run' = [run EXCEPT ![e] = [@ EXCEPT !.copied = FALSE, !.error = FALSE, !.pc = pc]]
    <3>1. Op(e).kind \in Kinds
      BY OpTypes DEF Operations, Inv, EInv
    <3> QED BY <1>1, <1>3, <1>11, <3>1 DEF Begin, Kinds
  <2> QED BY <1>1, <2>1 DEF Runs, HeldPcs
<1>12. CASE Recheck(e)
  <2>1. run' = [run EXCEPT ![e].pc = "reserve", ![e].copied = TRUE]
    BY <1>1, <1>3, <1>12 DEF Recheck
  <2> QED BY <1>1, <2>1 DEF Runs, HeldPcs
<1>13. CASE Confirm(e)
  <2>1. run' = [run EXCEPT ![e].pc = "begin", ![e].i = @ + 1] \/ Goto(e, "done")
    BY <1>3, <1>13 DEF Confirm
  <2> QED BY <1>1, <1>2, <2>1 DEF Runs, HeldPcs, Pcs, Ended
<1>14. CASE Cleanup(e)
  BY <1>2, <1>3, <1>14 DEF Cleanup, Resume, Pcs, HeldPcs
<1>15. ASSUME NEW pc \in Pcs \ HeldPcs, Goto(e, pc) PROVE FALSE
  BY <1>2, <1>15
<1>16. CASE Prepare(e) \/ CheckManifest(e) \/ Check(e) \/ Stage(e) \/ Fill(e)
  BY <1>3, <1>15, <1>16 DEF Prepare, CheckManifest, Check, FailAt, Stage, Fill, Pcs, HeldPcs
<1>17. CASE Publish(e) \/ Unlink(e) \/ Link(e) \/ RenameCopy(e) \/ CopyFresh(e)
  BY <1>3, <1>15, <1>17 DEF Publish, Unlink, Link, RenameCopy, CopyFresh, Pcs, HeldPcs
<1>18. CASE LastCheck(e) \/ Finish(e) \/ Remove(e) \/ Crash(e)
  BY <1>3, <1>15, <1>18 DEF LastCheck, Finish, Remove, Crash, Pcs, HeldPcs
<1> QED BY <1>4, <1>6, <1>8, <1>9, <1>10, <1>11, <1>12, <1>13, <1>14, <1>16, <1>17, <1>18
        DEF ExecutorNext

\* What users do to files that are not theirs to change is nothing.
LEMMA UsersKeepHeld ==
    ASSUME OnlyCreates, Inv, Held, NEW f \in Files, Edit(f) \/ Substitute(f) \/ Appear(f)
    PROVE  Held'
<1> SUFFICES ASSUME NEW e \in Executors, run'[e].pc \in HeldPcs
             PROVE  Holds(e)'
  BY DEF Held
<1>1. UNCHANGED <<plan, run>> /\ Holds(e) /\ Tgt(e) # Missing /\ Tgt(e).by = e
  BY DEF Edit, Substitute, Appear, input, Held, Holds
<1>2. Op(e).target \in Files /\ fs \in [Files -> Entries] /\ Tgt(e) \in Records
  BY <1>1, OpTypes, EntryTypes, SourceTypes DEF Inv, EInv, FsInv
<1>3. Tgt(e)' = fs'[Op(e).target]
  BY <1>1 DEF Tgt, Op
<1>4. CASE Edit(f)
  <2>1. \/ fs'[Op(e).target] = Tgt(e)
        \/ fs'[Op(e).target] = [Tgt(e) EXCEPT !.id = OtherId, !.data = "edited"]
    BY <1>2, <1>4 DEF Edit, Tgt
  <2>2. OtherId \in Inodes /\ "edited" \in Data
    BY InodeTypes DEF Inv, Data, Texts
  <2>3. /\ fs'[Op(e).target] \in Records /\ fs'[Op(e).target].by = e
        /\ fs'[Op(e).target].data \notin Sources
    BY <1>1, <1>2, <2>1, <2>2, MissingAssumption DEF Records, Holds, Texts
  <2> QED BY <1>3, <2>3, EntryTypes DEF Holds
<1>5. CASE Substitute(f) \/ Appear(f)
  <2>1. f # Op(e).target
    BY <1>1, <1>5, ExecutorAssumption DEF Substitute, Appear, Theirs, OnlyCreates, Tgt
  <2>2. fs'[Op(e).target] = fs[Op(e).target]
    BY <1>2, <1>5, <2>1 DEF Substitute, Appear, Put
  <2> QED BY <1>1, <1>3, <2>2 DEF Tgt, Holds
<1> QED BY <1>4, <1>5

LEMMA HeldSteps == ASSUME OnlyCreates, Inv, Held, [Next]_vars PROVE Held'
<1>1. ASSUME NEW e \in Executors, ExecutorNext(e) PROVE Held'
  <2> SUFFICES ASSUME NEW d \in Executors, run'[d].pc \in HeldPcs
               PROVE  Holds(d)'
    BY DEF Held
  <2>1. CASE d = e
    BY <1>1, <2>1, HoldsOn
  <2>2. CASE d # e
    <3>1. run'[d] = run[d] /\ Tgt(d) # Missing /\ Tgt(d).by = d /\ Holds(d)
      BY <1>1, <2>2, Touches DEF Held, Holds
    <3>2. UNCHANGED plan
      BY <1>1 DEF ExecutorNext, Prepare, CheckManifest, Check, Begin, Stage, Fill, Publish, Unlink, Link,
             Confirm, Reserve, Verify, Rename, RenameCopy, Recapture, Cleanup, CopyFresh, Recheck,
             LastCheck, Finish, Remove, IoFails, Crash, input
    <3>3. Op(d).target \in Targets
      BY OpTypes DEF Inv, EInv
    <3>4. fs'[Op(d).target] = fs[Op(d).target]
      BY <1>1, <2>2, <3>1, <3>3, OwnOnly DEF Tgt
    <3> QED BY <3>1, <3>2, <3>4 DEF Holds, Tgt, Op
  <2> QED BY <2>1, <2>2
<1>2. CASE UNCHANGED vars
  BY <1>2 DEF vars, input, Held, Holds, Tgt, Op
<1> QED BY <1>1, <1>2, UsersKeepHeld DEF Next

LEMMA HeldAlways == ASSUME OnlyCreates PROVE Spec => []Held
<1>1. Init => Held
  BY DEF Init, Held, HeldPcs
<1>2. Inv /\ Held /\ [Next]_vars => Held'
  BY HeldSteps
<1> QED BY <1>1, <1>2, ExecutorInvariant, PTL DEF Spec

\* Executions that create never remove or replace a target somebody else put
\* there, if users do not touch what the executions have published.
THEOREM CreatesClobberNothing == ASSUME OnlyCreates PROVE Spec => NeverClobbers
<1>1. ASSUME Inv, Held, [Next]_vars, NEW e \in Executors, Acts(e), NEW t \in Targets,
             fs[t] # Missing, fs[t].by # e
      PROVE  fs'[t] = fs[t]
  BY <1>1, Actor, OwnOnly
<1>2. Inv /\ Held /\ [Next]_vars =>
        [\A e \in Executors : Acts(e) /\ Creates(e) =>
            \A t \in Targets : fs[t] # Missing /\ fs[t].by # e => fs'[t] = fs[t]]_vars
  BY <1>1
<1> QED BY <1>2, ExecutorInvariant, HeldAlways, PTL DEF Spec, NeverClobbers
-----------------------------------------------------------------------------
(***************************************************************************)
(* The report names what an execution has published.                       *)
(***************************************************************************)
UncheckedPcs == {"prepare", "manifest", "check"}

AuditRecords == [target : Targets, kind : Kinds, source : Sources,
                 outcome : {"succeeded", "failed"}, sha : Data \cup {Missing}]

Recorded(e, t) == \E k \in DOMAIN report[e] : report[e][k].target = t
ThenRecorded(e, t) == \E k \in DOMAIN report'[e] : report'[e][k].target = t

\* What e has put somewhere is recorded, or is at the target of the operation
\* it is in or has crashed in; before its checks it has put nothing anywhere.
Answered(e, t) ==
    fs[t] # Missing /\ fs[t].by = e =>
        /\ run[e].pc \notin UncheckedPcs
        /\ Recorded(e, t) \/ (run[e].pc \notin {"done", "failed"} /\ t = Op(e).target)

ReportInv ==
    /\ report \in [Executors -> Seq(AuditRecords)]
    /\ \A e \in Executors : \A k \in DOMAIN plan[e] : temp[e][k] # Missing => temp[e][k].by = e
    /\ \A e \in Executors : \A t \in Targets \ Unauditable : Answered(e, t)

\* A record of an operation is added to those there are.
LEMMA Pushing ==
    ASSUME Inv, ReportInv, NEW e \in Executors, NEW k \in DOMAIN plan[e],
           NEW outcome \in {"succeeded", "failed"}, NEW sha \in Data \cup {Missing},
           Push(e, k, outcome, sha)
    PROVE  /\ report' \in [Executors -> Seq(AuditRecords)]
           /\ \A d \in Executors \ {e} : report'[d] = report[d]
           /\ \A t : Recorded(e, t) => ThenRecorded(e, t)
           /\ plan[e][k].target \notin Unauditable => ThenRecorded(e, plan[e][k].target)
<1> DEFINE record == [target |-> plan[e][k].target, kind |-> plan[e][k].kind,
                      source |-> plan[e][k].source, outcome |-> outcome, sha |-> sha]
<1>1. record \in AuditRecords /\ record.target = plan[e][k].target
  BY OpTypes DEF Inv, EInv, Operations, AuditRecords
<1>2. report \in [Executors -> Seq(AuditRecords)] /\ report[e] \in Seq(AuditRecords)
  BY DEF ReportInv
<1>3. CASE plan[e][k].target \in Unauditable
  BY <1>2, <1>3 DEF Push, Recorded, ThenRecorded
<1>4. CASE plan[e][k].target \notin Unauditable
  <2>1. report' = [report EXCEPT ![e] = Append(report[e], record)]
    BY <1>4 DEF Push
  <2> HIDE DEF record
  <2>2. report'[e] = Append(report[e], record)
    BY <1>2, <2>1
  <2>3. /\ Append(report[e], record) \in Seq(AuditRecords)
        /\ DOMAIN Append(report[e], record) = 1 .. Len(report[e]) + 1
        /\ DOMAIN report[e] = 1 .. Len(report[e]) /\ Len(report[e]) \in Nat
        /\ \A j \in DOMAIN report[e] : Append(report[e], record)[j] = report[e][j]
        /\ Append(report[e], record)[Len(report[e]) + 1] = record
    BY <1>1, <1>2
  <2>4. \A t : Recorded(e, t) => ThenRecorded(e, t)
    BY <2>2, <2>3 DEF Recorded, ThenRecorded
  <2>5. ThenRecorded(e, plan[e][k].target)
    <3>1. Len(report[e]) + 1 \in DOMAIN report'[e]
      BY <2>2, <2>3
    <3>2. report'[e][Len(report[e]) + 1].target = plan[e][k].target
      BY <1>1, <2>2, <2>3
    <3> QED BY <3>1, <3>2 DEF Recorded, ThenRecorded
  <2> QED BY <1>2, <2>1, <2>3, <2>4, <2>5
<1> QED BY <1>3, <1>4

\* What the failure of operation k does to run and report.
LEMMA FailingAt ==
    ASSUME Inv, ReportInv, NEW e \in Executors, NEW k \in DOMAIN plan[e], FailAt(e, k)
    PROVE  /\ run'[e].pc = "failed" /\ run'[e].i = run[e].i
           /\ report' \in [Executors -> Seq(AuditRecords)]
           /\ \A d \in Executors \ {e} : report'[d] = report[d]
           /\ \A t : Recorded(e, t) => ThenRecorded(e, t)
           /\ plan[e][k].target \notin Unauditable => ThenRecorded(e, plan[e][k].target)
<1>1. run'[e].pc = "failed" /\ run'[e].i = run[e].i
  BY Going DEF FailAt, Inv, Pcs, Ended
<1>2. Push(e, k, "failed", Missing)
  BY DEF FailAt
<1> QED BY <1>1, <1>2, Pushing

\* A step of e records its operation if it leaves it for another or for good,
\* and records whatever was recorded.
Tells(e) ==
    /\ report' \in [Executors -> Seq(AuditRecords)]
    /\ \A d \in Executors \ {e} : report'[d] = report[d]
    /\ \A t : Recorded(e, t) => ThenRecorded(e, t)
    /\ run'[e].pc \in UncheckedPcs => run[e].pc \in UncheckedPcs
    /\ run[e].pc \notin Ended
    /\ \/ run[e].pc \in UncheckedPcs
       \/ run'[e].pc \notin {"done", "failed"} /\ run'[e].i = run[e].i
       \/ Op(e).target \in Unauditable \/ ThenRecorded(e, Op(e).target)

LEMMA TellsOn ==
    ASSUME Inv, ReportInv, NEW e \in Executors, NEW pc \in Pcs \ {"done", "failed"}, Goto(e, pc),
           UNCHANGED report, run[e].pc \notin Ended,
           pc \notin UncheckedPcs \/ run[e].pc \in UncheckedPcs
    PROVE  Tells(e)
BY Going DEF Tells, Inv, ReportInv, Recorded, ThenRecorded

LEMMA TellsFailure ==
    ASSUME Inv, ReportInv, NEW e \in Executors, Fail(e), run[e].pc \notin Ended PROVE Tells(e)
<1>1. run[e].i \in DOMAIN plan[e] /\ FailAt(e, run[e].i)
  BY DEF Inv, EInv, Placed, Fail
<1> QED BY <1>1, FailingAt DEF Tells, Op, UncheckedPcs

\* The numbers are well-founded, so the first refused operation is one.
LEMMA LeastIsIn == ASSUME NEW S \in SUBSET Nat, S # {} PROVE Least(S) \in S
<1> DEFINE Less == OpToRel(<, Nat)
<1>1. IsWellFoundedOn(Less, Nat)
  BY NatLessThanWellFounded
<1>2. \A m, n \in Nat : m < n => <<m, n>> \in Less
  BY Zenon DEF OpToRel
<1> HIDE DEF Less
<1>3. PICK n \in S : \A m \in S : <<m, n>> \notin Less
  BY <1>1, WFMin, Zenon
<1>4. ASSUME NEW m \in S PROVE n <= m
  <2>1. m \in Nat /\ n \in Nat
    OBVIOUS
  <2>2. ~(m < n)
    BY <1>2, <1>3, <2>1, Zenon
  <2> QED BY <2>1, <2>2
<1> QED BY <1>4 DEF Least

LEMMA TellsChecks ==
    ASSUME Inv, ReportInv, NEW e \in Executors, CheckManifest(e) \/ Check(e) PROVE Tells(e)
<1>1. run[e].pc \in {"manifest", "check"}
  BY DEF CheckManifest, Check
<1>2. CASE UNCHANGED report
  BY <1>1, <1>2 DEF Tells, ReportInv, Recorded, ThenRecorded, UncheckedPcs, Ended
<1>3. ASSUME NEW S \in SUBSET DOMAIN plan[e], S # {}, FailAt(e, Least(S)) PROVE Tells(e)
  <2>1. DOMAIN plan[e] \subseteq Nat
    BY OpTypes DEF Inv, EInv
  <2>2. Least(S) \in DOMAIN plan[e]
    BY <1>3, <2>1, LeastIsIn
  <2> QED BY <1>1, <1>3, <2>2, FailingAt DEF Tells, UncheckedPcs, Ended
<1>4. NotAllowed(e) \in SUBSET DOMAIN plan[e] /\ AllBlocked(e) \in SUBSET DOMAIN plan[e]
  BY DEF NotAllowed, AllBlocked
<1> QED BY <1>2, <1>3, <1>4 DEF CheckManifest, Check

\* What a path leads to is an entry.
LEMMA ThroughTypes == ASSUME Inv, NEW x \in Entries PROVE Through(x) \in Entries
<1>1. CASE IsLink(x)
  <2>1. \E s \in Sources : PathTo[s] = x.data
    BY <1>1 DEF IsLink, Paths
  <2>2. (CHOOSE s \in Sources : PathTo[s] = x.data) \in Sources
    BY <2>1
  <2> QED BY <1>1, <2>2 DEF Through, Inv, FsInv, Files
<1> QED BY <1>1 DEF Through

LEMMA TellsConfirm ==
    ASSUME Inv, ReportInv, NEW e \in Executors, Confirm(e) PROVE Tells(e)
<1>5. Output(e) \in Entries
  BY SourceTypes, ThroughTypes DEF Output
<1>1. run[e].pc = "confirm" /\ run[e].pc \notin Ended /\ run[e].i \in DOMAIN plan[e]
  BY DEF Confirm, Ended, Inv, EInv, Placed
<1>2. CASE Fail(e)
  BY <1>1, <1>2, TellsFailure
<1>3. CASE Op(e).target \in Unauditable /\ Goto(e, "failed") /\ UNCHANGED report
  BY <1>1, <1>3, Going DEF Tells, Inv, ReportInv, Recorded, ThenRecorded, Pcs, Ended, UncheckedPcs
<1>4. CASE Output(e) # Missing /\ Push(e, run[e].i, "succeeded", Sha(Output(e)))
  <2>1. Sha(Output(e)) \in Data
    BY <1>4, <1>5, EntryTypes DEF Sha
  <2>2. /\ report' \in [Executors -> Seq(AuditRecords)]
        /\ \A d \in Executors \ {e} : report'[d] = report[d]
        /\ \A t : Recorded(e, t) => ThenRecorded(e, t)
        /\ Op(e).target \notin Unauditable => ThenRecorded(e, Op(e).target)
    BY <1>1, <1>4, <2>1, Pushing DEF Op
  <2>3. run'[e].pc \in {"done", "begin", "failed"}
    <3>1. run \in [Executors -> Runs] /\ run[e] \in Runs
      BY DEF Inv, Shape
    <3> QED BY <1>1, <3>1 DEF Confirm, Goto, Fail, FailAt, Runs
  <2> QED BY <1>1, <2>2, <2>3 DEF Tells, UncheckedPcs
<1> QED BY <1>2, <1>3, <1>4 DEF Confirm

\* Steps that set more of the place of e than where it is.
LEMMA TellsOther ==
    ASSUME Inv, ReportInv, NEW e \in Executors, UNCHANGED report, run[e].pc \notin Ended,
           NEW pc \in Pcs \ ({"done", "failed"} \cup UncheckedPcs),
           NEW copied, NEW error,
           run' = [run EXCEPT ![e] = [@ EXCEPT !.copied = copied, !.error = error, !.pc = pc]]
    PROVE  Tells(e)
<1>1. run'[e] = [run[e] EXCEPT !.copied = copied, !.error = error, !.pc = pc] /\ run[e] \in Runs
  BY DEF Inv, Shape
<1>2. run'[e].pc = pc /\ run'[e].i = run[e].i
  BY <1>1 DEF Runs
<1> QED BY <1>2 DEF Tells, ReportInv, Recorded, ThenRecorded

LEMMA TellsAlways ==
    ASSUME Inv, ReportInv, NEW e \in Executors, ExecutorNext(e) PROVE Tells(e)
<1>1. CASE Prepare(e)
  <2>1. PICK pc \in UncheckedPcs : Goto(e, pc)
    BY <1>1 DEF Prepare, UncheckedPcs
  <2> QED BY <1>1, <2>1, TellsOn DEF Prepare, UncheckedPcs, Pcs, Ended
<1>2. CASE CheckManifest(e) \/ Check(e)
  BY <1>2, TellsChecks
<1>3. CASE Confirm(e)
  BY <1>3, TellsConfirm
<1>4. CASE Begin(e)
  <2>1. run[e].pc \notin Ended
    BY <1>4 DEF Begin, Ended
  <2>2. CASE Fail(e)
    BY <2>1, <2>2, TellsFailure
  <2>3. CASE ~Fail(e)
    <3>1. Op(e).kind \in Kinds
      BY OpTypes DEF Operations, Inv, EInv
    <3>2. PICK pc \in {"stage", "link", "reserve", "rename"} :
             run' = [run EXCEPT ![e] = [@ EXCEPT !.copied = FALSE, !.error = FALSE, !.pc = pc]]
      BY <1>4, <2>3, <3>1 DEF Begin, Kinds
    <3> QED BY <1>4, <2>1, <2>3, <3>2, TellsOther DEF Begin, Pcs, Ended, UncheckedPcs
  <2> QED BY <2>2, <2>3
<1>5. ASSUME NEW exdev \in BOOLEAN, AfterRename(e, exdev), run[e].pc = "rename" PROVE Tells(e)
  <2>1. CASE Creates(e)
    <3>1. run' = [run EXCEPT ![e].pc = "recapture", ![e].error = ~exdev] /\ UNCHANGED report
      BY <1>5, <2>1 DEF AfterRename
    <3>2. run' = [run EXCEPT ![e] = [@ EXCEPT !.copied = run[e].copied, !.error = ~exdev,
                                               !.pc = "recapture"]]
      BY <3>1 DEF Inv, Shape, Runs
    <3> QED BY <1>5, <3>1, <3>2, TellsOther DEF Pcs, Ended, UncheckedPcs
  <2>2. CASE ~Creates(e)
    BY <1>5, <2>2, TellsOn, TellsFailure DEF AfterRename, Abandon, Pcs, Ended, UncheckedPcs
  <2> QED BY <2>1, <2>2
<1>6. CASE Rename(e)
  BY <1>5, <1>6, TellsOn DEF Rename, Pcs, Ended, UncheckedPcs
<1>7. CASE Recheck(e)
  <2>1. run[e].pc \notin Ended
    BY <1>7 DEF Recheck, Ended
  <2>2. CASE Abandon(e)
    BY <2>1, <2>2, TellsFailure DEF Abandon
  <2>3. CASE ~Abandon(e)
    <3>1. PICK pc \in {"reserve", "rename"} :
             run' = [run EXCEPT ![e].pc = pc, ![e].copied = TRUE]
      BY <1>7, <2>3 DEF Recheck
    <3>2. run' = [run EXCEPT ![e] = [@ EXCEPT !.copied = TRUE, !.error = run[e].error, !.pc = pc]]
      BY <3>1 DEF Inv, Shape, Runs
    <3> QED BY <1>7, <2>1, <2>3, <3>2, TellsOther DEF Recheck, Pcs, Ended, UncheckedPcs
  <2> QED BY <2>2, <2>3
<1>8. CASE Resume(e) /\ run[e].pc \notin Ended
  BY <1>8, TellsOn, TellsFailure DEF Resume, Abandon, Pcs, Ended, UncheckedPcs
<1>9. CASE Recapture(e) \/ Cleanup(e)
  BY <1>8, <1>9, TellsOn, TellsFailure DEF Recapture, Cleanup, Abandon, Pcs, Ended, UncheckedPcs
<1>10. CASE Stage(e) \/ Fill(e)
  BY <1>10, TellsOn, TellsFailure DEF Stage, Fill, Pcs, Ended, UncheckedPcs
<1>11. CASE Publish(e)
  BY <1>11, TellsOn, TellsFailure DEF Publish, Pcs, Ended, UncheckedPcs
<1>12. CASE Unlink(e) \/ Link(e)
  BY <1>12, TellsOn, TellsFailure DEF Unlink, Link, Pcs, Ended, UncheckedPcs
<1>13. CASE Reserve(e) \/ Verify(e) \/ RenameCopy(e)
  BY <1>13, TellsOn, TellsFailure DEF Reserve, Verify, RenameCopy, Abandon, Pcs, Ended, UncheckedPcs
<1>14. CASE CopyFresh(e) \/ LastCheck(e) \/ Finish(e)
  BY <1>14, TellsOn, TellsFailure DEF CopyFresh, LastCheck, Finish, Pcs, Ended, UncheckedPcs
<1>15. CASE Remove(e) \/ Crash(e)
  BY <1>15, TellsOn, TellsFailure DEF Remove, Crash, Pcs, Ended, UncheckedPcs
<1>16. CASE IoFails(e)
  BY <1>5, <1>16, TellsFailure DEF IoFails, Abandon, Ended
<1> QED BY <1>1, <1>2, <1>3, <1>4, <1>6, <1>7, <1>9, <1>10, <1>11, <1>12, <1>13, <1>14, <1>15, <1>16
        DEF ExecutorNext

\* What e puts at a target, and what it has in its temporary files, is by e.
LEMMA SignsItsOwn ==
    ASSUME Inv, ReportInv, NEW e \in Executors, ExecutorNext(e)
    PROVE  /\ \A t \in Targets : fs'[t] = fs[t] \/ fs'[t] = Missing \/ fs'[t].by = e
           /\ \A d \in Executors : \A k \in DOMAIN plan[d] :
                 temp'[d][k] # Missing => temp'[d][k].by = d
<1>1. /\ Src(e) \in Entries /\ Tmp(e) \in Entries /\ fs \in [Files -> Entries]
      /\ Op(e).target \in Targets /\ Op(e).target \in Files /\ Op(e).source \in Files
      /\ Op(e).source \notin Targets /\ run[e].i \in DOMAIN plan[e]
  BY SourceTypes, OpTypes, ExecutorAssumption DEF Inv, EInv, FsInv, Placed
<1>2. Tmp(e) # Missing => Tmp(e).by = e
  BY <1>1 DEF ReportInv, Tmp
<1>3. ASSUME NEW x, x = Missing \/ x.by = e, Put(Op(e).target, x)
      PROVE  \A t \in Targets : fs'[t] = fs[t] \/ fs'[t] = Missing \/ fs'[t].by = e
  BY <1>1, <1>3 DEF Put
<1>4. ASSUME NEW x, x = Missing \/ x.by = e, SetTemp(e, x)
      PROVE  \A d \in Executors : \A k \in DOMAIN plan[d] :
                temp'[d][k] # Missing => temp'[d][k].by = d
  <2> TAKE d \in Executors
  <2>1. DOMAIN temp = Executors /\ temp[d] \in [DOMAIN plan[d] -> Entries]
    BY DEF Inv, Shape, EInv, TempInv
  <2>2. CASE d = e
    <3>1. temp'[e] = [temp[e] EXCEPT ![run[e].i] = x]
      BY <1>4, <2>1, <2>2 DEF SetTemp
    <3> QED BY <1>1, <1>4, <2>1, <2>2, <3>1 DEF ReportInv
  <2>3. CASE d # e
    BY <1>4, <2>1, <2>3 DEF SetTemp, ReportInv
  <2> QED BY <2>2, <2>3
<1>5. ASSUME UNCHANGED temp
      PROVE  \A d \in Executors : \A k \in DOMAIN plan[d] :
                temp'[d][k] # Missing => temp'[d][k].by = d
  BY <1>5 DEF ReportInv
<1>6. ASSUME SetTemp(e, Missing)
      PROVE  \A d \in Executors : \A k \in DOMAIN plan[d] :
                temp'[d][k] # Missing => temp'[d][k].by = d
  BY <1>4, <1>6
<1>7. \A id, data : Entry(id, data, e).by = e
  BY DEF Entry
<1>8. CASE Stage(e) \/ Fill(e)
  <2>1. UNCHANGED fs
    BY <1>8 DEF Stage, Fill
  <2>2. CASE Stage(e)
    BY <1>4, <1>7, <2>1, <2>2 DEF Stage
  <2>3. CASE Fill(e)
    <3>1. PICK data : SetTemp(e, Missing) \/ SetTemp(e, [Tmp(e) EXCEPT !.data = data])
      BY <2>3 DEF Fill
    <3>2. Tmp(e) # Missing
      BY <2>3 DEF Fill, Inv, EInv, TempInv
    <3>3. Tmp(e) \in Records /\ [Tmp(e) EXCEPT !.data = data].by = e
      BY <1>1, <1>2, <3>2, EntryTypes DEF Records
    <3> QED BY <1>4, <1>6, <2>1, <3>1, <3>3
  <2> QED BY <1>8, <2>2, <2>3
<1>9. CASE Publish(e) \/ RenameCopy(e)
  <2>1. UNCHANGED fs \/ Put(Op(e).target, Tmp(e))
    BY <1>9 DEF Publish, RenameCopy
  <2>2. UNCHANGED temp \/ SetTemp(e, Missing)
    BY <1>9 DEF Publish, RenameCopy
  <2> QED BY <1>2, <1>3, <1>5, <1>6, <2>1, <2>2
<1>10. CASE Link(e)
  <2>1. PICK link : /\ link.by = e
                    /\ \/ UNCHANGED <<fs, temp>>
                       \/ Put(Op(e).target, link) /\ UNCHANGED temp
                       \/ SetTemp(e, link) /\ UNCHANGED fs
    BY <1>7, <1>10 DEF Link
  <2> QED BY <1>3, <1>4, <1>5, <2>1
<1>11. CASE Reserve(e)
  <2>1. UNCHANGED fs \/ Put(Op(e).target, Entry(HoldId(e), "empty", e))
    BY <1>11 DEF Reserve
  <2>2. UNCHANGED temp \/ SetTemp(e, Missing)
    BY <1>11 DEF Reserve, Abandon
  <2> QED BY <1>3, <1>5, <1>6, <1>7, <2>1, <2>2
<1>12. CASE Rename(e)
  <2>1. UNCHANGED temp \/ SetTemp(e, Missing)
    BY <1>12 DEF Rename, AfterRename, Abandon
  <2>2. CASE Src(e) # Missing /\ fs' = [fs EXCEPT ![Op(e).source] = Missing,
                                                 ![Op(e).target] = [Src(e) EXCEPT !.by = e]]
    <3>1. Src(e) \in Records /\ [Src(e) EXCEPT !.by = e].by = e
      BY <1>1, <2>2, EntryTypes DEF Records
    <3> DEFINE x == [Src(e) EXCEPT !.by = e]
    <3> HIDE DEF x
    <3>2. x.by = e /\ fs' = [fs EXCEPT ![Op(e).source] = Missing, ![Op(e).target] = x]
      BY <2>2, <3>1 DEF x
    <3>3. \A t \in Targets : fs'[t] = fs[t] \/ fs'[t].by = e
      BY <1>1, <3>2 DEF Files
    <3> QED BY <1>5, <1>6, <2>1, <3>3
  <2>3. CASE UNCHANGED fs
    BY <1>5, <1>6, <2>1, <2>3
  <2> QED BY <1>12, <2>2, <2>3 DEF Rename
<1>13. CASE Cleanup(e) \/ Remove(e)
  <2>1. UNCHANGED temp \/ SetTemp(e, Missing)
    BY <1>13 DEF Cleanup, Remove, Resume, Abandon
  <2>2. UNCHANGED fs \/ Put(Op(e).target, Missing) \/ Put(Op(e).source, Missing)
    BY <1>13 DEF Cleanup, Remove
  <2>3. \A t \in Targets : fs'[t] = fs[t] \/ fs'[t] = Missing
    BY <1>1, <2>2 DEF Put, Files
  <2> QED BY <1>5, <1>6, <2>1, <2>3
<1>14. CASE Prepare(e) \/ CheckManifest(e) \/ Check(e) \/ Begin(e) \/ Confirm(e) \/ Crash(e)
  BY <1>5, <1>14 DEF Prepare, CheckManifest, Check, Begin, Confirm, Crash
<1>15. CASE Unlink(e) \/ Verify(e) \/ Recapture(e) \/ CopyFresh(e) \/ Recheck(e)
  BY <1>5, <1>6, <1>15 DEF Unlink, Verify, Recapture, Resume, Abandon, CopyFresh, Recheck
<1>16. CASE LastCheck(e) \/ Finish(e) \/ IoFails(e)
  BY <1>5, <1>6, <1>16 DEF LastCheck, Finish, IoFails, Abandon, AfterRename
<1> QED BY <1>8, <1>9, <1>10, <1>11, <1>12, <1>13, <1>14, <1>15, <1>16 DEF ExecutorNext

\* No step changes a plan, and users do not change places or reports.
LEMMA PlansStay == ASSUME [Next]_vars PROVE UNCHANGED <<plan, policy, manifest>>
BY DEF Next, ExecutorNext, vars, Prepare, CheckManifest, Check, Begin, Stage, Fill, Publish, Unlink,
       Link, Confirm, Reserve, Verify, Rename, RenameCopy, Recapture, Cleanup, CopyFresh, Recheck,
       LastCheck, Finish, Remove, IoFails, Crash, Edit, Substitute, Appear, input

LEMMA ReportsOfExecutors ==
    ASSUME Inv, ReportInv, NEW e \in Executors, ExecutorNext(e) PROVE ReportInv'
<1>1. Tells(e) /\ UNCHANGED plan
  BY TellsAlways, PlansStay DEF Next
<1>2. \A d \in Executors : \A k \in DOMAIN plan[d] : temp'[d][k] # Missing => temp'[d][k].by = d
  BY SignsItsOwn
<1>3. ASSUME NEW d \in Executors, NEW t \in Targets \ Unauditable, fs'[t] # Missing, fs'[t].by = d
      PROVE  /\ run'[d].pc \notin UncheckedPcs
             /\ \/ ThenRecorded(d, t)
                \/ run'[d].pc \notin {"done", "failed"} /\ t = plan[d][run'[d].i].target
  <2>1. fs'[t] = fs[t] \/ d = e
    BY <1>3, SignsItsOwn
  <2>2. Answered(d, t)
    BY DEF ReportInv
  <2>3. CASE d # e
    <3>1. run'[d] = run[d] /\ report'[d] = report[d]
      BY <1>1, <2>3, Touches DEF Tells
    <3> QED BY <1>3, <2>1, <2>2, <2>3, <3>1 DEF Answered, Recorded, ThenRecorded, Op
  <2>4. CASE d = e
    <3>1. run[e].pc \notin UncheckedPcs /\ (Recorded(e, t) \/ t = Op(e).target)
      <4>1. CASE fs'[t] = fs[t]
        BY <1>3, <2>2, <2>4, <4>1 DEF Answered
      <4>2. CASE fs'[t] # fs[t]
        BY <4>2, Touches DEF EarlyPcs, UncheckedPcs
      <4> QED BY <4>1, <4>2
    <3>2. run'[e].pc \notin UncheckedPcs /\ (Recorded(e, t) => ThenRecorded(e, t))
      BY <1>1, <3>1 DEF Tells
    <3>3. CASE t = Op(e).target /\ ~ThenRecorded(e, t)
      <4>1. run'[e].pc \notin {"done", "failed"} /\ run'[e].i = run[e].i
        BY <1>1, <3>1, <3>3 DEF Tells
      <4> QED BY <2>4, <3>2, <3>3, <4>1 DEF Op
    <3> QED BY <2>4, <3>1, <3>2, <3>3
  <2> QED BY <2>3, <2>4
<1>4. ASSUME NEW d \in Executors, NEW t \in Targets \ Unauditable PROVE Answered(d, t)'
  BY <1>1, <1>3 DEF Answered, Recorded, ThenRecorded, Op
<1> QED BY <1>1, <1>2, <1>4 DEF ReportInv, Tells

LEMMA ReportsOfUsers ==
    ASSUME Inv, ReportInv, NEW f \in Files, Edit(f) \/ Substitute(f) \/ Appear(f)
    PROVE  ReportInv'
<1>1. UNCHANGED <<plan, run, report>>
  BY DEF Edit, Substitute, Appear, input
<1>2. /\ \A g \in Files : fs'[g] # Missing => \/ fs[g] # Missing /\ fs'[g].by = fs[g].by
                                              \/ fs'[g].by \notin Executors
      /\ \A e \in Executors : \A k \in DOMAIN plan[e] :
            temp'[e][k] # Missing => temp[e][k] # Missing /\ temp'[e][k].by = temp[e][k].by
  <2>1. CASE Edit(f)
    <3> DEFINE new(entry) == IF entry # Missing /\ entry.id = fs[f].id
                             THEN [entry EXCEPT !.id = OtherId, !.data = "edited"] ELSE entry
    <3>1. /\ fs' = [g \in Files |-> new(fs[g])]
          /\ temp' = [e \in Executors |-> [k \in DOMAIN temp[e] |-> new(temp[e][k])]]
      BY <2>1 DEF Edit
    <3>2. ASSUME NEW x \in Entries, new(x) # Missing PROVE x # Missing /\ new(x).by = x.by
      BY <3>2, EntryTypes DEF Records
    <3> HIDE DEF new
    <3>3. \A g \in Files : fs'[g] # Missing => fs[g] # Missing /\ fs'[g].by = fs[g].by
      BY <3>1, <3>2 DEF Inv, FsInv
    <3>4. ASSUME NEW e \in Executors, NEW k \in DOMAIN plan[e], temp'[e][k] # Missing
          PROVE  temp[e][k] # Missing /\ temp'[e][k].by = temp[e][k].by
      <4>1. temp[e] \in [DOMAIN plan[e] -> Entries]
        BY DEF Inv, EInv, TempInv
      <4> QED BY <3>1, <3>2, <3>4, <4>1
    <3> QED BY <3>3, <3>4
  <2>2. CASE Substitute(f) \/ Appear(f)
    <3>1. PICK x : Put(f, x) /\ (x = Missing \/ x.by = "world")
      BY <2>2, OthersTypes DEF Substitute, Appear
    <3> QED BY <2>2, <3>1, ExecutorAssumption DEF Substitute, Appear, Put, Inv, FsInv
  <2> QED BY <2>1, <2>2
<1>3. ASSUME NEW e \in Executors, NEW t \in Targets \ Unauditable PROVE Answered(e, t)'
  <2>1. t \in Files /\ Answered(e, t)
    BY DEF ReportInv, Files
  <2> QED BY <1>1, <1>2, <2>1 DEF Answered, Recorded, Op
<1> QED BY <1>1, <1>2, <1>3 DEF ReportInv

LEMMA ReportsAlways == Spec => []ReportInv
<1>1. Init => ReportInv
  <2> SUFFICES ASSUME Init PROVE ReportInv
    OBVIOUS
  <2>1. ASSUME NEW f \in Files, NEW soft, FirstEntry(f, soft) # Missing
        PROVE  FirstEntry(f, soft).by = "world"
    BY <2>1 DEF FirstEntry, Entry
  <2>2. \A e \in Executors : \A t \in Targets : Answered(e, t)
    BY <2>1, ExecutorAssumption DEF Init, Answered, Files
  <2> QED BY <2>2 DEF Init, ReportInv
<1>2. Inv /\ ReportInv /\ [Next]_vars => ReportInv'
  <2>1. ASSUME ReportInv, UNCHANGED vars PROVE ReportInv'
    BY <2>1 DEF vars, input, ReportInv, Answered, Recorded, Op
  <2> QED BY <2>1, ReportsOfExecutors, ReportsOfUsers DEF Next
<1> QED BY <1>1, <1>2, ExecutorInvariant, PTL DEF Spec

\* An execution that ends leaves nothing behind that its report does not name,
\* however it ends, if the audit accepts the paths.
THEOREM ReportsAreComplete == Spec => []PublishedIsReported
<1>1. ReportInv => PublishedIsReported
  BY DEF ReportInv, Answered, Recorded, PublishedIsReported
<1> QED BY <1>1, ReportsAlways, PTL

-----------------------------------------------------------------------------
(***************************************************************************)
(* No medium is lost, where every execution creates and users leave what   *)
(* the executions have published to them.                                  *)
(***************************************************************************)
\* Inodes that executions make: of temporary files, links and placeholders.
Made == Executors \X Nat

\* What an inode tells of an entry: a source's own inode holds that source, its
\* contents are in that inode or in a copy, and users make no executor's inode.
Sound(x) ==
    /\ \A s \in Sources : x.id = <<s, 0>> => x.data = s
    /\ x.data \in Sources => x.id = <<x.data, 0>> \/ x.id \in Made
    /\ x.by = "world" => x.id \notin Made

Origins ==
    /\ \A f \in Files : fs[f] # Missing => Sound(fs[f])
    /\ \A s \in Sources : fs[s] # Missing => fs[s].by = "world"
    /\ \A e \in Executors : \A k \in DOMAIN plan[e] : temp[e][k] # Missing => temp[e][k].id \in Made

\* A source is still there as it was, or its contents are at a target, or
\* somebody has changed them.
Alive(s) == fs[s] # Missing /\ fs[s].data = s
Kept(s)  == s \in edited \/ \E t \in Targets : fs[t] # Missing /\ fs[t].data = s

\* A copied move has a true copy of a source that is as it was, and publishes
\* it before it removes the source.
MoveInv(e) ==
    /\ run[e].pc = "recheck" \/ (run[e].pc \in CopiedPcs /\ run[e].copied) =>
          (Alive(Op(e).source) => Tmp(e).data = Op(e).source)
    /\ run[e].pc \in {"lastcheck", "remove"} =>
          (Alive(Op(e).source) => Kept(Op(e).source))

MediaInv ==
    /\ \A e \in Executors : MoveInv(e)
    /\ \A s \in Sources : Alive(s) \/ Kept(s)

MediaTypes == Origins /\ Held /\ ReportInv

\* The labels and names are different things.
LEMMA Labels ==
    /\ \A n : /\ \A s \in Sources : <<Missing, n>> # <<s, 0>>
              /\ <<Missing, n>> \notin Made
    /\ \A id \in Made : \A s \in Sources : id # <<s, 0>>
    /\ \A data \in Texts \cup Paths : data \notin Sources
BY MissingAssumption DEF Made, Files

\* An inode of an executor's own holds what the executor puts there.
LEMMA MadeIsSound ==
    ASSUME NEW x, x.id \in Made, x.by # "world" PROVE Sound(x)
BY Labels DEF Sound

LEMMA IdsAreMade ==
    ASSUME Shape, NEW e \in Executors PROVE TempId(e) \in Made /\ HoldId(e) \in Made
<1>1. run[e].i \in Nat
  BY DEF Shape, Runs
<1> QED BY <1>1 DEF TempId, HoldId, Made

\* What a step of e may do to the files: nothing; put something at the target
\* of its operation, where there is nothing or no medium; rename the source to
\* such a target; or remove the source after the last check.
PutsAtTarget(e) ==
    \E x \in Entries : /\ Put(Op(e).target, x)
                       /\ x # Missing => Sound(x)
                       /\ Tgt(e) = Missing \/ Tgt(e).data \notin Sources
RenamesSource(e) ==
    /\ Src(e) # Missing /\ Tgt(e).data \notin Sources
    /\ fs' = [fs EXCEPT ![Op(e).source] = Missing, ![Op(e).target] = [Src(e) EXCEPT !.by = e]]
RemovesSource(e) == run[e].pc = "remove" /\ Put(Op(e).source, Missing)

LEMMA Effects ==
    ASSUME OnlyCreates, Inv, MediaTypes, NEW e \in Executors, ExecutorNext(e)
    PROVE  UNCHANGED fs \/ PutsAtTarget(e) \/ RenamesSource(e) \/ RemovesSource(e)
<1>1. /\ Creates(e) /\ Shape /\ Src(e) \in Entries /\ Tmp(e) \in Entries /\ Missing \in Entries
      /\ Op(e).source \in Files /\ Op(e).target \in Files /\ run[e].i \in DOMAIN plan[e]
  BY SourceTypes, OpTypes DEF OnlyCreates, Inv, EInv, Shape, Creates, Placed
<1>2. Tmp(e) # Missing => Sound(Tmp(e))
  <2>1. Tmp(e) # Missing => Tmp(e).id \in Made /\ Tmp(e).by = e
    BY <1>1 DEF MediaTypes, Origins, ReportInv, Tmp
  <2> QED BY <2>1, MadeIsSound, ExecutorAssumption
<1>3. run[e].pc \in HeldPcs => Tgt(e).data \notin Sources
  BY DEF MediaTypes, Held, Holds
<1>4. ASSUME NEW id \in Made, NEW data \in Data
      PROVE  Entry(id, data, e) \in Entries /\ Sound(Entry(id, data, e))
  <2>1. Entry(id, data, e) \in Entries
    BY EntryTypes DEF Made, Inodes
  <2>2. Entry(id, data, e).id = id /\ Entry(id, data, e).by = e
    BY DEF Entry
  <2> QED BY <2>1, <2>2, MadeIsSound, ExecutorAssumption
<1>5. CASE Publish(e)
  BY <1>1, <1>2, <1>5 DEF Publish, PutsAtTarget
<1>6. CASE Link(e)
  <2> DEFINE link == IF Op(e).kind = "hardlink" THEN Entry(Src(e).id, Src(e).data, e)
                     ELSE Entry(TempId(e), PathTo[Op(e).source], e)
  <2>1. \/ UNCHANGED fs
        \/ /\ ~(Op(e).kind = "hardlink" /\ Src(e) = Missing)
           /\ Tgt(e) = Missing /\ Put(Op(e).target, link)
    BY <1>1, <1>6 DEF Link
  <2>2. ASSUME ~(Op(e).kind = "hardlink" /\ Src(e) = Missing) PROVE link \in Entries /\ Sound(link)
    <3>1. CASE Op(e).kind = "hardlink"
      <4>1. Src(e) \in Records /\ Sound(Src(e))
        BY <1>1, <2>2, <3>1, EntryTypes DEF MediaTypes, Origins, Src
      <4>2. link = Entry(Src(e).id, Src(e).data, e) /\ link \in Entries
        BY <3>1, <4>1, EntryTypes
      <4>3. link.id = Src(e).id /\ link.data = Src(e).data /\ link.by = e
        BY <4>2 DEF Entry
      <4> HIDE DEF link
      <4> QED BY <4>1, <4>2, <4>3, ExecutorAssumption DEF Sound
    <3>2. CASE Op(e).kind # "hardlink"
      <4>1. PathTo[Op(e).source] \in Data
        BY <1>1, PathTypes, OpTypes DEF Inv, EInv
      <4> QED BY <1>1, <1>4, <3>2, <4>1, IdsAreMade
    <3> QED BY <3>1, <3>2
  <2> HIDE DEF link
  <2> QED BY <2>1, <2>2 DEF PutsAtTarget
<1>7. CASE Reserve(e)
  <2>1. UNCHANGED fs \/ (Tgt(e) = Missing /\ Put(Op(e).target, Entry(HoldId(e), "empty", e)))
    BY <1>7 DEF Reserve
  <2>2. Entry(HoldId(e), "empty", e) \in Entries /\ Sound(Entry(HoldId(e), "empty", e))
    BY <1>1, <1>4, IdsAreMade DEF Data, Texts
  <2> QED BY <2>1, <2>2 DEF PutsAtTarget
<1>8. CASE Rename(e)
  BY <1>3, <1>8 DEF Rename, HeldPcs, RenamesSource
<1>9. CASE RenameCopy(e)
  BY <1>1, <1>2, <1>3, <1>9 DEF RenameCopy, HeldPcs, PutsAtTarget
<1>10. CASE Cleanup(e)
  BY <1>1, <1>3, <1>10 DEF Cleanup, HeldPcs, PutsAtTarget
<1>11. CASE Remove(e)
  BY <1>11 DEF Remove, RemovesSource
<1>12. CASE ~(Publish(e) \/ Link(e) \/ Reserve(e) \/ RenameCopy(e) \/ Cleanup(e) \/ Rename(e) \/ Remove(e))
  BY <1>12 DEF ExecutorNext, Prepare, CheckManifest, Check, Begin, Stage, Fill, Unlink, Confirm,
               Verify, Recapture, CopyFresh, Recheck, LastCheck, Finish, IoFails, Crash
<1> QED BY <1>5, <1>6, <1>7, <1>8, <1>9, <1>10, <1>11, <1>12

\* The same for users: what they change is their own, and they say so.
PutsOwn(f) ==
    /\ fs[f] # Missing => fs[f].by = "world"
    /\ \E x \in Entries : /\ Put(f, x) /\ UNCHANGED temp
                          /\ x # Missing => Sound(x) /\ x.by = "world" /\ x.data \notin Sources
    /\ edited' = edited \cup (IF fs[f] = Missing THEN {} ELSE {fs[f].data})
EditsOwn(f) ==
    /\ fs[f] # Missing /\ fs[f].by = "world"
    /\ edited' = edited \cup {fs[f].data}
    /\ \A g \in Files : \/ fs'[g] = fs[g]
                        \/ /\ fs[g] # Missing /\ fs[g].id = fs[f].id
                           /\ fs'[g] # Missing /\ Sound(fs'[g]) /\ fs'[g].by = fs[g].by
                           /\ fs'[g].data \notin Sources
    /\ \A e \in Executors : temp'[e] = temp[e]

LEMMA UserEffects ==
    ASSUME OnlyCreates, Inv, MediaTypes, NEW f \in Files, Edit(f) \/ Substitute(f) \/ Appear(f)
    PROVE  PutsOwn(f) \/ EditsOwn(f)
<1>1. /\ Meddling = FALSE /\ fs \in [Files -> Entries] /\ Missing \in Entries
      /\ OtherId \in Inodes /\ OtherId \notin Made /\ \A s \in Sources : OtherId # <<s, 0>>
  <2>1. edits \in Nat
    BY DEF Inv, Shape
  <2> QED BY <2>1, Labels DEF OnlyCreates, Inv, FsInv, OtherId, Inodes, Entries
<1>2. ASSUME NEW x, x.id = OtherId, x.data \in {"edited", "foreign"}
      PROVE  Sound(x) /\ x.data \notin Sources
  BY <1>1, <1>2, Labels DEF Sound, Texts
<1>3. ASSUME NEW data \in {"edited", "foreign"}, NEW x \in OfOthers(f, data)
      PROVE  x \in Entries /\ Sound(x) /\ x.by = "world" /\ x.data \notin Sources
  BY <1>1, OthersTypes DEF Sound
<1>4. CASE Substitute(f)
  <2>1. PICK x \in OfOthers(f, "edited") \cup {Missing} : Put(f, x)
    BY <1>4 DEF Substitute
  <2>2. x \in Entries /\ (x # Missing => Sound(x) /\ x.by = "world" /\ x.data \notin Sources)
    BY <1>1, <1>3, <2>1
  <2> QED BY <1>1, <1>4, <2>1, <2>2 DEF Substitute, Theirs, PutsOwn
<1>5. CASE Appear(f)
  <2>1. PICK x \in OfOthers(f, "foreign") : Put(f, x)
    BY <1>5 DEF Appear
  <2>2. x \in Entries /\ Sound(x) /\ x.by = "world" /\ x.data \notin Sources
    BY <1>3
  <2> QED BY <1>5, <2>1, <2>2 DEF Appear, PutsOwn
<1>6. CASE Edit(f)
  <2> DEFINE new(entry) == IF entry # Missing /\ entry.id = fs[f].id
                           THEN [entry EXCEPT !.id = OtherId, !.data = "edited"] ELSE entry
  <2>1. /\ fs' = [g \in Files |-> new(fs[g])]
        /\ temp' = [e \in Executors |-> [k \in DOMAIN temp[e] |-> new(temp[e][k])]]
        /\ fs[f] # Missing /\ fs[f].by = "world" /\ edited' = edited \cup {fs[f].data}
    BY <1>1, <1>6 DEF Edit, Theirs
  <2>2. ASSUME NEW x \in Entries, new(x) # x
        PROVE  /\ x # Missing /\ x.id = fs[f].id
               /\ new(x) # Missing /\ Sound(new(x)) /\ new(x).by = x.by /\ new(x).data \notin Sources
    <3>1. x # Missing /\ x.id = fs[f].id
      BY <2>2
    <3>2. x \in Records /\ new(x) = [x EXCEPT !.id = OtherId, !.data = "edited"]
      BY <3>1, EntryTypes
    <3> HIDE DEF new
    <3>3. new(x).id = OtherId /\ new(x).data = "edited" /\ new(x).by = x.by /\ new(x) \in Records
      BY <1>1, <3>2 DEF Records, Data, Texts
    <3> QED BY <1>2, <3>1, <3>3, EntryTypes
  <2>3. fs[f].id \notin Made
    BY <2>1 DEF MediaTypes, Origins, Sound
  <2>4. ASSUME NEW e \in Executors, NEW k \in DOMAIN plan[e] PROVE new(temp[e][k]) = temp[e][k]
    BY <2>3 DEF MediaTypes, Origins
  <2> HIDE DEF new
  <2>5. \A g \in Files : fs'[g] = new(fs[g])
    BY <2>1
  <2>6. \A e \in Executors : temp'[e] = temp[e]
    <3>1. \A e \in Executors : temp[e] \in [DOMAIN plan[e] -> Entries]
      BY DEF Inv, EInv, TempInv
    <3>2. \A e \in Executors : [k \in DOMAIN temp[e] |-> new(temp[e][k])] = temp[e]
      BY <2>4, <3>1
    <3> QED BY <2>1, <3>2
  <2> QED BY <1>1, <2>1, <2>2, <2>5, <2>6 DEF EditsOwn
<1> QED BY <1>4, <1>5, <1>6

\* Sound entries stay sound, sources stay the users', and what executions have
\* in their temporary files has inodes of their own making.
LEMMA OriginsStep ==
    ASSUME OnlyCreates, Inv, MediaTypes, [Next]_vars PROVE Origins'
<1>1. CASE UNCHANGED vars
  BY <1>1 DEF vars, input, MediaTypes, Origins
<1>2. ASSUME NEW e \in Executors, ExecutorNext(e) PROVE Origins'
  <2>1. /\ Op(e).source \in Sources /\ Op(e).target \in Targets /\ Op(e).target \notin Sources
        /\ fs \in [Files -> Entries] /\ Src(e) \in Entries /\ UNCHANGED plan
        /\ Shape /\ run[e].i \in DOMAIN plan[e]
    BY <1>2, SourceTypes, OpTypes, ExecutorAssumption, PlansStay
       DEF Next, Inv, EInv, Placed, FsInv
  <2>2. ASSUME RenamesSource(e)
        PROVE  Sound([Src(e) EXCEPT !.by = e]) /\ [Src(e) EXCEPT !.by = e] # Missing
    <3> DEFINE x == [Src(e) EXCEPT !.by = e]
    <3>1. Src(e) \in Records /\ Sound(Src(e))
      BY <2>1, <2>2, EntryTypes DEF RenamesSource, MediaTypes, Origins, Src, Files
    <3>2. x \in Records /\ x.id = Src(e).id /\ x.data = Src(e).data /\ x.by = e
      BY <3>1 DEF Records
    <3> HIDE DEF x
    <3>3. Sound(x) /\ x # Missing
      BY <3>1, <3>2, ExecutorAssumption, EntryTypes DEF Sound
    <3> QED BY <3>3 DEF x
  <2>3. /\ \A f \in Files : fs'[f] # Missing => Sound(fs'[f])
        /\ \A s \in Sources : fs'[s] # Missing => fs'[s].by = "world"
    <3>1. CASE UNCHANGED fs
      BY <3>1 DEF MediaTypes, Origins
    <3>2. CASE PutsAtTarget(e)
      <4>1. PICK x \in Entries : Put(Op(e).target, x) /\ (x # Missing => Sound(x))
        BY <3>2 DEF PutsAtTarget
      <4> QED BY <2>1, <4>1 DEF Put, MediaTypes, Origins, Files
    <3>3. CASE RenamesSource(e)
      <4> DEFINE x == [Src(e) EXCEPT !.by = e]
      <4>1. Sound(x) /\ fs' = [fs EXCEPT ![Op(e).source] = Missing, ![Op(e).target] = x]
        BY <2>2, <3>3 DEF RenamesSource
      <4> HIDE DEF x
      <4> QED BY <2>1, <4>1 DEF MediaTypes, Origins, Files
    <3>4. CASE RemovesSource(e)
      BY <2>1, <3>4 DEF RemovesSource, Put, MediaTypes, Origins, Files
    <3> QED BY <1>2, <3>1, <3>2, <3>3, <3>4, Effects
  <2>4. ASSUME NEW d \in Executors, NEW k \in DOMAIN plan[d], temp'[d][k] # Missing
        PROVE  temp'[d][k].id \in Made
    <3>1. DOMAIN temp = Executors /\ temp[d] \in [DOMAIN plan[d] -> Entries]
      BY DEF Inv, Shape, EInv, TempInv
    <3>2. temp[d][k] # Missing => temp[d][k].id \in Made
      BY DEF MediaTypes, Origins
    <3>3. ASSUME NEW x, SetTemp(e, x), x = Missing \/ x.id \in Made PROVE temp'[d][k].id \in Made
      <4>1. CASE d = e /\ k = run[e].i
        BY <2>1, <2>4, <3>1, <3>3, <4>1 DEF SetTemp
      <4>2. CASE ~(d = e /\ k = run[e].i)
        BY <2>4, <3>1, <3>2, <3>3, <4>2 DEF SetTemp
      <4> QED BY <4>1, <4>2
    <3>4. CASE UNCHANGED temp \/ SetTemp(e, Missing)
      BY <2>4, <3>2, <3>3, <3>4
    <3>5. CASE Stage(e)
      <4>1. Entry(TempId(e), "partial", e).id \in Made
        BY <2>1, IdsAreMade DEF Entry
      <4> QED BY <3>3, <3>5, <4>1 DEF Stage
    <3>6. CASE Fill(e)
      <4>1. PICK data : SetTemp(e, Missing) \/ SetTemp(e, [Tmp(e) EXCEPT !.data = data])
        BY <3>6 DEF Fill
      <4>2. Tmp(e) # Missing /\ Tmp(e) \in Entries
        BY <3>6, SourceTypes DEF Fill, EInv, TempInv
      <4>3. Tmp(e) \in Records /\ Tmp(e).id \in Made
        BY <2>1, <4>2, EntryTypes DEF MediaTypes, Origins, Tmp
      <4>4. [Tmp(e) EXCEPT !.data = data].id \in Made
        BY <4>3 DEF Records
      <4> QED BY <3>3, <3>4, <4>1, <4>4
    <3>7. CASE Link(e)
      <4>1. Creates(e)
        BY <2>1 DEF OnlyCreates, Shape, Creates
      <4> QED BY <3>4, <3>7, <4>1 DEF Link
    <3>8. CASE ~(Stage(e) \/ Fill(e) \/ Link(e))
      <4>1. UNCHANGED temp \/ SetTemp(e, Missing)
        BY <1>2, <3>8 DEF ExecutorNext, Prepare, CheckManifest, Check, Begin, Publish, Unlink, Confirm,
               Reserve, Verify, Rename, RenameCopy, Recapture, Cleanup, CopyFresh, Recheck, LastCheck,
               Finish, Remove, IoFails, Crash, Abandon, AfterRename, Resume
      <4> QED BY <3>4, <4>1
    <3> QED BY <3>5, <3>6, <3>7, <3>8
  <2> QED BY <2>1, <2>3, <2>4 DEF Origins
<1>3. ASSUME NEW f \in Files, Edit(f) \/ Substitute(f) \/ Appear(f) PROVE Origins'
  <2>1. /\ UNCHANGED plan /\ fs \in [Files -> Entries] /\ (PutsOwn(f) \/ EditsOwn(f))
    BY <1>3, UserEffects DEF Edit, Substitute, Appear, input, Inv, FsInv
  <2>2. CASE PutsOwn(f)
    BY <2>1, <2>2 DEF PutsOwn, Put, MediaTypes, Origins, Files
  <2>3. CASE EditsOwn(f)
    BY <2>1, <2>3 DEF EditsOwn, MediaTypes, Origins, Files
  <2> QED BY <2>1, <2>2, <2>3
<1> QED BY <1>1, <1>2, <1>3 DEF Next

\* A source that has gone or changed never comes back as it was; a medium at a
\* target stays there, unless somebody changes it.
LEMMA OneWay ==
    ASSUME OnlyCreates, Inv, MediaTypes, [Next]_vars, NEW s \in Sources
    PROVE  (Alive(s)' => Alive(s)) /\ (Kept(s) => Kept(s)')
<1>1. fs \in [Files -> Entries] /\ s \in Files /\ s \notin Targets
  BY ExecutorAssumption DEF Inv, FsInv, Files
<1>2. CASE UNCHANGED vars
  BY <1>2 DEF vars, world, Alive, Kept
<1>3. ASSUME NEW e \in Executors, ExecutorNext(e)
      PROVE  (Alive(s)' => Alive(s)) /\ (Kept(s) => Kept(s)')
  <2>1. /\ Op(e).source \in Sources /\ Op(e).target \in Targets /\ Op(e).target \notin Sources
        /\ Op(e).source \notin Targets
    BY OpTypes, ExecutorAssumption DEF Inv, EInv
  <2>2. edited' = edited
    BY <1>3 DEF ExecutorNext, Prepare, CheckManifest, Check, Begin, Stage, Fill, Publish, Unlink, Link,
           Confirm, Reserve, Verify, Rename, RenameCopy, Recapture, Cleanup, CopyFresh, Recheck,
           LastCheck, Finish, Remove, IoFails, Crash, world
  <2>3. /\ fs'[s] = fs[s] \/ fs'[s] = Missing
        /\ \A t \in Targets : fs'[t] = fs[t] \/ fs[t] = Missing \/ fs[t].data \notin Sources
    <3>1. CASE UNCHANGED fs
      BY <3>1
    <3>2. CASE PutsAtTarget(e)
      BY <1>1, <2>1, <3>2 DEF PutsAtTarget, Put, Tgt, Files
    <3>3. CASE RenamesSource(e)
      <4> DEFINE x == [Src(e) EXCEPT !.by = e]
      <4>1. fs' = [fs EXCEPT ![Op(e).source] = Missing, ![Op(e).target] = x]
        BY <3>3 DEF RenamesSource
      <4> HIDE DEF x
      <4> QED BY <1>1, <2>1, <3>3, <4>1 DEF RenamesSource, Tgt, Files
    <3>4. CASE RemovesSource(e)
      BY <1>1, <2>1, <3>4 DEF RemovesSource, Put, Files
    <3> QED BY <1>3, <3>1, <3>2, <3>3, <3>4, Effects
  <2>4. CASE s \in edited
    BY <2>2, <2>3, <2>4 DEF Alive, Kept
  <2>5. CASE s \notin edited
    BY <2>2, <2>3, <2>5 DEF Alive, Kept
  <2> QED BY <2>4, <2>5
<1>4. ASSUME NEW f \in Files, Edit(f) \/ Substitute(f) \/ Appear(f)
      PROVE  (Alive(s)' => Alive(s)) /\ (Kept(s) => Kept(s)')
  <2>1. CASE PutsOwn(f)
    <3>1. /\ fs'[f] = Missing \/ fs'[f].data \notin Sources
          /\ \A g \in Files \ {f} : fs'[g] = fs[g]
          /\ edited' = edited \cup (IF fs[f] = Missing THEN {} ELSE {fs[f].data})
      BY <1>1, <2>1 DEF PutsOwn, Put
    <3> QED BY <1>1, <3>1 DEF Alive, Kept, Files
  <2>2. CASE EditsOwn(f)
    <3>1. /\ \A g \in Files : fs'[g] = fs[g] \/ (fs'[g] # Missing /\ fs'[g].data \notin Sources)
          /\ edited \subseteq edited'
      BY <2>2 DEF EditsOwn
    <3>2. ASSUME NEW t \in Targets, fs[t] # Missing, fs[t].data = s, fs'[t] # fs[t]
          PROVE  s \in edited'
      <4>1. t \in Files /\ fs[t].id = fs[f].id /\ fs[f] # Missing /\ fs[f].by = "world"
        BY <2>2, <3>2 DEF EditsOwn, Files
      <4>2. Sound(fs[t]) /\ Sound(fs[f])
        BY <3>2, <4>1 DEF MediaTypes, Origins
      <4>3. fs[f].data = s
        BY <3>2, <4>1, <4>2 DEF Sound
      <4> QED BY <2>2, <4>3 DEF EditsOwn
    <3> QED BY <1>1, <3>1, <3>2 DEF Alive, Kept, Files
  <2> QED BY <1>4, <2>1, <2>2, UserEffects
<1> QED BY <1>2, <1>3, <1>4 DEF Next

\* Where a copied move has its copy.
Copied(e) == run[e].pc = "recheck" \/ (run[e].pc \in CopiedPcs /\ run[e].copied)

\* How an execution comes to where it has a copy, or is past its publication.
LEMMA Arrivals ==
    ASSUME OnlyCreates, Inv, NEW e \in Executors, ExecutorNext(e)
    PROVE  /\ Copied(e)' =>
                /\ run'[e].i = run[e].i
                /\ \/ Copied(e) /\ UNCHANGED temp
                   \/ Src(e) # Missing /\ SetTemp(e, [Tmp(e) EXCEPT !.data = Src(e).data])
                      /\ UNCHANGED fs /\ run[e].pc = "fill"
           /\ run'[e].pc \in {"lastcheck", "remove"} =>
                /\ run'[e].i = run[e].i
                /\ run[e].pc = "lastcheck" \/ RenameCopy(e)
                   \/ (/\ Finish(e) /\ Src(e) # Missing /\ Tgt(e) # Missing
                       /\ Src(e).id = Tgt(e).id)
<1> DEFINE Watched == {"recheck", "lastcheck", "remove"} \cup CopiedPcs
<1> SUFFICES ASSUME run'[e].pc \in Watched
             PROVE  /\ Copied(e)' =>
                         /\ run'[e].i = run[e].i
                         /\ \/ Copied(e) /\ UNCHANGED temp
                            \/ Src(e) # Missing /\ SetTemp(e, [Tmp(e) EXCEPT !.data = Src(e).data])
                               /\ UNCHANGED fs /\ run[e].pc = "fill"
                    /\ run'[e].pc \in {"lastcheck", "remove"} =>
                         /\ run'[e].i = run[e].i
                         /\ run[e].pc = "lastcheck" \/ RenameCopy(e)
                            \/ (/\ Finish(e) /\ Src(e) # Missing /\ Tgt(e) # Missing
                                /\ Src(e).id = Tgt(e).id)
  BY DEF Copied
<1>1. Creates(e) /\ Shape /\ run[e] \in Runs /\ run \in [Executors -> Runs]
  BY DEF OnlyCreates, Inv, Shape, Creates
<1>2. ASSUME NEW pc \in Pcs, Goto(e, pc)
      PROVE  run'[e].pc = pc /\ run'[e].i = run[e].i /\ run'[e].copied = run[e].copied
  BY <1>1, <1>2, Going
<1>3. ASSUME NEW pc \in Pcs \ Watched, Goto(e, pc) PROVE FALSE
  BY <1>2, <1>3
<1>4. ~Fail(e) /\ ~Abandon(e) /\ ~Goto(e, "failed") /\ ~Goto(e, "crashed")
  BY <1>2 DEF Fail, FailAt, Abandon, Pcs, Ended, CopiedPcs
<1>5. CASE Begin(e)
  <2>1. PICK pc \in {"stage", "link", "reserve"} :
           run' = [run EXCEPT ![e] = [@ EXCEPT !.copied = FALSE, !.error = FALSE, !.pc = pc]]
    <3>1. Op(e).kind \in Kinds
      BY OpTypes DEF Operations, Inv, EInv
    <3> QED BY <1>1, <1>4, <1>5, <3>1 DEF Begin, Kinds
  <2>2. run'[e].copied = FALSE /\ run'[e].pc \in {"stage", "link", "reserve"}
    BY <1>1, <2>1 DEF Runs
  <2> QED BY <2>2 DEF Copied
<1>6. CASE Fill(e)
  <2>1. /\ Op(e).kind = "move" /\ NeedsSource(Op(e)) /\ Goto(e, "recheck")
        /\ Src(e) # Missing /\ SetTemp(e, [Tmp(e) EXCEPT !.data = Src(e).data])
        /\ UNCHANGED fs /\ run[e].pc = "fill"
    BY <1>3, <1>4, <1>6 DEF Fill, NeedsSource, Pcs, CopiedPcs
  <2>2. run'[e].pc = "recheck" /\ run'[e].i = run[e].i
    BY <1>2, <2>1 DEF Pcs
  <2> QED BY <2>1, <2>2 DEF Copied
<1>7. CASE Recheck(e)
  <2>1. PICK pc \in {"reserve", "rename"} : run' = [run EXCEPT ![e].pc = pc, ![e].copied = TRUE]
    BY <1>1, <1>4, <1>7 DEF Recheck
  <2>2. run'[e].i = run[e].i /\ run'[e].pc \in {"reserve", "rename"}
    BY <1>1, <2>1 DEF Runs
  <2> QED BY <1>4, <1>7, <2>2 DEF Recheck, Copied
<1>8. CASE Reserve(e) \/ Verify(e)
  <2>1. /\ UNCHANGED temp /\ run[e].pc \in CopiedPcs
        /\ \E pc \in {"verify", "rename"} : Goto(e, pc)
    BY <1>4, <1>8 DEF Reserve, Verify, CopiedPcs
  <2>2. /\ run'[e].pc \in {"verify", "rename"} /\ run'[e].i = run[e].i
        /\ run'[e].copied = run[e].copied
    BY <1>2, <2>1 DEF Pcs
  <2> QED BY <2>1, <2>2 DEF Copied
<1>9. CASE RenameCopy(e)
  <2>1. run'[e].pc = "lastcheck" /\ run'[e].i = run[e].i
    BY <1>2, <1>9 DEF RenameCopy, Pcs
  <2> QED BY <1>9, <2>1 DEF Copied, CopiedPcs
<1>10. CASE LastCheck(e)
  <2>1. run'[e].pc = "remove" /\ run'[e].i = run[e].i /\ run[e].pc = "lastcheck"
    BY <1>2, <1>4, <1>10 DEF LastCheck, Pcs
  <2> QED BY <2>1 DEF Copied, CopiedPcs
<1>11. CASE Finish(e)
  <2>1. Goto(e, "remove") /\ Src(e) # Missing /\ Tgt(e) # Missing /\ Src(e).id = Tgt(e).id
    BY <1>3, <1>4, <1>11 DEF Finish, Pcs, CopiedPcs
  <2>2. run'[e].pc = "remove" /\ run'[e].i = run[e].i
    BY <1>2, <2>1 DEF Pcs
  <2> QED BY <1>11, <2>1, <2>2 DEF Copied, CopiedPcs
<1>12. ASSUME NEW exdev \in BOOLEAN, AfterRename(e, exdev) PROVE FALSE
  <2>1. PICK error \in BOOLEAN : run' = [run EXCEPT ![e].pc = "recapture", ![e].error = error]
    BY <1>1, <1>12 DEF AfterRename
  <2>2. run'[e].pc = "recapture"
    BY <1>1, <2>1 DEF Runs
  <2> QED BY <2>2 DEF CopiedPcs
<1>13. CASE Rename(e)
  BY <1>3, <1>12, <1>13 DEF Rename, Pcs, CopiedPcs
<1>14. CASE Confirm(e)
  <2>1. run' = [run EXCEPT ![e].pc = "begin", ![e].i = @ + 1] \/ Goto(e, "done")
    BY <1>4, <1>14 DEF Confirm
  <2>2. run'[e].pc \in {"begin", "done"}
    BY <1>1, <1>2, <2>1 DEF Runs, Pcs, Ended
  <2> QED BY <2>2 DEF CopiedPcs
<1>15. CASE Prepare(e) \/ CheckManifest(e) \/ Check(e) \/ Stage(e) \/ Publish(e)
  BY <1>3, <1>4, <1>15 DEF Prepare, CheckManifest, Check, FailAt, Stage, Publish, Pcs, CopiedPcs
<1>16. CASE Unlink(e) \/ Link(e) \/ CopyFresh(e) \/ Remove(e) \/ Crash(e)
  BY <1>3, <1>4, <1>16 DEF Unlink, Link, CopyFresh, Remove, Crash, Pcs, CopiedPcs
<1>17. CASE Recapture(e) \/ Cleanup(e)
  BY <1>3, <1>4, <1>17 DEF Recapture, Cleanup, Resume, Pcs, CopiedPcs
<1>18. CASE IoFails(e)
  BY <1>4, <1>12, <1>18 DEF IoFails
<1> QED BY <1>5, <1>6, <1>7, <1>8, <1>9, <1>10, <1>11, <1>13, <1>14, <1>15, <1>16, <1>17, <1>18
        DEF ExecutorNext

\* The copy a move publishes is true, and it is published before the source
\* goes.
LEMMA MoveOfActor ==
    ASSUME OnlyCreates, Inv, MediaTypes, NEW e \in Executors, ExecutorNext(e), MoveInv(e)
    PROVE  MoveInv(e)'
<1>7. PICK s \in Sources : s = Op(e).source
  BY OpTypes DEF Inv, EInv
<1>1. /\ s \in Files /\ Op(e).target \in Targets /\ Op(e).target \in Files
      /\ UNCHANGED plan /\ fs \in [Files -> Entries] /\ Src(e) = fs[s] /\ Tgt(e) = fs[Op(e).target]
      /\ Tmp(e) \in Entries /\ run[e].i \in DOMAIN plan[e]
      /\ temp[e] \in [DOMAIN plan[e] -> Entries] /\ DOMAIN temp = Executors
  BY <1>7, OpTypes, PlansStay, SourceTypes
     DEF Next, Inv, EInv, FsInv, Placed, TempInv, Shape, Src, Tgt
<1>2. (Alive(s)' => Alive(s)) /\ (Kept(s) => Kept(s)')
  BY OneWay DEF Next
<1>3. ASSUME Copied(e)', Alive(s)' PROVE temp'[e][run'[e].i].data = s /\ run'[e].i = run[e].i
  <2>1. run'[e].i = run[e].i /\ Alive(s)
    BY <1>2, <1>3, Arrivals
  <2>2. CASE Copied(e) /\ UNCHANGED temp
    BY <1>7, <2>1, <2>2 DEF MoveInv, Copied, Tmp
  <2>3. CASE SetTemp(e, [Tmp(e) EXCEPT !.data = Src(e).data]) /\ run[e].pc = "fill"
    <3> DEFINE x == [Tmp(e) EXCEPT !.data = Src(e).data]
    <3>1. Tmp(e) # Missing
      BY <2>3 DEF Inv, EInv, TempInv
    <3>2. x.data = s
      BY <1>1, <2>1, <3>1, EntryTypes DEF Records, Alive
    <3> HIDE DEF x
    <3>3. temp'[e][run[e].i] = x
      BY <1>1, <2>3 DEF SetTemp, x
    <3> QED BY <2>1, <3>2, <3>3
  <2> QED BY <1>3, <2>2, <2>3, Arrivals
<1>4. ASSUME run'[e].pc \in {"lastcheck", "remove"}, Alive(s)'
      PROVE  Kept(s)' /\ run'[e].i = run[e].i
  <2>1. run'[e].i = run[e].i /\ Alive(s)
    BY <1>2, <1>4, Arrivals
  <2>2. CASE run[e].pc = "lastcheck"
    BY <1>7, <1>2, <2>1, <2>2 DEF MoveInv
  <2>3. CASE RenameCopy(e)
    <3>1. Copied(e) /\ Tmp(e).data = s /\ Tmp(e) # Missing
      BY <1>7, <2>1, <2>3 DEF RenameCopy, Copied, CopiedPcs, MoveInv, Inv, EInv, TempInv
    <3>2. fs'[Op(e).target] = Tmp(e)
      BY <1>1, <2>3 DEF RenameCopy, Put
    <3> QED BY <1>1, <2>1, <3>1, <3>2 DEF Kept
  <2>4. CASE Src(e) # Missing /\ Tgt(e) # Missing /\ Src(e).id = Tgt(e).id
    <3>1. Sound(Src(e)) /\ Sound(Tgt(e)) /\ Src(e).by = "world" /\ Src(e).data = s
      BY <1>1, <2>1, <2>4 DEF MediaTypes, Origins, Alive
    <3>2. Tgt(e).data = s
      BY <1>1, <2>4, <3>1 DEF Sound
    <3>3. Kept(s)
      BY <1>1, <2>4, <3>2 DEF Kept
    <3> QED BY <1>2, <2>1, <3>3
  <2> QED BY <1>4, <2>2, <2>3, <2>4, Arrivals
<1>5. run'[e].i = run[e].i => Op(e)'.source = s
  BY <1>7, <1>1 DEF Op
<1>6. Copied(e)' => run'[e].i = run[e].i
  BY Arrivals
<1>8. run'[e].pc \in {"lastcheck", "remove"} => run'[e].i = run[e].i
  BY Arrivals
<1> QED BY <1>3, <1>4, <1>5, <1>6, <1>8 DEF MoveInv, Copied, Tmp

LEMMA MediaOfExecutors ==
    ASSUME OnlyCreates, Inv, MediaTypes, MediaInv, NEW e \in Executors, ExecutorNext(e)
    PROVE  MediaInv'
<1>1. UNCHANGED plan /\ \A d \in Executors \ {e} : run'[d] = run[d]
  BY PlansStay, Touches DEF Next
<1>2. ASSUME NEW d \in Executors, d # e PROVE MoveInv(d)'
  <2>1. PICK s \in Sources : s = Op(d).source
    BY OpTypes DEF Inv, EInv
  <2>2. run'[d] = run[d] /\ Op(d)' = Op(d)
    BY <1>1, <1>2 DEF Op
  <2>3. temp'[d] = temp[d]
    BY <1>2 DEF ExecutorNext, Prepare, CheckManifest, Check, Begin, Stage, Fill, Publish, Unlink, Link,
           Confirm, Reserve, Verify, Rename, RenameCopy, Recapture, Cleanup, CopyFresh, Recheck,
           LastCheck, Finish, Remove, IoFails, Crash, SetTemp, Abandon, AfterRename, Resume, Inv, Shape
  <2>4. (Alive(s)' => Alive(s)) /\ (Kept(s) => Kept(s)')
    BY OneWay DEF Next
  <2>5. /\ Copied(d) => (Alive(s) => Tmp(d).data = s)
        /\ run[d].pc \in {"lastcheck", "remove"} => (Alive(s) => Kept(s))
    BY <2>1 DEF MediaInv, MoveInv, Copied
  <2>6. Tmp(d)' = Tmp(d) /\ Copied(d)' = Copied(d) /\ Op(d)'.source = s
    BY <2>1, <2>2, <2>3 DEF Tmp, Copied
  <2> QED BY <2>2, <2>4, <2>5, <2>6 DEF MoveInv, Copied
<1>3. MoveInv(e)'
  BY MoveOfActor DEF MediaInv
<1>4. ASSUME NEW s \in Sources PROVE Alive(s)' \/ Kept(s)'
  <2>1. Alive(s) \/ Kept(s)
    BY DEF MediaInv
  <2>2. Kept(s) => Kept(s)'
    BY OneWay DEF Next
  <2>3. /\ s \in Files /\ s \notin Targets /\ fs \in [Files -> Entries] /\ Src(e) \in Entries
        /\ Op(e).target \in Targets /\ Op(e).source \in Files /\ Op(e).target \in Files
    BY SourceTypes, OpTypes, ExecutorAssumption DEF Inv, EInv, FsInv, Files
  <2>4. CASE Alive(s) /\ ~Kept(s)
    <3>1. CASE UNCHANGED fs
      BY <2>4, <3>1 DEF Alive
    <3>2. CASE PutsAtTarget(e)
      BY <2>3, <2>4, <3>2 DEF PutsAtTarget, Put, Alive
    <3>3. CASE RenamesSource(e)
      <4> DEFINE x == [Src(e) EXCEPT !.by = e]
      <4>1. Src(e) \in Records /\ fs' = [fs EXCEPT ![Op(e).source] = Missing, ![Op(e).target] = x]
        BY <2>3, <3>3, EntryTypes DEF RenamesSource
      <4>2. x \in Records /\ x # Missing /\ x.data = Src(e).data
        <5>1. x \in Records /\ x.data = Src(e).data
          BY <4>1 DEF Records
        <5> QED BY <5>1, EntryTypes
      <4> HIDE DEF x
      <4>3. fs'[Op(e).target] = x
        BY <2>3, <4>1
      <4>4. CASE s = Op(e).source
        BY <2>3, <2>4, <4>2, <4>3, <4>4 DEF Alive, Kept, Src
      <4>5. CASE s # Op(e).source
        BY <2>3, <2>4, <4>1, <4>5 DEF Alive
      <4> QED BY <4>4, <4>5
    <3>4. CASE RemovesSource(e)
      <4>1. s # Op(e).source
        BY <2>4, <3>4 DEF RemovesSource, MediaInv, MoveInv
      <4> QED BY <2>3, <2>4, <3>4, <4>1 DEF RemovesSource, Put, Alive
    <3> QED BY <3>1, <3>2, <3>3, <3>4, Effects
  <2> QED BY <2>1, <2>2, <2>4
<1> QED BY <1>2, <1>3, <1>4 DEF MediaInv

LEMMA MediaOfUsers ==
    ASSUME OnlyCreates, Inv, MediaTypes, MediaInv,
           NEW f \in Files, Edit(f) \/ Substitute(f) \/ Appear(f)
    PROVE  MediaInv'
<1>1. UNCHANGED <<plan, run>> /\ fs \in [Files -> Entries]
  BY DEF Edit, Substitute, Appear, input, Inv, FsInv
<1>2. \A e \in Executors : temp'[e] = temp[e]
  BY UserEffects DEF PutsOwn, EditsOwn
<1>3. ASSUME NEW e \in Executors PROVE MoveInv(e)'
  <2>1. PICK s \in Sources : s = Op(e).source
    BY OpTypes DEF Inv, EInv
  <2>2. (Alive(s)' => Alive(s)) /\ (Kept(s) => Kept(s)')
    BY OneWay DEF Next
  <2>3. /\ Copied(e) => (Alive(s) => Tmp(e).data = s)
        /\ run[e].pc \in {"lastcheck", "remove"} => (Alive(s) => Kept(s))
    BY <2>1 DEF MediaInv, MoveInv, Copied
  <2>4. /\ Tmp(e)' = Tmp(e) /\ Copied(e)' = Copied(e) /\ Op(e)'.source = s /\ run'[e] = run[e]
    BY <1>1, <1>2, <2>1 DEF Tmp, Copied, Op
  <2> QED BY <2>2, <2>3, <2>4 DEF MoveInv, Copied
<1>4. ASSUME NEW s \in Sources PROVE Alive(s)' \/ Kept(s)'
  <2>1. s \in Files
    BY DEF Files
  <2>2. Kept(s) => Kept(s)'
    BY OneWay DEF Next
  <2>3. CASE Alive(s) /\ fs'[s] # fs[s]
    <3>1. CASE PutsOwn(f)
      <4>1. s = f
        BY <1>1, <2>1, <2>3, <3>1 DEF PutsOwn, Put
      <4> QED BY <2>3, <3>1, <4>1 DEF PutsOwn, Alive, Kept
    <3>2. CASE EditsOwn(f)
      <4>1. fs[s].id = fs[f].id /\ Sound(fs[s]) /\ Sound(fs[f]) /\ fs[f].by = "world"
        BY <2>1, <2>3, <3>2 DEF EditsOwn, Alive, MediaTypes, Origins
      <4>2. fs[f].data = s
        BY <2>3, <4>1 DEF Sound, Alive
      <4> QED BY <3>2, <4>2 DEF EditsOwn, Kept
    <3> QED BY <3>1, <3>2, UserEffects
  <2>4. CASE Alive(s) /\ fs'[s] = fs[s]
    BY <2>4 DEF Alive
  <2> QED BY <2>2, <2>3, <2>4 DEF MediaInv
<1> QED BY <1>3, <1>4 DEF MediaInv

\* No failure, crash or race loses a medium that nobody else touches, where
\* every execution creates: at every moment it is whole at its source or at a
\* target.
THEOREM NoMediumIsLost == ASSUME OnlyCreates PROVE Spec => []MediaSurvives
<1>1. Init => Origins /\ MediaInv
  <2> SUFFICES ASSUME Init PROVE Origins /\ MediaInv
    OBVIOUS
  <2>1. ASSUME NEW f \in Files, NEW soft \in SUBSET Prior, FirstEntry(f, soft) # Missing
        PROVE  Sound(FirstEntry(f, soft)) /\ FirstEntry(f, soft).by = "world"
    <3>1. ASSUME NEW g \in Files, NEW data, g \in Sources => data = g, data \in Sources => data = g
          PROVE  Sound(Entry(<<g, 0>>, data, "world"))
      <4>1. <<g, 0>> \notin Made
        BY MissingAssumption DEF Made
      <4> QED BY <3>1, <4>1 DEF Sound, Entry
    <3>2. FirstEntry(f, soft).by = "world"
      BY <2>1 DEF FirstEntry, Entry
    <3>3. CASE f \in Sources
      BY <3>1, <3>2, <3>3 DEF FirstEntry
    <3>4. CASE f \notin Sources /\ f \in Prior /\ Linked[f] = Missing
      BY <3>1, <3>2, <3>4, Labels DEF FirstEntry, PriorData, Texts
    <3>5. CASE f \notin Sources /\ f \in Prior /\ Linked[f] # Missing
      <4>1. Linked[f] \in Sources /\ Linked[f] \in Files
        BY <3>5, ExecutorAssumption DEF Files
      <4>2. PathTo[Linked[f]] \notin Sources
        BY <4>1, PathTypes
      <4> QED BY <3>1, <3>2, <3>5, <4>1, <4>2 DEF FirstEntry, PriorData
    <3> QED BY <2>1, <3>3, <3>4, <3>5 DEF FirstEntry
  <2>2. Origins
    BY <2>1 DEF Init, Origins, Files
  <2>3. ASSUME NEW s \in Sources PROVE Alive(s)
    <3>1. fs[s] = Entry(<<s, 0>>, s, "world") /\ fs[s] \in Entries
      BY Initially DEF Init, FirstEntry, Files, Inv, FsInv
    <3>2. <<s, 0>> \in Inodes /\ s \in Data
      BY DEF Inodes, Data, Files
    <3> QED BY <3>1, <3>2, EntryTypes DEF Entry, Alive
  <2> QED BY <2>2, <2>3 DEF Init, MediaInv, MoveInv, CopiedPcs
<1>2. Inv /\ MediaTypes /\ [Next]_vars => Origins'
  BY OriginsStep
<1>3. Inv /\ MediaTypes /\ MediaInv /\ [Next]_vars => MediaInv'
  <2> SUFFICES ASSUME Inv, MediaTypes, MediaInv, [Next]_vars PROVE MediaInv'
    OBVIOUS
  <2>1. CASE UNCHANGED vars
    BY <2>1 DEF vars, input, world, MediaInv, MoveInv, Alive, Kept, Tmp, Op
  <2> QED BY <2>1, MediaOfExecutors, MediaOfUsers DEF Next
<1>4. MediaInv => MediaSurvives
  BY DEF MediaInv, MediaSurvives, Alive, Kept, Files
<1>5. MediaTypes <=> Origins /\ Held /\ ReportInv
  BY DEF MediaTypes
<1> QED BY <1>1, <1>2, <1>3, <1>4, <1>5, ExecutorInvariant, HeldAlways, ReportsAlways, PTL DEF Spec
=============================================================================
