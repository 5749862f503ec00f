------------------------------- MODULE Scrape -------------------------------
(***************************************************************************)
(* One scrape from its request to its output.  The server computes the     *)
(* same thing three times, because nothing but the decision and a          *)
(* fingerprint is stored: the worker prepares a review, the review builds  *)
(* the plan that is approved, and the execution builds it again before it  *)
(* writes.  Every time the providers are asked anew and may answer or fail *)
(* differently.  An automatic job takes the three steps by itself; of a    *)
(* manual one a client takes the last two.  The command line takes one     *)
(* pass and writes.                                                        *)
(*                                                                         *)
(* A request is [front, how, kind, exact, offline, policy, mode, title,    *)
(* year, ids, ordering, scanned].  Requests that race each other or the worker are    *)
(* the subject of JobLifecycle; here one client talks to one job.          *)
(***************************************************************************)
EXTENDS CandidateSelection

CONSTANTS
    Requests,       \* the requests considered
    Providers,      \* the providers in configured order
    Supports,       \* the media kinds of each provider
    Answers,        \* what each provider may answer to a search, NoAnswer included
    Documents,      \* what may come of fetching a candidate, by provider and id
    Exact,          \* no candidate: the request names [provider, id, kind]
    NoPlan,         \* no decision, no approved plan, no pass
    MaxCandidates,  \* how many candidates a review shows (100 in the code)
    MaxWarnings     \* how many warnings a review shows (100 in the code)

IsSequence(s) == s \in Seq({s[i] : i \in DOMAIN s})

ASSUME ScrapeAssumption ==
    /\ IsSequence(Providers)
    /\ \A p \in DOMAIN Answers : \A a \in Answers[p] : a # NoAnswer => IsSequence(a)
    /\ MaxCandidates \in Nat /\ MaxWarnings \in Nat

VARIABLES
    request, stage,
    pass,           \* the computation in progress: what was answered and what came of it
    decision,       \* the stored review decision: [index, accepted]
    approved,       \* the stored plan of the review
    written         \* the pass whose plan was written

scrapeVars == <<request, stage, pass, decision, approved, written>>

Policy(order) == [field |-> [path \in {} |-> order], media |-> [kind \in {} |-> order], global |-> order]

Automatic(r) == r.how \in {"unattended", "rule"}

InitScrape ==
    /\ request \in Requests
    /\ stage = IF request.front = "server" THEN "prepare" ELSE "resolve"
    /\ pass = NoPlan /\ decision = NoPlan /\ approved = NoPlan /\ written = NoPlan

-----------------------------------------------------------------------------
(* One pass: search, choose, fetch, merge. *)

Computing == stage \in {"prepare", "review", "execute", "resolve"}

(* An error ends an automatic job; a client's request is refused, and the job *)
(* stays where it was.                                                        *)
AfterError ==
    IF stage \in {"prepare", "resolve"} \/ Automatic(request) THEN "failed"
    ELSE IF stage = "review" THEN "awaiting" ELSE "planning"

PassFails == stage' = AfterError /\ pass' = NoPlan /\ UNCHANGED <<request, decision, approved, written>>

Query(r) == [kind |-> r.kind, titles |-> {r.title}, ids |-> r.ids, year |-> r.year, sequence |-> Unknown]

(* Only television and anime queries hand their ids on to the candidate group. *)
Identity(r) == IF r.kind \in {"television", "anime"} THEN r.ids ELSE {}

Index == IF decision = NoPlan THEN 0 ELSE decision.index

Search ==
    /\ Computing /\ pass = NoPlan /\ request.exact = Exact
    /\ LET asked == Asked(Providers, Supports, request.kind, request.offline)
           skipped == Skipped(Providers, Supports, request.kind, request.offline)
       IN  \E answers \in {a \in [{asked[i] : i \in 1..Len(asked)} -> UNION {Answers[p] : p \in DOMAIN Answers}] :
                              \A p \in DOMAIN a : a[p] \in Answers[p]} :
           LET ranked == RankedCandidates(Query(request), Found(asked, answers, Query(request)))
           IN  IF Len(ranked) <= Index THEN PassFails   \* nothing found, or index out of bounds
               ELSE /\ pass' = [step |-> "fetch", answers |-> answers, ranked |-> ranked,
                                group |-> Fetched(request.kind, Choose(ranked, Index + 1), Identity(request)),
                                warnings |-> SearchWarnings(asked, answers, skipped)]
                    /\ UNCHANGED <<request, stage, decision, approved, written>>

(* Television keeps the sources that use the ordering asked for, or that of the *)
(* first document.                                                              *)
Usable(r, docs) ==
    IF r.kind # "television" THEN docs
    ELSE LET ordering == IF r.ordering = Unknown THEN docs[1].ordering ELSE r.ordering
         IN  Select(docs, LAMBDA d : d.ordering = ordering)

Complete(kind, m) ==
    CASE kind = "movie" -> m.titles # <<>> /\ m.summaries # <<>> /\ m.genres # <<>> /\ m.credits # <<>>
      [] kind = "television" -> m.titles # <<>> /\ m.summaries # <<>> /\ \E s \in DOMAIN m.seasons : DOMAIN m.seasons[s] # {}
      [] kind = "anime" -> m.titles # <<>> /\ m.cours # {}
      [] OTHER -> TRUE

Merged(kind, docs, policy) ==
    CASE kind = "movie" -> MergeMovie(docs, policy)
      [] kind = "television" -> MergeSeries(docs, policy)
      [] kind = "anime" -> MergeAnime(docs, policy)
      [] OTHER -> [work |-> docs[1], conflicts |-> <<>>]

Unmergeable(kind, docs, policy) ==
    \/ docs = <<>>
    \/ kind = "television" /\ Mismatched(docs, policy)

Complemented(kind, merged, warnings) ==
    [value |-> merged,
     warnings |-> (IF Complete(kind, merged) THEN <<>> ELSE <<"incomplete_metadata">>) \o warnings]
Resolved(r, docs, policy, warnings) == Complemented(r.kind, Merged(r.kind, docs, policy), warnings)

Fetch ==
    /\ pass # NoPlan /\ pass.step = "fetch"
    /\ \E got \in {g \in [1..Len(pass.group) -> UNION {Documents[c] : c \in DOMAIN Documents}] :
                     \A i \in DOMAIN g : g[i] \in Documents[<<pass.group[i].provider, pass.group[i].id>>]} :
       LET docs == Select(got, LAMBDA d : d # NoAnswer)
           failed == [i \in 1..(Len(got) - Len(docs)) |-> "provider_fetch_failed"]
           usable == Usable(request, docs)
           ignored == IF Len(usable) = Len(docs) THEN <<>> ELSE <<"ordering_incompatible_source">>
       IN  IF docs = <<>> \/ Unmergeable(request.kind, usable, Policy(Providers)) THEN PassFails
           ELSE /\ pass' = [step |-> "resolved", answers |-> pass.answers, got |-> got,
                            ranked |-> pass.ranked, primary |-> pass.group[1],
                            resolved |-> Resolved(request, usable, Policy(Providers),
                                                  pass.warnings \o failed \o ignored)]
                /\ UNCHANGED <<request, stage, decision, approved, written>>

(* An exact selection fetches one document, without a search; a scanned source *)
(* is merged with it, first in precedence.                                     *)
Precedence(provider) ==
    LET others == Select(Providers, LAMBDA p : p # Local)
    IN  <<Local>> \o others \o (IF \E i \in 1..Len(others) : others[i] = provider THEN <<>> ELSE <<provider>>)

FetchExact ==
    /\ Computing /\ pass = NoPlan /\ request.exact # Exact
    /\ LET e == request.exact
           docs(remote) == IF request.scanned = NoAnswer THEN <<remote>> ELSE <<request.scanned, remote>>
           policy == Policy(Precedence(e.provider))
           refused == \/ e.kind # request.kind
                      \/ Index # 0
                      \/ ~ \E i \in 1..Len(Providers) : Providers[i] = e.provider
                      \/ e.kind \notin Supports[e.provider]
                      \/ request.kind \in {"book", "music"} /\ request.scanned # NoAnswer
       IN  \E remote \in Documents[<<e.provider, e.id>>] :
           IF refused \/ remote = NoAnswer \/ Unmergeable(request.kind, docs(remote), policy) THEN PassFails
           ELSE /\ pass' = [step |-> "resolved", answers |-> [p \in {} |-> NoAnswer], got |-> <<remote>>,
                            ranked |-> <<e>>, primary |-> e,
                            resolved |-> IF request.scanned = NoAnswer
                                         THEN [value |-> [work |-> remote, conflicts |-> <<>>], warnings |-> <<>>]
                                         ELSE Resolved(request, docs(remote), policy, <<>>)]
                /\ UNCHANGED <<request, stage, decision, approved, written>>

-----------------------------------------------------------------------------
(* What an automatic job may do with a resolved pass. *)

Conflicts(p) == Len(p.resolved.value.conflicts)

WarningsShown(p) == SubSeq(p.resolved.warnings, 1, Min({Len(p.resolved.warnings), MaxWarnings}))

MayExecute(p) ==
    /\ Automatic(request)
    /\ Len(p.resolved.warnings) <= MaxWarnings
    /\ \A i \in 1..Len(WarningsShown(p)) :
          WarningsShown(p)[i] \notin {"provider_search_failed", "provider_fetch_failed"}
    /\ Len(p.ranked) <= MaxCandidates
    /\ Conflicts(p) = 0 \/ request.how = "unattended"

(* A mutant of the next definition: only the first pass is looked at. *)
CheckedBefore(p) == Automatic(request) => decision.index = 0

(* The review and the execution of an automatic job ask again. *)
Rechecked(p) == Automatic(request) => MayExecute(p) /\ decision.index = 0

Ready(s) == stage = s /\ pass # NoPlan /\ pass.step = "resolved"

(* The stored decision must name every conflict of this pass. *)
Acknowledged(p) == decision.accepted = Conflicts(p)

Fingerprint(p) == [decision |-> decision, resolved |-> p.resolved]

(* `sound` stands for a plan that can be built, stays inside the allowed roots *)
(* and, the first time, would not fall on existing files.                      *)
FinishPrepare ==
    /\ Ready("prepare")
    /\ \E sound \in BOOLEAN :
          /\ stage' = IF MayExecute(pass) /\ sound THEN "review"
                      ELSE IF Automatic(request) THEN "failed" ELSE "awaiting"
          /\ decision' = IF MayExecute(pass) /\ sound
                         THEN [index |-> 0, accepted |-> Conflicts(pass)] ELSE decision
    /\ pass' = NoPlan /\ UNCHANGED <<request, approved, written>>

(* A person decides on a candidate and on a number of conflicts. *)
ClientReview ==
    /\ stage = "awaiting"
    /\ \E index \in 0..1, accepted \in 0..1 :
          decision' = [index |-> index, accepted |-> accepted]
    /\ stage' = "review" /\ UNCHANGED <<request, pass, approved, written>>

FinishReview ==
    /\ Ready("review")
    /\ \E sound \in BOOLEAN :
          IF Rechecked(pass) /\ Acknowledged(pass) /\ sound
          THEN /\ stage' = IF Automatic(request) THEN "execute" ELSE "planning"
               /\ approved' = Fingerprint(pass)
               /\ pass' = NoPlan /\ UNCHANGED <<request, decision, written>>
          ELSE PassFails

(* A job created without `apply` is only ever previewed. *)
ClientExecute ==
    /\ stage = "planning" /\ request.how # "preview"
    /\ stage' = "execute" /\ UNCHANGED <<request, pass, decision, approved, written>>

FinishExecute ==
    /\ Ready("execute")
    /\ \E sound \in BOOLEAN :
          IF Rechecked(pass) /\ Acknowledged(pass) /\ sound /\ Fingerprint(pass) = approved
          THEN /\ stage' = "written" /\ written' = pass
               /\ pass' = NoPlan /\ UNCHANGED <<request, decision, approved>>
          ELSE PassFails

-----------------------------------------------------------------------------
(* The command line: one pass; conflicts are accepted, shown or refused. *)
FinishPlan ==
    /\ Ready("resolve")
    /\ stage' = IF Conflicts(pass) > 0 /\ request.policy = "error" THEN "failed"
                ELSE IF Conflicts(pass) > 0 /\ request.policy = "review" THEN "review_required"
                ELSE IF request.mode = "apply" THEN "written" ELSE "printed"
    /\ written' = IF stage' = "written" THEN pass ELSE written
    /\ pass' = NoPlan /\ UNCHANGED <<request, decision, approved>>

NextScrape ==
    \/ Search \/ Fetch \/ FetchExact
    \/ FinishPrepare \/ ClientReview \/ FinishReview \/ ClientExecute \/ FinishExecute
    \/ FinishPlan

SpecScrape == InitScrape /\ [][NextScrape]_scrapeVars
-----------------------------------------------------------------------------
(* What a scrape without a person wrote was complete: in the pass that was  *)
(* written every provider asked had answered and every candidate of the    *)
(* group was fetched, the candidate is the best of a list shown whole, and *)
(* documents that disagree were merged only for an unattended job          *)
(* (docs/server.md:288).                                                   *)
AutomaticIsClean ==
    stage = "written" /\ request.front = "server" /\ Automatic(request) =>
        /\ \A p \in DOMAIN written.answers : written.answers[p] # NoAnswer
        /\ \A i \in DOMAIN written.got : written.got[i] # NoAnswer
        /\ written.primary = written.ranked[1]
        /\ Len(written.ranked) <= MaxCandidates
        /\ Conflicts(written) = 0 \/ request.how = "unattended"
=============================================================================
