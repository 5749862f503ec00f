------------------------- MODULE CandidateSelection -------------------------
(***************************************************************************)
(* From the answers of the providers to the candidates whose documents are *)
(* fetched: the join in configured order, the ranking, the choice of one   *)
(* candidate, and the group of candidates of other providers that describe *)
(* the same work.                                                          *)
(*                                                                         *)
(* A candidate is [provider, id, title, year, sequence, kind]; an external *)
(* id is [ns, value]; a query is [kind, titles, ids, year, sequence], its  *)
(* titles being the title, the localized titles and the aliases.           *)
(***************************************************************************)
EXTENDS Merge

CONSTANTS
    Local,          \* the provider made from the scanned files
    NetworkNeeded,  \* the providers that need the network
    Unknown,        \* a year or a sequence that is not stated
    NoAnswer        \* what a failed request leaves

(* The registered providers that support a kind, in configured order; offline *)
(* the ones that need the network are left out.                               *)
Asked(providers, supports, kind, offline) ==
    Select(providers, LAMBDA p : kind \in supports[p] /\ ~ (offline /\ p \in NetworkNeeded))

Skipped(providers, supports, kind, offline) ==
    offline /\ \E i \in 1..Len(providers) :
                  kind \in supports[providers[i]] /\ providers[i] \in NetworkNeeded

(* The local provider answers with every document it holds, whatever was     *)
(* asked for; one without a year takes the year of the query.                *)
Dated(query, c) == IF c.provider = Local /\ c.year = Unknown THEN [c EXCEPT !.year = query.year] ELSE c

(* Candidates in the order of the providers and of each answer, one warning  *)
(* for each provider that failed.                                            *)
Found(asked, answers, query) ==
    LET answered == Select(asked, LAMBDA p : answers[p] # NoAnswer)
        all == Select(Flat(answered, LAMBDA p : answers[p]), LAMBDA c : c.kind = query.kind)
    IN  [i \in 1..Len(all) |-> Dated(query, all[i])]

SearchWarnings(asked, answers, skipped) ==
    (IF skipped THEN <<"offline_provider_skipped">> ELSE <<>>)
    \o [i \in 1..Len(Select(asked, LAMBDA p : answers[p] = NoAnswer)) |-> "provider_search_failed"]

-----------------------------------------------------------------------------
ExactTitle(query, title) == \E t \in query.titles : Norm[t] = Norm[title]

(* exact id, exact title and year, exact title, the provider's own order *)
MatchClass(query, c) ==
    IF c.id \in query.ids THEN 3
    ELSE IF ~ ExactTitle(query, c.title) THEN 0
    ELSE IF query.year # Unknown /\ query.year = c.year THEN 2
    ELSE 1

MatchSequence(query, c) ==
    IF query.sequence # Unknown /\ query.sequence = c.sequence THEN 1 ELSE 0

MatchKey(query, c) == 2 * MatchClass(query, c) + MatchSequence(query, c)

RankedCandidates(query, candidates) == StableBy(candidates, LAMBDA c : 7 - MatchKey(query, c))

(* The choice of one candidate keeps the others behind it. *)
Choose(candidates, index) ==
    <<candidates[index]>> \o Pick(candidates, (1..Len(candidates)) \ {index})

-----------------------------------------------------------------------------
SameFacts(a, b) ==
    /\ Norm[a.title] = Norm[b.title]
    /\ a.year = Unknown \/ b.year = Unknown \/ a.year = b.year
    /\ a.sequence = Unknown \/ b.sequence = Unknown \/ a.sequence = b.sequence

SameWork(a, b) ==
    \/ a.id = b.id
    \/ a.id.ns # b.id.ns /\ SameFacts(a, b)

SameLocalMovie(primary, c) ==
    /\ primary.kind = "movie"
    /\ primary.provider = Local /\ c.provider = Local
    /\ SameFacts(primary, c)

Contradicts(ids, id) == \E known \in ids : known.ns = id.ns /\ known # id

(* The ids of the query describe the scanned source: they count only when   *)
(* the primary candidate is that source or carries one of them.             *)
Anchored(primary, ids) ==
    IF primary.provider = Local \/ primary.id \in ids THEN ids ELSE {}

Compatible(primary, ids, c) ==
    /\ SameLocalMovie(primary, c) \/ c.provider # primary.provider
    /\ c.kind = primary.kind
    /\ ~ Contradicts(Anchored(primary, ids), c.id)
    /\ \/ SameLocalMovie(primary, c)
       \/ c.id \in Anchored(primary, ids)
       \/ SameWork(primary, c)

(* A mutant of the next definition: several candidates of one provider stay. *)
EveryCompatible(candidates, ids) ==
    IF Contradicts(ids, candidates[1].id) THEN <<candidates[1]>>
    ELSE Select(candidates, LAMBDA c : c = candidates[1] \/ Compatible(candidates[1], ids, c))

(* A provider with several compatible candidates contributes none. *)
Group(candidates, ids) ==
    LET primary == candidates[1]
        matches == Select(Tail(candidates), LAMBDA c : Compatible(primary, ids, c))
        OfProvider(p) == {i \in 1..Len(matches) : matches[i].provider = p}
    IN  IF Contradicts(ids, primary.id) THEN <<primary>>
        ELSE <<primary>> \o Select(matches, LAMBDA c :
                \/ SameLocalMovie(primary, c)
                \/ Cardinality(OfProvider(c.provider)) = 1)

(* Books and music fetch the first candidate alone. *)
Fetched(kind, candidates, ids) ==
    IF kind \in {"book", "music"} THEN <<candidates[1]>> ELSE Group(candidates, ids)
=============================================================================
