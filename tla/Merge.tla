-------------------------------- MODULE Merge --------------------------------
(***************************************************************************)
(* How metadata documents of several providers become one: provider        *)
(* precedence, localized texts with their conflicts, unique lists,         *)
(* credits, and the television and anime hierarchies.  A document is a     *)
(* record with its provider; a text is [lang, text]; `Norm` is what the    *)
(* code compares texts by (white space and case folded).                   *)
(***************************************************************************)
EXTENDS Positions, SequencesExt

CONSTANTS
    Norm,           \* the normalized form of each text
    NoRuntime       \* an episode without a runtime

(* The stable order of s by ascending Key. *)
Place(key, i) ==
    Cardinality({j \in DOMAIN key : key[j] < key[i] \/ (key[j] = key[i] /\ j <= i)})
ByPlace(s, place) == [p \in 1..Len(s) |-> s[CHOOSE i \in 1..Len(s) : place[i] = p]]
PlacedBy(s, key) == ByPlace(s, [i \in 1..Len(s) |-> Place(key, i)])
StableBy(s, Key(_)) == PlacedBy(s, Each(s, Key))

Flat(s, Items(_)) == FlattenSeq(Each(s, Items))

-----------------------------------------------------------------------------
(* Precedence: a policy is [field |-> a function from paths, media |-> one  *)
(* from media kinds, global |-> one order].                                *)

Deduplicate(order) == KeepAt(order, LAMBDA i : \A j \in 1..(i - 1) : order[j] # order[i])

OrderFor(policy, kind, path) ==
    IF path \in DOMAIN policy.field THEN policy.field[path]
    ELSE IF kind \in DOMAIN policy.media THEN policy.media[kind]
    ELSE policy.global

PositionIn(order, provider) ==
    IF \E i \in 1..Len(order) : order[i] = provider
    THEN CHOOSE i \in 1..Len(order) : order[i] = provider ELSE Len(order) + 1
Rank(policy, kind, path, provider) == PositionIn(Deduplicate(OrderFor(policy, kind, path)), provider)

(* A mutant of the next definition: the order in which providers answered. *)
AsAnswered(docs, policy, kind, path) == docs

Ordered(docs, policy, kind, path) ==
    StableBy(docs, LAMBDA doc : Rank(policy, kind, path, doc.provider))

-----------------------------------------------------------------------------
(* Every offer of a field, with the provider that made it. *)
Offers(docs, field) ==
    Flat(docs, LAMBDA doc : Each(doc[field], LAMBDA item : [value |-> item, provider |-> doc.provider]))

(* The first position that has the key of position i. *)
FirstOf(keys, i) == CHOOSE j \in 1..i : keys[j] = keys[i] /\ \A k \in 1..(j - 1) : keys[k] # keys[i]

(* The first text of every language is kept; a later, different one is a conflict. *)
Localized(path, offers, first) ==
    [kept |-> KeepAt(offers, LAMBDA i : first[i] = i),
     conflicts |->
        Each(Pick([i \in 1..Len(offers) |-> i],
                  {i \in 1..Len(offers) : Norm[offers[first[i]].value.text] # Norm[offers[i].value.text]}),
             LAMBDA i : [path |-> path, lang |-> offers[i].value.lang,
                         providers |-> <<offers[first[i]].provider, offers[i].provider>>])]

LocalizedByLanguage(path, offers, languages) ==
    Localized(path, offers, [i \in 1..Len(languages) |-> FirstOf(languages, i)])

LocalizedOffers(path, offers) == LocalizedByLanguage(path, offers, Each(offers, LAMBDA o : o.value.lang))

(* A path is the sequence of its parts: <<"series", "titles">>. *)
MergeLocalized(docs, policy, kind, path, field) ==
    LocalizedOffers(path, Offers(Ordered(docs, policy, kind, path), field))

(* Releases, genres, artwork and ratings: the first offer of every key is kept. *)
MergeUnique(offers, keys) == KeepAt(offers, LAMBDA i : FirstOf(keys, i) = i)

(* Credits: an offer is dropped when a kept one has its person, or its name and role. *)
SameCredit(a, b) == a.person = b.person \/ (a.name = b.name /\ a.role = b.role)
UniqueCredits(offers) ==
    LET kept[i \in 0..Len(offers)] ==
            IF i = 0 THEN <<>>
            ELSE IF \E k \in 1..Len(kept[i - 1]) : SameCredit(kept[i - 1][k].value, offers[i].value)
            THEN kept[i - 1] ELSE Append(kept[i - 1], offers[i])
    IN  kept[Len(offers)]
MergeCredits(docs, policy, kind, path) == UniqueCredits(Offers(Ordered(docs, policy, kind, path), "credits"))

-----------------------------------------------------------------------------
(* Movies. *)
UniqueGenres(offers) == MergeUnique(offers, Each(offers, LAMBDA o : Norm[o.value]))
MergedMovie(docs, policy, titles, summaries) ==
    [titles |-> titles.kept, summaries |-> summaries.kept,
     genres |-> UniqueGenres(Offers(Ordered(docs, policy, "movie", <<"movie", "genres">>), "genres")),
     credits |-> MergeCredits(docs, policy, "movie", <<"movie", "credits">>),
     conflicts |-> titles.conflicts \o summaries.conflicts]
MergeMovieFields(docs, policy) ==
    LET Texts(field) == MergeLocalized(docs, policy, "movie", <<"movie", field>>, field)
    IN  MergedMovie(docs, policy, Texts("titles"), Texts("summaries"))
MergeMovie(docs, policy) == MergeMovieFields(Ordered(docs, policy, "movie", <<"movie">>), policy)

(* Anime: equal texts are kept once, whatever their language, and nothing conflicts; *)
(* the hierarchy comes from the first document that has one.                      *)
UniqueTexts(offers) == MergeUnique(offers, Each(offers, LAMBDA o : Norm[o.value.text]))
MergeAnimeTexts(docs, policy, field) == UniqueTexts(Offers(Ordered(docs, policy, "anime", <<"anime", field>>), field))

AnimeBase(docs, policy) ==
    LET ordered == Ordered(docs, policy, "anime", <<"anime">>)
    IN  (Select(ordered, LAMBDA d : d.cours # {}) \o ordered)[1]

MergeAnime(docs, policy) ==
    [titles |-> MergeAnimeTexts(docs, policy, "titles"),
     summaries |-> MergeAnimeTexts(docs, policy, "summaries"),
     cours |-> AnimeBase(docs, policy).cours, base |-> AnimeBase(docs, policy).provider,
     conflicts |-> <<>>]

-----------------------------------------------------------------------------
(* Television: every document has one ordering; a season or an episode is   *)
(* there when any document has it.  An episode is named by its sequence,   *)
(* [season, number, scheme].                                               *)

Mismatched(docs, policy) ==
    LET ordering == Ordered(docs, policy, "television", <<"series">>)[1].ordering IN
    \E i \in 1..Len(docs) :
        \/ docs[i].ordering # ordering
        \/ \E s \in DOMAIN docs[i].seasons : \E e \in DOMAIN docs[i].seasons[s] :
              e.scheme # ordering

SeasonPath(s) == <<"series", "seasons", s>>
EpisodePath(s, e) == SeasonPath(s) \o <<"episodes", e.number>>

EpisodeOf(having, titles, summaries, policy, path) ==
    LET runtimes == Select(Ordered(having, policy, "television", Append(path, "runtime")),
                           LAMBDA d : d.runtime # NoRuntime)
    IN  [titles |-> titles.kept, summaries |-> summaries.kept,
         conflicts |-> titles.conflicts \o summaries.conflicts,
         base |-> having[1].provider,
         runtime |-> Append(Each(runtimes, LAMBDA d : d.runtime), NoRuntime)[1],
         credits |-> MergeCredits(having, policy, "television", Append(path, "credits"))]

EpisodeFrom(having, policy, path) ==
    LET Texts(field) == MergeLocalized(having, policy, "television", Append(path, field), field)
    IN  EpisodeOf(having, Texts("titles"), Texts("summaries"), policy, path)

EpisodesOf(docs, s, e) ==
    Each(Select(docs, LAMBDA d : e \in DOMAIN d.seasons[s]),
         LAMBDA d : [provider |-> d.provider, titles |-> d.seasons[s][e].titles, summaries |-> d.seasons[s][e].summaries,
                     runtime |-> d.seasons[s][e].runtime, credits |-> d.seasons[s][e].credits])
MergeEpisode(docs, policy, s, e) ==
    EpisodeFrom(Ordered(EpisodesOf(docs, s, e), policy, "television", EpisodePath(s, e)), policy, EpisodePath(s, e))

MergeSeason(having, policy, s) ==
    [e \in UNION {DOMAIN having[i].seasons[s] : i \in 1..Len(having)} |-> MergeEpisode(having, policy, s, e)]

MergeSeasons(docs, policy) ==
    [s \in UNION {DOMAIN docs[i].seasons : i \in 1..Len(docs)} |->
        MergeSeason(Select(Ordered(docs, policy, "television", SeasonPath(s)), LAMBDA d : s \in DOMAIN d.seasons),
                    policy, s)]

Ascending(S, Number(_)) == StableBy(SetToSeq(S), Number)

EpisodeConflicts(seasons) ==
    LET Of(s) == Flat(Ascending(DOMAIN seasons[s], LAMBDA e : e.number),
                      LAMBDA e : seasons[s][e].conflicts)
    IN  Flat(Ascending(DOMAIN seasons, LAMBDA s : s), Of)

MergedSeries(titles, summaries, seasons) ==
    [titles |-> titles.kept, summaries |-> summaries.kept, seasons |-> seasons,
     conflicts |-> titles.conflicts \o summaries.conflicts \o EpisodeConflicts(seasons)]

MergeSeriesFields(docs, policy) ==
    LET Texts(field) == MergeLocalized(docs, policy, "television", <<"series", field>>, field)
    IN  MergedSeries(Texts("titles"), Texts("summaries"), MergeSeasons(docs, policy))
MergeSeries(docs, policy) == MergeSeriesFields(Ordered(docs, policy, "television", <<"series">>), policy)
=============================================================================
