------------------------------ MODULE MCScrape ------------------------------
(***************************************************************************)
(* Scrapes, and the inputs of the algorithms they are made of.             *)
(***************************************************************************)
EXTENDS Algorithms, MCPaths, FiniteSetsExt

CONSTANTS local, tmdb, bangumi

MCNorm == [t \in {"Arrival", "arrival", "Contact", "drama", "Drama", "Season 1", "Extras"} |->
             IF t = "arrival" THEN "Arrival" ELSE IF t = "drama" THEN "Drama" ELSE t]

-----------------------------------------------------------------------------
(* Scrape: one work that three providers know, and a remake of it. *)

Candidate(p, n, year, kind) ==
    [provider |-> p, id |-> [ns |-> p, value |-> n], title |-> "Arrival", year |-> year,
     sequence |-> Unknown, kind |-> kind]

Text(lang, text) == [lang |-> lang, text |-> text]
Doc(p, titles, complete) ==
    [provider |-> p, titles |-> titles,
     summaries |-> IF complete THEN <<Text("en", "Contact")>> ELSE <<>>,
     genres |-> <<"drama">>, credits |-> <<[person |-> "p1", name |-> "n1", role |-> "r1"]>>,
     cours |-> {}, ordering |-> "aired", seasons |-> [s \in {} |-> {}]]

Kinds == {"movie", "television", "book"}
MCProviders == <<local, tmdb, bangumi>>
MCSupports == [p \in {local, tmdb, bangumi} |-> IF p = bangumi THEN {"movie", "television"} ELSE Kinds]
Of(p, n, year) == [i \in 1..3 |-> Candidate(p, n, year, <<"movie", "television", "book">>[i])]
MCAnswers ==
    (local :> {Of(local, 1, Unknown)}
     @@ tmdb :> {Of(tmdb, 1, 2016), Of(tmdb, 2, 1950) \o Of(tmdb, 1, 2016), NoAnswer}
     @@ bangumi :> {<<>>, Of(bangumi, 1, Unknown), NoAnswer})
MCDocuments ==
    LET Key(p, n) == <<p, [ns |-> p, value |-> n]>> IN
    (Key(local, 1) :> {Doc(local, <<Text("en", "arrival")>>, FALSE)}
     @@ Key(tmdb, 1) :> {Doc(tmdb, <<Text("en", "Arrival")>>, TRUE), Doc(tmdb, <<Text("en", "Contact")>>, FALSE), NoAnswer}
     @@ Key(tmdb, 2) :> {Doc(tmdb, <<Text("en", "Contact")>>, FALSE)}
     @@ Key(bangumi, 1) :> {[Doc(bangumi, <<Text("fr", "Arrival")>>, FALSE) EXCEPT !.ordering = "absolute"], NoAnswer})

Request(front, how, kind) ==
    [front |-> front, how |-> how, kind |-> kind, exact |-> Exact, offline |-> FALSE,
     policy |-> "review", mode |-> "apply", title |-> "Arrival", year |-> Unknown, ids |-> {},
     ordering |-> Unknown, scanned |-> NoAnswer]
Named1 == Candidate(tmdb, 1, 2016, "movie")
MCRequests ==
    {Request("server", how, "movie") : how \in {"manual", "preview", "rule", "unattended"}}
    \cup {Request("server", "rule", kind) : kind \in {"television", "book"}}
    \cup {[Request("server", how, "movie") EXCEPT !.exact = Named1, !.scanned = d] :
             how \in {"manual", "unattended"}, d \in {NoAnswer, Doc(local, <<Text("en", "arrival")>>, FALSE)}}
    \cup {[Request("server", "rule", "movie") EXCEPT !.offline = TRUE]}
    \cup {[Request("cli", "manual", "movie") EXCEPT !.policy = policy, !.mode = mode, !.year = 2016] :
             policy \in {"prefer_first", "review", "error"}, mode \in {"apply", "print"}}
    \cup {[Request("cli", "manual", "television") EXCEPT !.ordering = "absolute", !.ids = {[ns |-> tmdb, value |-> 2]}]}

-----------------------------------------------------------------------------
(* Candidate groups: every list of some candidates, with any ids known. *)

Pool == {Candidate(local, 1, Unknown, "movie"), Candidate(local, 2, 2016, "movie"),
         Candidate(tmdb, 1, 2016, "movie"), Candidate(tmdb, 2, 1950, "movie"),
         Candidate(bangumi, 1, Unknown, "movie"),
         [Candidate(bangumi, 2, Unknown, "movie") EXCEPT !.title = "Contact"]}

(* Selecting by positions is what SelectSeq does. *)
ASSUME SelectsInOrder ==
    \A s \in UNION {[1..n -> 1..3] : n \in 0..4}, S \in SUBSET (1..3) :
        Select(s, LAMBDA x : x \in S) = SelectSeq(s, LAMBDA x : x \in S)

MCGroupSamples ==
    {[candidates |-> c, ids |-> ids] :
        c \in UNION {SetToSeqs(S) : S \in {T \in SUBSET Pool : Cardinality(T) \in 1..4}},
        ids \in {{}, {[ns |-> tmdb, value |-> 2]}, {[ns |-> tmdb, value |-> 1], [ns |-> bangumi, value |-> 2]}}}

-----------------------------------------------------------------------------
(* Merging: up to three documents that agree, disagree or lack a field, under *)
(* a global order and under an order of one field.                            *)

Episode(texts, runtime) ==
    [titles |-> texts, summaries |-> <<>>, runtime |-> runtime,
     credits |-> <<[person |-> "p1", name |-> "n1", role |-> "r1"]>>]
Aired(s, n) == [season |-> s, number |-> n, scheme |-> "aired"]

TitleChoices(kind) ==
    {<<Text("en", "Arrival")>>}
    \cup IF kind = "television" THEN {} ELSE {<<>>, <<Text("en", "arrival"), Text("fr", "Contact")>>}
    \cup IF kind = "movie" THEN {<<Text("en", "Contact")>>} ELSE {}
SeasonChoices ==
    {[s \in {} |-> {}],
     [s \in {1} |-> [e \in {Aired(1, 1)} |-> Episode(<<Text("en", "Arrival")>>, NoRuntime)]],
     [s \in {1} |-> [e \in {Aired(1, 1), Aired(1, 2)} |-> Episode(<<Text("en", "Contact")>>, 40)]],
     [s \in {1, 2} |-> [e \in {Aired(s, 1)} |-> Episode(<<Text("fr", "Arrival")>>, 45)]]}
DocChoices(p, kind) ==
    {[Doc(p, titles, TRUE) EXCEPT !.genres = genres, !.seasons = seasons, !.cours = cours] :
        titles \in TitleChoices(kind),
        genres \in IF kind # "movie" THEN {<<>>} ELSE IF p = tmdb THEN {<<"drama">>, <<"Drama">>} ELSE {<<"drama">>},
        seasons \in IF kind = "television" THEN SeasonChoices ELSE {[s \in {} |-> {}]},
        cours \in IF kind = "anime" THEN {{}, {1}} ELSE {{}}}
MCPolicies(kind) ==
    {Policy(MCProviders),
     IF kind = "television" THEN [Policy(MCProviders) EXCEPT !.media = [k \in {kind} |-> <<tmdb, tmdb, local>>]]
     ELSE [Policy(MCProviders) EXCEPT !.field = [path \in {<<kind, "titles">>} |-> <<bangumi, local>>]]}
MCMergeSamples ==
    UNION {{[kind |-> kind, docs |-> docs, policy |-> policy] :
        docs \in UNION {{<<a, b, c>> : a \in DocChoices(local, kind), b \in DocChoices(tmdb, kind),
                                       c \in DocChoices(bangumi, kind)}},
        policy \in MCPolicies(kind)} : kind \in {"movie", "television", "anime"}}

-----------------------------------------------------------------------------
(* Organizing: a source directory with some of these files, or one of them. *)

MCNamed == ("S01E01" :> {[season |-> 1, number |-> 1]} @@ "S01E02" :> {[season |-> 1, number |-> 2]}
            @@ "S01E01E02" :> {[season |-> 1, number |-> 1], [season |-> 1, number |-> 2]})
MCLeading == ("01" :> 1 @@ "02" :> 2)
MCSeasonOf == (<<"Season 1">> :> 1 @@ <<"Season 01">> :> 1 @@ <<"Season 02">> :> 2)

In == <<<<"in">>>>
SourceFiles ==
    {In \o f : f \in
        {<<<<"Show", "S01E01", "mkv">>>>, <<<<"Show", "S01E02", "mkv">>>>, <<<<"S01E01E02", "mkv">>>>,
         <<<<"Season 1">>, <<"01", "mkv">>>>, <<<<"Season 02">>, <<"01", "mkv">>>>,
         <<<<"Season 1">>, <<"01", "en", "srt">>>>, <<<<"Show", "S01E01", "en", "srt">>>>,
         <<<<"subs">>, <<"Show", "S01E02", "srt">>>>, <<<<"S01E01", "nfo">>>>, <<<<"S01E02", "nfo">>>>,
         <<<<"tvshow", "nfo">>>>, <<<<"extras">>, <<"cover", "jpg">>>>}}
OtherFiles ==
    {In \o f : f \in {<<<<"a", "mkv">>>>, <<<<"a", "en", "srt">>>>, <<<<"b", "mp3">>>>, <<<<"c", "epub">>>>,
                      <<<<"movie", "json">>>>, <<<<"book", "json">>>>, <<<<"noext">>>>}}

Package == <<<<"Mr", " Nobody (2009)">>>>
SourceRequest(kind, files, planned) ==
    [source |-> In, directory |-> TRUE, files |-> files, kind |-> kind, cour |-> 1,
     package |-> Package, override |-> <<>>,
     planned |-> planned, full |-> FALSE]
Sequences(scheme) == {[season |-> 1, number |-> n, scheme |-> scheme] : n \in 1..2}
Pair(n) == [class |-> "E", aired |-> n, absolute |-> 0]
Planned(kind) ==
    CASE kind = "television" -> {TelevisionPlan([s \in {1} |-> Sequences(scheme)]) : scheme \in {"aired", "absolute"}}
      [] kind = "anime" -> {AnimePlan(<<[number |-> 1, episodes |-> <<Pair(n)>>]>>) : n \in 0..1}
                           \cup {AnimePlan(<<[number |-> 1, episodes |-> <<Pair(1), Pair(n)>>]>>) : n \in 1..2}
                           \cup {AnimePlan([c \in 1..2 |-> [number |-> 1, episodes |-> <<Pair(c)>>]])}
      [] kind = "movie" -> {MoviePlan}
      [] kind = "music" -> {MusicPlan(<<"t1", "t2">>, tagged) : tagged \in {{}, {"t1"}, {"t3"}}}
      [] kind = "book" -> {BookPlan({"i1"}, isbn, cover, mutation) :
                             isbn \in {"i1", "i2"}, mutation \in BOOLEAN,
                             cover \in {<<"none">>, <<"bytes">>, <<"url">>, <<<<"in">>, <<"cover", "png">>>>}}
MCPlanSamples ==
    LET Some(files) == {F \in SUBSET files : Cardinality(F) \in 1..5}
        Directories == {SourceRequest("television", files, m) :
                            files \in Some(SourceFiles), m \in Planned("television")}
                       \cup UNION {{SourceRequest(kind, files, m) :
                            files \in Some(OtherFiles), m \in Planned(kind) \ {Refused}} :
                            kind \in {"anime", "movie", "music", "book"}}
        Overrides(f) == {PlacementTarget(Name(f), ordering, {1}, tagged, {}) :
                          ordering \in {"aired", "absolute"}, tagged \in {{}, {2}}}
        Placements(kind, f) == {<<>>} \cup IF kind = "television" THEN Overrides(f) ELSE {}
        Single == UNION {UNION {{[SourceRequest(kind, {f}, m) EXCEPT !.source = f, !.directory = FALSE,
                                                                   !.override = override, !.full = full] :
                             m \in Planned(kind) \ {Refused}, override \in Placements(kind, f), full \in BOOLEAN} :
                         kind \in {"television", "anime", "movie", "music", "book"}} :
                         f \in SourceFiles \cup OtherFiles}
    IN  Directories \cup Single

-----------------------------------------------------------------------------
(* Scanning: up to four files of a library, in the order of their paths, and *)
(* the one of them, or the directory, that a job names.                      *)

MCFolderSeason == ("Season 1" :> 1 @@ "Specials" :> 0)
MCFolderDisc == ("CD1" :> 1 @@ "CD2" :> 2)

Found1(dir, name) == [dir |-> dir, name |-> name, linked |-> FALSE]
Video(dir, name, before, number) ==
    [spelled |-> IF number = 0 THEN <<>> ELSE <<[before |-> before, season |-> 1, number |-> number]>>,
     leading |-> 1, ids |-> <<>>, tags |-> {}] @@ Found1(dir, name)
Tags == [title |-> {"Contact"}, season |-> {}, number |-> {}, scheme |-> {}, ids |-> <<>>]
Show == <<"Arrival">>
LibraryVideos ==
    <<Video(Show \o <<"Extras">>, "S01E05", {}, 5),
      Video(Show, "Contact S01E03", {"Contact"}, 3),
      Video(Show, "S01E04", {}, 4),
      [Video(Show, "S01E06", {}, 6) EXCEPT !.tags = {[Tags EXCEPT !.scheme = {"absolute"}, !.title = {}]}],
      Video(Show \o <<"Season 1">>, "01", {}, 0),
      Video(Show \o <<"Season 1">>, "S01E02", {}, 2),
      [Video(Show \o <<"Season 1">>, "S01E03", {}, 3) EXCEPT !.tags = {Tags}],
      Video(Show \o <<"Season 1", "Extras">>, "S01E08", {}, 8),
      Video(Show \o <<"Season 1", "Specials">>, "01", {}, 0),
      Video(Show \o <<"Specials">>, "01", {}, 0),
      [Video(Show \o <<"Specials">>, "02", {}, 0) EXCEPT !.linked = TRUE],
      Video(Show, "notes", {}, 0)>>

Line(command, text, number) == [command |-> command, text |-> text, number |-> number]
SheetOf(title, second) ==
    <<Line("PERFORMER", "Arrival", 0), Line("TITLE", title, 0), Line("FILE", "f", 0),
      Line("TRACK", "", 1), Line("TITLE", "Contact", 0), Line("INDEX", "", 0), Line("TRACK", "", 2)>> \o second
Cue(dir, name, lines) == [kind |-> "cue", lines |-> lines] @@ Found1(dir, name)
Mp3(dir, name, album) ==
    [kind |-> "mp3", artist |-> "Arrival", album |-> album, title |-> "Contact", number |-> 1] @@ Found1(dir, name)
LibrarySongs ==
    <<Cue(Show, "a.cue", SheetOf("Arrival", <<Line("TITLE", "Contact", 0), Line("INDEX", "", 750)>>)),
      Mp3(Show, "b.mp3", "arrival"), Mp3(Show, "c.mp3", "Contact"), Mp3(Show, "d.mp3", ""),
      Cue(Show \o <<"CD1">>, "a.cue", SheetOf("Arrival", <<>>)),
      Cue(Show \o <<"CD1">>, "b.cue", <<Line("TRACK", "", 1)>>),
      Mp3(Show \o <<"CD1">>, "c.mp3", "Arrival"),
      Cue(Show \o <<"CD1", "CD2">>, "a.cue", SheetOf("Arrival", <<>>)),
      Cue(Show \o <<"CD2">>, "a.cue", SheetOf("arrival", <<Line("TITLE", "Contact", 0)>>))>>

Epub(dir, name, title, isbn) == [title |-> title, isbn |-> isbn, authors |-> <<"Arrival">>] @@ Found1(dir, name)
LibraryBooks ==
    <<Epub(Show, "a", "Arrival", {1}), Epub(Show, "b", "arrival", {2}), Epub(Show, "c", "Arrival", {1}),
      Epub(Show, "d", "Contact", {1}), Epub(Show, "e", "Contact", {}), Epub(Show \o <<"Extras">>, "a", "Arrival", {1})>>

Nfo(dir, title) ==
    [title |-> title, cours |-> <<[number |-> 2, episodes |-> <<>>], [number |-> 0, episodes |-> <<>>],
        [number |-> 1, episodes |->
            [n \in 1..2 |-> [cour |-> 1, titled |-> TRUE, class |-> 1, aired |-> {3 - n}, absolute |-> {}]]]>>]
    @@ Found1(dir, "anime.nfo")
LibraryAnime == <<Nfo(Show, "Arrival"), Nfo(Show \o <<"Extras">>, "Contact"), Nfo(Show \o <<"Specials">>, "")>>

Sidecars == {{}, {{}}, {{"Contact"}}}
Movie(name, json, nfo) == [json |-> json, nfo |-> nfo, hint |-> "Arrival"] @@ Found1(Show, name)
LibraryMovies ==
    UNION {{<<Movie("a", json, nfo)>> \o other : other \in {<<>>, <<Movie("b", {{"Contact"}}, {})>>}} :
           json \in Sidecars, nfo \in Sidecars}

Library(kind) ==
    CASE kind = "television" -> LibraryVideos
      [] kind = "music" -> LibrarySongs
      [] kind = "book" -> LibraryBooks
      [] kind = "anime" -> LibraryAnime

MCScanSamples ==
    LET Files(kind) == {KeepAt(Library(kind), LAMBDA i : i \in S) :
                            S \in {T \in SUBSET (1..Len(Library(kind))) : Cardinality(T) \in 1..4}}
    IN  UNION {{[kind |-> kind, files |-> files, named |-> n, root |-> Show] :
                   files \in IF kind = "movie" THEN LibraryMovies ELSE Files(kind), n \in 0..4} :
               kind \in {"television", "music", "book", "anime", "movie"}}
=============================================================================
