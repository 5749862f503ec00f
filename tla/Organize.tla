------------------------------ MODULE Organize ------------------------------
(***************************************************************************)
(* The plan that places source files and metadata: what the writers of     *)
(* each media kind lay out, and how `organize` puts a source directory or  *)
(* a single file beside it.                                                *)
(*                                                                         *)
(* A path is a sequence of names, a name the sequence of its parts between *)
(* dots: "Show.S01E01.en.srt" is <<"Show", "S01E01", "en", "srt">>.        *)
(***************************************************************************)
EXTENDS Positions, SequencesExt

CONSTANTS
    Named,          \* the episodes, [season, number], that each part of a name spells (SxxEyy)
    Leading,        \* the number each part starts with, 0 for none
    SeasonOf,       \* the season number of each folder named "Season N"
    NoExtension,    \* the extension of a name without one
    Refused         \* no plan: the request is refused

At(map, key, default) == IF key \in DOMAIN map THEN map[key] ELSE default

Name(path) == path[Len(path)]
Parent(path) == SubSeq(path, 1, Len(path) - 1)
Stem(name) == IF Len(name) = 1 THEN name ELSE SubSeq(name, 1, Len(name) - 1)
Extension(name) == IF Len(name) = 1 THEN NoExtension ELSE name[Len(name)]
WithExtension(path, extension) == Append(Parent(path), Append(Stem(Name(path)), extension))

Numbered(prefix, n) == prefix \o (IF n < 10 THEN "0" ELSE "") \o ToString(n)

(* The one episode that a path names, as a set: a name with several names  *)
(* none, and a name without takes the number it starts with in a folder    *)
(* "Season N".                                                             *)
Spelled(stem) == UNION {{<<i, e>> : e \in At(Named, stem[i], {})} : i \in 1..Len(stem)}
InFolder(leading, folder) ==
    IF folder \in DOMAIN SeasonOf /\ leading # 0 THEN {[season |-> SeasonOf[folder], number |-> leading]} ELSE {}
OneEpisode(spelled, stem, folder) ==
    IF spelled = {} THEN InFolder(At(Leading, stem[1], 0), folder)
    ELSE IF Cardinality(spelled) = 1 THEN {s[2] : s \in spelled} ELSE {}
EpisodeNumber(path) ==
    LET stem == Stem(Name(path)) IN OneEpisode(Spelled(stem), stem, At(path, Len(path) - 1, <<>>))

-----------------------------------------------------------------------------
(* What the writers lay out, relative to the output root. *)

Write(target, content) == [op |-> "write", target |-> target, content |-> content]
File(stem, extension) == <<stem, extension>>

EpisodeStem(e) ==
    IF e.scheme = "absolute" THEN "E00" \o (IF e.number < 10 THEN "0" ELSE "") \o ToString(e.number)
    ELSE Numbered("S", e.season) \o Numbered("E", e.number)

SeasonFolder(s) == <<Numbered("Season ", s)>>

(* seasons: a function from season numbers to sets of episode sequences. *)
TelevisionPlan(seasons) ==
    LET Episodes(s) == SetToSortSeq(seasons[s], LAMBDA a, b : a.number < b.number)
        Of(s) == <<Write(<<SeasonFolder(s), File("season", "nfo")>>, <<"season", s>>)>>
                 \o [i \in 1..Len(Episodes(s)) |->
                       Write(<<SeasonFolder(s), File(EpisodeStem(Episodes(s)[i]), "nfo")>>,
                             <<"episode", Episodes(s)[i]>>)]
        numbers == SetToSortSeq(DOMAIN seasons, LAMBDA a, b : a < b)
    IN  <<Write(<<File("tvshow", "nfo")>>, <<"series">>)>>
        \o FlattenSeq([i \in 1..Len(numbers) |-> Of(numbers[i])])

(* An anime episode without a number refuses the plan. *)
AnimeStem(cour, e) ==
    Numbered("C", cour) \o e.class \o (IF e.aired # 0 THEN ToString(e.aired) ELSE "A" \o ToString(e.absolute))

AnimePlan(cours) ==
    LET Folder(c) == <<Numbered("Cour ", cours[c].number)>>
        Of(c) == <<Write(<<Folder(c), File("cour", "nfo")>>, <<"cour", c>>)>>
                 \o [i \in 1..Len(cours[c].episodes) |->
                       Write(<<Folder(c), File(AnimeStem(cours[c].number, cours[c].episodes[i]), "nfo")>>,
                             <<"episode", c, i>>)]
        unnumbered == \E c \in DOMAIN cours : \E i \in DOMAIN cours[c].episodes :
                         cours[c].episodes[i].aired = 0 /\ cours[c].episodes[i].absolute = 0
    IN  IF unnumbered THEN Refused
        ELSE <<Write(<<File("anime", "nfo")>>, <<"anime">>)>>
             \o FlattenSeq([c \in 1..Len(cours) |-> Of(c)])

MoviePlan == <<Write(<<File("movie", "json")>>, <<"movie">>)>>

Manifest(operations) == <<"manifest", {operations[i].target : i \in DOMAIN operations}>>
WithManifest(operations) ==
    Append(operations, Write(<<File("fixer-manifest", "json")>>, Manifest(operations)))

(* Tag updates name tracks; a track the album does not have, or has twice, is refused. *)
MusicPlan(tracks, tagged) ==
    IF \/ \E i, j \in 1..Len(tracks) : i # j /\ tracks[i] = tracks[j]
       \/ ~ tagged \subseteq {tracks[i] : i \in 1..Len(tracks)}
    THEN Refused
    ELSE WithManifest(<<Write(<<File("album", "json")>>, <<"album">>)>>
             \o IF tagged = {} THEN <<>> ELSE <<Write(<<File("tag-update-intent", "json")>>, <<"tags">>)>>)

(* A cover is "none", "bytes", "url", or the path of an image, which is copied. *)
CoverPlan(cover) ==
    CASE cover = <<"none">> -> <<>>
      [] cover = <<"bytes">> -> <<Write(<<File("cover", "jpg")>>, <<"cover">>)>>
      [] cover = <<"url">> -> <<Write(<<File("cover-acquisition-intent", "json")>>, <<"cover">>)>>
      [] OTHER -> <<[op |-> "copy", source |-> cover,
                     target |-> <<File("cover", IF Extension(Name(cover)) = NoExtension THEN "jpg"
                                                ELSE Extension(Name(cover)))>>]>>

BookPlan(editions, isbn, cover, mutation) ==
    IF isbn \notin editions THEN Refused
    ELSE WithManifest(<<Write(<<File("book", "opf")>>, <<"opf">>), Write(<<File("book", "json")>>, <<"book">>)>>
             \o CoverPlan(cover)
             \o IF mutation THEN <<Write(<<File("epub-mutation-intent", "json")>>, <<"epub">>)>> ELSE <<>>)

-----------------------------------------------------------------------------
(* Only directories and written files stay; a manifest no longer names what *)
(* was left out.                                                            *)
MetadataOnly(plan) ==
    LET dropped == {plan[i].target : i \in {j \in 1..Len(plan) : plan[j].op # "write"}}
        Reconciled(o) == IF Name(o.target) = File("fixer-manifest", "json")
                         THEN Write(o.target, <<"manifest", o.content[2] \ dropped>>) ELSE o
    IN  Each(Select(plan, LAMBDA o : o.op = "write"), Reconciled)

-----------------------------------------------------------------------------
(* A request is [source, directory, files, kind, cour, package, override,  *)
(* planned, full]: files are the regular files below source, or source     *)
(* alone; planned is what the writer laid out.                             *)

(* The server organizes no assets, the command line does unless told not to. *)
Metadata(r) == IF r.full THEN r.planned ELSE MetadataOnly(r.planned)

PrimaryExtensions(kind) ==
    CASE kind \in {"movie", "television", "anime"} -> {"avi", "m2ts", "m4v", "mkv", "mov", "mp4", "ts", "webm"}
      [] kind = "music" -> {"aac", "flac", "m4a", "mp3", "ogg", "opus", "wav"}
      [] kind = "book" -> {"azw3", "cbr", "cbz", "epub", "mobi", "pdf"}

SidecarExtensions == {"srt", "ass", "ssa", "sub", "idx", "vtt", "sup", "nfo"}

Primaries(r) == {f \in r.files : Extension(Name(f)) \in PrimaryExtensions(r.kind)}

Relative(r, f) == IF r.directory THEN SubSeq(f, Len(r.source) + 1, Len(f)) ELSE <<Name(f)>>

MediaTarget(r, f) ==
    CASE r.kind \in {"movie", "book"} ->
            Append(r.package, Append(Stem(Name(r.package)), Extension(Name(f))))
      [] r.kind = "television" ->
            r.package \o SetToSeq({SeasonFolder(e.season) : e \in EpisodeNumber(f)}) \o <<Name(f)>>
      [] r.kind = "anime" -> r.package \o <<<<Numbered("Cour ", r.cour)>>, Name(f)>>
      [] r.kind = "music" -> Append(r.package, Name(f))

(* The videos that name one episode each. *)
Videos(r) == {f \in Primaries(r) : r.kind = "television" /\ EpisodeNumber(f) # {}}

Target(r, f) ==
    IF Primaries(r) = {f} \/ ~ r.directory
    THEN IF r.override # <<>> THEN r.package \o r.override ELSE MediaTarget(r, f)
    ELSE IF f \in Videos(r) THEN MediaTarget(r, f)
    ELSE r.package \o Relative(r, f)

(* The NFO of an episode lies beside its video. *)
EpisodeTargets(r, episode) ==
    {WithExtension(Target(r, v), "nfo") : v \in {f \in Videos(r) : EpisodeNumber(f) = episode}}

(* The videos whose stem a name continues with a dot. *)
Continued(r, f) ==
    {v \in Videos(r) : LET stem == Stem(Name(v)) IN
        Len(Name(f)) > Len(stem) /\ SubSeq(Name(f), 1, Len(stem)) = stem}

Beside(f, v, target) ==
    Append(Parent(target), Stem(Name(target)) \o SubSeq(Name(f), Len(Stem(Name(v))) + 1, Len(Name(f))))

(* Subtitles and NFO files of a series go beside the video they belong to. *)
Companion(f, target, nfo, videos) ==
    IF nfo # {} THEN CHOOSE t \in nfo : TRUE
    ELSE IF Cardinality(DOMAIN videos) = 1 THEN Beside(f, CHOOSE v \in DOMAIN videos : TRUE, CHOOSE t \in Range(videos) : TRUE)
    ELSE target
Placed(r, f) ==
    IF r.kind # "television" \/ Extension(Name(f)) \notin SidecarExtensions THEN Target(r, f)
    ELSE Companion(f, Target(r, f),
                   IF Extension(Name(f)) = "nfo" THEN UNION {EpisodeTargets(r, {e}) : e \in EpisodeNumber(f)} ELSE {},
                   [v \in Continued(r, f) |-> Target(r, v)])

(* A mutant of the next definition: every NFO keeps the place of its plan. *)
Packaged(r, o) == [o EXCEPT !.target = r.package \o @]

(* Metadata goes into the package, the NFO of an episode beside its video;   *)
(* the code knows the NFO by its name, SxxEyy, which absolute numbers lack.  *)
Rebased(r, o) ==
    LET isEpisode == r.kind = "television" /\ o.op = "write" /\ o.content[1] = "episode"
                     /\ o.content[2].scheme # "absolute"
        beside == IF isEpisode THEN EpisodeTargets(r, EpisodeNumber(o.target)) ELSE {}
    IN  [o EXCEPT !.target = IF beside # {} THEN CHOOSE t \in beside : TRUE ELSE r.package \o @]

Ambiguous(r) == \E f, g \in Videos(r) : f # g /\ EpisodeNumber(f) = EpisodeNumber(g)

PlanOf(r, at, writes) ==
    LET placed == {f \in r.files : at[f] \notin {writes[i].target : i \in 1..Len(writes)}}
    IN  IF \/ Ambiguous(r)
           \/ \E f, g \in placed : f # g /\ at[f] = at[g]
           \/ \E f \in r.files : ~ r.directory /\ r.override = <<>> /\ Extension(Name(f)) = NoExtension
        THEN Refused
        ELSE [place |-> Restrict(at, placed), write |-> writes]

Organized(r) == PlanOf(r, [f \in r.files |-> Placed(r, f)], Each(Metadata(r), LAMBDA o : Rebased(r, o)))

(* Where the command line puts the one episode of a path: the season of its   *)
(* tags, of its name, or of the series, whose first season counts alone when  *)
(* numbers are absolute.  Each is a set of at most one number.                *)
PlacementTarget(file, ordering, first, tagged, hinted) ==
    LET said == IF ordering = "absolute" THEN first
                ELSE IF tagged # {} THEN tagged ELSE IF hinted # {} THEN hinted ELSE first
        season == IF said = {} THEN 0 ELSE CHOOSE s \in said : TRUE
    IN  <<SeasonFolder(season), file>>

(* The link a symlink placement makes: up from the target's folder to the   *)
(* deepest folder shared with the source, then down.                        *)
Upward == <<"", "", "">>     \* the name ".."
RelativePath(from, to) ==
    LET common == Max({n \in 0..Min({Len(from), Len(to)}) : SubSeq(from, 1, n) = SubSeq(to, 1, n)})
    IN  [i \in 1..(Len(from) - common) |-> Upward] \o SubSeq(to, common + 1, Len(to))
=============================================================================
