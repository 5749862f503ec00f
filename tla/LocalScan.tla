------------------------------ MODULE LocalScan ------------------------------
(***************************************************************************)
(* What a scan of a directory makes of the files in it, and which of the   *)
(* documents it found is the one of the path a job or a command names.     *)
(*                                                                         *)
(* A directory is a sequence of folder names, a path one more name.  The   *)
(* files of a scan come as a sequence in the order of their paths, which   *)
(* the code sorts by; what their names and contents say is in their        *)
(* fields.  An optional value is a set of at most one.                     *)
(***************************************************************************)
EXTENDS CandidateSelection

CONSTANTS
    FolderSeason,   \* the season of each folder that names one, 0 for specials
    FolderDisc,     \* the number of each folder that names a disc
    NoDocument      \* a scan that fails, or a path that has no document

Or(optional, default) == IF optional = {} THEN default ELSE CHOOSE x \in optional : TRUE

PathOf(f) == Append(f.dir, f.name)

(* Links are not followed. *)
Scanned(files, root) == Select(files, LAMBDA f : IsPrefix(root, f.dir) /\ ~ f.linked)

(* The directory that is scanned for a path: itself, or the one that holds it. *)
ScanRoot(path, directory) == IF directory THEN path ELSE Front(path)

(* Items with the same key become one document: Make of those items, in order. *)
Grouped(items, Key(_), Make(_)) ==
    {Make(Select(items, LAMBDA i : Key(i) = k)) : k \in {Key(items[i]) : i \in 1..Len(items)}}

Every(items, Value(_)) == {Value(items[i]) : i \in 1..Len(items)}

-----------------------------------------------------------------------------
(* Television.  A video has what its name spells (SxxEyy, with the text      *)
(* before it), the number it starts with, the ids of its path, and its tags. *)

InSeasonFolder(f) == f.dir # <<>> /\ Last(f.dir) \in DOMAIN FolderSeason

SeriesRoot(f) == IF InSeasonFolder(f) THEN Front(f.dir) ELSE f.dir

Hinted(f, spelled, folder) ==
    LET Called(title, season, number) ==
            [title |-> title, season |-> season, number |-> number, scheme |-> "aired", ids |-> f.ids]
    IN  IF spelled # <<>>
        THEN LET s == spelled[1] IN
             {Called(title, s.season, s.number) : title \in IF s.before # {} THEN s.before ELSE folder}
        ELSE {Called(title, FolderSeason[Last(f.dir)], f.leading) :
                 title \in IF InSeasonFolder(f) /\ f.leading > 0 THEN folder ELSE {}}

Identified(f) ==
    Hinted(f, Select(f.spelled, LAMBDA s : s.number > 0), {Last(d) : d \in {SeriesRoot(f)} \ {<<>>}})

(* Tags that cannot be read leave a warning and the hint as it was. *)
Retagged(hint, t) ==
    LET scheme == Or(t.scheme, hint.scheme)
    IN  [title |-> Or(t.title, hint.title), number |-> Or(t.number, hint.number),
         season |-> IF scheme = "absolute" THEN 0 ELSE Or(t.season, hint.season),
         scheme |-> scheme, ids |-> hint.ids \o t.ids]
Tagged(f) ==
    LET hint == CHOOSE h \in Identified(f) : TRUE
    IN  IF f.tags = {} THEN hint ELSE Retagged(hint, CHOOSE t \in f.tags : TRUE)

SeriesFrom(videos, hints) ==
    [root |-> SeriesRoot(videos[1]), title |-> hints[1].title, ordering |-> hints[1].scheme,
     id |-> Append(Flat(hints, LAMBDA h : h.ids), [ns |-> Local, value |-> hints[1].title])[1],
     episodes |-> Each(StableBy(StableBy(hints, LAMBDA h : h.number), LAMBDA h : h.season),
                       LAMBDA h : [season |-> h.season, number |-> h.number, scheme |-> h.scheme]),
     members |-> Every(videos, PathOf)]
SeriesOf(videos) == SeriesFrom(videos, Each(videos, Tagged))

(* A mutant of the next definition: series told apart by directory alone. *)
DirectoryKey(f) == <<SeriesRoot(f)>>

(* What tells series apart. *)
SeriesKey(f) == <<SeriesRoot(f), Norm[Tagged(f).title]>>

(* Files without a hint are passed over; one file with an episode 0, or one  *)
(* series with two orderings, fails the scan.                                *)
Unscannable(keys, hints) ==
    \/ \E i \in 1..Len(hints) : hints[i].number = 0
    \/ \E i, j \in 1..Len(hints) : keys[i] = keys[j] /\ hints[i].scheme # hints[j].scheme

ScanTelevision(files) ==
    LET videos == Select(files, LAMBDA f : Identified(f) # {})
    IN  IF Unscannable(Each(videos, SeriesKey), Each(videos, Tagged)) THEN NoDocument
        ELSE Grouped(videos, SeriesKey, SeriesOf)

-----------------------------------------------------------------------------
(* Anime: one document for every readable anime.nfo, with the cours of the    *)
(* folders beside it.  An NFO has its title, and those folders: each the cour *)
(* it names and its episodes, [cour, titled, class, aired, absolute].         *)

MaxNumber == 1000    \* stands for u32::MAX, after every number

ValidEpisode(cour, e) ==
    /\ e.cour = cour.number /\ e.titled
    /\ e.aired # {0} /\ e.absolute # {0} /\ e.aired \cup e.absolute # {}

CourOf(cour) ==
    LET episodes == Select(cour.episodes, LAMBDA e : ValidEpisode(cour, e))
        ByNumber(list) == StableBy(StableBy(list, LAMBDA e : Or(e.absolute, MaxNumber)), LAMBDA e : Or(e.aired, MaxNumber))
    IN  [number |-> cour.number, episodes |-> StableBy(ByNumber(episodes), LAMBDA e : e.class)]

ScanAnime(files) ==
    LET Series(f) == [root |-> f.dir, title |-> f.title, members |-> {PathOf(f)},
                      cours |-> StableBy(Each(Select(f.cours, LAMBDA c : c.number > 0), CourOf),
                                         LAMBDA c : c.number)]
    IN  Every(Select(files, LAMBDA f : f.title # ""), Series)

-----------------------------------------------------------------------------
(* Music: CUE sheets and MP3 tags.  A sheet is a sequence of lines,          *)
(* [command, text, number]; titles and performers belong to the track above  *)
(* them, or to the sheet when no track of the current file is open.          *)

NoSheet == [ok |-> FALSE]
EmptySheet == [ok |-> TRUE, title |-> "", performer |-> "", files |-> <<>>, open |-> FALSE]

CueLine(sheet, line) ==
    LET file == Len(sheet.files)
        track == Len(sheet.files[file])
        AtTrack(field, value) == [sheet EXCEPT !.files[file][track][field] = value]
    IN  CASE line.command = "FILE" /\ line.text # "" ->
                [sheet EXCEPT !.files = Append(@, <<>>), !.open = FALSE]
          [] line.command = "TRACK" /\ file > 0 /\ line.number > 0 ->
                [sheet EXCEPT !.open = TRUE,
                              !.files[file] = Append(@, [number |-> line.number, title |-> "", start |-> {}])]
          [] line.command = "TITLE" /\ line.text # "" ->
                IF sheet.open THEN AtTrack("title", line.text) ELSE [sheet EXCEPT !.title = line.text]
          [] line.command = "PERFORMER" /\ line.text # "" ->
                IF sheet.open THEN sheet ELSE [sheet EXCEPT !.performer = line.text]
          [] line.command = "INDEX" /\ sheet.open -> AtTrack("start", {line.number})
          [] OTHER -> NoSheet

ParseCue(lines) ==
    LET sheet[i \in 0..Len(lines)] ==
            IF i = 0 THEN EmptySheet
            ELSE IF sheet[i - 1].ok THEN CueLine(sheet[i - 1], lines[i]) ELSE NoSheet
    IN  sheet[Len(lines)]

(* A track lasts until the next one of its file starts, in seconds. *)
Duration(tracks, i) ==
    LET start == tracks[i].start
        end == IF i < Len(tracks) THEN tracks[i + 1].start ELSE {}
    IN  IF start = {} \/ end = {} \/ Or(end, 0) < Or(start, 0) THEN 0 ELSE (Or(end, 0) - Or(start, 0)) \div 75

AlbumRoot(dir) == IF dir # <<>> /\ Last(dir) \in DOMAIN FolderDisc THEN Front(dir) ELSE dir
DiscNumber(dir) == IF AlbumRoot(dir) = dir THEN 1 ELSE FolderDisc[Last(dir)]

(* What one file adds to the album it names.  A sheet without a title for    *)
(* one of its tracks adds the tracks before it, and then is only a warning.  *)
UpToUntitled(tracks) ==
    SubSeq(tracks, 1, Min({i \in 1..Len(tracks) : tracks[i].title = ""} \cup {Len(tracks) + 1}) - 1)
CueTracks(sheet, disc) ==
    UpToUntitled(Flat(sheet.files, LAMBDA tracks : [i \in 1..Len(tracks) |->
        [disc |-> disc, number |-> tracks[i].number, title |-> tracks[i].title,
         seconds |-> Duration(tracks, i)]]))

CueAlbum(f, sheet) ==
    {[root |-> AlbumRoot(f.dir), artist |-> s.performer, title |-> s.title,
      tracks |-> CueTracks(s, DiscNumber(f.dir)), path |-> PathOf(f)] :
        s \in {t \in {sheet} \ {NoSheet} : t.performer # "" /\ t.title # ""}}

Contribution(f) ==
    IF f.kind = "cue" THEN CueAlbum(f, ParseCue(f.lines))
    ELSE {[root |-> f.dir, artist |-> f.artist, title |-> f.album, path |-> PathOf(f),
           tracks |-> <<[disc |-> 1, number |-> f.number, title |-> f.title, seconds |-> 0]>>] :
             known \in {TRUE} \cap {f.artist # "" /\ f.album # "" /\ f.title # "" /\ f.number > 0}}

AlbumOf(parts) ==
    LET tracks == Flat(parts, LAMBDA p : p.tracks) IN
    [root |-> parts[1].root, title |-> parts[1].title, members |-> Every(parts, LAMBDA p : p.path),
     tracks |-> StableBy(StableBy(tracks, LAMBDA t : t.number), LAMBDA t : t.disc)]

ScanMusic(files) ==
    LET parts == Flat(files, LAMBDA f : SetToSeq(Contribution(f))) IN
    Grouped(parts, LAMBDA p : <<p.root, Norm[p.artist], Norm[p.title]>>, AlbumOf)

-----------------------------------------------------------------------------
(* Books: an EPUB with both ISBNs is an edition of the work with its title   *)
(* and authors in its directory; a second file with the ISBN is a warning.   *)

WorkOf(epubs) ==
    LET new == KeepAt(epubs, LAMBDA i : \A j \in 1..(i - 1) : epubs[j].isbn # epubs[i].isbn) IN
    [root |-> new[1].dir, title |-> new[1].title, members |-> Every(new, PathOf),
     editions |-> StableBy(Each(new, LAMBDA f : [isbn |-> Or(f.isbn, 0), path |-> PathOf(f)]), LAMBDA e : e.isbn)]

ScanBooks(files) ==
    Grouped(Select(files, LAMBDA f : f.isbn # {}), LAMBDA f : <<f.dir, Norm[f.title], f.authors>>, WorkOf)

-----------------------------------------------------------------------------
(* The document of a path. *)

TheOnly(found) == IF Cardinality(found) = 1 THEN CHOOSE d \in found : TRUE ELSE NoDocument

SelectRooted(found, path, directory) ==
    LET around == {d \in found : IsPrefix(d.root, path)} IN
    IF directory THEN TheOnly(found)
    ELSE TheOnly({d \in around : \A e \in around : Len(e.root) <= Len(d.root)})

SelectBook(found, path, directory) ==
    IF directory
    THEN IF TheOnly(found) = NoDocument THEN NoDocument
         ELSE IF Len(TheOnly(found).editions) = 1 THEN TheOnly(found) ELSE NoDocument
    ELSE TheOnly({d \in found : path \in {d.editions[i].path : i \in 1..Len(d.editions)}})

(* A movie file has the document of its own JSON, or else of its own NFO, or *)
(* else one made from its name.  A sidecar has the title of its document, or *)
(* none when it cannot be read.                                              *)
MovieOf(f) ==
    LET Titled(title) == [root |-> f.dir, title |-> title, members |-> {PathOf(f)}]
        sidecar == IF f.json # {} THEN f.json ELSE f.nfo
    IN  IF sidecar = {} THEN Titled(f.hint)
        ELSE IF Or(sidecar, {}) = {} THEN NoDocument ELSE Titled(Or(Or(sidecar, {}), ""))

(* Every JSON file and every NFO of a movie that can be read is a document;  *)
(* others are a warning, the NFO of another kind not even that.              *)
ScanMovies(files) ==
    UNION {{[root |-> f.dir, title |-> title, members |-> {PathOf(f)}, from |-> from] :
                      title \in UNION (IF from = "json" THEN f.json ELSE f.nfo)} :
           f \in ToSet(files), from \in {"json", "nfo"}}

ScanKind(kind, files) ==
    CASE kind = "television" -> ScanTelevision(files)
      [] kind = "anime" -> ScanAnime(files)
      [] kind = "music" -> ScanMusic(files)
      [] kind = "book" -> ScanBooks(files)
      [] kind = "movie" -> ScanMovies(files)

Selected(kind, found, path, directory) ==
    IF found = NoDocument THEN NoDocument
    ELSE IF kind = "book" THEN SelectBook(found, path, directory)
    ELSE SelectRooted(found, path, directory)

ServerDocument(kind, files, path, directory) ==
    IF kind = "movie" /\ ~ directory
    THEN MovieOf(CHOOSE f \in ToSet(files) : PathOf(f) = path)
    ELSE Selected(kind, ScanKind(kind, Scanned(files, ScanRoot(path, directory))), path, directory)

(* The command line takes the one document of a scan, or none: a set of at    *)
(* most one [document, title, output], the title it searches for and where it *)
(* writes.  Only videos can be placed elsewhere.                              *)
Command(document, title, output) == [document |-> document, title |-> title, output |-> output]

Sole(found) == IF found = NoDocument THEN {} ELSE IF Cardinality(found) = 1 THEN found ELSE {}

AnimeCommand(found, placed) == {Command(d, d.title, d.root) : d \in {e \in Sole(found) : ~ placed}}

MusicCommand(found, placed) == {Command(d, d.title, d.root) : d \in {e \in Sole(found) : ~ placed}}

BookCommand(found, path, directory, placed) ==
    LET Edition(d) == IF directory THEN Len(d.editions) = 1 ELSE \E i \in 1..Len(d.editions) : d.editions[i].path = path
    IN  {Command(d, d.title, d.root) : d \in {e \in Sole(found) : ~ placed /\ Edition(e)}}

(* hint: what the name of a single file says. *)
TelevisionCommand(found, hint, directory, placed) ==
    {Command(d, Or({h.title : h \in hint}, d.title),
             IF placed /\ d.root # <<>> THEN Front(d.root) ELSE d.root) :
        d \in {e \in Sole(found) : ~ (placed /\ directory)}}

(* Of movies it takes all, or one made from the name, and leaves the choice to *)
(* the ranking of candidates: here a command for each.  A directory's title is *)
(* that of the first document by id, which may be any.                         *)
FromHint(hint) == {[root |-> <<>>, title |-> title, members |-> {}, from |-> "name"] : title \in hint}
MovieQuery(hint, documents, directory) == IF ~ directory /\ hint # {} THEN hint ELSE {d.title : d \in documents}
MovieCommand(found, hint, path, directory, placed) ==
    LET documents == IF found = {} THEN FromHint(hint) ELSE found
    IN  {Command(d, title, ScanRoot(path, directory)) :
            d \in {e \in documents : ~ (placed /\ directory)}, title \in MovieQuery(hint, documents, directory)}

CommandOf(kind, found, file, path, directory, placed) ==
    CASE kind = "anime" -> AnimeCommand(found, placed)
      [] kind = "music" -> MusicCommand(found, placed)
      [] kind = "book" -> BookCommand(found, path, directory, placed)
      [] kind = "television" -> TelevisionCommand(found, UNION {Identified(f) : f \in file}, directory, placed)
      [] kind = "movie" -> MovieCommand(found, IF directory THEN {Last(path)} ELSE {f.hint : f \in file},
                                        path, directory, placed)
CommandLine(kind, files, path, directory, placed) ==
    CommandOf(kind, ScanKind(kind, Scanned(files, ScanRoot(path, directory))),
              {f \in ToSet(files) : PathOf(f) = path}, path, directory, placed)
=============================================================================
