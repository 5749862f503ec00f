----------------------------- MODULE Algorithms -----------------------------
(***************************************************************************)
(* What must hold of the algorithms that scrapes and jobs are made of, for *)
(* every input: groups of candidates, merges, plans, scans and paths.  An  *)
(* input is a sample, and every initial state of a part but "scrape", the  *)
(* behaviours of module Scrape, carries one.                               *)
(***************************************************************************)
EXTENDS Scrape, LocalScan, Paths

CONSTANTS
    GroupSamples,   \* [candidates, ids]
    MergeSamples,   \* [kind, docs, policy]
    PlanSamples,    \* source requests: see Organize
    Titles, Creators, Templates,  \* of packages: of their works, artists and authors, and custom ones
    ScanSamples,    \* [kind, files, named, root]: the file that is named, or 0 for the root
    TreeSamples,    \* [tree, configured]
    Names,          \* the names of entries
    RelativePaths, Outputs, Sources, Targets, Changes, Fresh,   \* spelled paths
    Items           \* sets of items: canonical paths

VARIABLES part, sample

-----------------------------------------------------------------------------
(* What the inputs are. *)

(* The candidates that were found, the chosen one first. *)
IsGroupSample(s) == IsSequence(s.candidates) /\ s.candidates # <<>>

Orders(policy) == {policy.global} \cup Range(policy.field) \cup Range(policy.media)

IsEpisode(e, texts) == e.number \in Nat /\ IsSequence(texts.titles) /\ IsSequence(texts.summaries)
IsDocument(kind, d) ==
    /\ IsSequence(d.titles) /\ IsSequence(d.summaries)
    /\ kind = "movie" => IsSequence(d.genres)
    /\ kind = "television" =>
          /\ DOMAIN d.seasons \subseteq Nat /\ IsFiniteSet(DOMAIN d.seasons)
          /\ \A s \in DOMAIN d.seasons :
                IsFiniteSet(DOMAIN d.seasons[s]) /\ \A e \in DOMAIN d.seasons[s] : IsEpisode(e, d.seasons[s][e])

(* Within a season an episode has one number in every document. *)
NumberedOnce(docs) ==
    \A i, j \in 1..Len(docs) : \A s \in DOMAIN docs[i].seasons \cap DOMAIN docs[j].seasons :
        \A e \in DOMAIN docs[i].seasons[s], f \in DOMAIN docs[j].seasons[s] : e.number = f.number => e = f

IsMergeSample(s) ==
    /\ s.kind \in {"movie", "television", "anime"}
    /\ IsSequence(s.docs) /\ s.docs # <<>>
    /\ \A i \in 1..Len(s.docs) : IsDocument(s.kind, s.docs[i])
    /\ \A order \in Orders(s.policy) : IsSequence(order)
    /\ s.kind = "television" => NumberedOnce(s.docs)

IsName(name) == IsSequence(name) /\ name # <<>> /\ name # Upward
IsPath(path) == IsSequence(path) /\ \A i \in 1..Len(path) : IsName(path[i])
TargetsOf(operations) == {operations[i].target : i \in 1..Len(operations)}

(* The NFO of an episode by its number in a season. *)
IsEpisodeFile(o) == o.op = "write" /\ o.content[1] = "episode" /\ o.content[2].scheme # "absolute"

(* What a writer lays out: a manifest of some of it, none for a series, no     *)
(* media.  An NFO of an episode is named so that it is read as that episode,  *)
(* other files of a series are not.  Writers number files by what a document  *)
(* says, and may lay out two of them in one place.                            *)
IsLaidOut(kind, planned) ==
    /\ IsSequence(planned)
    /\ \A i \in 1..Len(planned) :
          LET o == planned[i] IN
          /\ o.op \in {"write", "copy"} /\ DOMAIN o = {"op", "target", IF o.op = "write" THEN "content" ELSE "source"}
          /\ IsPath(o.target) /\ o.target # <<>>
          /\ Extension(Name(o.target)) \notin PrimaryExtensions(kind)
          /\ o.op = "write" =>
                /\ (o.content[1] = "manifest") = (Name(o.target) = File("fixer-manifest", "json"))
                /\ o.content[1] = "manifest" => o.content[2] \subseteq TargetsOf(planned) /\ kind # "television"
    /\ kind = "television" =>
          \A i \in 1..Len(planned) :
             LET o == planned[i] IN
             IF IsEpisodeFile(o)
             THEN /\ Spelled(Stem(Name(o.target))) # {}
                  /\ EpisodeNumber(o.target) = {[season |-> o.content[2].season, number |-> o.content[2].number]}
             ELSE EpisodeNumber(o.target) = {}

(* Files of a directory, or one; the command line places an episode in the   *)
(* folder of a season.  What is written as the folder of a season is read as *)
(* the folder of that season.                                                *)
IsPlanSample(r) ==
    /\ r.kind \in {"movie", "television", "anime", "music", "book"}
    /\ IsPath(r.package) /\ r.package # <<>> /\ IsSequence(r.source)
    /\ \A f \in r.files : IsPath(f) /\ IF r.directory THEN IsStrictPrefix(r.source, f) ELSE f = r.source /\ f # <<>>
    /\ r.override # <<>> =>
          /\ ~ r.directory /\ r.kind = "television"
          /\ \E folder \in DOMAIN SeasonOf : r.override = <<folder, Name(r.source)>>
    /\ IsLaidOut(r.kind, r.planned)
    /\ \A f \in Videos(r) : \A e \in EpisodeNumber(f) :
          SeasonFolder(e.season) \in DOMAIN SeasonOf /\ SeasonOf[SeasonFolder(e.season)] = e.season

(* A path is one file's, and no directory's. *)
IsScanSample(s) ==
    /\ s.kind \in {"movie", "television", "anime", "music", "book"}
    /\ IsSequence(s.files) /\ s.named \in Nat
    /\ \A i \in 1..Len(s.files) :
          /\ IsSequence(s.files[i].dir)
          /\ s.kind = "music" => "kind" \in DOMAIN s.files[i]
          /\ s.kind = "book" => s.files[i].isbn \subseteq Nat
    /\ \A i, j \in 1..Len(s.files) :
          /\ PathOf(s.files[i]) = PathOf(s.files[j]) => i = j
          /\ ~ IsPrefix(PathOf(s.files[i]), s.files[j].dir)

(* Everything lies in a directory, and only a link leads upward. *)
IsTree(tree) ==
    /\ IsFiniteSet(DOMAIN tree) /\ DOMAIN tree \subseteq Seq(Names)
    /\ <<>> \in DOMAIN tree /\ tree[<<>>].kind = "directory"
    /\ \A p \in DOMAIN tree :
          /\ p # <<>> => Parent(p) \in DOMAIN tree /\ tree[Parent(p)].kind = "directory"
          /\ tree[p].kind \in {"directory", "file", "link"}
          /\ tree[p].kind = "link" => tree[p].to \in Seq(Names \cup {Upward})

ASSUME GroupAssumption == \A s \in GroupSamples : IsGroupSample(s)
ASSUME MergeAssumption == \A s \in MergeSamples : IsMergeSample(s)
ASSUME NameAssumption ==
    /\ \A spelling \in DOMAIN Named : IsFiniteSet(Named[spelling])
    /\ <<>> \notin DOMAIN SeasonOf
    /\ NoExtension \notin SidecarExtensions
    /\ \A kind \in {"movie", "television", "anime", "music", "book"} : NoExtension \notin PrimaryExtensions(kind)
ASSUME PlanAssumption == \A r \in PlanSamples : IsPlanSample(r)
ASSUME PackageAssumption ==
    /\ \A text \in Titles \cup Creators : IsSequence(text)
    /\ \A template \in Templates :
          /\ IsSequence(template)
          /\ \A i \in 1..Len(template) : template[i].part \notin {"title", "sanitized"} => IsSequence(template[i].text)
ASSUME ScanAssumption == \A s \in ScanSamples : IsScanSample(s)
ASSUME TreeAssumption ==
    /\ \A s \in TreeSamples : IsTree(s.tree) /\ s.configured \subseteq Seq(Names)
    /\ RelativePaths \cup Outputs \cup Sources \cup Targets \cup Changes \cup Fresh \subseteq Seq(Names)
    /\ <<>> \notin Sources \cup Targets \cup Changes \cup Fresh
    /\ \A items \in Items : items \subseteq Seq(Names)
    /\ Upward \notin Names

(* No path and no reference is one of the marks. *)
ASSUME MarkAssumption ==
    /\ Nowhere # Barred
    /\ \A mark \in {Nowhere, Barred, Refused} : mark \notin Seq(Names \cup {Upward})
    /\ LET Ref == [root : Seq(Names), path : Seq(Names)]
       IN  Refused \notin Ref \cup (Ref \X Ref) \cup [root : Seq(Names), path : Seq(Names), canonical : Seq(Names)]

-----------------------------------------------------------------------------
(* Candidate groups. *)

Reordered(s) == {[i \in 1..Len(s) |-> s[p[i]]] : p \in Bijection(1..Len(s), 1..Len(s))}

(* The group of a candidate is decided by each provider on its own: no other  *)
(* than the scanned files adds two, the order of the other candidates does    *)
(* not matter, and with some providers left out, because they failed or are   *)
(* not configured, the candidates of the rest are taken as before.  Chosen by *)
(* an id of the request, it has no member that contradicts one.               *)
GroupOf(c, ids) ==
    LET Members(list) == ToSet(Group(list, ids))
        group == Members(c)
        others == {c[i].provider : i \in 1..Len(c)} \ {c[1].provider}
    IN  /\ \A a, b \in group :
              a.provider = b.provider /\ {a.provider, c[1].provider} # {Local} => a = b
        /\ \A tail \in Reordered(Tail(c)), out \in SUBSET others :
              Members(<<c[1]>> \o Select(tail, LAMBDA m : m.provider \notin out))
              = {m \in group : m.provider \notin out}
        /\ c[1].id \in ids /\ ~ Contradicts(ids, c[1].id) => \A m \in group : ~ Contradicts(ids, m.id)
GroupIsOneWork == part = "select" => GroupOf(sample.candidates, sample.ids)

-----------------------------------------------------------------------------
(* Merging. *)

RankedAlike(policy, a, b) ==
    \E order \in Orders(policy) :
        PositionIn(Deduplicate(order), a.provider) = PositionIn(Deduplicate(order), b.provider)

(* The documents in any order that keeps those in place that some order of the *)
(* policy ranks alike.                                                         *)
Rearranged(docs, policy) ==
    LET alike == {x \in (1..Len(docs)) \X (1..Len(docs)) : RankedAlike(policy, docs[x[1]], docs[x[2]])}
    IN  {[i \in 1..Len(docs) |-> docs[p[i]]] : p \in
            {q \in Bijection(1..Len(docs), 1..Len(docs)) :
                \A i, j \in 1..Len(docs) : i < j /\ <<q[i], q[j]>> \in alike => q[i] < q[j]}}

(* What some document says of a field. *)
Offered(docs, Of(_)) ==
    UNION {{[value |-> v, provider |-> docs[i].provider] : v \in Range(Of(docs[i]))} : i \in 1..Len(docs)}

(* Every key that is offered is kept once, from the first of its providers. *)
OncePerKey(kept, offered, Key(_), Position(_)) ==
    /\ Range(kept) \subseteq offered
    /\ \A i, j \in DOMAIN kept : Key(kept[i].value) = Key(kept[j].value) => i = j
    /\ \A o \in offered : \E k \in Range(kept) :
          Key(k.value) = Key(o.value) /\ Position(k.provider) <= Position(o.provider)

(* There is a conflict in a language exactly when two offers differ in it. *)
Differ(a, b) == a.value.lang = b.value.lang /\ Norm[a.value.text] # Norm[b.value.text]
ConflictsAt(conflicts, path, offered) ==
    /\ \A c \in Range(conflicts) : c.path = path =>
          \E a, b \in offered : Differ(a, b) /\ c.lang = a.value.lang /\ c.providers = <<a.provider, b.provider>>
    /\ \A a, b \in offered : Differ(a, b) =>
          \E c \in Range(conflicts) : c.path = path /\ c.lang = a.value.lang

ByPrecedence(kept, conflicts, offered, policy, kind, path) ==
    /\ OncePerKey(kept, offered, LAMBDA t : t.lang, LAMBDA p : Rank(policy, kind, path, p))
    /\ ConflictsAt(conflicts, path, offered)

MovieMerged(merged, docs, policy) ==
    /\ ByPrecedence(merged.titles, merged.conflicts, Offered(docs, LAMBDA d : d.titles), policy, "movie", <<"movie", "titles">>)
    /\ ByPrecedence(merged.summaries, merged.conflicts, Offered(docs, LAMBDA d : d.summaries), policy, "movie", <<"movie", "summaries">>)
    /\ OncePerKey(merged.genres, Offered(docs, LAMBDA d : d.genres), LAMBDA g : Norm[g],
                  LAMBDA p : Rank(policy, "movie", <<"movie", "genres">>, p))

(* The hierarchy of an anime is that of the first document that has one. *)
AnimeMerged(merged, docs, policy) ==
    /\ OncePerKey(merged.titles, Offered(docs, LAMBDA d : d.titles), LAMBDA t : Norm[t.text],
                  LAMBDA p : Rank(policy, "anime", <<"anime", "titles">>, p))
    /\ OncePerKey(merged.summaries, Offered(docs, LAMBDA d : d.summaries), LAMBDA t : Norm[t.text],
                  LAMBDA p : Rank(policy, "anime", <<"anime", "summaries">>, p))
    /\ \E i \in 1..Len(docs) :
          /\ merged.base = docs[i].provider /\ merged.cours = docs[i].cours
          /\ \A j \in 1..Len(docs) :
                IF (docs[i].cours = {}) = (docs[j].cours = {})
                THEN Rank(policy, "anime", <<"anime">>, docs[i].provider) <= Rank(policy, "anime", <<"anime">>, docs[j].provider)
                ELSE docs[i].cours # {}

Has(d, s, e) == s \in DOMAIN d.seasons /\ e \in DOMAIN d.seasons[s]
EpisodeMerged(merged, conflicts, docs, policy, s, e) ==
    LET Texts(d, field) == IF Has(d, s, e) THEN d.seasons[s][e][field] ELSE <<>>
    IN  /\ ByPrecedence(merged.titles, conflicts, Offered(docs, LAMBDA d : Texts(d, "titles")), policy, "television",
                        Append(EpisodePath(s, e), "titles"))
        /\ ByPrecedence(merged.summaries, conflicts, Offered(docs, LAMBDA d : Texts(d, "summaries")), policy, "television",
                        Append(EpisodePath(s, e), "summaries"))

SeriesMerged(merged, docs, policy) ==
    /\ ByPrecedence(merged.titles, merged.conflicts, Offered(docs, LAMBDA d : d.titles), policy, "television", <<"series", "titles">>)
    /\ ByPrecedence(merged.summaries, merged.conflicts, Offered(docs, LAMBDA d : d.summaries), policy, "television", <<"series", "summaries">>)
    /\ DOMAIN merged.seasons = UNION {DOMAIN docs[i].seasons : i \in 1..Len(docs)}
    /\ \A s \in DOMAIN merged.seasons :
          /\ DOMAIN merged.seasons[s] = UNION {DOMAIN docs[i].seasons[s] :
                                                 i \in {j \in 1..Len(docs) : s \in DOMAIN docs[j].seasons}}
          /\ \A e \in DOMAIN merged.seasons[s] :
                EpisodeMerged(merged.seasons[s][e], merged.conflicts, docs, policy, s, e)

(* What is merged depends on the documents and the precedence, not on the     *)
(* order in which providers are asked; no text, episode or season of any      *)
(* document is lost without a conflict that says so.                          *)
MergedAnyOrder(docs, policy, kind) ==
    \A merged \in {Merged(kind, docs, policy)} :
        /\ \A other \in Rearranged(docs, policy) : Merged(kind, other, policy) = merged
        /\ kind = "movie" => MovieMerged(merged, docs, policy)
        /\ kind = "anime" => AnimeMerged(merged, docs, policy)
        /\ kind = "television" => SeriesMerged(merged, docs, policy)
MergeByPrecedence == part = "merge" => MergedAnyOrder(sample.docs, sample.policy, sample.kind)

-----------------------------------------------------------------------------
(* Organizing. *)

(* A link found from a folder of the package leads to the file. *)
Follows(from, link, up) == SubSeq(from, 1, Len(from) - Max(up)) \o SubSeq(link, Max(up) + 1, Len(link))
LeadsTo(from, link) == Follows(from, link, {n \in 0..Len(link) : \A i \in 1..n : link[i] = Upward})

(* The writer laid out both in one place, or both for one episode. *)
LaidOutTogether(kind, o, p) ==
    \/ o.target = p.target
    \/ kind = "television" /\ IsEpisodeFile(o) /\ IsEpisodeFile(p) /\ EpisodeNumber(o.target) = EpisodeNumber(p.target)

NothingCollides(r, at, writes) ==
    /\ \A f, g \in DOMAIN at : f # g => at[f] # at[g]
    /\ \A i, j \in DOMAIN writes :
          writes[i].target = writes[j].target => LaidOutTogether(r.kind, Metadata(r)[i], Metadata(r)[j])
    /\ \A f \in DOMAIN at, i \in DOMAIN writes : at[f] # writes[i].target
    /\ \A t \in Range(at) \cup {writes[i].target : i \in DOMAIN writes} : IsStrictPrefix(r.package, t)

(* A name continues another after a dot. *)
Continues(name, stem) == Len(name) > Len(stem) /\ SubSeq(name, 1, Len(stem)) = stem

(* videos: the episode each video names, as a set of one. *)
EpisodesTogether(r, at, writes, videos) ==
    /\ \A v \in DOMAIN videos, i \in DOMAIN writes :
          LET o == Metadata(r)[i] IN
          o.op = "write" /\ o.content[1] = "episode" /\ o.content[2].scheme = "aired"
          /\ videos[v] = {[season |-> o.content[2].season, number |-> o.content[2].number]}
            => writes[i].target = WithExtension(at[v], "nfo")
    /\ \A v \in DOMAIN videos, f \in DOMAIN at :
          /\ Extension(Name(f)) \in SidecarExtensions \ {"nfo"}
          /\ {w \in DOMAIN videos : Continues(Name(f), Stem(Name(w)))} = {v}
          => Parent(at[f]) = Parent(at[v])

(* A plan puts no two files in one place, no file where it writes, and two    *)
(* writes in one place only where the writer did or numbered two episodes     *)
(* alike (nothing refuses that); it keeps everything inside the package,      *)
(* leaves out no media file, keeps each episode's metadata and its            *)
(* companions, as long as their names continue that of one video, beside it,  *)
(* names in its manifest only what it writes, and links to the source.        *)
SoundPlan(r, plan) ==
    plan # Refused =>
        /\ NothingCollides(r, plan.place, plan.write)
        /\ Primaries(r) \subseteq DOMAIN plan.place
        /\ EpisodesTogether(r, plan.place, plan.write, [v \in Videos(r) |-> EpisodeNumber(v)])
        /\ \A i \in DOMAIN plan.write : plan.write[i].op = "write" /\ plan.write[i].content[1] = "manifest" =>
              \A t \in plan.write[i].content[2] : \E j \in DOMAIN plan.write : plan.write[j].target = r.package \o t
        /\ \A f \in DOMAIN plan.place :
              LET from == <<<<"library">>>> \o Parent(plan.place[f]) IN LeadsTo(from, RelativePath(from, f)) = f

(* A package lies below its destination, in folders with plain names.  The   *)
(* package of a title that has a character left is one folder, or one in the *)
(* folder of the artist or author.                                           *)
PackagesAreFolders(title) ==
    /\ \A template \in Templates \cup {BuiltIn(kind, year, folder) :
                          kind \in {"movie", "television", "anime", "music", "book"}, year \in BOOLEAN, folder \in Creators} :
          LET package == PackagePath(title, template)
          IN  package # Refused =>
                \A i \in DOMAIN package :
                    package[i] \notin {<<>>, <<".">>, <<".", ".">>} /\ ToSet(package[i]) \cap Reserved = {}
    /\ Sanitize(title) \notin {<<>>, <<".">>} =>
          \A kind \in {"movie", "television", "anime", "music", "book"}, year \in BOOLEAN, folder \in Creators :
              LET package == PackagePath(title, BuiltIn(kind, year, folder))
              IN  package # Refused => Len(package) = IF kind \in {"music", "book"} THEN 2 ELSE 1

PlanIsSound ==
    /\ part = "organize" => SoundPlan(sample, Organized(sample))
    /\ part = "package" => PackagesAreFolders(sample)

-----------------------------------------------------------------------------
(* Scanning. *)

(* What a file has to say about a document. *)
Contributes(kind, f) ==
    /\ ~ f.linked
    /\ CASE kind = "television" -> Identified(f) # {}
         [] kind = "music" -> Contribution(f) # {}
         [] kind = "book" -> f.isbn # {}
         [] kind = "anime" -> f.title # ""
         [] kind = "movie" -> f.json # {{}}

(* The work it says it is part of. *)
OwnWork(kind, f) ==
    CASE kind = "television" -> Norm[Tagged(f).title]
      [] kind = "music" -> Norm[(CHOOSE c \in Contribution(f) : TRUE).title]
      [] OTHER -> Norm[f.title]

(* Layouts that the choice by the deepest directory is made for: no season   *)
(* folder lies in a season folder and no disc folder in a disc folder, and a *)
(* disc folder holds CUE sheets alone.                                       *)
Nested(folders, dir) == Len(dir) > 1 /\ Last(dir) \in folders /\ dir[Len(dir) - 1] \in folders
PlainLayout(files) ==
    \A i \in 1..Len(files) :
        /\ ~ Nested(DOMAIN FolderSeason, files[i].dir) /\ ~ Nested(DOMAIN FolderDisc, files[i].dir)
        /\ "kind" \in DOMAIN files[i] /\ AlbumRoot(files[i].dir) # files[i].dir => files[i].kind = "cue"

(* The document chosen for a file that says what it is is the work it says,  *)
(* and has the file in it, never a neighbour's; a directory has a document   *)
(* only when all such files below it are one work; and the command line      *)
(* never takes another document than the server, nor writes elsewhere than   *)
(* where that document was found: in place there, or in a folder beside it.  *)
ChosenIsOwn(kind, files, own, chosen) ==
    chosen # NoDocument =>
        \A i \in own :
            /\ Contributes(kind, files[i])
            /\ kind = "book" => \A j \in 1..(i - 1) : files[j].isbn # files[i].isbn
          => /\ PathOf(files[i]) \in chosen.members
             /\ kind # "movie" => Norm[chosen.title] = OwnWork(kind, files[i])
CommandIsChosen(kind, chosen, commands, placed) ==
    chosen # NoDocument =>
        /\ kind # "movie" => \A c \in commands : c.document = chosen
        /\ \A c \in commands : c.output = IF placed /\ kind = "television" THEN Front(chosen.root) ELSE chosen.root

(* Of the movies it ranks one has the title of the file's own sidecar; without *)
(* a sidecar it searches for the title that the server gives the file.         *)
MovieIsRanked(f, chosen, commands) ==
    chosen # NoDocument /\ ~ f.linked =>
        \E c \in commands : chosen.title = IF f.json \cup f.nfo = {} THEN c.title ELSE c.document.title
OwnOf(kind, files, directory, own, path) ==
    \A chosen \in {ServerDocument(kind, files, path, directory)}, placed \in BOOLEAN :
        LET commands == CommandLine(kind, files, path, directory, placed) IN
        /\ ChosenIsOwn(kind, files, own, chosen)
        /\ ~ (kind = "movie" /\ directory) => CommandIsChosen(kind, chosen, commands, placed)
        /\ kind = "movie" => \A i \in own : MovieIsRanked(files[i], chosen, commands)
OwnDocument ==
    part = "scan" /\ sample.named <= Len(sample.files) /\ PlainLayout(sample.files) =>
        LET Below == {i \in 1..Len(sample.files) : sample.kind # "movie" /\ IsPrefix(sample.root, sample.files[i].dir)}
        IN  IF sample.named = 0
            THEN OwnOf(sample.kind, sample.files, TRUE, Below, sample.root)
            ELSE OwnOf(sample.kind, sample.files, FALSE, {sample.named}, PathOf(sample.files[sample.named]))

-----------------------------------------------------------------------------
(* Paths. *)

References(roots) == {[root |-> r, path |-> p] : r \in roots, p \in RelativePaths}

(* Where the executor puts a target. *)
Lands(tree, root, target) == WithMissingTail(tree, Parent(root \o target))

(* A reference that resolves leads into its root and is shown as a reference *)
(* to the same directory; what is listed can be opened where it is shown,    *)
(* and browsing and searching agree on the files there are.                  *)
ReferencesAgree(tree, roots) ==
    /\ \A ref \in References(roots) :
          LET d == ResolveDirectory(tree, roots, ref) IN
          d # Refused =>
            /\ IsPrefix(d.root, d.canonical)
            /\ DisplayDirectory(tree, d) # Refused
            /\ ResolveDirectory(tree, roots, DisplayDirectory(tree, d)) = d
            /\ \E r \in roots : r \o DisplayPath(roots, d.canonical)[2] = d.canonical
            /\ \A e \in Listing(tree, roots, ref) :
                  IF e.kind = "file" THEN e \in SearchFiles(tree, roots)
                  ELSE ResolveDirectory(tree, roots, [root |-> e.root, path |-> e.path]).canonical = e.root \o e.path
    /\ \A e \in SearchFiles(tree, roots) :
          e.path # <<>> => e \in Listing(tree, roots, [root |-> e.root, path |-> Parent(e.path)])

(* Two directories taken for a job do not overlap, the runtime takes them as *)
(* they are, and a rule that keeps them resolves to them again.              *)
PairsAgree(tree, roots) ==
    \A source, destination \in References(roots) :
        LET pair == DirectoryJob(tree, roots, source, destination)
            rule == RuleDirectories(tree, roots, source, destination)
        IN  pair # Refused =>
              /\ ~ IsPrefix(pair[1], pair[2]) /\ ~ IsPrefix(pair[2], pair[1])
              /\ JobInput(tree, roots, pair[1], pair[2]) = pair
              /\ rule # Refused /\ ResolvedRule(tree, roots, rule) = pair

(* A plan that policy and executor both accept writes below a root, on the   *)
(* first unattended run on nothing that is there, and takes from below a     *)
(* root; a move also removes from there; and both mean one file by a link.   *)
PlanAgrees(tree, roots, output, source, target, op) ==
    LET root == OutputRoot(tree, output)
        o == PlacementOperation(op, source, root, target)
        entry == Entry(tree, source)
    IN  /\ root # Refused
        /\ ValidatePlan(tree, roots, output, {o}) /\ SafeAncestors(tree, root, target)
        /\ op # "write" => Canonical(tree, source) \notin Unfound
        =>
          /\ Allowed(roots, Lands(tree, root, target))
          /\ AutoPlan(tree, roots, output, {o}, FALSE) => Canonical(tree, root \o target) \in Unfound
          /\ op # "write" => Allowed(roots, Canonical(tree, source))
          /\ op = "move" => Allowed(roots, entry)
          /\ op = "symlink" =>
                Canonical(tree, PolicySource(o, output)) = Canonical(tree, ExecutorSource(o, root, <<>>))
PlansAgree(tree, roots) ==
    \A output \in Outputs, source \in Sources, target \in Targets,
       op \in {"write", "copy", "move", "symlink"} : PlanAgrees(tree, roots, output, source, target, op)

(* What happens to a file below an item, its removal included, is seen as a  *)
(* change of the deepest item around it.                                     *)
EventsReachItems(tree) ==
    \A items \in Items, spelled \in Changes :
        LET file == Entry(tree, spelled)
            around == {i \in items : IsPrefix(i, file)}
            without == [p \in DOMAIN tree \ {file} |-> tree[p]]
        IN  file \notin Unfound /\ tree[file].kind = "file" =>
              LET item == ReconcileEvent(without, items, spelled) IN
              /\ item = ReconcileEvent(tree, items, spelled)
              /\ (around = {}) = (item = Refused)
              /\ around # {} => item \in around /\ \A i \in around : IsPrefix(i, item)

(* Policy, workspace, jobs and executor mean the same place by a path, and    *)
(* that place is inside the allowed roots.                                    *)
Contained(tree, roots) ==
    roots # Refused =>
        /\ ReferencesAgree(tree, roots) /\ PairsAgree(tree, roots)
        /\ PlansAgree(tree, roots) /\ EventsReachItems(tree)
PathsAreContained == part = "paths" => Contained(sample.tree, WorkspaceRoots(sample.tree, sample.configured))

(* A symlink job: a file of the source goes into a package of the destination *)
(* that was taken with it, through a relative link (docs/server.md:281).      *)
LinksArePlanned(s) ==
    LET roots == WorkspaceRoots(s.tree, s.configured) IN
    roots # Refused =>
    \A source, destination \in References(roots) :
        LET pair == DirectoryJob(s.tree, roots, source, destination) IN
        pair # Refused =>
            \A f \in {q \in DOMAIN s.tree : s.tree[q].kind = "file"}, target \in Fresh :
                IsPrefix(pair[1], f) =>
                    ValidatePlan(s.tree, roots, pair[2], {PlacementOperation("symlink", f, pair[2], target)})
(* The server plans symlink placements (docs/server.md:281: "`symlink`        *)
(* creates relative links and requires link support plus a representable      *)
(* relative path").                                                           *)
SymlinkJobsArePlanned == part = "paths" => LinksArePlanned(sample)

-----------------------------------------------------------------------------
Part(name, samples) == part = name /\ sample \in samples

InitAlgorithms ==
    /\ InitScrape
    /\ \/ Part("scrape", {NoPlan})
       \/ /\ \/ Part("select", GroupSamples)
             \/ Part("merge", MergeSamples)
             \/ Part("organize", PlanSamples)
             \/ Part("package", Titles)
             \/ Part("scan", ScanSamples)
             \/ Part("paths", TreeSamples)
          /\ request = CHOOSE r \in Requests : TRUE

NextAlgorithms == part = "scrape" /\ NextScrape /\ UNCHANGED <<part, sample>>
SpecAlgorithms == InitAlgorithms /\ [][NextAlgorithms]_<<part, sample, scrapeVars>>
=============================================================================
