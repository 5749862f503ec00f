-------------------------------- MODULE Paths --------------------------------
(***************************************************************************)
(* Which paths the server reads, writes and shows: the allowed roots of    *)
(* FsPolicy, the directory references of the workspace, the checks of the  *)
(* executor, and the names of packages.                                    *)
(*                                                                         *)
(* A tree maps the absolute paths that exist to [kind, to]: kind is        *)
(* "directory", "file" or "link", and a link leads to the path `to`.       *)
(* Paths are spelled without the name "..", but for the sources of links.  *)
(* The limits of listings and searches are left out.                       *)
(***************************************************************************)
EXTENDS Organize

CONSTANTS
    Nowhere,    \* the location of a path that does not exist
    Barred      \* the location of a path below a file

Unfound == {Nowhere, Barred}

(* One name further, where `follow` says where each link leads. *)
Entered(tree, follow, above, name) ==
    LET here == Append(above, name)
    IN  IF above \in Unfound THEN above
        ELSE IF tree[above].kind # "directory" THEN Barred
        ELSE IF name = Upward THEN IF above = <<>> THEN <<>> ELSE Parent(above)
        ELSE IF here \notin DOMAIN tree THEN Nowhere
        ELSE IF tree[here].kind = "link" THEN follow[here] ELSE here

Walk(tree, follow, path) ==
    LET at[n \in 0..Len(path)] == IF n = 0 THEN <<>> ELSE Entered(tree, follow, at[n - 1], path[n])
    IN  at[Len(path)]

(* Where the links of a tree lead.  More links one inside another than there *)
(* are lead back to one of them: the system gives up.                        *)
LinksOf(tree) == {p \in DOMAIN tree : tree[p].kind = "link"}
Follow(tree) ==
    LET to[n \in 0..Cardinality(LinksOf(tree))] ==
            [l \in LinksOf(tree) |-> IF n = 0 THEN Barred ELSE Walk(tree, to[n - 1], tree[l].to)]
    IN  to[Cardinality(LinksOf(tree))]

(* Where a path leads, every link on it followed. *)
Canonical(tree, path) == Walk(tree, Follow(tree), path)

(* Where the entry itself lies, a link or not. *)
Entry(tree, path) ==
    IF path = <<>> THEN <<>>
    ELSE LET above == Canonical(tree, Parent(path))
             here == Append(above, Name(path))
         IN  IF above \in Unfound THEN above
             ELSE IF tree[above].kind # "directory" THEN Barred
             ELSE IF here \in DOMAIN tree THEN here ELSE Nowhere

Is(tree, kind, path) == LET at == Canonical(tree, path) IN at \notin Unfound /\ tree[at].kind = kind

(* The length of the longest prefix that is there, or barred, by where each is. *)
Reach(where) == Max({n \in DOMAIN where : where[n] # Nowhere})

-----------------------------------------------------------------------------
(* FsPolicy: roots are canonical directories. *)

NewPolicy(tree, paths) ==
    IF paths = {} \/ \E p \in paths : ~ Is(tree, "directory", p) THEN Refused
    ELSE {Canonical(tree, p) : p \in paths}

Allowed(roots, path) == \E r \in roots : IsPrefix(r, path)

ValidateRead(tree, roots, path) ==
    LET at == Canonical(tree, path)
    IN  IF at \in Unfound THEN Refused ELSE IF Allowed(roots, at) THEN at ELSE Refused

NearestExisting(tree, path) ==
    LET ancestor == SubSeq(path, 1, Reach([n \in 0..Len(path) |-> Entry(tree, SubSeq(path, 1, n))]))
    IN  IF Entry(tree, ancestor) = Barred THEN Refused ELSE ancestor

(* A path that may not exist yet: its nearest existing ancestor counts. *)
ValidateWrite(tree, roots, path) ==
    LET ancestor == NearestExisting(tree, path)
    IN  IF ancestor = Refused THEN Refused
        ELSE IF ValidateRead(tree, roots, ancestor) = Refused THEN Refused ELSE path

ValidatePair(tree, roots, source, destination) ==
    LET from == ValidateRead(tree, roots, source)
        to == ValidateRead(tree, roots, destination)
    IN  IF \/ from = Refused \/ to = Refused
           \/ ~ Is(tree, "directory", source) \/ ~ Is(tree, "directory", destination)
        THEN Refused
        ELSE IF IsPrefix(from, to) \/ IsPrefix(to, from) THEN Refused ELSE <<from, to>>

(* What a move removes must be spelled inside a root and lie inside one. *)
ValidateRemoval(tree, roots, source) ==
    IF \/ ~ Allowed(roots, Parent(source))
       \/ ValidateWrite(tree, roots, Parent(source)) = Refused
    THEN Refused ELSE ValidateRead(tree, roots, source)

(* An operation is [op, source, absolute, target]; writes have no source. *)
PolicySource(o, root) ==
    IF o.absolute THEN o.source
    ELSE IF o.op = "symlink" THEN Parent(root \o o.target) \o o.source
    ELSE root \o o.source

ValidatePlan(tree, roots, root, operations) ==
    /\ ValidateWrite(tree, roots, root) # Refused
    /\ \A o \in operations :
          /\ ValidateWrite(tree, roots, root \o o.target) # Refused
          /\ o.op = "move" => o.absolute /\ ValidateRemoval(tree, roots, o.source) # Refused
          /\ o.op \notin {"move", "write"} =>
                ValidateRead(tree, roots, PolicySource(o, root)) # Refused

(* What an automatic job writes without a person, for the first time. *)
AutoPlan(tree, roots, root, operations, again) ==
    /\ ValidatePlan(tree, roots, root, operations)
    /\ ~ again => \A o \in operations : Canonical(tree, root \o o.target) \in Unfound

-----------------------------------------------------------------------------
(* Workspace: a reference is [root, path], the path relative to the root. *)

WorkspaceRoots(tree, configured) == NewPolicy(tree, configured)

(* A mutant of the next definition: what is spelled inside the root is taken. *)
ResolveSpelled(tree, root, path) ==
    IF Canonical(tree, root \o path) \in Unfound THEN Refused ELSE Canonical(tree, root \o path)

ResolveRelative(tree, root, path) ==
    LET at == Canonical(tree, root \o path)
    IN  IF at \in Unfound THEN Refused ELSE IF IsPrefix(root, at) THEN at ELSE Refused

RelativeDisplay(root, path) == SubSeq(path, Len(root) + 1, Len(path))

ResolveDirectory(tree, roots, ref) ==
    LET at == ResolveRelative(tree, ref.root, ref.path)
    IN  IF ref.root \notin roots THEN Refused
        ELSE IF at = Refused THEN Refused
        ELSE IF tree[at].kind # "directory" THEN Refused
        ELSE [root |-> ref.root, path |-> RelativeDisplay(ref.root, at), canonical |-> at]

(* A directory is shown as long as its reference still leads to it. *)
DisplayDirectory(tree, d) ==
    IF ResolveRelative(tree, d.root, d.path) = d.canonical THEN [root |-> d.root, path |-> d.path] ELSE Refused

(* Links are not shown. *)
LibraryEntries(tree, root, directory) ==
    {[root |-> root, path |-> RelativeDisplay(root, p), kind |-> tree[p].kind] :
        p \in {q \in DOMAIN tree \ {<<>>} : Parent(q) = directory /\ tree[q].kind # "link"}}

Listing(tree, roots, ref) ==
    LET d == ResolveDirectory(tree, roots, ref)
    IN  IF d = Refused THEN {} ELSE LibraryEntries(tree, d.root, d.canonical)

(* The files below a root; links are not followed. *)
SearchFiles(tree, roots) ==
    UNION {{[root |-> r, path |-> RelativeDisplay(r, p), kind |-> "file"] :
               p \in {q \in DOMAIN tree : IsPrefix(r, q) /\ tree[q].kind = "file"}} : r \in roots}

(* A path is shown relative to the deepest root it is in. *)
DisplayPath(roots, path) ==
    LET around == {r \in roots : IsPrefix(r, path)}
        deepest == CHOOSE r \in around : \A s \in around : Len(s) <= Len(r)
    IN  IF around = {} THEN Refused ELSE <<Name(deepest), RelativeDisplay(deepest, path)>>

(* The directories of a job or of a rule. *)
DirectoryJob(tree, roots, source, destination) ==
    LET from == ResolveDirectory(tree, roots, source)
        to == ResolveDirectory(tree, roots, destination)
    IN  IF from = Refused \/ to = Refused THEN Refused
        ELSE ValidatePair(tree, NewPolicy(tree, {from.canonical, to.canonical}), from.canonical, to.canonical)

(* A rule keeps the references, and resolves them again when it is used. *)
RuleDirectories(tree, roots, source, destination) ==
    LET Kept(ref) == LET d == ResolveDirectory(tree, roots, ref) IN [root |-> d.root, path |-> d.path]
    IN  IF DirectoryJob(tree, roots, source, destination) = Refused THEN Refused
        ELSE <<Kept(source), Kept(destination)>>

ResolvedRule(tree, roots, rule) ==
    <<ResolveDirectory(tree, roots, rule[1]).canonical, ResolveDirectory(tree, roots, rule[2]).canonical>>

(* What the runtime makes of the paths of a job, whoever sent it. *)
JobInput(tree, roots, input, destination) ==
    LET from == ValidateRead(tree, roots, input)
        to == ValidateRead(tree, roots, destination)
    IN  IF from = Refused \/ to = Refused THEN Refused
        ELSE IF tree[to].kind # "directory" THEN Refused ELSE <<from, to>>

(* A path whose end is gone: what is left of it, followed, and the rest. *)
WithMissingTail(tree, path) ==
    LET n == Reach([k \in 0..Len(path) |-> Canonical(tree, SubSeq(path, 1, k))])
        at == Canonical(tree, SubSeq(path, 1, n))
    IN  IF at = Barred THEN Refused ELSE at \o SubSeq(path, n + 1, Len(path))

(* The item a change belongs to: the deepest one around it. *)
ReconcileEvent(tree, items, changed) ==
    LET at == WithMissingTail(tree, changed)
        around == {i \in items : at # Refused /\ IsPrefix(i, at)}
    IN  IF around = {} THEN Refused ELSE CHOOSE i \in around : \A j \in around : Len(j) <= Len(i)

-----------------------------------------------------------------------------
(* The executor. *)

OutputRoot(tree, path) == WithMissingTail(tree, path)

(* No directory between the root and the target is a link. *)
SafeAncestors(tree, root, target) ==
    \A n \in 0..(Len(target) - 1) :
        LET at == Entry(tree, root \o SubSeq(target, 1, n))
        IN  at # Barred /\ (at # Nowhere => tree[at].kind # "link")

Normalize(path) ==
    LET upTo[n \in 0..Len(path)] ==
            IF n = 0 THEN <<>>
            ELSE IF path[n] # Upward THEN Append(upTo[n - 1], path[n])
            ELSE IF upTo[n - 1] = <<>> THEN <<>> ELSE Parent(upTo[n - 1])
    IN  upTo[Len(path)]

ExecutorSource(o, root, current) ==
    IF o.absolute THEN o.source
    ELSE IF o.op = "symlink" THEN Normalize(Parent(root \o o.target) \o o.source)
    ELSE current \o o.source

(* The operation that puts a source file at a target. *)
PlacementOperation(op, source, root, target) ==
    [op |-> op, target |-> target, absolute |-> op # "symlink",
     source |-> IF op = "symlink" THEN RelativePath(Parent(root \o target), source) ELSE source]

-----------------------------------------------------------------------------
(* Packages.  A text is a sequence of characters, of which these matter. *)

Reserved == {"/", "?"}     \* "?" stands for every character a name may not have

Sanitize(text) ==
    LET t == [i \in 1..Len(text) |-> IF text[i] \in Reserved THEN " " ELSE text[i]]
        Inner(i) == (\E j \in 1..(i - 1) : t[j] # " ") /\ (\E j \in i..Len(t) : t[j] # " ")
    IN  KeepAt(t, LAMBDA i : t[i] # " " \/ (Inner(i) /\ t[i - 1] # " "))

SafeFolderName(text, fallback) ==
    LET t == Sanitize(text)
        solid == {i \in 1..Len(t) : t[i] \notin {" ", "."}}
    IN  IF solid = {} THEN fallback ELSE SubSeq(t, Min(solid), Max(solid))

(* A template is a sequence of parts, each text or a variable with or without *)
(* the filter `sanitize`.                                                     *)
RenderSource(template, title) ==
    FlattenSeq([i \in 1..Len(template) |->
        CASE template[i].part = "title" -> title
          [] template[i].part = "sanitized" -> Sanitize(title)
          [] OTHER -> template[i].text])

Segments(text) ==
    LET cuts == {0, Len(text) + 1} \cup {i \in 1..Len(text) : text[i] = "/"}
        parts == [j \in 1..(Cardinality(cuts) - 1) |-> SubSeq(text, Nth(cuts, j) + 1, Nth(cuts, j + 1) - 1)]
    IN  Select(parts, LAMBDA p : p \notin {<<>>, <<".">>})

ValidateRelative(text) ==
    IF text = <<>> THEN Refused
    ELSE IF text[1] = "/" \/ \E s \in ToSet(Segments(text)) : Last(s) \in {" ", "."} \/ \E i \in 1..Len(s) : s[i] = "?"
    THEN Refused ELSE Segments(text)

BuiltIn(kind, year, folder) ==
    LET title == [part |-> "sanitized"]
        Literal(text) == [part |-> "text", text |-> text]
    IN  CASE kind = "movie" /\ year -> <<title, Literal(<<" ", "y">>)>>
          [] kind \in {"music", "book"} -> <<Literal(SafeFolderName(folder, <<"u">>) \o <<"/">>), title>>
          [] OTHER -> <<title>>

PackagePath(title, template) ==
    IF title = <<>> THEN Refused ELSE ValidateRelative(RenderSource(template, title))
=============================================================================
