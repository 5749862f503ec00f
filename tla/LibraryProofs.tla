--------------------------- MODULE LibraryProofs ---------------------------
(***************************************************************************)
(* Proofs about Algorithms, continued: for any library of files, the       *)
(* document chosen for a path is the one of the work it says it is; and    *)
(* any plan that organises files puts each in a place of its own.          *)
(***************************************************************************)
EXTENDS AlgorithmProofs

-----------------------------------------------------------------------------
(***************************************************************************)
(* What is selected, grouped and chosen.                                   *)
(***************************************************************************)

\* What is picked is a sequence of the items picked.
LEMMA Kept ==
    ASSUME NEW s, IsSequence(s), NEW K \in SUBSET (1..Len(s))
    PROVE  IsSequence(Pick(s, K)) /\ ToSet(Pick(s, K)) = {s[i] : i \in K}
BY SomePositions, Picked, PickedSet

\* The items that have the key of position l.
AlikeIn(s, key, l) == Pick(s, {i \in 1..Len(s) : key[i] = key[l]})

\* They are some, and the first is one of them.
LEMMA Alike ==
    ASSUME NEW s, IsSequence(s), NEW key, NEW l \in 1..Len(s)
    PROVE  /\ IsSequence(AlikeIn(s, key, l)) /\ 1 \in 1..Len(AlikeIn(s, key, l))
           /\ ToSet(AlikeIn(s, key, l)) = {s[i] : i \in {j \in 1..Len(s) : key[j] = key[l]}}
           /\ \E m \in 1..Len(s) : key[m] = key[l] /\ AlikeIn(s, key, l)[1] = s[m]
<1> DEFINE K == {i \in 1..Len(s) : key[i] = key[l]}
           g == Pick(s, K)
<1>1. K \in SUBSET (1..Len(s)) /\ l \in K
  OBVIOUS
<1>2. IsSequence(g) /\ ToSet(g) = {s[i] : i \in K} /\ s[l] \in ToSet(g)
  <2> HIDE DEF K
  <2> QED BY <1>1, Kept
<1>3. 1 \in 1..Len(g)
  <2> HIDE DEF g
  <2>1. ToSet(g) = {g[i] : i \in 1..Len(g)} /\ Len(g) \in Nat
    BY <1>2, ItemsAre, SequenceIsList
  <2>2. PICK i \in 1..Len(g) : g[i] = s[l]
    BY <1>2, <2>1
  <2> QED BY <2>1, <2>2
<1>4. \E m \in K : g[1] = s[m]
  <2> HIDE DEF K
  <2> QED BY <1>1, <1>3, PickedItems
<1> QED BY <1>2, <1>3, <1>4 DEF AlikeIn

\* An only document is the one there is.
LEMMA OnlyIs ==
    ASSUME NEW S, IsFiniteSet(S)
    PROVE  /\ TheOnly(S) # NoDocument => S = {TheOnly(S)} /\ TheOnly(S) \in S
           /\ Cardinality(S) = 1 => \E d : S = {d}
<1>1. Cardinality(S) = 1 => \E d : S = {d}
  BY FS_Singleton
<1>2. ASSUME TheOnly(S) # NoDocument PROVE S = {TheOnly(S)} /\ TheOnly(S) \in S
  <2>1. Cardinality(S) = 1
    BY <1>2 DEF TheOnly
  <2>2. PICK d : S = {d}
    BY <1>1, <2>1
  <2>3. TheOnly(S) = CHOOSE e \in S : TRUE
    BY <2>1 DEF TheOnly
  <2>4. TheOnly(S) = d
    BY <2>2, <2>3
  <2> QED BY <2>2, <2>4
<1> QED BY <1>1, <1>2

\* The documents of files that say what they are part of: each has its own,
\* with its root and its title, and each document is of some.
Finds(found, contributors, rootOf, workOf) ==
    /\ IsFiniteSet(found)
    /\ \A f \in contributors : \E d \in found :
          PathOf(f) \in d.members /\ d.root = rootOf[f] /\ Norm[d.title] = workOf[f]
    /\ \A d \in found : \E f \in contributors : d.root = rootOf[f]

IsOwn(c, f, work) == PathOf(f) \in c.members /\ Norm[c.title] = work

\* The document with the deepest root around a path is that of the file there,
\* if no other root around it is deeper.
LEMMA RootedIs ==
    ASSUME NEW found, NEW G, NEW rootOf, NEW workOf, Finds(found, G, rootOf, workOf), NEW f \in G, NEW path,
           IsPrefix(rootOf[f], path),
           \A g \in G : IsPrefix(rootOf[g], path) => Len(rootOf[g]) <= Len(rootOf[f]),
           SelectRooted(found, path, FALSE) # NoDocument
    PROVE  SelectRooted(found, path, FALSE) \in found /\ IsOwn(SelectRooted(found, path, FALSE), f, workOf[f])
<1> DEFINE around == {d \in found : IsPrefix(d.root, path)}
           S == {d \in around : \A e \in around : Len(e.root) <= Len(d.root)}
           c == SelectRooted(found, path, FALSE)
<1>1. c = TheOnly(S)
  BY DEF SelectRooted
<1>2. PICK d \in found : PathOf(f) \in d.members /\ d.root = rootOf[f] /\ Norm[d.title] = workOf[f]
  BY DEF Finds
<1>3. d \in around
  BY <1>2
<1>4. \A e \in around : Len(e.root) <= Len(d.root)
  <2> TAKE e \in around
  <2>1. PICK g \in G : e.root = rootOf[g]
    BY DEF Finds
  <2>2. IsPrefix(rootOf[g], path)
    BY <2>1
  <2> QED BY <1>2, <2>1, <2>2
<1>5. d \in S
  BY <1>3, <1>4
<1>6. S \subseteq found /\ IsFiniteSet(found)
  BY DEF Finds
<1>7. IsFiniteSet(S)
  <2> HIDE DEF S
  <2> QED BY <1>6, FS_Subset
<1> HIDE DEF S
<1>8. S = {TheOnly(S)}
  <2> HIDE DEF c
  <2>1. TheOnly(S) # NoDocument
    BY <1>1 DEF c
  <2> QED BY <1>7, <2>1, OnlyIs
<1>9. c = d
  <2> HIDE DEF c
  <2> QED BY <1>1, <1>5, <1>8
<1> HIDE DEF c
<1>10. c \in found /\ IsOwn(c, f, workOf[f])
  BY <1>2, <1>9 DEF IsOwn
<1> QED BY <1>10 DEF c

\* A directory that has a document has one work.
LEMMA WholeIs ==
    ASSUME NEW found, NEW G, NEW rootOf, NEW workOf, Finds(found, G, rootOf, workOf), NEW f \in G,
           TheOnly(found) # NoDocument
    PROVE  TheOnly(found) \in found /\ IsOwn(TheOnly(found), f, workOf[f])
<1>1. found = {TheOnly(found)}
  BY OnlyIs DEF Finds
<1>2. PICK d \in found : PathOf(f) \in d.members /\ d.root = rootOf[f] /\ Norm[d.title] = workOf[f]
  BY DEF Finds
<1>3. d = TheOnly(found)
  BY <1>1, <1>2
<1> QED BY <1>2, <1>3 DEF IsOwn

-----------------------------------------------------------------------------
(***************************************************************************)
(* The roots of works.                                                     *)
(***************************************************************************)

\* Two sequences and an item have their items in one set.
LEMMA OneSet ==
    ASSUME NEW s, IsSequence(s), NEW t, IsSequence(t), NEW x
    PROVE  \E N : s \in Seq(N) /\ t \in Seq(N) /\ x \in N
<1> DEFINE N == {s[i] : i \in DOMAIN s} \cup {t[i] : i \in DOMAIN t} \cup {x}
<1>1. s \in [1..Len(s) -> N] /\ Len(s) \in Nat /\ t \in [1..Len(t) -> N] /\ Len(t) \in Nat
  BY SequenceIsList
<1>2. s \in Seq(N) /\ t \in Seq(N) /\ x \in N
  <2>1. x \in N
    OBVIOUS
  <2> HIDE DEF N
  <2> QED BY <1>1, <2>1
<1> QED BY <1>2

\* The root of a directory: the folder around it, if it is one of the folders.
RootIn(folders, dir) == IF dir # <<>> /\ Last(dir) \in folders THEN Front(dir) ELSE dir

\* What is in front of a name.
LEMMA FrontIs ==
    ASSUME NEW N, NEW p \in Seq(N), NEW x \in N
    PROVE  Front(Append(p, x)) = p /\ IsPrefix(p, Append(p, x)) /\ IsPrefix(p, p)
<1>1. Front(Append(p, x)) = p /\ Append(p, x) \in Seq(N) /\ Append(p, x) = p \o <<x>> /\ <<x>> \in Seq(N)
  BY OneName DEF Front, Parent
<1>2. <<>> \in Seq(N) /\ p = p \o <<>>
  BY ConcatEmptySeq
<1> QED BY <1>1, <1>2, BelowIs

\* The start of a start of a path is one of the path.
LEMMA StartOfStart ==
    ASSUME NEW N, NEW s \in Seq(N), NEW t \in Seq(N), NEW u \in Seq(N), IsPrefix(s, t), IsPrefix(t, u)
    PROVE  IsPrefix(s, u)
<1> DEFINE v == RelativeDisplay(s, t)
           z == RelativeDisplay(t, u)
<1>1. v \in Seq(N) /\ t = s \o v
  BY BelowIs
<1>2. z \in Seq(N) /\ u = t \o z
  BY BelowIs
<1> HIDE DEF v, z
<1>3. v \o z \in Seq(N) /\ u = s \o (v \o z)
  BY <1>1, <1>2, ConcatProperties, ConcatAssociative
<1> QED BY <1>3, BelowIs

\* Around a file whose directory has no root in a root, no root is deeper than its own.
LEMMA DeepestRoot ==
    ASSUME NEW folders, NEW N, NEW a \in Seq(N), NEW x \in N, NEW b \in Seq(N),
           ~ IsPrefix(Append(a, x), b), ~ Nested(folders, b)
    PROVE  /\ IsPrefix(RootIn(folders, a), Append(a, x))
           /\ IsPrefix(RootIn(folders, b), Append(a, x)) => Len(RootIn(folders, b)) <= Len(RootIn(folders, a))
<1> DEFINE p == Append(a, x)
           base == RootIn(folders, b)
<1>1. /\ p \in Seq(N) /\ Len(p) = Len(a) + 1 /\ Len(a) \in Nat /\ Len(b) \in Nat /\ p = a \o <<x>> /\ <<x>> \in Seq(N)
      /\ IsPrefix(a, p)
  BY OneName, FrontIs, LenProperties
<1>2. ASSUME NEW d \in Seq(N), d # <<>>
      PROVE  /\ Front(d) \in Seq(N) /\ Last(d) \in N /\ d = Append(Front(d), Last(d))
             /\ Len(d) = Len(Front(d)) + 1 /\ Len(Front(d)) \in Nat /\ IsPrefix(Front(d), d)
  <2>1. /\ Front(d) \in Seq(N) /\ Last(d) \in N /\ d = Append(Front(d), Last(d)) /\ Len(d) = Len(Front(d)) + 1
    BY <1>2, LastName DEF Front, Last, Parent, Name
  <2>2. IsPrefix(Front(d), Append(Front(d), Last(d)))
    BY <2>1, FrontIs
  <2> QED BY <2>1, <2>2, LenProperties
<1>4. IsPrefix(RootIn(folders, a), p)
  <2>1. CASE a # <<>> /\ Last(a) \in folders
    BY <1>1, <1>2, <2>1, StartOfStart DEF RootIn
  <2>2. CASE ~ (a # <<>> /\ Last(a) \in folders)
    BY <1>1, <2>2 DEF RootIn
  <2> QED BY <2>1, <2>2
<1>5. base \in Seq(N) /\ IsPrefix(base, b)
  <2>1. CASE b # <<>> /\ Last(b) \in folders
    BY <1>2, <2>1 DEF RootIn
  <2>2. CASE ~ (b # <<>> /\ Last(b) \in folders)
    <3>1. b = b \o <<>> /\ <<>> \in Seq(N)
      BY ConcatEmptySeq
    <3> QED BY <2>2, <3>1, BelowIs DEF RootIn
  <2> QED BY <2>1, <2>2
<1> HIDE DEF p
<1>6. ASSUME IsPrefix(base, p) PROVE Len(base) <= Len(RootIn(folders, a))
  <2>1. Len(base) \in 0..Len(p) /\ SubSeq(p, 1, Len(base)) = base
    BY <1>1, <1>5, <1>6, BelowIs
  <2>2. Len(base) # Len(p)
    <3> SUFFICES ASSUME Len(base) = Len(p) PROVE FALSE
      OBVIOUS
    <3>1. base = p
      BY <1>1, <2>1, SubSeqFull
    <3> QED BY <1>5, <3>1 DEF p
  <2> HIDE DEF base
  <2>3. Len(base) <= Len(a) /\ Len(base) \in Nat
    <3>1. Len(p) = Len(a) + 1 /\ Len(a) \in Nat /\ Len(base) \in 0..Len(p) /\ Len(base) # Len(p)
      BY <1>1, <2>1, <2>2
    <3> HIDE DEF base
    <3> QED BY <3>1
  <2>4. CASE ~ (a # <<>> /\ Last(a) \in folders)
    BY <2>3, <2>4 DEF RootIn
  <2>5. CASE a # <<>> /\ Last(a) \in folders
    <3>1. RootIn(folders, a) = Front(a) /\ Len(a) = Len(Front(a)) + 1 /\ Len(Front(a)) \in Nat
      BY <1>2, <2>5 DEF RootIn
    <3>2. Len(base) # Len(a)
      <4> SUFFICES ASSUME Len(base) = Len(a) PROVE FALSE
        OBVIOUS
      <4>1. base = a
        <5>1. SubSeq(a \o <<x>>, 1, Len(a)) = a
          BY <1>1, Halves
        <5> QED BY <1>1, <2>1, <5>1
      <4>2. CASE b # <<>> /\ Last(b) \in folders
        <5>1. Front(b) = a /\ b = Append(a, Last(b)) /\ Last(b) \in N
          BY <1>2, <4>1, <4>2 DEF RootIn, base
        <5>2. Len(b) = Len(a) + 1 /\ Len(a) \in Nat \ {0}
          BY <1>1, <1>2, <2>5, <5>1, OneName
        <5>3. b[Len(a)] = a[Len(a)]
          BY <5>1, <5>2, AppendProperties
        <5>4. Len(b) > 1 /\ Len(b) - 1 = Len(a)
          BY <5>2
        <5> QED BY <2>5, <4>2, <5>3, <5>4 DEF Nested, Last
      <4>3. CASE ~ (b # <<>> /\ Last(b) \in folders)
        BY <2>5, <4>1, <4>3 DEF RootIn, base
      <4> QED BY <4>2, <4>3
    <3> DEFINE m == Len(base)
               n == Len(Front(a))
    <3>3. m \in Nat /\ n \in Nat /\ Len(a) = n + 1 /\ m <= Len(a) /\ m # Len(a)
      BY <2>3, <3>1, <3>2
    <3> HIDE DEF m, n
    <3>4. m <= n
      BY <3>3
    <3> QED BY <3>1, <3>4 DEF m, n
  <2> QED BY <2>4, <2>5
<1> QED BY <1>4, <1>6 DEF p, base

-----------------------------------------------------------------------------
(***************************************************************************)
(* The documents of a scan.                                                *)
(***************************************************************************)

\* Finitely many documents are made of finitely many items.
LEMMA FiniteDocuments ==
    ASSUME NEW n \in Nat, NEW d PROVE IsFiniteSet({d[i] : i \in 1..n})
<1> DEFINE g == [i \in 1..n |-> d[i]]
<1>1. g \in Surjection(1..n, {d[i] : i \in 1..n})
  BY DEF Surjection
<1>2. IsFiniteSet(1..n)
  BY FS_Interval
<1> HIDE DEF g
<1> QED BY <1>1, <1>2, FS_Surjection

\* The files that are scanned.
LEMMA ScannedIs ==
    ASSUME NEW files, IsSequence(files), NEW root
    PROVE  /\ IsSequence(Scanned(files, root))
           /\ ToSet(Scanned(files, root)) = {f \in ToSet(files) : IsPrefix(root, f.dir) /\ ~ f.linked}
<1> DEFINE K == {i \in 1..Len(files) : IsPrefix(root, files[i].dir) /\ ~ files[i].linked}
<1>1. Scanned(files, root) = Pick(files, K)
  BY DEF Scanned, Select
<1>2. IsSequence(Pick(files, K)) /\ ToSet(Pick(files, K)) = {files[i] : i \in K}
  <2>1. K \in SUBSET (1..Len(files))
    OBVIOUS
  <2> HIDE DEF K
  <2> QED BY <2>1, Kept
<1>3. ToSet(files) = {files[i] : i \in 1..Len(files)}
  BY ItemsAre
<1> QED BY <1>1, <1>2, <1>3

\* What a file of a kind may say, where its work then is, and what it is called.
Contributors(kind, s) == {f \in ToSet(s) : Contributes(kind, f)}
FoldersOf(kind) ==
    CASE kind = "television" -> DOMAIN FolderSeason
      [] kind = "music" -> DOMAIN FolderDisc
      [] kind = "anime" -> {}
Roots(kind, s) == [f \in Contributors(kind, s) |-> RootIn(FoldersOf(kind), f.dir)]
Works(kind, s) == [f \in Contributors(kind, s) |-> OwnWork(kind, f)]

\* The series of a library.
LEMMA SeriesFound ==
    ASSUME NEW s, IsSequence(s), \A f \in ToSet(s) : ~ f.linked, ScanTelevision(s) # NoDocument
    PROVE  Finds(ScanTelevision(s), Contributors("television", s), Roots("television", s), Works("television", s))
<1> DEFINE K == {i \in 1..Len(s) : Identified(s[i]) # {}}
           v == Pick(s, K)
           key == [i \in 1..Len(v) |-> SeriesKey(v[i])]
           d == [i \in 1..Len(v) |-> SeriesOf(AlikeIn(v, key, i))]
           G == Contributors("television", s)
<1>1. IsSequence(v) /\ ToSet(v) = {s[i] : i \in K}
  <2>1. K \in SUBSET (1..Len(s))
    OBVIOUS
  <2> HIDE DEF K
  <2> QED BY <2>1, Kept
<1>2. ToSet(v) = G
  <2>1. ToSet(s) = {s[i] : i \in 1..Len(s)}
    BY ItemsAre
  <2>2. \A f \in ToSet(s) : Contributes("television", f) <=> Identified(f) # {}
    BY DEF Contributes
  <2> HIDE DEF v
  <2> QED BY <1>1, <2>1, <2>2 DEF Contributors
<1>3. ScanTelevision(s) = Grouped(v, SeriesKey, SeriesOf)
  BY DEF ScanTelevision, Select
<1> HIDE DEF v
<1>4. Len(v) \in Nat /\ ToSet(v) = {v[i] : i \in 1..Len(v)}
  BY <1>1, ItemsAre, SequenceIsList
<1>5. Grouped(v, SeriesKey, SeriesOf) = {d[i] : i \in 1..Len(v)}
  <2> DEFINE H(k) == SeriesOf(Select(v, LAMBDA f : SeriesKey(f) = k))
  <2>1. \A l \in 1..Len(v) : {i \in 1..Len(v) : SeriesKey(v[i]) = SeriesKey(v[l])} = {i \in 1..Len(v) : key[i] = key[l]}
    OBVIOUS
  <2>2. \A l \in 1..Len(v) : H(SeriesKey(v[l])) = d[l]
    BY <2>1 DEF Select, AlikeIn
  <2>3. Grouped(v, SeriesKey, SeriesOf) = {H(k) : k \in {SeriesKey(v[i]) : i \in 1..Len(v)}}
    BY DEF Grouped
  <2> HIDE DEF d, key, H
  <2> QED BY <2>2, <2>3
<1>6. ASSUME NEW l \in 1..Len(v)
      PROVE  /\ d[l].root = Roots("television", s)[v[l]] /\ Norm[d[l].title] = Works("television", s)[v[l]]
             /\ PathOf(v[l]) \in d[l].members /\ v[l] \in G
  <2> DEFINE g == AlikeIn(v, key, l)
  <2>1. /\ IsSequence(g) /\ 1 \in 1..Len(g) /\ ToSet(g) = {v[i] : i \in {j \in 1..Len(v) : key[j] = key[l]}}
        /\ \E m \in 1..Len(v) : key[m] = key[l] /\ g[1] = v[m]
    <3> HIDE DEF key
    <3> QED BY <1>1, Alike
  <2>2. SeriesKey(g[1]) = SeriesKey(v[l]) /\ v[l] \in ToSet(g) /\ v[l] \in G
    <3> HIDE DEF g
    <3> QED BY <1>2, <1>4, <2>1
  <2>3. d[l] = SeriesOf(g)
    OBVIOUS
  <2> HIDE DEF d, g
  <2>4. Len(g) \in Nat /\ ToSet(g) = {g[i] : i \in 1..Len(g)}
    BY <2>1, ItemsAre, SequenceIsList
  <2>5. d[l].root = SeriesRoot(g[1]) /\ d[l].title = Tagged(g[1]).title
        /\ d[l].members = {PathOf(g[i]) : i \in 1..Len(g)}
    BY <2>1, <2>3 DEF SeriesOf, SeriesFrom, Each, Every
  <2>6. SeriesRoot(g[1]) = SeriesRoot(v[l]) /\ Norm[Tagged(g[1]).title] = Norm[Tagged(v[l]).title]
    BY <2>2 DEF SeriesKey
  <2>7. Roots("television", s)[v[l]] = SeriesRoot(v[l]) /\ Works("television", s)[v[l]] = Norm[Tagged(v[l]).title]
    BY <2>2 DEF Roots, Works, RootIn, FoldersOf, SeriesRoot, InSeasonFolder, OwnWork
  <2> QED BY <2>2, <2>4, <2>5, <2>6, <2>7
<1> HIDE DEF d, key
<1>7. IsFiniteSet({d[i] : i \in 1..Len(v)})
  BY <1>4, FiniteDocuments
<1>8. \A f \in G : \E l \in 1..Len(v) : f = v[l]
  BY <1>2, <1>4
<1> HIDE DEF G
<1> QED BY <1>3, <1>5, <1>6, <1>7, <1>8 DEF Finds, G

\* The documents of the anime.nfo files of a library.
LEMMA AnimeFound ==
    ASSUME NEW s, IsSequence(s), \A f \in ToSet(s) : ~ f.linked
    PROVE  Finds(ScanAnime(s), Contributors("anime", s), Roots("anime", s), Works("anime", s))
<1> DEFINE K == {i \in 1..Len(s) : s[i].title # ""}
           v == Pick(s, K)
           Cours(f) == StableBy(Each(Select(f.cours, LAMBDA c : c.number > 0), CourOf), LAMBDA c : c.number)
           d == [i \in 1..Len(v) |->
                   [root |-> v[i].dir, title |-> v[i].title, members |-> {PathOf(v[i])}, cours |-> Cours(v[i])]]
           G == Contributors("anime", s)
<1>1. IsSequence(v) /\ ToSet(v) = {s[i] : i \in K}
  <2>1. K \in SUBSET (1..Len(s))
    OBVIOUS
  <2> HIDE DEF K
  <2> QED BY <2>1, Kept
<1>2. ToSet(v) = G
  <2>1. ToSet(s) = {s[i] : i \in 1..Len(s)}
    BY ItemsAre
  <2>2. \A f \in ToSet(s) : Contributes("anime", f) <=> f.title # ""
    BY DEF Contributes
  <2> HIDE DEF v
  <2> QED BY <1>1, <2>1, <2>2 DEF Contributors
<1>3. ScanAnime(s) = {d[i] : i \in 1..Len(v)}
  <2>1. ScanAnime(s) = {[root |-> v[i].dir, title |-> v[i].title, members |-> {PathOf(v[i])},
                         cours |-> Cours(v[i])] : i \in 1..Len(v)}
    BY DEF ScanAnime, Every, Select
  <2> HIDE DEF v, Cours
  <2> QED BY <2>1
<1> HIDE DEF v, Cours
<1>4. Len(v) \in Nat /\ ToSet(v) = {v[i] : i \in 1..Len(v)}
  BY <1>1, ItemsAre, SequenceIsList
<1>5. ASSUME NEW l \in 1..Len(v)
      PROVE  /\ d[l].root = Roots("anime", s)[v[l]] /\ Norm[d[l].title] = Works("anime", s)[v[l]]
             /\ PathOf(v[l]) \in d[l].members /\ v[l] \in G
  <2>1. v[l] \in G
    BY <1>2, <1>4
  <2>2. Roots("anime", s)[v[l]] = v[l].dir /\ Works("anime", s)[v[l]] = Norm[v[l].title]
    BY <2>1 DEF Roots, Works, RootIn, FoldersOf, OwnWork
  <2> QED BY <2>1, <2>2
<1> HIDE DEF d
<1>6. IsFiniteSet({d[i] : i \in 1..Len(v)})
  BY <1>4, FiniteDocuments
<1>7. \A f \in G : \E l \in 1..Len(v) : f = v[l]
  BY <1>2, <1>4
<1> HIDE DEF G
<1> QED BY <1>3, <1>5, <1>6, <1>7 DEF Finds, G

\* A file adds to one album at most.
LEMMA ContributionIs ==
    ASSUME NEW f
    PROVE  /\ IsFiniteSet(Contribution(f))
           /\ \A c \in Contribution(f) : /\ Contribution(f) = {c} /\ c.path = PathOf(f)
                                        /\ c.root = IF f.kind = "cue" THEN AlbumRoot(f.dir) ELSE f.dir
<1>1. CASE f.kind = "cue"
  <2> DEFINE sheet == ParseCue(f.lines)
             c == [root |-> AlbumRoot(f.dir), artist |-> sheet.performer, title |-> sheet.title,
                   tracks |-> CueTracks(sheet, DiscNumber(f.dir)), path |-> PathOf(f)]
  <2>1. Contribution(f) \subseteq {c}
    <3>1. Contribution(f) = CueAlbum(f, sheet)
      BY <1>1 DEF Contribution
    <3> HIDE DEF sheet
    <3> QED BY <3>1 DEF CueAlbum
  <2>2. c.path = PathOf(f) /\ c.root = AlbumRoot(f.dir)
    OBVIOUS
  <2> HIDE DEF c
  <2>3. IsFiniteSet(Contribution(f))
    BY <2>1, FS_Singleton, FS_Subset
  <2> QED BY <1>1, <2>1, <2>2, <2>3
<1>2. CASE f.kind # "cue"
  <2> DEFINE c == [root |-> f.dir, artist |-> f.artist, title |-> f.album, path |-> PathOf(f),
                   tracks |-> <<[disc |-> 1, number |-> f.number, title |-> f.title, seconds |-> 0]>>]
  <2>1. Contribution(f) \subseteq {c}
    BY <1>2 DEF Contribution
  <2>2. c.path = PathOf(f) /\ c.root = f.dir
    OBVIOUS
  <2> HIDE DEF c
  <2>3. IsFiniteSet(Contribution(f))
    BY <2>1, FS_Singleton, FS_Subset
  <2> QED BY <1>2, <2>1, <2>2, <2>3
<1> QED BY <1>1, <1>2

\* The albums of a library.
LEMMA AlbumsFound ==
    ASSUME NEW s, IsSequence(s), \A f \in ToSet(s) : ~ f.linked,
           \A f \in ToSet(s) : f.kind # "cue" => AlbumRoot(f.dir) = f.dir
    PROVE  Finds(ScanMusic(s), Contributors("music", s), Roots("music", s), Works("music", s))
<1> DEFINE seqs == Each(s, LAMBDA f : SetToSeq(Contribution(f)))
           v == FlattenSeq(seqs)
           Key(p) == <<p.root, Norm[p.artist], Norm[p.title]>>
           key == [i \in 1..Len(v) |-> Key(v[i])]
           d == [i \in 1..Len(v) |-> AlbumOf(AlikeIn(v, key, i))]
           G == Contributors("music", s)
<1>1. IsSequence(v) /\ ToSet(v) = UNION {Contribution(f) : f \in ToSet(s)}
  <2>1. IsSequence(seqs) /\ Len(seqs) = Len(s)
    <3>1. Len(s) \in Nat /\ seqs = [i \in 1..Len(s) |-> seqs[i]]
      BY SequenceIsList DEF Each
    <3> HIDE DEF seqs
    <3> QED BY <3>1, ListIsSequence
  <2>2. \A i \in 1..Len(s) : IsSequence(seqs[i]) /\ ToSet(seqs[i]) = Contribution(s[i])
    BY ContributionIs, SetToSeqIs DEF Each
  <2> HIDE DEF seqs
  <2>3. IsSequence(v) /\ ToSet(v) = UNION {ToSet(seqs[i]) : i \in 1..Len(seqs)}
    BY <2>1, <2>2, FlatSet
  <2>4. ToSet(s) = {s[i] : i \in 1..Len(s)}
    BY ItemsAre
  <2> HIDE DEF v
  <2> QED BY <2>1, <2>2, <2>3, <2>4
<1>2. ScanMusic(s) = Grouped(v, Key, AlbumOf)
  BY DEF ScanMusic, Flat
<1> HIDE DEF v, seqs
<1>3. Len(v) \in Nat /\ ToSet(v) = {v[i] : i \in 1..Len(v)}
  BY <1>1, ItemsAre, SequenceIsList
<1>4. Grouped(v, Key, AlbumOf) = {d[i] : i \in 1..Len(v)}
  <2> DEFINE H(k) == AlbumOf(Select(v, LAMBDA p : Key(p) = k))
  <2>1. \A l \in 1..Len(v) : {i \in 1..Len(v) : Key(v[i]) = Key(v[l])} = {i \in 1..Len(v) : key[i] = key[l]}
    OBVIOUS
  <2>2. \A l \in 1..Len(v) : H(Key(v[l])) = d[l]
    <3> HIDE DEF Key
    <3> QED BY <2>1 DEF Select, AlikeIn
  <2>3. Grouped(v, Key, AlbumOf) = {H(k) : k \in {Key(v[i]) : i \in 1..Len(v)}}
    <3> HIDE DEF Key
    <3> QED BY DEF Grouped
  <2> HIDE DEF d, key, H, Key
  <2> QED BY <2>2, <2>3
<1>5. ASSUME NEW l \in 1..Len(v)
      PROVE  d[l].root = v[l].root /\ Norm[d[l].title] = Norm[v[l].title] /\ v[l].path \in d[l].members
  <2> DEFINE g == AlikeIn(v, key, l)
  <2>1. /\ IsSequence(g) /\ 1 \in 1..Len(g) /\ ToSet(g) = {v[i] : i \in {j \in 1..Len(v) : key[j] = key[l]}}
        /\ \E m \in 1..Len(v) : key[m] = key[l] /\ g[1] = v[m]
    <3> HIDE DEF key
    <3> QED BY <1>1, Alike
  <2>2. Key(g[1]) = Key(v[l]) /\ v[l] \in ToSet(g)
    <3> HIDE DEF g, Key
    <3> QED BY <2>1
  <2>3. d[l] = AlbumOf(g)
    OBVIOUS
  <2> HIDE DEF d, g
  <2>4. Len(g) \in Nat /\ ToSet(g) = {g[i] : i \in 1..Len(g)}
    BY <2>1, ItemsAre, SequenceIsList
  <2>5. d[l].root = g[1].root /\ d[l].title = g[1].title /\ d[l].members = {g[i].path : i \in 1..Len(g)}
    BY <2>3 DEF AlbumOf, Every
  <2>6. g[1].root = v[l].root /\ Norm[g[1].title] = Norm[v[l].title]
    BY <2>2
  <2> QED BY <2>2, <2>4, <2>5, <2>6
<1> HIDE DEF d, key, Key
<1>6. IsFiniteSet({d[i] : i \in 1..Len(v)})
  BY <1>3, FiniteDocuments
<1>7. ASSUME NEW f \in ToSet(s), NEW c \in Contribution(f)
      PROVE  /\ f \in G /\ Roots("music", s)[f] = c.root /\ Works("music", s)[f] = Norm[c.title] /\ c.path = PathOf(f)
             /\ \E l \in 1..Len(v) : c = v[l]
  <2>1. f \in G
    BY DEF Contributors, Contributes
  <2>2. Contribution(f) = {c} /\ c.path = PathOf(f) /\ c.root = AlbumRoot(f.dir)
    BY ContributionIs
  <2>3. Works("music", s)[f] = Norm[c.title]
    <3>1. (CHOOSE x \in Contribution(f) : TRUE) = c
      BY <2>2
    <3> QED BY <2>1, <3>1 DEF Works, OwnWork
  <2>4. Roots("music", s)[f] = AlbumRoot(f.dir)
    BY <2>1 DEF Roots, RootIn, FoldersOf, AlbumRoot
  <2>5. c \in ToSet(v)
    BY <1>1
  <2> QED BY <1>3, <2>1, <2>2, <2>3, <2>4, <2>5
<1>8. \A f \in G : f \in ToSet(s) /\ \E c \in Contribution(f) : TRUE
  BY DEF Contributors, Contributes
<1>9. \A l \in 1..Len(v) : \E f \in ToSet(s) : v[l] \in Contribution(f)
  BY <1>1, <1>3
<1> HIDE DEF G
<1>10. \A f \in G : \E l \in 1..Len(v) : /\ PathOf(f) \in d[l].members
          /\ d[l].root = Roots("music", s)[f] /\ Norm[d[l].title] = Works("music", s)[f]
  <2> TAKE f \in G
  <2>1. PICK c \in Contribution(f) : f \in ToSet(s)
    BY <1>8
  <2>2. PICK l \in 1..Len(v) : c = v[l]
    BY <1>7, <2>1
  <2> QED BY <1>5, <1>7, <2>1, <2>2
<1>11. \A l \in 1..Len(v) : \E f \in G : d[l].root = Roots("music", s)[f]
  <2> TAKE l \in 1..Len(v)
  <2>1. PICK f \in ToSet(s) : v[l] \in Contribution(f)
    BY <1>9
  <2> QED BY <1>5, <1>7, <2>1
<1> QED BY <1>2, <1>4, <1>6, <1>10, <1>11 DEF Finds, G

\* An item without an earlier one of its ISBN.
Firsts(s, x) == \E j \in 1..Len(s) : s[j] = x /\ \A m \in 1..(j - 1) : s[m].isbn # x.isbn

\* It stays the first of those that are picked with it.
LEMMA FirstStays ==
    ASSUME NEW s, IsSequence(s), NEW K \in SUBSET (1..Len(s)), NEW x,
           Firsts(s, x), \A j \in 1..Len(s) : s[j] = x => j \in K
    PROVE  Firsts(Pick(s, K), x)
<1>1. IsFiniteSet(K) /\ K \in SUBSET Nat /\ Cardinality(K) \in Nat
  BY SomePositions, SequenceIsList
<1>2. PICK j \in 1..Len(s) : s[j] = x /\ \A m \in 1..(j - 1) : s[m].isbn # x.isbn
  BY DEF Firsts
<1>3. j \in K
  BY <1>2
<1>4. PICK l \in 1..Cardinality(K) : Nth(K, l) = j
  BY <1>1, <1>3, NthIsIn
<1>5. ASSUME NEW m \in 1..(l - 1) PROVE Nth(K, m) \in 1..(j - 1) /\ m \in 1..Cardinality(K)
  <2> DEFINE UpTo1(i) == {k \in K : k <= i}
             i == Nth(K, m)
  <2>1. m \in 1..Cardinality(K) /\ m < l /\ l \in Nat /\ m \in Nat
    BY <1>1, <1>4
  <2>2. i \in K /\ Cardinality(UpTo1(i)) = m /\ Cardinality(UpTo1(j)) = l
    BY <1>1, <1>4, <2>1, NthIsIn
  <2>3. ASSUME j <= i PROVE FALSE
    <3>0. i \in Nat /\ j \in Nat
      BY <1>1, <1>3, <2>2
    <3>1. UpTo1(j) \subseteq UpTo1(i)
      <4> HIDE DEF i
      <4>1. \A k \in Nat : k <= j => k <= i
        BY <2>3, <3>0
      <4> QED BY <1>1, <4>1
    <3>2. IsFiniteSet(UpTo1(i)) /\ IsFiniteSet(UpTo1(j))
      BY <1>1, FS_Subset
    <3> HIDE DEF UpTo1, i
    <3>3. Cardinality(UpTo1(j)) <= Cardinality(UpTo1(i))
      BY <3>1, <3>2, FS_Subset
    <3> QED BY <2>1, <2>2, <3>3
  <2> HIDE DEF UpTo1, i
  <2>4. i \in 1..Len(s) /\ i \in Nat /\ j \in Nat
    BY <1>1, <1>3, <2>2
  <2>5. i \in 1..(j - 1)
    BY <2>3, <2>4
  <2> QED BY <2>1, <2>5 DEF i
<1>6. Len(Pick(s, K)) = Cardinality(K) /\ \A m \in 1..Cardinality(K) : Pick(s, K)[m] = s[Nth(K, m)]
  BY <1>1, Picked DEF Pick
<1>7. Pick(s, K)[l] = x /\ \A m \in 1..(l - 1) : Pick(s, K)[m].isbn # x.isbn
  BY <1>2, <1>4, <1>5, <1>6
<1> QED BY <1>4, <1>6, <1>7 DEF Firsts

Editions(d) == {d.editions[i].path : i \in 1..Len(d.editions)}

\* A work has the first file of every ISBN as an edition.
LEMMA WorkIs ==
    ASSUME NEW g, IsSequence(g), 1 \in 1..Len(g), \A f \in ToSet(g) : f.isbn \subseteq Nat
    PROVE  /\ \E x \in ToSet(g) : WorkOf(g).title = x.title
           /\ \A f : Firsts(g, f) => PathOf(f) \in WorkOf(g).members /\ PathOf(f) \in Editions(WorkOf(g))
<1> DEFINE K == {i \in 1..Len(g) : \A j \in 1..(i - 1) : g[j].isbn # g[i].isbn}
           new == Pick(g, K)
           eds == Each(new, LAMBDA f : [isbn |-> Or(f.isbn, 0), path |-> PathOf(f)])
           key == Each(eds, LAMBDA e : e.isbn)
           d == WorkOf(g)
<1>1. IsSequence(new) /\ ToSet(new) = {g[i] : i \in K} /\ 1 \in K
  <2>1. K \in SUBSET (1..Len(g)) /\ 1 \in K
    OBVIOUS
  <2> HIDE DEF K
  <2> QED BY <2>1, Kept
<1>2. d = [root |-> new[1].dir, title |-> new[1].title, members |-> Every(new, PathOf),
           editions |-> PlacedBy(eds, key)]
  BY DEF WorkOf, KeepAt, StableBy
<1>3. \A f : Firsts(g, f) => f \in ToSet(new)
  <2> SUFFICES ASSUME NEW f, Firsts(g, f) PROVE \E i \in K : g[i] = f
    BY <1>1
  <2> QED BY DEF Firsts
<1>4. ToSet(g) = {g[i] : i \in 1..Len(g)}
  BY ItemsAre
<1>5. ToSet(new) \subseteq ToSet(g)
  <2> HIDE DEF new
  <2> QED BY <1>1, <1>4
<1> HIDE DEF K, new, d
<1>6. Len(new) \in Nat /\ ToSet(new) = {new[i] : i \in 1..Len(new)} /\ 1 \in 1..Len(new)
  <2>1. Len(new) \in Nat /\ ToSet(new) = {new[i] : i \in 1..Len(new)}
    BY <1>1, ItemsAre, SequenceIsList
  <2>2. PICK i \in 1..Len(new) : new[i] = g[1]
    BY <1>1, <2>1
  <2> QED BY <2>1, <2>2
<1>7. d.title = new[1].title /\ new[1] \in ToSet(g)
  BY <1>2, <1>5, <1>6
<1>8. d.members = {PathOf(new[i]) : i \in 1..Len(new)}
  BY <1>2 DEF Every
<1>9. IsSequence(eds) /\ Len(eds) = Len(new) /\ \A i \in 1..Len(new) : eds[i].path = PathOf(new[i]) /\ eds[i].isbn \in Nat
  <2>1. \A i \in 1..Len(new) : new[i].isbn \subseteq Nat
    BY <1>5, <1>6
  <2>2. \A i \in 1..Len(new) : Or(new[i].isbn, 0) \in Nat
    BY <2>1 DEF Or
  <2>3. eds = [i \in 1..Len(new) |-> [isbn |-> Or(new[i].isbn, 0), path |-> PathOf(new[i])]]
    BY DEF Each
  <2> HIDE DEF eds
  <2>4. eds = [i \in 1..Len(new) |-> eds[i]]
    BY <2>3
  <2>5. IsSequence(eds) /\ Len(eds) = Len(new)
    BY <1>6, <2>4, ListIsSequence
  <2> QED BY <2>2, <2>3, <2>5
<1> HIDE DEF eds
<1>10. key \in [1..Len(eds) -> Nat]
  BY <1>9 DEF Each
<1> HIDE DEF key
<1>11. IsSequence(d.editions) /\ ToSet(d.editions) = ToSet(eds)
  BY <1>2, <1>9, <1>10, PlacedSet
<1>12. ToSet(d.editions) = {d.editions[i] : i \in 1..Len(d.editions)} /\ ToSet(eds) = {eds[i] : i \in 1..Len(eds)}
  BY <1>9, <1>11, ItemsAre
<1>13. \A i \in 1..Len(new) : PathOf(new[i]) \in Editions(d)
  <2> TAKE i \in 1..Len(new)
  <2>1. eds[i] \in ToSet(d.editions) /\ eds[i].path = PathOf(new[i])
    BY <1>9, <1>11, <1>12
  <2>2. PICK k \in 1..Len(d.editions) : d.editions[k] = eds[i]
    BY <1>12, <2>1
  <2> QED BY <2>1, <2>2 DEF Editions
<1>14. \A f : Firsts(g, f) => PathOf(f) \in d.members /\ PathOf(f) \in Editions(d)
  BY <1>3, <1>6, <1>8, <1>13
<1> QED BY <1>7, <1>14 DEF d

\* The works of a library of books: the first file of its ISBN is an edition of its own.
LEMMA BooksFound ==
    ASSUME NEW s, IsSequence(s), \A f \in ToSet(s) : f.isbn \subseteq Nat
    PROVE  /\ IsFiniteSet(ScanBooks(s))
           /\ \A f : Firsts(s, f) /\ f.isbn # {} =>
                 \E d \in ScanBooks(s) : IsOwn(d, f, Norm[f.title]) /\ PathOf(f) \in Editions(d)
<1> DEFINE K == {i \in 1..Len(s) : s[i].isbn # {}}
           v == Pick(s, K)
           Key(f) == <<f.dir, Norm[f.title], f.authors>>
           key == [i \in 1..Len(v) |-> Key(v[i])]
           d == [i \in 1..Len(v) |-> WorkOf(AlikeIn(v, key, i))]
<1>1. K \in SUBSET (1..Len(s))
  OBVIOUS
<1>2. ScanBooks(s) = Grouped(v, Key, WorkOf)
  BY DEF ScanBooks, Select
<1>3. \A f : Firsts(s, f) /\ f.isbn # {} => Firsts(v, f)
  <2> SUFFICES ASSUME NEW f, Firsts(s, f), f.isbn # {} PROVE Firsts(v, f)
    OBVIOUS
  <2>1. \A j \in 1..Len(s) : s[j] = f => j \in K
    OBVIOUS
  <2> HIDE DEF K
  <2> QED BY <1>1, <2>1, FirstStays
<1> HIDE DEF K
<1>4. IsSequence(v) /\ ToSet(v) = {s[i] : i \in K}
  BY <1>1, Kept
<1>5. ToSet(s) = {s[i] : i \in 1..Len(s)}
  BY ItemsAre
<1> HIDE DEF v
<1>6. Len(v) \in Nat /\ ToSet(v) = {v[i] : i \in 1..Len(v)} /\ \A f \in ToSet(v) : f.isbn \subseteq Nat
  <2>1. Len(v) \in Nat /\ ToSet(v) = {v[i] : i \in 1..Len(v)}
    BY <1>4, ItemsAre, SequenceIsList
  <2>2. ToSet(v) \subseteq ToSet(s)
    BY <1>1, <1>4, <1>5
  <2> QED BY <2>1, <2>2
<1>7. Grouped(v, Key, WorkOf) = {d[i] : i \in 1..Len(v)}
  <2> DEFINE H(k) == WorkOf(Select(v, LAMBDA p : Key(p) = k))
  <2>1. \A l \in 1..Len(v) : {i \in 1..Len(v) : Key(v[i]) = Key(v[l])} = {i \in 1..Len(v) : key[i] = key[l]}
    OBVIOUS
  <2>2. \A l \in 1..Len(v) : H(Key(v[l])) = d[l]
    <3> HIDE DEF Key
    <3> QED BY <2>1 DEF Select, AlikeIn
  <2>3. Grouped(v, Key, WorkOf) = {H(k) : k \in {Key(v[i]) : i \in 1..Len(v)}}
    <3> HIDE DEF Key
    <3> QED BY DEF Grouped
  <2> HIDE DEF d, key, H, Key
  <2> QED BY <2>2, <2>3
<1>8. IsFiniteSet({d[i] : i \in 1..Len(v)})
  <2> HIDE DEF d
  <2> QED BY <1>6, FiniteDocuments
<1>9. ASSUME NEW f, Firsts(v, f)
      PROVE  \E l \in 1..Len(v) : IsOwn(d[l], f, Norm[f.title]) /\ PathOf(f) \in Editions(d[l])
  <2>1. PICK l \in 1..Len(v) : v[l] = f
    BY <1>9 DEF Firsts
  <2> DEFINE g == AlikeIn(v, key, l)
             I == {i \in 1..Len(v) : key[i] = key[l]}
  <2>2. IsSequence(g) /\ 1 \in 1..Len(g) /\ ToSet(g) = {v[i] : i \in I}
    <3> HIDE DEF key
    <3> QED BY <1>4, Alike
  <2>3. Firsts(g, f)
    <3>1. I \in SUBSET (1..Len(v)) /\ \A j \in 1..Len(v) : v[j] = f => j \in I
      BY <2>1
    <3>2. g = Pick(v, I)
      BY DEF AlikeIn
    <3> HIDE DEF I, g
    <3>3. Firsts(Pick(v, I), f)
      BY <1>4, <1>9, <3>1, FirstStays
    <3> QED BY <3>2, <3>3
  <2>4. \A x \in ToSet(g) : Norm[x.title] = Norm[f.title] /\ x.isbn \subseteq Nat
    <3>1. \A i \in I : Norm[v[i].title] = Norm[f.title]
      BY <2>1
    <3> HIDE DEF I, g, key
    <3>2. I \subseteq 1..Len(v)
      BY DEF I
    <3> QED BY <1>6, <2>2, <3>1, <3>2
  <2>5. d[l] = WorkOf(g)
    OBVIOUS
  <2> HIDE DEF d, g, I
  <2>6. PICK x \in ToSet(g) : WorkOf(g).title = x.title
    BY <2>2, <2>4, WorkIs
  <2>7. PathOf(f) \in WorkOf(g).members /\ PathOf(f) \in Editions(WorkOf(g))
    BY <2>2, <2>3, <2>4, WorkIs
  <2> QED BY <2>4, <2>5, <2>6, <2>7 DEF IsOwn
<1> HIDE DEF d, key, Key
<1> QED BY <1>2, <1>3, <1>7, <1>8, <1>9

-----------------------------------------------------------------------------
(***************************************************************************)
(* The document of a path.                                                 *)
(***************************************************************************)

Kinds == {"television", "anime", "music", "book"}

\* A document that is chosen was found.
LEMMA SelectedIn ==
    ASSUME NEW kind, NEW found, IsFiniteSet(found), NEW path, NEW directory \in BOOLEAN,
           Selected(kind, found, path, directory) # NoDocument
    PROVE  /\ found # NoDocument /\ Selected(kind, found, path, directory) \in found
           /\ directory => Selected(kind, found, path, directory) = TheOnly(found)
<1> DEFINE c == Selected(kind, found, path, directory)
<1>1. found # NoDocument
  BY DEF Selected
<1>2. \A S \in SUBSET found : TheOnly(S) # NoDocument => TheOnly(S) \in found
  BY FS_Subset, OnlyIs
<1>3. CASE kind = "book"
  <2>1. c = SelectBook(found, path, directory)
    BY <1>1, <1>3 DEF Selected
  <2>2. CASE directory
    <3>1. c = TheOnly(found)
      BY <2>1, <2>2 DEF SelectBook
    <3> QED BY <1>1, <1>2, <2>2, <3>1
  <2>3. CASE ~ directory
    <3> DEFINE S == {d \in found : path \in {d.editions[i].path : i \in 1..Len(d.editions)}}
    <3>1. c = TheOnly(S) /\ S \in SUBSET found
      BY <2>1, <2>3 DEF SelectBook
    <3> HIDE DEF S
    <3> QED BY <1>1, <1>2, <2>3, <3>1
  <2> QED BY <2>2, <2>3
<1>4. CASE kind # "book"
  <2>1. c = SelectRooted(found, path, directory)
    BY <1>1, <1>4 DEF Selected
  <2>2. CASE directory
    <3>1. c = TheOnly(found)
      BY <2>1, <2>2 DEF SelectRooted
    <3> QED BY <1>1, <1>2, <2>2, <3>1
  <2>3. CASE ~ directory
    <3> DEFINE around == {d \in found : IsPrefix(d.root, path)}
               S == {d \in around : \A e \in around : Len(e.root) <= Len(d.root)}
    <3>1. c = TheOnly(S)
      BY <2>1, <2>3 DEF SelectRooted
    <3>2. S \in SUBSET found
      OBVIOUS
    <3> HIDE DEF S
    <3> QED BY <1>1, <1>2, <2>3, <3>1, <3>2
  <2> QED BY <2>2, <2>3
<1> QED BY <1>3, <1>4

\* Nothing is in front of nothing.
LEMMA NoFront == Front(<<>>) = <<>>
<1>1. Len(<<>>) = 0
  BY NoItem
<1>2. <<>> \in Seq({}) /\ Len(<<>>) - 1 < 1
  BY <1>1
<1>3. \A m, n \in Int : m > n => SubSeq(<<>>, m, n) = <<>>
  BY <1>2, SubSeqEmpty
<1> QED BY <1>1, <1>3 DEF Front

\* The command line takes the document that is chosen, or none.
LEMMA CommandIs ==
    ASSUME NEW kind \in Kinds, NEW found, IsFiniteSet(found), NEW chosen \in found, NEW file, NEW path,
           NEW directory \in BOOLEAN, NEW placed \in BOOLEAN,
           NEW c \in CommandOf(kind, found, file, path, directory, placed)
    PROVE  /\ c.document = chosen
           /\ c.output = IF placed /\ kind = "television" THEN Front(chosen.root) ELSE chosen.root
<1>1. \A d \in Sole(found) : d = chosen
  <2> SUFFICES ASSUME NEW d \in Sole(found) PROVE d = chosen
    OBVIOUS
  <2>1. Cardinality(found) = 1 /\ d \in found
    BY DEF Sole
  <2>2. PICK e : found = {e}
    BY <2>1, FS_Singleton
  <2> QED BY <2>1, <2>2
<1>2. CASE kind = "anime"
  <2>1. c \in AnimeCommand(found, placed)
    BY <1>2 DEF CommandOf
  <2>2. PICK d \in Sole(found) : c = Command(d, d.title, d.root)
    BY <2>1 DEF AnimeCommand
  <2> QED BY <1>1, <1>2, <2>2 DEF Command
<1>3. CASE kind = "music"
  <2>1. c \in MusicCommand(found, placed)
    BY <1>3 DEF CommandOf
  <2>2. PICK d \in Sole(found) : c = Command(d, d.title, d.root)
    BY <2>1 DEF MusicCommand
  <2> QED BY <1>1, <1>3, <2>2 DEF Command
<1>4. CASE kind = "book"
  <2>1. c \in BookCommand(found, path, directory, placed)
    BY <1>4 DEF CommandOf
  <2>2. PICK d \in Sole(found) : c = Command(d, d.title, d.root)
    BY <2>1 DEF BookCommand
  <2> QED BY <1>1, <1>4, <2>2 DEF Command
<1>5. CASE kind = "television"
  <2> DEFINE hint == UNION {Identified(f) : f \in file}
  <2>1. c \in TelevisionCommand(found, hint, directory, placed)
    BY <1>5 DEF CommandOf
  <2> HIDE DEF hint
  <2>2. PICK d \in Sole(found) :
           c = Command(d, Or({h.title : h \in hint}, d.title),
                       IF placed /\ d.root # <<>> THEN Front(d.root) ELSE d.root)
    BY <2>1 DEF TelevisionCommand
  <2>3. c.document = d /\ c.output = IF placed /\ d.root # <<>> THEN Front(d.root) ELSE d.root
    BY <2>2 DEF Command
  <2> QED BY <1>1, <1>5, <2>3, NoFront
<1> QED BY <1>2, <1>3, <1>4, <1>5 DEF Kinds

\* The files that a path stands for.
StandsFor(s, path, directory, own) ==
    IF directory THEN own = {i \in 1..Len(s) : IsPrefix(path, s[i].dir)}
    ELSE \E n \in 1..Len(s) : own = {n} /\ path = PathOf(s[n])

\* They are scanned for it.
LEMMA OwnAreScanned ==
    ASSUME NEW s, IsSequence(s), \A i \in 1..Len(s) : IsSequence(s[i].dir), NEW path, NEW directory \in BOOLEAN,
           NEW own, StandsFor(s, path, directory, own), NEW i \in own, ~ s[i].linked
    PROVE  i \in 1..Len(s) /\ s[i] \in ToSet(s) /\ s[i] \in ToSet(Scanned(s, ScanRoot(path, directory)))
<1>1. i \in 1..Len(s)
  BY DEF StandsFor
<1>2. IsPrefix(ScanRoot(path, directory), s[i].dir)
  <2>1. CASE directory
    BY <2>1 DEF StandsFor, ScanRoot
  <2>2. CASE ~ directory
    <3>1. path = Append(s[i].dir, s[i].name)
      BY <2>2 DEF StandsFor, PathOf
    <3>2. PICK N : s[i].dir \in Seq(N) /\ s[i].name \in N
      BY <1>1, OneSet
    <3>3. Front(path) = s[i].dir /\ IsPrefix(s[i].dir, s[i].dir)
      BY <3>1, <3>2, FrontIs
    <3> QED BY <2>2, <3>3 DEF ScanRoot
  <2> QED BY <2>1, <2>2
<1>3. ToSet(s) = {s[j] : j \in 1..Len(s)}
  BY ItemsAre
<1> QED BY <1>1, <1>2, <1>3, ScannedIs

\* What holds of the files of a library, and of their layout.
IsLibrary(kind, s) ==
    /\ IsSequence(s) /\ \A i \in 1..Len(s) : IsSequence(s[i].dir)
    /\ \A i, j \in 1..Len(s) : PathOf(s[i]) = PathOf(s[j]) => i = j
    /\ \A i, j \in 1..Len(s) : ~ IsPrefix(PathOf(s[i]), s[j].dir)
    /\ kind = "music" => \A i \in 1..Len(s) : s[i].kind # "cue" => AlbumRoot(s[i].dir) = s[i].dir
    /\ kind = "book" => \A i \in 1..Len(s) : s[i].isbn \subseteq Nat
    /\ kind \in {"television", "anime", "music"} => \A i \in 1..Len(s) : ~ Nested(FoldersOf(kind), s[i].dir)

\* Samples are libraries.
LEMMA SampleIsLibrary ==
    ASSUME NEW s, IsScanSample(s), PlainLayout(s.files) PROVE IsLibrary(s.kind, s.files)
<1> DEFINE F == s.files
<1>1. /\ IsSequence(F) /\ \A i \in 1..Len(F) : IsSequence(F[i].dir)
      /\ \A i, j \in 1..Len(F) : PathOf(F[i]) = PathOf(F[j]) => i = j
      /\ \A i, j \in 1..Len(F) : ~ IsPrefix(PathOf(F[i]), F[j].dir)
      /\ s.kind = "book" => \A i \in 1..Len(F) : F[i].isbn \subseteq Nat
      /\ s.kind = "music" => \A i \in 1..Len(F) : "kind" \in DOMAIN F[i]
  BY DEF IsScanSample
<1>2. \A i \in 1..Len(F) :
         /\ ~ Nested(DOMAIN FolderSeason, F[i].dir) /\ ~ Nested(DOMAIN FolderDisc, F[i].dir)
         /\ "kind" \in DOMAIN F[i] /\ AlbumRoot(F[i].dir) # F[i].dir => F[i].kind = "cue"
  BY DEF PlainLayout
<1>3. s.kind \in {"television", "anime", "music"} => \A i \in 1..Len(F) : ~ Nested(FoldersOf(s.kind), F[i].dir)
  BY <1>2 DEF FoldersOf, Nested
<1> HIDE DEF F
<1>4. IsLibrary(s.kind, F)
  BY <1>1, <1>2, <1>3 DEF IsLibrary
<1> QED BY <1>4 DEF F

\* The documents of the kinds that are chosen by their roots.
LEMMA RootedFound ==
    ASSUME NEW kind \in {"television", "anime", "music"}, NEW s, IsLibrary(kind, s), NEW root,
           ScanKind(kind, Scanned(s, root)) # NoDocument
    PROVE  LET files == Scanned(s, root) IN
           Finds(ScanKind(kind, files), Contributors(kind, files), Roots(kind, files), Works(kind, files))
<1> DEFINE t == Scanned(s, root)
<1>1. IsSequence(t) /\ ToSet(t) = {f \in ToSet(s) : IsPrefix(root, f.dir) /\ ~ f.linked}
  BY ScannedIs DEF IsLibrary
<1>2. ToSet(s) = {s[i] : i \in 1..Len(s)}
  BY ItemsAre DEF IsLibrary
<1>3. \A f \in ToSet(t) : ~ f.linked
  BY <1>1
<1>4. kind = "music" => \A f \in ToSet(t) : f.kind # "cue" => AlbumRoot(f.dir) = f.dir
  BY <1>1, <1>2 DEF IsLibrary
<1> HIDE DEF t
<1>5. CASE kind = "television"
  <2>1. ScanKind(kind, t) = ScanTelevision(t) /\ ScanTelevision(t) # NoDocument
    BY <1>5 DEF ScanKind, t
  <2> QED BY <1>1, <1>3, <1>5, <2>1, SeriesFound DEF t
<1>6. CASE kind = "anime"
  <2>1. ScanKind(kind, t) = ScanAnime(t)
    BY <1>6 DEF ScanKind
  <2> QED BY <1>1, <1>3, <1>6, <2>1, AnimeFound DEF t
<1>7. CASE kind = "music"
  <2>1. ScanKind(kind, t) = ScanMusic(t)
    BY <1>7 DEF ScanKind
  <2> QED BY <1>1, <1>3, <1>4, <1>7, <2>1, AlbumsFound DEF t
<1> QED BY <1>5, <1>6, <1>7

\* A file that says what it is is a contributor, and no root around it is deeper than its own.
LEMMA OwnRoot ==
    ASSUME NEW kind \in {"television", "anime", "music"}, NEW s, IsLibrary(kind, s), NEW root,
           NEW n \in 1..Len(s), s[n] \in ToSet(Scanned(s, root)), Contributes(kind, s[n])
    PROVE  LET files == Scanned(s, root) IN
           /\ s[n] \in Contributors(kind, files) /\ Works(kind, files)[s[n]] = OwnWork(kind, s[n])
           /\ IsPrefix(Roots(kind, files)[s[n]], PathOf(s[n]))
           /\ \A g \in Contributors(kind, files) : IsPrefix(Roots(kind, files)[g], PathOf(s[n]))
                 => Len(Roots(kind, files)[g]) <= Len(Roots(kind, files)[s[n]])
<1> DEFINE t == Scanned(s, root)
           f == s[n]
           folders == FoldersOf(kind)
<1>1. IsSequence(s) /\ ToSet(t) \subseteq {s[i] : i \in 1..Len(s)}
  BY ScannedIs, ItemsAre DEF IsLibrary
<1>2. f \in Contributors(kind, t)
  BY DEF Contributors
<1> HIDE DEF t
<1>3. Works(kind, t)[f] = OwnWork(kind, f) /\ Roots(kind, t)[f] = RootIn(folders, f.dir)
  BY <1>2 DEF Works, Roots
<1> DEFINE at == RootIn(folders, f.dir)
<1>4. ASSUME NEW g \in Contributors(kind, t)
      PROVE  /\ Roots(kind, t)[g] = RootIn(folders, g.dir) /\ IsPrefix(at, PathOf(f))
             /\ IsPrefix(RootIn(folders, g.dir), PathOf(f)) => Len(RootIn(folders, g.dir)) <= Len(at)
  <2>1. PICK m \in 1..Len(s) : g = s[m]
    BY <1>1 DEF Contributors
  <2>2. IsSequence(f.dir) /\ IsSequence(g.dir) /\ ~ IsPrefix(PathOf(f), g.dir) /\ ~ Nested(folders, g.dir)
    BY <2>1 DEF IsLibrary
  <2> HIDE DEF f, folders
  <2>3. PICK N : f.dir \in Seq(N) /\ g.dir \in Seq(N) /\ f.name \in N
    BY <2>2, OneSet
  <2>4. ~ IsPrefix(Append(f.dir, f.name), g.dir) /\ PathOf(f) = Append(f.dir, f.name)
    BY <2>2 DEF PathOf
  <2>5. /\ IsPrefix(RootIn(folders, f.dir), PathOf(f))
        /\ IsPrefix(RootIn(folders, g.dir), PathOf(f)) => Len(RootIn(folders, g.dir)) <= Len(RootIn(folders, f.dir))
    BY <2>2, <2>3, <2>4, DeepestRoot
  <2>6. Roots(kind, t)[g] = RootIn(folders, g.dir)
    BY DEF Roots, folders
  <2> QED BY <2>5, <2>6
<1> HIDE DEF f, folders, at
<1>5. IsPrefix(Roots(kind, t)[f], PathOf(f))
  BY <1>2, <1>3, <1>4 DEF at
<1>6. \A g \in Contributors(kind, t) : IsPrefix(Roots(kind, t)[g], PathOf(f)) => Len(Roots(kind, t)[g]) <= Len(Roots(kind, t)[f])
  BY <1>3, <1>4 DEF at
<1> QED BY <1>2, <1>3, <1>5, <1>6 DEF t, f

\* The document of a file, or of a directory, is that of the work it is part of.
LEMMA ChosenByRoot ==
    ASSUME NEW kind \in {"television", "anime", "music"}, NEW s, IsLibrary(kind, s), NEW path,
           NEW directory \in BOOLEAN, NEW own, StandsFor(s, path, directory, own),
           ServerDocument(kind, s, path, directory) # NoDocument
    PROVE  /\ IsFiniteSet(ScanKind(kind, Scanned(s, ScanRoot(path, directory))))
           /\ \A i \in own : Contributes(kind, s[i]) =>
                 IsOwn(ServerDocument(kind, s, path, directory), s[i], OwnWork(kind, s[i]))
<1> DEFINE t == Scanned(s, ScanRoot(path, directory))
           found == ScanKind(kind, t)
           c == ServerDocument(kind, s, path, directory)
           G == Contributors(kind, t)
<1>1. c = Selected(kind, found, path, directory)
  BY DEF ServerDocument
<1>2. found # NoDocument
  BY <1>1 DEF Selected
<1>3. Finds(found, G, Roots(kind, t), Works(kind, t))
  BY <1>2, RootedFound
<1>4. IsFiniteSet(found)
  BY <1>3 DEF Finds
<1>5. ASSUME NEW i \in own, Contributes(kind, s[i])
      PROVE  IsOwn(c, s[i], OwnWork(kind, s[i]))
  <2>1. ~ s[i].linked
    BY <1>5 DEF Contributes
  <2>2. i \in 1..Len(s) /\ s[i] \in ToSet(t)
    <3>1. IsSequence(s) /\ \A j \in 1..Len(s) : IsSequence(s[j].dir)
      BY DEF IsLibrary
    <3> QED BY <2>1, <3>1, OwnAreScanned
  <2>3. /\ s[i] \in G /\ Works(kind, t)[s[i]] = OwnWork(kind, s[i])
        /\ IsPrefix(Roots(kind, t)[s[i]], PathOf(s[i]))
        /\ \A g \in G : IsPrefix(Roots(kind, t)[g], PathOf(s[i]))
              => Len(Roots(kind, t)[g]) <= Len(Roots(kind, t)[s[i]])
    BY <1>5, <2>2, OwnRoot
  <2>4. CASE directory
    <3> HIDE DEF c, found, t, G
    <3>1. c = TheOnly(found)
      BY <1>1, <1>4, <2>4, SelectedIn DEF c
    <3>2. TheOnly(found) # NoDocument
      BY <3>1 DEF c
    <3> QED BY <1>3, <2>3, <3>1, <3>2, WholeIs
  <2>5. CASE ~ directory
    <3>1. path = PathOf(s[i])
      BY <2>5 DEF StandsFor
    <3> HIDE DEF c, found, t, G
    <3>2. c = SelectRooted(found, path, FALSE)
      BY <1>1, <1>2, <2>5 DEF Selected
    <3>3. SelectRooted(found, path, FALSE) # NoDocument
      BY <3>2 DEF c
    <3> QED BY <1>3, <2>3, <3>1, <3>2, <3>3, RootedIs
  <2> QED BY <2>4, <2>5
<1> QED BY <1>4, <1>5

\* The document of a book, or of a directory of editions, is that of the work it is an edition of.
LEMMA ChosenByPath ==
    ASSUME NEW s, IsLibrary("book", s), NEW path,
           NEW directory \in BOOLEAN, NEW own, StandsFor(s, path, directory, own),
           ServerDocument("book", s, path, directory) # NoDocument
    PROVE  /\ IsFiniteSet(ScanKind("book", Scanned(s, ScanRoot(path, directory))))
           /\ \A i \in own : Contributes("book", s[i]) /\ (\A j \in 1..(i - 1) : s[j].isbn # s[i].isbn) =>
                 IsOwn(ServerDocument("book", s, path, directory), s[i], OwnWork("book", s[i]))
<1> DEFINE root == ScanRoot(path, directory)
           t == Scanned(s, root)
           found == ScanKind("book", t)
           c == ServerDocument("book", s, path, directory)
<1>1. c = Selected("book", found, path, directory)
  BY DEF ServerDocument
<1>2. found # NoDocument
  BY <1>1 DEF Selected
<1>3. IsSequence(t) /\ ToSet(t) \subseteq {s[i] : i \in 1..Len(s)}
  BY ScannedIs, ItemsAre DEF IsLibrary
<1>4. \A f \in ToSet(t) : f.isbn \subseteq Nat
  BY <1>3 DEF IsLibrary
<1>5. found = ScanBooks(t)
  BY DEF ScanKind
<1>6. /\ IsFiniteSet(found)
      /\ \A f : Firsts(t, f) /\ f.isbn # {} =>
            \E d \in found : IsOwn(d, f, Norm[f.title]) /\ PathOf(f) \in Editions(d)
  <2> HIDE DEF t, found
  <2> QED BY <1>3, <1>4, <1>5, BooksFound
<1>7. ASSUME NEW i \in own, Contributes("book", s[i]), \A j \in 1..(i - 1) : s[j].isbn # s[i].isbn
      PROVE  IsOwn(c, s[i], OwnWork("book", s[i]))
  <2>1. ~ s[i].linked /\ s[i].isbn # {} /\ OwnWork("book", s[i]) = Norm[s[i].title]
    BY <1>7 DEF Contributes, OwnWork
  <2>2. i \in 1..Len(s) /\ s[i] \in ToSet(t)
    <3>1. IsSequence(s) /\ \A j \in 1..Len(s) : IsSequence(s[j].dir)
      BY DEF IsLibrary
    <3> QED BY <2>1, <3>1, OwnAreScanned
  <2>3. Firsts(t, s[i])
    <3> DEFINE K == {j \in 1..Len(s) : IsPrefix(root, s[j].dir) /\ ~ s[j].linked}
    <3>1. t = Pick(s, K) /\ K \in SUBSET (1..Len(s)) /\ IsSequence(s)
      BY DEF Scanned, Select, IsLibrary
    <3>2. Firsts(s, s[i])
      BY <1>7, <2>2 DEF Firsts
    <3>3. \A j \in 1..Len(s) : s[j] = s[i] => j \in K
      <4>1. IsPrefix(root, s[i].dir) /\ ~ s[i].linked
        BY <2>2, ScannedIs DEF IsLibrary
      <4> QED BY <4>1
    <3> HIDE DEF K, t
    <3>4. Firsts(Pick(s, K), s[i])
      BY <3>1, <3>2, <3>3, FirstStays
    <3> QED BY <3>1, <3>4
  <2>4. PICK d \in found : IsOwn(d, s[i], Norm[s[i].title]) /\ PathOf(s[i]) \in Editions(d)
    BY <1>6, <2>1, <2>3
  <2> HIDE DEF found, t, root
  <2>5. CASE directory
    <3> HIDE DEF c
    <3>1. c = TheOnly(found) /\ c # NoDocument
      BY <1>1, <1>6, <2>5, SelectedIn DEF c
    <3>2. found = {TheOnly(found)}
      BY <1>6, <3>1, OnlyIs
    <3> QED BY <2>1, <2>4, <3>1, <3>2
  <2>6. CASE ~ directory
    <3>1. path = PathOf(s[i])
      BY <2>6 DEF StandsFor
    <3> DEFINE S == {e \in found : path \in Editions(e)}
    <3>2. c = TheOnly(S)
      BY <1>1, <1>2, <2>6 DEF Selected, SelectBook, Editions
    <3>3. d \in S /\ S \in SUBSET found
      BY <2>4, <3>1
    <3> HIDE DEF S, c
    <3>4. IsFiniteSet(S) /\ TheOnly(S) # NoDocument
      BY <1>6, <3>2, <3>3, FS_Subset DEF c
    <3>5. S = {TheOnly(S)}
      BY <3>4, OnlyIs
    <3> QED BY <2>1, <2>4, <3>2, <3>3, <3>5
  <2> QED BY <2>5, <2>6
<1> QED BY <1>6, <1>7

\* A movie file has a document of its own; of those that the command line ranks
\* one has its title, or the title it is searched by.
LEMMA ChosenMovie ==
    ASSUME NEW s, IsLibrary("movie", s), NEW n \in 1..Len(s), NEW placed \in BOOLEAN,
           ServerDocument("movie", s, PathOf(s[n]), FALSE) # NoDocument
    PROVE  LET chosen == ServerDocument("movie", s, PathOf(s[n]), FALSE)
               commands == CommandLine("movie", s, PathOf(s[n]), FALSE, placed)
           IN  /\ PathOf(s[n]) \in chosen.members /\ \A c \in commands : c.output = chosen.root
               /\ MovieIsRanked(s[n], chosen, commands)
<1> DEFINE f == s[n]
           path == PathOf(f)
           chosen == ServerDocument("movie", s, path, FALSE)
           commands == CommandLine("movie", s, path, FALSE, placed)
           t == Scanned(s, ScanRoot(path, FALSE))
           found == ScanKind("movie", t)
           file == {g \in ToSet(s) : PathOf(g) = path}
           documents == IF found = {} THEN FromHint({f.hint}) ELSE found
           sidecar == IF f.json # {} THEN f.json ELSE f.nfo
           Titled(title) == [root |-> f.dir, title |-> title, members |-> {path}]
<1>1. ToSet(s) = {s[i] : i \in 1..Len(s)} /\ \A i, j \in 1..Len(s) : PathOf(s[i]) = PathOf(s[j]) => i = j
  BY ItemsAre DEF IsLibrary
<1>2. file = {f}
  BY <1>1
<1>3. Front(path) = f.dir /\ IsPrefix(f.dir, f.dir)
  <2>1. PICK N : f.dir \in Seq(N) /\ f.name \in N
    BY OneSet DEF IsLibrary
  <2>2. path = Append(f.dir, f.name)
    BY DEF PathOf
  <2> HIDE DEF f, path
  <2>3. Front(Append(f.dir, f.name)) = f.dir /\ IsPrefix(f.dir, f.dir)
    BY <2>1, FrontIs
  <2> QED BY <2>2, <2>3
<1>4. chosen = MovieOf(f)
  <2>1. (CHOOSE g \in ToSet(s) : PathOf(g) = path) \in file
    BY <1>1
  <2>2. (CHOOSE g \in ToSet(s) : PathOf(g) = path) = f
    <3> HIDE DEF f, file
    <3> QED BY <1>2, <2>1
  <2> HIDE DEF f, path
  <2> QED BY <2>2 DEF ServerDocument
<1>5. commands = MovieCommand(found, {f.hint}, path, FALSE, placed)
  <2>1. {g.hint : g \in file} = {f.hint}
    <3> HIDE DEF f, file
    <3> QED BY <1>2
  <2>2. commands = CommandOf("movie", found, file, path, FALSE, placed)
    BY DEF CommandLine
  <2> HIDE DEF f, file, found, commands, path
  <2> QED BY <2>1, <2>2 DEF CommandOf
<1>6. commands = {Command(d, f.hint, f.dir) : d \in documents}
  <2>1. ScanRoot(path, FALSE) = f.dir
    BY <1>3 DEF ScanRoot
  <2> HIDE DEF f, found, commands, path
  <2>2. MovieQuery({f.hint}, documents, FALSE) = {f.hint}
    BY DEF MovieQuery
  <2> DEFINE q == MovieQuery({f.hint}, documents, FALSE)
             root == ScanRoot(path, FALSE)
             ask == {Command(d, title, root) : d \in {e \in documents : ~ (placed /\ FALSE)}, title \in q}
  <2>3. commands = ask
    BY <1>5 DEF MovieCommand
  <2>4. q = {f.hint} /\ root = f.dir
    BY <2>1, <2>2
  <2> HIDE DEF q, root, documents
  <2>5. ask = {Command(d, f.hint, f.dir) : d \in documents}
    BY <2>4
  <2> HIDE DEF ask
  <2> QED BY <2>3, <2>5
<1>7. \E title : chosen = Titled(title) /\ IF sidecar = {} THEN title = f.hint
                                           ELSE \E x \in sidecar : title \in x
  <2>1. CASE sidecar = {}
    <3>1. chosen = Titled(f.hint)
      BY <1>4, <2>1 DEF MovieOf
    <3> HIDE DEF chosen, sidecar, Titled
    <3> QED BY <2>1, <3>1
  <2>2. CASE sidecar # {}
    <3> DEFINE x == Or(sidecar, {})
    <3>1. x \in sidecar
      BY <2>2 DEF Or
    <3>2. chosen = IF x = {} THEN NoDocument ELSE Titled(Or(x, ""))
      BY <1>4, <2>2 DEF MovieOf
    <3> HIDE DEF x, sidecar, Titled, chosen
    <3>3. x # {} /\ chosen = Titled(Or(x, ""))
      BY <3>2 DEF chosen
    <3>4. Or(x, "") \in x
      BY <3>3 DEF Or
    <3> QED BY <2>2, <3>1, <3>3, <3>4
  <2> QED BY <2>1, <2>2
<1>8. PICK title : chosen = Titled(title) /\ IF sidecar = {} THEN title = f.hint ELSE \E x \in sidecar : title \in x
  BY <1>7
<1>9. chosen.root = f.dir /\ path \in chosen.members /\ chosen.title = title
  <2> HIDE DEF chosen, f, path
  <2> QED BY <1>8
<1>10. \A c \in commands : c.output = chosen.root
  <2> HIDE DEF commands, chosen, documents, f
  <2> QED BY <1>6, <1>9 DEF Command
<1>11. MovieIsRanked(f, chosen, commands)
  <2> SUFFICES ASSUME ~ f.linked
               PROVE  \E c \in commands : chosen.title = IF f.json \cup f.nfo = {} THEN c.title ELSE c.document.title
    BY DEF MovieIsRanked
  <2>1. CASE f.json \cup f.nfo = {}
    <3>1. title = f.hint
      BY <1>8, <2>1
    <3>2. \E d : d \in documents
      <4>1. [root |-> <<>>, title |-> f.hint, members |-> {}, from |-> "name"] \in FromHint({f.hint})
        BY DEF FromHint
      <4> HIDE DEF found
      <4> QED BY <4>1
    <3>3. PICK d \in documents : TRUE
      BY <3>2
    <3>4. Command(d, f.hint, f.dir) \in commands /\ Command(d, f.hint, f.dir).title = f.hint
      <4> HIDE DEF documents, commands, f
      <4> QED BY <1>6, <3>3 DEF Command
    <3> HIDE DEF chosen, commands, documents
    <3> QED BY <1>9, <2>1, <3>1, <3>4
  <2>2. CASE f.json \cup f.nfo # {}
    <3>1. PICK x \in sidecar : title \in x
      BY <1>8, <2>2
    <3>2. f \in ToSet(t)
      <4>1. f \in ToSet(s) /\ IsSequence(s)
        BY <1>1 DEF IsLibrary
      <4>2. IsPrefix(ScanRoot(path, FALSE), f.dir)
        BY <1>3 DEF ScanRoot
      <4> HIDE DEF f, path
      <4> QED BY <4>1, <4>2, ScannedIs
    <3>3. \E d \in ScanMovies(t) : d.title = title
      <4> DEFINE from == IF f.json # {} THEN "json" ELSE "nfo"
                 d == [root |-> f.dir, title |-> title, members |-> {PathOf(f)}, from |-> from]
                 Titles1(g, h) == UNION (IF h = "json" THEN g.json ELSE g.nfo)
                 T(g, h) == {[root |-> g.dir, title |-> x1, members |-> {PathOf(g)}, from |-> h] : x1 \in Titles1(g, h)}
      <4>1. title \in Titles1(f, from) /\ from \in {"json", "nfo"}
        BY <3>1
      <4>2. ScanMovies(t) = UNION {T(g, h) : g \in ToSet(t), h \in {"json", "nfo"}}
        BY DEF ScanMovies
      <4> HIDE DEF Titles1, from, t
      <4>3. d \in T(f, from)
        BY <4>1
      <4> HIDE DEF d, f, T
      <4>4. d \in ScanMovies(t)
        BY <3>2, <4>1, <4>2, <4>3
      <4> QED BY <4>4 DEF d
    <3>4. PICK d \in documents : d.title = title
      <4>1. found = ScanMovies(t)
        BY DEF ScanKind
      <4> HIDE DEF found, t
      <4> QED BY <3>3, <4>1
    <3>5. Command(d, f.hint, f.dir) \in commands /\ Command(d, f.hint, f.dir).document = d
      <4> HIDE DEF documents, commands, f
      <4> QED BY <1>6, <3>4 DEF Command
    <3> HIDE DEF chosen, commands, documents
    <3> QED BY <1>9, <2>2, <3>4, <3>5
  <2> QED BY <2>1, <2>2
<1> QED BY <1>9, <1>10, <1>11

\* Whatever a path stands for: its document is its own, and what the command line takes.
LEMMA OwnIs ==
    ASSUME NEW kind \in Kinds, NEW s, IsLibrary(kind, s), NEW path, NEW directory \in BOOLEAN,
           NEW own, StandsFor(s, path, directory, own)
    PROVE  OwnOf(kind, s, directory, own, path)
<1> DEFINE chosen == ServerDocument(kind, s, path, directory)
           found == ScanKind(kind, Scanned(s, ScanRoot(path, directory)))
           file == {f \in ToSet(s) : PathOf(f) = path}
           Commands(placed) == CommandLine(kind, s, path, directory, placed)
<1>1. kind # "movie"
  BY DEF Kinds
<1>2. ASSUME chosen # NoDocument
      PROVE  /\ IsFiniteSet(found)
             /\ \A i \in own : Contributes(kind, s[i]) /\ (kind = "book" => \A j \in 1..(i - 1) : s[j].isbn # s[i].isbn)
                                => IsOwn(chosen, s[i], OwnWork(kind, s[i]))
  <2>1. CASE kind \in {"television", "anime", "music"}
    BY <1>2, <2>1, ChosenByRoot
  <2>2. CASE kind = "book"
    BY <1>2, <2>2, ChosenByPath
  <2> QED BY <2>1, <2>2 DEF Kinds
<1>3. ChosenIsOwn(kind, s, own, chosen)
  <2> HIDE DEF chosen, found
  <2> QED BY <1>2 DEF ChosenIsOwn, IsOwn
<1>4. ASSUME NEW placed \in BOOLEAN PROVE CommandIsChosen(kind, chosen, Commands(placed), placed)
  <2> SUFFICES ASSUME chosen # NoDocument, NEW c \in Commands(placed)
               PROVE  /\ c.document = chosen
                      /\ c.output = IF placed /\ kind = "television" THEN Front(chosen.root) ELSE chosen.root
    <3> HIDE DEF chosen, Commands
    <3> QED BY DEF CommandIsChosen
  <2>1. IsFiniteSet(found)
    BY <1>2
  <2>2. chosen = Selected(kind, found, path, directory)
    BY <1>1 DEF ServerDocument
  <2>3. chosen \in found
    <3> HIDE DEF chosen, found
    <3>1. Selected(kind, found, path, directory) # NoDocument
      BY <2>2
    <3> QED BY <2>1, <2>2, <3>1, SelectedIn
  <2>4. c \in CommandOf(kind, found, file, path, directory, placed)
    BY DEF CommandLine
  <2> HIDE DEF chosen, found, file, Commands
  <2> QED BY <2>1, <2>3, <2>4, CommandIs
<1> HIDE DEF chosen, Commands
<1>5. \A x \in {chosen}, placed \in BOOLEAN :
         /\ ChosenIsOwn(kind, s, own, x)
         /\ CommandIsChosen(kind, x, Commands(placed), placed)
  BY <1>3, <1>4
<1> QED BY <1>1, <1>5 DEF OwnOf, chosen, Commands

\* A movie's is its own, too; a directory of movies has no document that would be of one.
LEMMA OwnMovie ==
    ASSUME NEW s, IsLibrary("movie", s), NEW path, NEW directory \in BOOLEAN, NEW own,
           IF directory THEN own = {} ELSE \E n \in 1..Len(s) : own = {n} /\ path = PathOf(s[n])
    PROVE  OwnOf("movie", s, directory, own, path)
<1> DEFINE chosen == ServerDocument("movie", s, path, directory)
           Commands(placed) == CommandLine("movie", s, path, directory, placed)
<1>1. CASE directory
  <2> HIDE DEF chosen, Commands
  <2>1. \A x \in {chosen}, placed \in BOOLEAN :
           /\ ChosenIsOwn("movie", s, own, x)
           /\ \A i \in own : MovieIsRanked(s[i], x, Commands(placed))
    BY <1>1 DEF ChosenIsOwn
  <2> QED BY <1>1, <2>1 DEF OwnOf, chosen, Commands
<1>2. CASE ~ directory
  <2>1. PICK n \in 1..Len(s) : own = {n} /\ path = PathOf(s[n])
    BY <1>2
  <2>2. ASSUME NEW placed \in BOOLEAN, chosen # NoDocument
        PROVE  /\ PathOf(s[n]) \in chosen.members /\ \A c \in Commands(placed) : c.output = chosen.root
               /\ MovieIsRanked(s[n], chosen, Commands(placed))
    <3>1. chosen = ServerDocument("movie", s, PathOf(s[n]), FALSE)
          /\ Commands(placed) = CommandLine("movie", s, PathOf(s[n]), FALSE, placed)
      BY <1>2, <2>1
    <3> HIDE DEF chosen, Commands
    <3>2. ServerDocument("movie", s, PathOf(s[n]), FALSE) # NoDocument
      BY <2>2, <3>1
    <3>3. LET x == ServerDocument("movie", s, PathOf(s[n]), FALSE)
              commands == CommandLine("movie", s, PathOf(s[n]), FALSE, placed)
          IN  /\ PathOf(s[n]) \in x.members /\ \A c \in commands : c.output = x.root
              /\ MovieIsRanked(s[n], x, commands)
      BY <3>2, ChosenMovie
    <3> QED BY <3>1, <3>3
  <2> HIDE DEF chosen, Commands
  <2>3. \A x \in {chosen}, placed \in BOOLEAN :
           /\ ChosenIsOwn("movie", s, own, x)
           /\ CommandIsChosen("movie", x, Commands(placed), placed)
           /\ \A i \in own : MovieIsRanked(s[i], x, Commands(placed))
    <3> TAKE x \in {chosen}, placed \in BOOLEAN
    <3>1. x = chosen
      OBVIOUS
    <3>2. CASE x = NoDocument
      BY <3>2 DEF ChosenIsOwn, CommandIsChosen, MovieIsRanked
    <3>3. CASE x # NoDocument
      <4>1. /\ PathOf(s[n]) \in x.members /\ \A c \in Commands(placed) : c.output = x.root
            /\ MovieIsRanked(s[n], x, Commands(placed))
        BY <2>2, <3>1, <3>3
      <4>2. ChosenIsOwn("movie", s, own, x)
        BY <2>1, <4>1 DEF ChosenIsOwn
      <4>3. CommandIsChosen("movie", x, Commands(placed), placed)
        BY <4>1 DEF CommandIsChosen
      <4> QED BY <2>1, <4>1, <4>2, <4>3
    <3> QED BY <3>2, <3>3
  <2> QED BY <1>2, <2>3 DEF OwnOf, chosen, Commands
<1> QED BY <1>1, <1>2

(***************************************************************************)
(* Whatever files a library of a plain layout has: the document chosen for *)
(* a file that says what it is is of the work it says, and has the file in *)
(* it; a directory has one only if all such files below it are one work;   *)
(* and the command line takes the same, and writes where it was found.     *)
(***************************************************************************)
THEOREM DocumentsHold == SpecAlgorithms => []OwnDocument
<1>1. Sampled => OwnDocument
  <2> DEFINE F == sample.files
             kind == sample.kind
             Below == {i \in 1..Len(F) : kind # "movie" /\ IsPrefix(sample.root, F[i].dir)}
  <2> SUFFICES ASSUME Sampled, part = "scan", sample.named <= Len(F), PlainLayout(F)
               PROVE  IF sample.named = 0 THEN OwnOf(kind, F, TRUE, Below, sample.root)
                      ELSE OwnOf(kind, F, FALSE, {sample.named}, PathOf(F[sample.named]))
    BY DEF OwnDocument
  <2>1. IsScanSample(sample)
    BY ScanAssumption DEF Sampled
  <2>2. IsLibrary(kind, F)
    BY <2>1, SampleIsLibrary
  <2>3. sample.named # 0 => sample.named \in 1..Len(F)
    <3>1. sample.named \in Nat /\ Len(F) \in Nat
      BY <2>1, SequenceIsList DEF IsScanSample
    <3> HIDE DEF F
    <3> QED BY <3>1
  <2>4. kind = "movie" \/ kind \in Kinds
    BY <2>1 DEF IsScanSample, Kinds
  <2> HIDE DEF F, kind
  <2>5. CASE kind = "movie"
    <3>1. Below = {}
      BY <2>5
    <3>2. CASE sample.named = 0
      BY <2>2, <2>5, <3>1, <3>2, OwnMovie
    <3>3. CASE sample.named # 0
      BY <2>2, <2>3, <2>5, <3>3, OwnMovie
    <3> QED BY <3>2, <3>3
  <2>6. CASE kind # "movie"
    <3>1. CASE sample.named = 0
      <4>1. StandsFor(F, sample.root, TRUE, Below)
        BY <2>6 DEF StandsFor
      <4> HIDE DEF Below
      <4> QED BY <2>2, <2>4, <2>6, <3>1, <4>1, OwnIs
    <3>2. CASE sample.named # 0
      <4>1. StandsFor(F, PathOf(F[sample.named]), FALSE, {sample.named})
        BY <2>3, <3>2 DEF StandsFor
      <4> QED BY <2>2, <2>4, <2>6, <3>2, <4>1, OwnIs
    <3> QED BY <3>1, <3>2
  <2> QED BY <2>5, <2>6
<1> QED BY <1>1, SamplesStay, PTL

-----------------------------------------------------------------------------
(***************************************************************************)
(* Paths and names of any kind.                                            *)
(***************************************************************************)

\* One item behind a sequence.
LEMMA Behind1 ==
    ASSUME NEW p, IsSequence(p), NEW x
    PROVE  /\ IsSequence(Append(p, x)) /\ Append(p, x) # <<>> /\ Len(Append(p, x)) = Len(p) + 1 /\ Len(p) \in Nat
           /\ Parent(Append(p, x)) = p /\ Name(Append(p, x)) = x /\ Append(p, x) = p \o <<x>> /\ IsSequence(<<x>>)
<1>1. PICK N : p \in Seq(N) /\ x \in N
  BY OneSet
<1>2. /\ Append(p, x) \in Seq(N) /\ Append(p, x) # <<>> /\ Len(Append(p, x)) = Len(p) + 1
      /\ Parent(Append(p, x)) = p /\ Name(Append(p, x)) = x /\ Append(p, x) = p \o <<x>>
  BY <1>1, OneName
<1>3. IsSequence(Append(p, x))
  BY <1>2, SeqIsSequence
<1> QED BY <1>2, <1>3, OneItem, SequenceIsList

\* Two items are one behind the other.
LEMMA TwoItems ==
    ASSUME NEW a, NEW b PROVE IsSequence(<<a>>) /\ IsSequence(<<a, b>>) /\ <<a, b>> = Append(<<a>>, b)
<1>1. <<a>> \in Seq({a, b}) /\ b \in {a, b}
  OBVIOUS
<1>2. <<a, b>> = Append(<<a>>, b)
  OBVIOUS
<1>3. IsSequence(<<a>>)
  BY OneItem
<1>4. IsSequence(Append(<<a>>, b))
  BY <1>3, Behind1
<1> QED BY <1>2, <1>3, <1>4

\* The last item of a sequence is behind its parent.
LEMMA LastBehind ==
    ASSUME NEW p, IsSequence(p), p # <<>>
    PROVE  IsSequence(Parent(p)) /\ p = Append(Parent(p), Name(p)) /\ Len(p) \in Nat \ {0}
<1>1. PICK N : p \in Seq(N)
  BY OneSet
<1>2. Parent(p) \in Seq(N) /\ p = Append(Parent(p), Name(p)) /\ Len(p) \in Nat \ {0}
  BY <1>1, LastName
<1>3. IsSequence(Parent(p))
  BY <1>2, SeqIsSequence
<1> QED BY <1>2, <1>3

\* What is behind a sequence has its last item last.
LEMMA BehindBoth ==
    ASSUME NEW p, IsSequence(p), NEW q, IsSequence(q), NEW x
    PROVE  /\ IsSequence(p \o q) /\ p \o Append(q, x) = Append(p \o q, x)
           /\ Parent(p \o Append(q, x)) = p \o q /\ Name(p \o Append(q, x)) = x
<1>1. IsSequence(p \o q) /\ Append(q, x) = q \o <<x>> /\ IsSequence(<<x>>)
  BY Joined, Behind1
<1>2. Append(p \o q, x) = (p \o q) \o <<x>>
  BY <1>1, Behind1
<1>3. PICK N : p \in Seq(N) /\ q \in Seq(N) /\ x \in N
  BY OneSet
<1>4. <<x>> \in Seq(N)
  BY <1>3
<1>5. (p \o q) \o <<x>> = p \o (q \o <<x>>)
  BY <1>3, <1>4, ConcatAssociative
<1>6. p \o Append(q, x) = Append(p \o q, x)
  BY <1>1, <1>2, <1>5
<1>7. Parent(Append(p \o q, x)) = p \o q /\ Name(Append(p \o q, x)) = x
  BY <1>1, Behind1
<1> QED BY <1>1, <1>6, <1>7

\* The same start is behind by the same.
LEMMA SameBehind ==
    ASSUME NEW p, IsSequence(p), NEW q, IsSequence(q), NEW t, IsSequence(t), p \o q = p \o t
    PROVE  q = t
<1>1. PICK N : p \in Seq(N) /\ q \in Seq(N)
  BY OneSet
<1>2. PICK M : p \in Seq(M) /\ t \in Seq(M)
  BY OneSet
<1>3. SubSeq(p \o q, Len(p) + 1, Len(p \o q)) = q
  BY <1>1, Halves
<1>4. SubSeq(p \o t, Len(p) + 1, Len(p \o t)) = t
  BY <1>2, Halves
<1> QED BY <1>3, <1>4

\* A sequence is a strict start of what goes on behind it.
LEMMA StrictlyBelow ==
    ASSUME NEW p, IsSequence(p), NEW q, IsSequence(q), q # <<>>
    PROVE  IsStrictPrefix(p, p \o q)
<1>1. PICK N : p \in Seq(N) /\ q \in Seq(N)
  BY OneSet
<1>2. p \o q \in Seq(N) /\ p \o <<>> = p /\ IsSequence(<<>>)
  BY <1>1, ConcatProperties, ConcatEmptySeq, NoItem
<1>3. IsPrefix(p, p \o q)
  <2>1. \E u \in Seq(N) : p \o q = p \o u
    BY <1>1
  <2> QED BY <1>1, <1>2, <2>1, BelowIs
<1>4. p # p \o q
  <2> SUFFICES ASSUME p = p \o q PROVE FALSE
    OBVIOUS
  <2>1. p \o <<>> = p \o q
    BY <1>2
  <2> QED BY <1>2, <2>1, SameBehind
<1> QED BY <1>3, <1>4 DEF IsStrictPrefix

\* What is strictly behind a start.
LEMMA RestBehind ==
    ASSUME NEW p, IsSequence(p), NEW s, IsSequence(s), IsStrictPrefix(s, p)
    PROVE  LET q == SubSeq(p, Len(s) + 1, Len(p)) IN IsSequence(q) /\ q # <<>> /\ p # <<>> /\ Name(q) = Name(p)
<1> DEFINE q == SubSeq(p, Len(s) + 1, Len(p))
<1>1. PICK N : p \in Seq(N) /\ s \in Seq(N)
  BY OneSet
<1>2. IsPrefix(s, p) /\ s # p
  BY DEF IsStrictPrefix
<1>3. Len(s) \in 0..Len(p) /\ SubSeq(p, 1, Len(s)) = s
  BY <1>1, <1>2, BelowIs
<1>4. q \in Seq(N) /\ p = s \o q
  BY <1>1, <1>3, Start
<1> HIDE DEF q
<1>5. q # <<>>
  <2> SUFFICES ASSUME q = <<>> PROVE FALSE
    OBVIOUS
  <2>1. p = s
    BY <1>1, <1>4, ConcatEmptySeq
  <2> QED BY <1>2, <2>1
<1>6. IsSequence(q)
  BY <1>4, SeqIsSequence
<1>7. q = Append(Parent(q), Name(q)) /\ IsSequence(Parent(q))
  BY <1>5, <1>6, LastBehind
<1>8. Name(p) = Name(q) /\ p # <<>>
  <2> DEFINE front == Parent(q)
             last == Name(q)
  <2>1. q = Append(front, last) /\ IsSequence(front)
    BY <1>7
  <2> HIDE DEF front
  <2>2. /\ Name(s \o Append(front, last)) = last
        /\ s \o Append(front, last) = Append(s \o front, last) /\ IsSequence(s \o front)
    BY <2>1, BehindBoth
  <2>3. Append(s \o front, last) # <<>>
    BY <2>2, Behind1
  <2>4. p = s \o Append(front, last)
    BY <1>4, <2>1
  <2> QED BY <2>2, <2>3, <2>4
<1> QED BY <1>5, <1>6, <1>8 DEF q

\* A name is its stem with its extension.
LEMMA StemIs ==
    ASSUME NEW n, IsSequence(n), n # <<>>
    PROVE  /\ IsSequence(Stem(n)) /\ Stem(n) # <<>> /\ Stem(n)[1] = n[1]
           /\ Extension(n) # NoExtension => n = Append(Stem(n), Extension(n))
<1>1. Len(n) \in Nat \ {0} /\ IsSequence(Parent(n)) /\ n = Append(Parent(n), Name(n))
  BY LastBehind
<1>2. CASE Len(n) = 1
  <2>1. Stem(n) = n /\ Extension(n) = NoExtension
    BY <1>2 DEF Stem, Extension
  <2> QED BY <2>1
<1>3. CASE Len(n) # 1
  <2>1. Stem(n) = Parent(n) /\ Extension(n) = Name(n)
    BY <1>3 DEF Stem, Extension, Parent, Name
  <2>2. Len(Parent(n)) \in Nat /\ Len(n) = Len(Parent(n)) + 1
    BY <1>1, Behind1
  <2>3. Parent(n) # <<>>
    BY <1>3, <2>2, NoItem
  <2>4. n = Parent(n) \o <<Name(n)>> /\ IsSequence(<<Name(n)>>)
    BY <1>1, Behind1
  <2>5. 1 \in 1..Len(Parent(n))
    BY <1>1, <1>3, <2>2
  <2>6. \A i \in 1..Len(Parent(n)) : (Parent(n) \o <<Name(n)>>)[i] = Parent(n)[i]
    BY <1>1, <2>4, Joined
  <2>7. Parent(n)[1] = n[1]
    BY <2>4, <2>5, <2>6
  <2> QED BY <1>1, <2>1, <2>3, <2>7
<1> QED BY <1>2, <1>3

\* A stem with an extension is a name of both.
LEMMA NameIs ==
    ASSUME NEW s, IsSequence(s), s # <<>>, NEW x
    PROVE  Stem(Append(s, x)) = s /\ Extension(Append(s, x)) = x /\ IsSequence(Append(s, x)) /\ Append(s, x) # <<>>
<1>1. /\ Len(Append(s, x)) = Len(s) + 1 /\ Len(s) \in Nat /\ Parent(Append(s, x)) = s /\ Name(Append(s, x)) = x
      /\ IsSequence(Append(s, x)) /\ Append(s, x) # <<>>
  BY Behind1
<1>2. Len(s) # 0
  BY LastBehind
<1>3. Len(Append(s, x)) # 1
  BY <1>1, <1>2
<1> QED BY <1>1, <1>3 DEF Stem, Extension, Parent, Name

-----------------------------------------------------------------------------
(***************************************************************************)
(* Where files are placed.                                                 *)
(***************************************************************************)

\* A path has a parent and a name.
LEMMA PathIs ==
    ASSUME NEW p, IsPath(p), p # <<>>
    PROVE  /\ IsSequence(p) /\ IsSequence(Parent(p)) /\ p = Append(Parent(p), Name(p)) /\ Len(p) \in Nat \ {0}
           /\ IsSequence(Name(p)) /\ Name(p) # <<>>
<1>1. IsSequence(p) /\ \A i \in 1..Len(p) : IsName(p[i])
  BY DEF IsPath
<1>2. IsSequence(Parent(p)) /\ p = Append(Parent(p), Name(p)) /\ Len(p) \in Nat \ {0}
  BY <1>1, LastBehind
<1>3. IsName(p[Len(p)])
  BY <1>1, <1>2
<1> QED BY <1>1, <1>2, <1>3 DEF Name, IsName

\* A name names one episode or none.
LEMMA OneEpisodeIs ==
    ASSUME NEW stem, IsSequence(stem), NEW folder
    PROVE  LET E == OneEpisode(Spelled(stem), stem, folder) IN E = {} \/ \E e : E = {e}
<1> DEFINE T == [i \in 1..Len(stem) |-> {<<i, e>> : e \in At(Named, stem[i], {})}]
<1>1. IsFiniteSet(1..Len(stem))
  BY SequenceIsList
<1>2. ASSUME NEW i \in 1..Len(stem) PROVE IsFiniteSet(T[i])
  <2>1. IsFiniteSet(At(Named, stem[i], {}))
    BY NameAssumption, FS_EmptySet DEF At
  <2> DEFINE S == At(Named, stem[i], {})
  <2> HIDE DEF S
  <2>2. IsFiniteSet({<<i, e>> : e \in S})
    <3> DEFINE g == [e \in S |-> <<i, e>>]
               P == {<<i, e>> : e \in S}
    <3>1. g \in Surjection(S, P)
      BY DEF Surjection
    <3>2. IsFiniteSet(S)
      BY <2>1 DEF S
    <3> HIDE DEF g, P
    <3>3. IsFiniteSet(P)
      BY <3>1, <3>2, FS_Surjection
    <3> QED BY <3>3 DEF P
  <2>3. T[i] = {<<i, e>> : e \in S}
    BY <1>2 DEF S
  <2> QED BY <2>2, <2>3
<1>3. Spelled(stem) = UNION {T[i] : i \in 1..Len(stem)}
  BY DEF Spelled
<1>4. IsFiniteSet(Spelled(stem))
  <2> DEFINE P == 1..Len(stem)
  <2>1. \A i \in P : IsFiniteSet(T[i])
    BY <1>2
  <2>2. IsFiniteSet(P) /\ Spelled(stem) = UNION {T[i] : i \in P}
    BY <1>1, <1>3
  <2> HIDE DEF T, P
  <2> QED BY <2>1, <2>2, FiniteUnion
<1> DEFINE S == Spelled(stem)
<1> HIDE DEF S
<1>5. CASE S = {}
  <2>1. OneEpisode(S, stem, folder) = InFolder(At(Leading, stem[1], 0), folder)
    BY <1>5 DEF OneEpisode
  <2> QED BY <2>1 DEF InFolder, S
<1>6. CASE S # {} /\ Cardinality(S) = 1
  <2>1. \E s : S = {s}
    BY <1>4, <1>6, FS_Singleton DEF S
  <2>2. OneEpisode(S, stem, folder) = {s[2] : s \in S}
    BY <1>6 DEF OneEpisode
  <2> QED BY <2>1, <2>2 DEF S
<1>7. CASE S # {} /\ Cardinality(S) # 1
  BY <1>7 DEF OneEpisode, S
<1> QED BY <1>5, <1>6, <1>7

LEMMA EpisodeIs ==
    ASSUME NEW p, IsPath(p), p # <<>>
    PROVE  EpisodeNumber(p) = {} \/ \E e : EpisodeNumber(p) = {e}
<1>1. IsSequence(Stem(Name(p)))
  BY PathIs, StemIs
<1> QED BY <1>1, OneEpisodeIs DEF EpisodeNumber

\* A folder as a sequence.
LEMMA SoleFolder == ASSUME NEW x PROVE SetToSeq({x}) = <<x>>
<1> DEFINE S == {x}
           q == SetToSeq(S)
<1>1. IsFiniteSet(S) /\ Cardinality(S) = 1
  BY FS_Singleton
<1>2. IsSequence(q) /\ ToSet(q) = S
  BY <1>1, SetToSeqIs
<1>3. \E f \in [1..1 -> S] : IsInjective(f)
  <2> DEFINE f == [i \in 1..1 |-> x]
  <2>1. f \in [1..1 -> S] /\ IsInjective(f)
    BY DEF IsInjective
  <2> QED BY <2>1
<1>4. q \in [1..1 -> S]
  BY <1>1, <1>3 DEF SetToSeq
<1> QED BY <1>4

\* The files of a request, and where they lie below its source.
LEMMA FileIs ==
    ASSUME NEW r, IsPlanSample(r), NEW f \in r.files
    PROVE  /\ IsPath(f) /\ f # <<>> /\ IsSequence(r.package) /\ r.package # <<>>
           /\ IsSequence(Relative(r, f)) /\ Relative(r, f) # <<>> /\ Name(Relative(r, f)) = Name(f)
           /\ ~ r.directory => r.files = {f} /\ f = r.source
<1>1. /\ IsPath(f) /\ IsSequence(f) /\ IsSequence(r.package) /\ r.package # <<>> /\ IsSequence(r.source)
      /\ IF r.directory THEN IsStrictPrefix(r.source, f) ELSE f = r.source /\ f # <<>>
      /\ ~ r.directory => \A g \in r.files : g = r.source
  BY DEF IsPlanSample, IsPath
<1>2. CASE r.directory
  <2>1. IsStrictPrefix(r.source, f) /\ Relative(r, f) = SubSeq(f, Len(r.source) + 1, Len(f))
    BY <1>1, <1>2 DEF Relative
  <2> QED BY <1>1, <1>2, <2>1, RestBehind
<1>3. CASE ~ r.directory
  <2>1. Relative(r, f) = <<Name(f)>>
    BY <1>3 DEF Relative
  <2>2. IsSequence(<<Name(f)>>) /\ Len(<<Name(f)>>) = 1 /\ <<Name(f)>>[1] = Name(f)
    BY OneItem
  <2>3. <<Name(f)>> # <<>> /\ Name(<<Name(f)>>) = Name(f)
    BY <2>2, NoItem DEF Name
  <2> QED BY <1>1, <1>3, <2>1, <2>2, <2>3
<1> QED BY <1>2, <1>3

\* at is a place below the package, and one that keeps the extension of the file.
Within(r, at) == \E q : IsSequence(q) /\ q # <<>> /\ at = r.package \o q
Below(r, f, at) == Within(r, at) /\ Extension(Name(at)) = Extension(Name(f))

\* What ends with a name that keeps the extension is such a place.
LEMMA EndsBelow ==
    ASSUME NEW r, IsSequence(r.package), NEW f, NEW q, IsSequence(q), NEW x, Extension(x) = Extension(Name(f))
    PROVE  Below(r, f, r.package \o Append(q, x))
<1>1. IsSequence(Append(q, x)) /\ Append(q, x) # <<>>
  BY Behind1
<1>2. Name(r.package \o Append(q, x)) = x
  BY BehindBoth
<1>3. Within(r, r.package \o Append(q, x))
  BY <1>1 DEF Within
<1> QED BY <1>2, <1>3 DEF Below

LEMMA MediaBelow ==
    ASSUME NEW r, IsPlanSample(r), NEW f \in r.files
    PROVE  Below(r, f, MediaTarget(r, f))
<1>1. IsSequence(r.package) /\ IsPath(f) /\ f # <<>> /\ IsSequence(<<>>)
  BY FileIs, NoItem
<1>2. CASE r.kind \in {"movie", "book"}
  <2> DEFINE x == Append(Stem(Name(r.package)), Extension(Name(f)))
  <2>1. IsSequence(Name(r.package)) /\ Name(r.package) # <<>>
    BY PathIs DEF IsPlanSample
  <2>2. Extension(x) = Extension(Name(f))
    BY <2>1, StemIs, NameIs
  <2>3. MediaTarget(r, f) = Append(r.package, x)
    BY <1>2 DEF MediaTarget
  <2> HIDE DEF x
  <2>4. Below(r, f, r.package \o Append(<<>>, x))
    BY <1>1, <2>2, EndsBelow
  <2>5. r.package \o Append(<<>>, x) = Append(r.package \o <<>>, x)
    BY <1>1, BehindBoth
  <2>6. r.package \o <<>> = r.package
    <3>1. PICK N : r.package \in Seq(N)
      BY <1>1, OneSet
    <3> QED BY <3>1, ConcatEmptySeq
  <2> QED BY <2>3, <2>4, <2>5, <2>6
<1>3. CASE r.kind = "television"
  <2> DEFINE S == {SeasonFolder(e.season) : e \in EpisodeNumber(f)}
  <2>1. MediaTarget(r, f) = r.package \o SetToSeq(S) \o <<Name(f)>>
    BY <1>3 DEF MediaTarget
  <2>2. S = {} \/ \E x : S = {x}
    BY <1>1, EpisodeIs
  <2> HIDE DEF S
  <2>3. IsFiniteSet(S)
    BY <2>2, FS_EmptySet, FS_Singleton
  <2> DEFINE q == SetToSeq(S)
  <2>4. IsSequence(q)
    BY <2>3, SetToSeqIs
  <2> HIDE DEF q
  <2>5. Below(r, f, r.package \o Append(q, Name(f)))
    BY <1>1, <2>4, EndsBelow
  <2>6. IsSequence(r.package \o q) /\ r.package \o Append(q, Name(f)) = Append(r.package \o q, Name(f))
    <3> DEFINE p == r.package
               x == Name(f)
    <3>1. IsSequence(p)
      BY <1>1
    <3> HIDE DEF p, x
    <3>2. IsSequence(p \o q)
      BY <2>4, <3>1, BehindBoth
    <3>3. p \o Append(q, x) = Append(p \o q, x)
      BY <2>4, <3>1, BehindBoth
    <3> QED BY <3>2, <3>3 DEF p, x
  <2>7. Append(r.package \o q, Name(f)) = (r.package \o q) \o <<Name(f)>>
    BY <2>6, Behind1
  <2>8. MediaTarget(r, f) = r.package \o q \o <<Name(f)>>
    BY <2>1 DEF q
  <2> QED BY <2>5, <2>6, <2>7, <2>8
<1>4. CASE r.kind = "anime"
  <2> DEFINE folder == <<Numbered("Cour ", r.cour)>>
  <2>1. MediaTarget(r, f) = r.package \o <<folder, Name(f)>>
    BY <1>4 DEF MediaTarget
  <2> HIDE DEF folder
  <2>2. IsSequence(<<folder>>) /\ <<folder, Name(f)>> = Append(<<folder>>, Name(f))
    BY OneItem
  <2>3. Below(r, f, r.package \o Append(<<folder>>, Name(f)))
    BY <1>1, <2>2, EndsBelow
  <2> QED BY <2>1, <2>2, <2>3
<1>5. CASE r.kind = "music"
  <2>1. MediaTarget(r, f) = Append(r.package, Name(f))
    BY <1>5 DEF MediaTarget
  <2>2. Append(r.package, Name(f)) = r.package \o <<Name(f)>> /\ <<Name(f)>> = Append(<<>>, Name(f))
    <3>1. Append(r.package, Name(f)) = r.package \o <<Name(f)>>
      BY <1>1, Behind1
    <3> QED BY <3>1
  <2>3. Below(r, f, r.package \o Append(<<>>, Name(f)))
    BY <1>1, EndsBelow
  <2> QED BY <2>1, <2>2, <2>3
<1>6. r.kind \in {"movie", "television", "anime", "music", "book"}
  BY DEF IsPlanSample
<1> QED BY <1>2, <1>3, <1>4, <1>5, <1>6

\* What is said where a file goes places it below the package.
LEMMA OverrideIs ==
    ASSUME NEW r, IsPlanSample(r), NEW f \in r.files, r.override # <<>>
    PROVE  r.kind = "television" /\ r.files = {f} /\ \E folder \in DOMAIN SeasonOf : r.override = <<folder, Name(f)>>
<1>1. r.kind = "television" /\ ~ r.directory /\ \E folder \in DOMAIN SeasonOf : r.override = <<folder, Name(r.source)>>
  BY DEF IsPlanSample
<1> QED BY <1>1, FileIs

LEMMA TargetBelow ==
    ASSUME NEW r, IsPlanSample(r), NEW f \in r.files
    PROVE  Below(r, f, Target(r, f))
<1>1. IsSequence(r.package) /\ IsSequence(Relative(r, f)) /\ Relative(r, f) # <<>> /\ Name(Relative(r, f)) = Name(f)
  BY FileIs
<1>2. CASE r.override # <<>>
  <2>1. PICK folder : r.override = <<folder, Name(f)>>
    BY <1>2, OverrideIs
  <2>2. ~ r.directory
    BY <1>2 DEF IsPlanSample
  <2>3. Target(r, f) = r.package \o <<folder, Name(f)>>
    BY <1>2, <2>1, <2>2 DEF Target
  <2>4. IsSequence(<<folder>>) /\ <<folder, Name(f)>> = Append(<<folder>>, Name(f))
    BY OneItem
  <2>5. Below(r, f, r.package \o Append(<<folder>>, Name(f)))
    BY <1>1, <2>4, EndsBelow
  <2> QED BY <2>3, <2>4, <2>5
<1>3. CASE r.override = <<>>
  <2>1. Target(r, f) = MediaTarget(r, f) \/ Target(r, f) = r.package \o Relative(r, f)
    BY <1>3 DEF Target
  <2>2. Below(r, f, r.package \o Relative(r, f))
    <3> DEFINE q == Relative(r, f)
               front == Parent(q)
               last == Name(q)
    <3>1. IsSequence(front) /\ q = Append(front, last) /\ last = Name(f)
      BY <1>1, LastBehind
    <3> HIDE DEF q, front, last
    <3>2. Below(r, f, r.package \o Append(front, last))
      BY <1>1, <3>1, EndsBelow
    <3> QED BY <3>1, <3>2 DEF q
  <2> QED BY <2>1, <2>2, MediaBelow
<1> QED BY <1>2, <1>3

\* Beside a place below the package is below it, too.
LEMMA BesideWithin ==
    ASSUME NEW r, IsSequence(r.package), NEW at, Within(r, at), NEW x
    PROVE  /\ Within(r, Append(Parent(at), x)) /\ IsSequence(Parent(at))
           /\ Parent(Append(Parent(at), x)) = Parent(at) /\ Name(Append(Parent(at), x)) = x
<1>1. PICK q : IsSequence(q) /\ q # <<>> /\ at = r.package \o q
  BY DEF Within
<1> DEFINE front == Parent(q)
           last == Name(q)
           p == r.package
<1>2. IsSequence(front) /\ q = Append(front, last) /\ IsSequence(p)
  BY <1>1, LastBehind
<1> HIDE DEF front, last, p
<1>3. Parent(p \o Append(front, last)) = p \o front /\ IsSequence(p \o front)
  BY <1>2, BehindBoth
<1>4. at = p \o Append(front, last)
  BY <1>1, <1>2 DEF p
<1>5. p \o Append(front, x) = Append(p \o front, x)
  BY <1>2, BehindBoth
<1>6. IsSequence(Append(front, x)) /\ Append(front, x) # <<>>
  BY <1>2, Behind1
<1>7. Within(r, Append(p \o front, x))
  BY <1>5, <1>6 DEF Within, p
<1>8. Parent(Append(p \o front, x)) = p \o front /\ Name(Append(p \o front, x)) = x
  BY <1>3, Behind1
<1> QED BY <1>3, <1>4, <1>7, <1>8

\* A video names one episode, and is no sidecar.
LEMMA VideoIs ==
    ASSUME NEW r, IsPlanSample(r), NEW v \in Videos(r)
    PROVE  /\ r.kind = "television" /\ v \in r.files /\ v \in Primaries(r) /\ IsPath(v) /\ v # <<>>
           /\ Extension(Name(v)) # NoExtension /\ Extension(Name(v)) \notin SidecarExtensions
           /\ \E e : EpisodeNumber(v) = {e}
<1>1. v \in Primaries(r) /\ r.kind = "television" /\ EpisodeNumber(v) # {}
  BY DEF Videos
<1>2. v \in r.files /\ Extension(Name(v)) \in PrimaryExtensions("television")
  BY <1>1 DEF Primaries
<1>3. IsPath(v) /\ v # <<>>
  BY <1>2, FileIs
<1>4. Extension(Name(v)) # NoExtension
  BY <1>2, NameAssumption
<1>5. Extension(Name(v)) \notin SidecarExtensions
  BY <1>2 DEF PrimaryExtensions, SidecarExtensions
<1> QED BY <1>1, <1>2, <1>3, <1>4, <1>5, EpisodeIs

\* A video lies in the folder of a season, that of its episode unless a request says so.
LEMMA VideoTarget ==
    ASSUME NEW r, IsPlanSample(r), NEW v \in Videos(r), NEW e, EpisodeNumber(v) = {e}
    PROVE  \E folder \in DOMAIN SeasonOf :
              /\ Target(r, v) = r.package \o <<folder, Name(v)>>
              /\ r.files # {v} => folder = SeasonFolder(e.season)
<1>1. r.kind = "television" /\ v \in r.files /\ v \in Primaries(r) /\ IsSequence(r.package) /\ IsSequence(<<>>)
  BY VideoIs, FileIs, NoItem
<1>2. CASE r.override # <<>>
  <2>0. r.files = {v}
    BY <1>1, <1>2, OverrideIs
  <2>1. PICK folder \in DOMAIN SeasonOf : r.override = <<folder, Name(v)>>
    BY <1>1, <1>2, OverrideIs
  <2>2. ~ r.directory
    BY <1>2 DEF IsPlanSample
  <2>3. Target(r, v) = r.package \o <<folder, Name(v)>>
    BY <1>2, <2>1, <2>2 DEF Target
  <2> QED BY <2>0, <2>3
<1>3. CASE r.override = <<>>
  <2>1. Target(r, v) = MediaTarget(r, v)
    BY <1>3 DEF Target
  <2> DEFINE folder == SeasonFolder(e.season)
             p == r.package
             x == Name(v)
  <2>2. MediaTarget(r, v) = p \o SetToSeq({folder}) \o <<x>>
    <3>1. {SeasonFolder(d.season) : d \in EpisodeNumber(v)} = {folder}
      BY EpisodeNumber(v) = {e}
    <3>2. MediaTarget(r, v) = p \o SetToSeq({SeasonFolder(d.season) : d \in EpisodeNumber(v)}) \o <<x>>
      BY <1>1 DEF MediaTarget
    <3> QED BY <3>1, <3>2
  <2>3. folder \in DOMAIN SeasonOf
    BY EpisodeNumber(v) = {e} DEF IsPlanSample
  <2>4. IsSequence(p)
    BY <1>1
  <2> HIDE DEF folder, p, x
  <2>5. MediaTarget(r, v) = p \o <<folder>> \o <<x>>
    BY <2>2, SoleFolder
  <2>6. IsSequence(<<folder>>) /\ Append(<<folder>>, x) = <<folder, x>>
    BY TwoItems
  <2>7. IsSequence(p \o <<folder>>) /\ p \o Append(<<folder>>, x) = Append(p \o <<folder>>, x)
    BY <2>4, <2>6, BehindBoth
  <2>8. Append(p \o <<folder>>, x) = (p \o <<folder>>) \o <<x>>
    BY <2>7, Behind1
  <2>9. Target(r, v) = p \o <<folder, x>>
    BY <2>1, <2>5, <2>6, <2>7, <2>8
  <2> QED BY <2>3, <2>9 DEF folder, p, x
<1> QED BY <1>2, <1>3

\* Its NFO has its stem, in its folder.
LEMMA VideoBeside ==
    ASSUME NEW r, IsPlanSample(r), NEW v \in Videos(r), NEW e, EpisodeNumber(v) = {e}
    PROVE  \E folder \in DOMAIN SeasonOf :
              /\ WithExtension(Target(r, v), "nfo") = r.package \o <<folder, Append(Stem(Name(v)), "nfo")>>
              /\ r.files # {v} => folder = SeasonFolder(e.season)
<1>1. PICK folder \in DOMAIN SeasonOf :
         /\ Target(r, v) = r.package \o <<folder, Name(v)>>
         /\ r.files # {v} => folder = SeasonFolder(e.season)
  BY VideoTarget
<1> DEFINE p == r.package
           x == Name(v)
           y == Append(Stem(Name(v)), "nfo")
<1>2. IsSequence(p)
  BY VideoIs, FileIs
<1> HIDE DEF p, x
<1> DEFINE q == <<folder>>
<1>3. IsSequence(q)
  BY OneItem
<1>4. Append(q, x) = <<folder, x>> /\ Append(q, y) = <<folder, y>>
  <2> HIDE DEF y
  <2> QED BY TwoItems
<1> HIDE DEF q
<1>5. Parent(p \o Append(q, x)) = p \o q /\ Name(p \o Append(q, x)) = x
  <2> HIDE DEF y
  <2> QED BY <1>2, <1>3, BehindBoth
<1>6. Target(r, v) = p \o Append(q, x)
  BY <1>1, <1>4 DEF p, x
<1>7. WithExtension(Target(r, v), "nfo") = Append(p \o q, y)
  BY <1>5, <1>6 DEF WithExtension, x
<1> HIDE DEF y
<1>8. p \o Append(q, y) = Append(p \o q, y)
  BY <1>2, <1>3, BehindBoth
<1>9. WithExtension(Target(r, v), "nfo") = p \o <<folder, y>>
  BY <1>4, <1>7, <1>8
<1> QED BY <1>1, <1>9 DEF p, y

\* Every file is placed below the package, a medium at its target.
LEMMA PlacedWithin ==
    ASSUME NEW r, IsPlanSample(r), NEW f \in r.files
    PROVE  Within(r, Placed(r, f))
<1>1. IsSequence(r.package)
  BY FileIs
<1>2. \A g \in r.files : Within(r, Target(r, g))
  BY TargetBelow DEF Below
<1>3. \A v \in Videos(r) : v \in r.files
  BY DEF Videos, Primaries
<1>4. \A v \in Videos(r) : \A x : Within(r, Append(Parent(Target(r, v)), x))
  BY <1>1, <1>2, <1>3, BesideWithin
<1> DEFINE nfo == IF Extension(Name(f)) = "nfo" THEN UNION {EpisodeTargets(r, {e}) : e \in EpisodeNumber(f)} ELSE {}
           videos == [v \in Continued(r, f) |-> Target(r, v)]
<1>5. \A t \in nfo : Within(r, t)
  <2> SUFFICES ASSUME NEW t \in nfo PROVE Within(r, t)
    OBVIOUS
  <2>1. PICK e \in EpisodeNumber(f) : t \in EpisodeTargets(r, {e})
    OBVIOUS
  <2>2. PICK v \in Videos(r) : t = WithExtension(Target(r, v), "nfo")
    BY <2>1 DEF EpisodeTargets
  <2> QED BY <1>4, <2>2 DEF WithExtension
<1>6. Cardinality(DOMAIN videos) = 1 =>
         Within(r, Beside(f, CHOOSE v \in DOMAIN videos : TRUE, CHOOSE t \in Range(videos) : TRUE))
  <2> SUFFICES ASSUME Cardinality(Continued(r, f)) = 1
               PROVE  Within(r, Beside(f, CHOOSE v \in DOMAIN videos : TRUE, CHOOSE t \in Range(videos) : TRUE))
    OBVIOUS
  <2>1. Continued(r, f) # {}
    BY FS_EmptySet
  <2>2. Range(videos) = {Target(r, v) : v \in Continued(r, f)}
    BY DEF Range
  <2>3. PICK v \in Continued(r, f) : (CHOOSE t \in Range(videos) : TRUE) = Target(r, v)
    BY <2>1, <2>2
  <2>4. v \in Videos(r)
    BY DEF Continued
  <2> QED BY <1>4, <2>3, <2>4 DEF Beside
<1> HIDE DEF nfo, videos
<1>7. Placed(r, f) = Target(r, f) \/ Placed(r, f) = Companion(f, Target(r, f), nfo, videos)
  BY DEF Placed, nfo, videos
<1>8. Within(r, Companion(f, Target(r, f), nfo, videos))
  <2>1. nfo # {} => (CHOOSE t \in nfo : TRUE) \in nfo
    OBVIOUS
  <2> QED BY <1>2, <1>5, <1>6, <2>1 DEF Companion
<1> QED BY <1>2, <1>7, <1>8

LEMMA MediumPlaced ==
    ASSUME NEW r, IsPlanSample(r), NEW f \in Primaries(r)
    PROVE  Placed(r, f) = Target(r, f)
<1>1. CASE r.kind # "television"
  BY <1>1 DEF Placed
<1>2. CASE r.kind = "television"
  <2>1. Extension(Name(f)) \in PrimaryExtensions("television")
    BY <1>2 DEF Primaries
  <2>2. Extension(Name(f)) \notin SidecarExtensions
    BY <2>1 DEF PrimaryExtensions, SidecarExtensions
  <2> QED BY <2>2 DEF Placed
<1> QED BY <1>1, <1>2

-----------------------------------------------------------------------------
(***************************************************************************)
(* Where metadata is written.                                              *)
(***************************************************************************)

\* o is the file p of the plan, but for what a manifest says.
SameFile(o, p) ==
    /\ o.target = p.target /\ o.op = p.op /\ {"op", "target"} \subseteq DOMAIN o
    /\ o.op = "write" => "content" \in DOMAIN o /\ (o.content[1] = "manifest" <=> p.content[1] = "manifest")
    /\ o = p \/ (o.op = "write" /\ o.content[1] = "manifest")

\* What a manifest of m names is in m.
ManifestKept(m, o) ==
    o.op = "write" /\ o.content[1] = "manifest" => \A t \in o.content[2] : \E j \in 1..Len(m) : m[j].target = t

\* m are the files of planned at other positions.
LaidFrom(m, planned, at) ==
    /\ IsSequence(m) /\ at \in [1..Len(m) -> 1..Len(planned)]
    /\ \A i, j \in 1..Len(m) : at[i] = at[j] => i = j
    /\ \A i \in 1..Len(m) : SameFile(m[i], planned[at[i]]) /\ ManifestKept(m, m[i])

\* All or part of what is planned is written, and manifests follow.
LEMMA MetadataIs ==
    ASSUME NEW r, IsPlanSample(r) PROVE \E at : LaidFrom(Metadata(r), r.planned, at)
<1> DEFINE p == r.planned
           n == Len(p)
<1>1. IsSequence(p) /\ n \in Nat /\ IsLaidOut(r.kind, p)
  BY SequenceIsList DEF IsPlanSample, IsLaidOut
<1>2. \A i \in 1..n : /\ {"op", "target"} \subseteq DOMAIN p[i]
                      /\ p[i].op = "write" =>
                            /\ "content" \in DOMAIN p[i]
                            /\ (p[i].content[1] = "manifest") = (Name(p[i].target) = File("fixer-manifest", "json"))
                            /\ p[i].content[1] = "manifest" => p[i].content[2] \subseteq TargetsOf(p)
  <2> TAKE i \in 1..n
  <2>1. DOMAIN p[i] = {"op", "target", IF p[i].op = "write" THEN "content" ELSE "source"}
    BY <1>1 DEF IsLaidOut
  <2>2. p[i].op = "write" =>
           /\ (p[i].content[1] = "manifest") = (Name(p[i].target) = File("fixer-manifest", "json"))
           /\ p[i].content[1] = "manifest" => p[i].content[2] \subseteq TargetsOf(p)
    BY <1>1 DEF IsLaidOut
  <2> QED BY <2>1, <2>2
<1> HIDE DEF p
<1>3. CASE r.full
  <2> DEFINE at == [i \in 1..n |-> i]
  <2>1. \A i \in 1..n : SameFile(p[i], p[at[i]]) /\ ManifestKept(p, p[i])
    <3> TAKE i \in 1..n
    <3>1. SameFile(p[i], p[i])
      BY <1>2 DEF SameFile
    <3>2. ManifestKept(p, p[i])
      BY <1>2 DEF ManifestKept, TargetsOf
    <3> QED BY <3>1, <3>2
  <2>2. LaidFrom(p, p, at)
    BY <1>1, <2>1 DEF LaidFrom
  <2>3. Metadata(r) = p
    BY <1>3 DEF Metadata, p
  <2> QED BY <2>2, <2>3 DEF p
<1>4. CASE ~ r.full
  <2> DEFINE K == {i \in 1..n : p[i].op = "write"}
             kept == Pick(p, K)
             k == Cardinality(K)
             at == [j \in 1..k |-> Nth(K, j)]
             dropped == {p[i].target : i \in {j \in 1..n : p[j].op # "write"}}
             New(o) == IF Name(o.target) = File("fixer-manifest", "json")
                       THEN Write(o.target, <<"manifest", o.content[2] \ dropped>>) ELSE o
             m == [j \in 1..k |-> New(p[at[j]])]
  <2>1. K \in SUBSET (1..n) /\ IsFiniteSet(K) /\ K \in SUBSET Nat
    BY <1>1, SomePositions
  <2>2. k \in Nat /\ IsSequence(kept) /\ Len(kept) = k
    BY <2>1, Picked
  <2>3. /\ \A j \in 1..k : Nth(K, j) \in K
        /\ \A i \in K : \E j \in 1..k : Nth(K, j) = i
        /\ \A j, l \in 1..k : Nth(K, j) = Nth(K, l) => j = l
    <3> HIDE DEF K
    <3> QED BY <2>1, NthIsIn
  <2>4. Metadata(r) = m
    <3>1. Metadata(r) = MetadataOnly(p)
      BY <1>4 DEF Metadata, p
    <3>2. MetadataOnly(p) = [j \in 1..Len(kept) |-> New(kept[j])]
      BY DEF MetadataOnly, Select, Each
    <3>3. \A j \in 1..k : kept[j] = p[at[j]]
      <4> HIDE DEF K
      <4> QED BY DEF Pick
    <3> HIDE DEF kept, K, New
    <3> QED BY <2>2, <3>1, <3>2, <3>3
  <2>5. IsSequence(m) /\ Len(m) = k
    <3> DEFINE x == m
    <3>1. x = [j \in 1..k |-> x[j]]
      OBVIOUS
    <3> HIDE DEF x
    <3>2. IsSequence(x) /\ Len(x) = k
      BY <2>2, <3>1, ListIsSequence
    <3> QED BY <3>2 DEF x
  <2>6. \A j \in 1..k : at[j] \in 1..n /\ p[at[j]].op = "write" /\ m[j] = New(p[at[j]])
    BY <2>3
  <2>7. \A i, j \in 1..k : at[i] = at[j] => i = j
    BY <2>3
  <2>8. \A j \in 1..k : SameFile(m[j], p[at[j]])
    <3> TAKE j \in 1..k
    <3> DEFINE q == p[at[j]]
    <3>1. q.op = "write" /\ m[j] = New(q) /\ {"op", "target", "content"} \subseteq DOMAIN q
          /\ (q.content[1] = "manifest") = (Name(q.target) = File("fixer-manifest", "json"))
      BY <1>2, <2>6
    <3> HIDE DEF q, m, dropped
    <3>2. SameFile(New(q), q)
      BY <3>1 DEF SameFile, Write
    <3> QED BY <3>1, <3>2 DEF q
  <2>9. \A j \in 1..k : ManifestKept(m, m[j])
    <3> SUFFICES ASSUME NEW j \in 1..k, m[j].op = "write", m[j].content[1] = "manifest", NEW t \in m[j].content[2]
                 PROVE  \E l \in 1..k : m[l].target = t
      BY <2>5 DEF ManifestKept
    <3> DEFINE q == p[at[j]]
    <3>1. /\ q.op = "write" /\ m[j] = New(q) /\ q.content[1] = "manifest"
          /\ Name(q.target) = File("fixer-manifest", "json") /\ q.content[2] \subseteq TargetsOf(p)
      BY <1>2, <2>6, <2>8 DEF SameFile
    <3>2. t \in q.content[2] \ dropped
      <4> HIDE DEF q, dropped, m
      <4> QED BY <3>1 DEF Write
    <3>3. PICK i \in 1..n : p[i].target = t
      BY <3>1, <3>2 DEF TargetsOf
    <3>4. p[i].op = "write"
      BY <3>2, <3>3
    <3>5. PICK l \in 1..k : at[l] = i
      BY <2>3, <3>4
    <3>6. m[l].target = p[i].target
      BY <2>8, <3>5 DEF SameFile
    <3> QED BY <3>3, <3>6
  <2>10. LaidFrom(m, p, at)
    <3> HIDE DEF m, K
    <3>1. at \in [1..k -> 1..n]
      BY <2>6
    <3> HIDE DEF at
    <3> QED BY <2>5, <2>7, <2>8, <2>9, <3>1 DEF LaidFrom
  <2> QED BY <2>4, <2>10 DEF p
<1> QED BY <1>3, <1>4

\* The NFO of an episode of which there is one video lies beside that.
LEMMA BesideOne ==
    ASSUME NEW r, ~ Ambiguous(r), NEW v \in Videos(r)
    PROVE  EpisodeTargets(r, EpisodeNumber(v)) = {WithExtension(Target(r, v), "nfo")}
<1>1. {f \in Videos(r) : EpisodeNumber(f) = EpisodeNumber(v)} = {v}
  BY DEF Ambiguous
<1> QED BY <1>1 DEF EpisodeTargets

\* The video that the NFO o is written beside, if it is one of an episode.
Accompanies(r, o, v) ==
    r.kind = "television" /\ IsEpisodeFile(o) /\ v \in Videos(r) /\ EpisodeNumber(v) = EpisodeNumber(o.target)

\* What is written lies beside its video, or where it is planned below the package.
LEMMA WriteIs1 ==
    ASSUME NEW r, NEW o, {"op", "target"} \subseteq DOMAIN o, o.op = "write" => "content" \in DOMAIN o,
           ~ Ambiguous(r)
    PROVE  /\ Rebased(r, o).op = o.op /\ (o.op = "write" => Rebased(r, o).content = o.content)
           /\ \A v : Accompanies(r, o, v) => Rebased(r, o).target = WithExtension(Target(r, v), "nfo")
           /\ (\A v : ~ Accompanies(r, o, v)) => Rebased(r, o).target = r.package \o o.target
<1> DEFINE isEpisode == r.kind = "television" /\ o.op = "write" /\ o.content[1] = "episode"
                        /\ o.content[2].scheme # "absolute"
           beside == IF isEpisode THEN EpisodeTargets(r, EpisodeNumber(o.target)) ELSE {}
           at == IF beside # {} THEN CHOOSE t \in beside : TRUE ELSE r.package \o o.target
<1>1. Rebased(r, o) = [o EXCEPT !.target = at]
  BY DEF Rebased
<1>2. isEpisode <=> r.kind = "television" /\ IsEpisodeFile(o)
  BY DEF IsEpisodeFile
<1>3. ASSUME NEW v, Accompanies(r, o, v) PROVE at = WithExtension(Target(r, v), "nfo")
  <2>1. isEpisode /\ v \in Videos(r) /\ EpisodeNumber(v) = EpisodeNumber(o.target)
    BY <1>2, <1>3 DEF Accompanies
  <2> HIDE DEF isEpisode
  <2>2. beside = {WithExtension(Target(r, v), "nfo")}
    BY <2>1, BesideOne
  <2> HIDE DEF beside
  <2> QED BY <2>2
<1>4. ASSUME \A v : ~ Accompanies(r, o, v) PROVE at = r.package \o o.target
  <2>1. ~ isEpisode \/ {v \in Videos(r) : EpisodeNumber(v) = EpisodeNumber(o.target)} = {}
    BY <1>2, <1>4 DEF Accompanies
  <2> HIDE DEF isEpisode
  <2>2. beside = {}
    BY <2>1 DEF EpisodeTargets
  <2> HIDE DEF beside
  <2> QED BY <2>2
<1> HIDE DEF at
<1>5. Rebased(r, o).target = at /\ Rebased(r, o).op = o.op /\ (o.op = "write" => Rebased(r, o).content = o.content)
  BY <1>1
<1> QED BY <1>3, <1>4, <1>5

\* An NFO beside a video is read as that video's episode, or as an episode by its folder.
LEMMA BesideRead ==
    ASSUME NEW r, IsPlanSample(r), NEW v \in Videos(r), NEW folder \in DOMAIN SeasonOf, NEW q,
           q = <<folder, Append(Stem(Name(v)), "nfo")>>
    PROVE  /\ EpisodeNumber(q) # {}
           /\ Spelled(Stem(Name(q))) # {} => EpisodeNumber(q) = EpisodeNumber(v)
           /\ Spelled(Stem(Name(q))) = Spelled(Stem(Name(v)))
<1> DEFINE stem == Stem(Name(v))
           n == Append(stem, "nfo")
<1>1. IsPath(v) /\ v # <<>> /\ EpisodeNumber(v) # {}
  BY VideoIs
<1>2. IsSequence(Name(v)) /\ Name(v) # <<>>
  BY <1>1, PathIs
<1>3. IsSequence(stem) /\ stem # <<>>
  BY <1>2, StemIs
<1>4. EpisodeNumber(v) = OneEpisode(Spelled(stem), stem, At(v, Len(v) - 1, <<>>))
  BY DEF EpisodeNumber
<1> HIDE DEF stem
<1>5. Stem(n) = stem
  BY <1>3, NameIs
<1> HIDE DEF n
<1>6. Name(q) = n /\ At(q, Len(q) - 1, <<>>) = folder
  <2>1. q = <<folder, n>>
    BY DEF stem, n
  <2>2. Len(q) = 2 /\ DOMAIN q = 1..2 /\ q[1] = folder /\ q[2] = n
    BY <2>1
  <2>3. 2 - 1 = 1 /\ 1 \in 1..2
    OBVIOUS
  <2> QED BY <2>2, <2>3 DEF Name, At
<1>7. EpisodeNumber(q) = OneEpisode(Spelled(stem), stem, folder)
  BY <1>5, <1>6 DEF EpisodeNumber
<1>8. CASE Spelled(stem) # {}
  <2>1. EpisodeNumber(q) = EpisodeNumber(v)
    BY <1>4, <1>7, <1>8 DEF OneEpisode
  <2> QED BY <1>1, <1>5, <1>6, <2>1 DEF stem
<1>9. CASE Spelled(stem) = {}
  <2>1. InFolder(At(Leading, stem[1], 0), At(v, Len(v) - 1, <<>>)) # {}
    BY <1>1, <1>4, <1>9 DEF OneEpisode
  <2>2. At(Leading, stem[1], 0) # 0
    BY <2>1 DEF InFolder
  <2>3. EpisodeNumber(q) = InFolder(At(Leading, stem[1], 0), folder)
    BY <1>7, <1>9 DEF OneEpisode
  <2>4. EpisodeNumber(q) # {}
    BY <2>2, <2>3 DEF InFolder
  <2> QED BY <1>5, <1>6, <1>9, <2>4 DEF stem
<1> QED BY <1>8, <1>9

\* NFOs beside two videos are two.
LEMMA BesideApart ==
    ASSUME NEW r, IsPlanSample(r), NEW v \in Videos(r), NEW w \in Videos(r),
           WithExtension(Target(r, v), "nfo") = WithExtension(Target(r, w), "nfo")
    PROVE  EpisodeNumber(v) = EpisodeNumber(w)
<1> SUFFICES ASSUME v # w PROVE EpisodeNumber(v) = EpisodeNumber(w)
  OBVIOUS
<1>1. PICK e : EpisodeNumber(v) = {e}
  BY VideoIs
<1>2. PICK d : EpisodeNumber(w) = {d}
  BY VideoIs
<1>3. r.files # {v} /\ r.files # {w}
  BY DEF Videos, Primaries
<1>4. WithExtension(Target(r, v), "nfo") = r.package \o <<SeasonFolder(e.season), Append(Stem(Name(v)), "nfo")>>
      /\ SeasonFolder(e.season) \in DOMAIN SeasonOf
  BY <1>1, <1>3, VideoBeside
<1>5. WithExtension(Target(r, w), "nfo") = r.package \o <<SeasonFolder(d.season), Append(Stem(Name(w)), "nfo")>>
      /\ SeasonFolder(d.season) \in DOMAIN SeasonOf
  BY <1>2, <1>3, VideoBeside
<1>6. SeasonOf[SeasonFolder(e.season)] = e.season /\ SeasonOf[SeasonFolder(d.season)] = d.season
  BY <1>1, <1>2 DEF IsPlanSample
<1> DEFINE a == Append(Stem(Name(v)), "nfo")
           b == Append(Stem(Name(w)), "nfo")
           F == SeasonFolder(e.season)
           G == SeasonFolder(d.season)
<1>7. F = G /\ a = b
  <2>1. IsSequence(r.package)
    BY VideoIs, FileIs
  <2> HIDE DEF a, b, F, G
  <2> DEFINE s == <<F, a>>
             t == <<G, b>>
  <2>2. IsSequence(s) /\ IsSequence(t)
    BY TwoItems
  <2>3. r.package \o s = r.package \o t
    BY <1>4, <1>5 DEF a, b, F, G
  <2> HIDE DEF s, t
  <2>4. s = t
    BY <2>1, <2>2, <2>3, SameBehind
  <2> QED BY <2>4 DEF s, t
<1>8. e.season = d.season
  BY <1>6, <1>7
<1>9. Stem(Name(v)) = Stem(Name(w))
  <2>1. /\ IsSequence(Stem(Name(v))) /\ Stem(Name(v)) # <<>>
        /\ IsSequence(Stem(Name(w))) /\ Stem(Name(w)) # <<>>
    BY VideoIs, PathIs, StemIs
  <2>2. Stem(a) = Stem(Name(v)) /\ Stem(b) = Stem(Name(w))
    BY <2>1, NameIs
  <2> QED BY <1>7, <2>2
<1> DEFINE stem == Stem(Name(v))
           at == At(v, Len(v) - 1, <<>>)
           wt == At(w, Len(w) - 1, <<>>)
<1>10. /\ EpisodeNumber(v) = OneEpisode(Spelled(stem), stem, at)
       /\ EpisodeNumber(w) = OneEpisode(Spelled(stem), stem, wt)
  BY <1>9 DEF EpisodeNumber
<1> HIDE DEF stem, at, wt
<1>11. CASE Spelled(stem) # {}
  BY <1>10, <1>11 DEF OneEpisode
<1>12. CASE Spelled(stem) = {}
  <2> DEFINE n == At(Leading, stem[1], 0)
  <2>1. {e} = InFolder(n, at) /\ {d} = InFolder(n, wt)
    BY <1>1, <1>2, <1>10, <1>12 DEF OneEpisode
  <2> HIDE DEF n
  <2>2. e = [season |-> SeasonOf[at], number |-> n] /\ d = [season |-> SeasonOf[wt], number |-> n]
    BY <2>1 DEF InFolder
  <2>3. e = d
    BY <1>8, <2>2
  <2> QED BY <1>1, <1>2, <2>3
<1> QED BY <1>11, <1>12

\* What is known of the files that are laid out.
Laid(r, o) ==
    /\ IsPath(o.target) /\ o.target # <<>> /\ Extension(Name(o.target)) \notin PrimaryExtensions(r.kind)
    /\ {"op", "target"} \subseteq DOMAIN o /\ (o.op = "write" => "content" \in DOMAIN o)
    /\ r.kind = "television" =>
          /\ o.op = "write" => o.content[1] # "manifest"
          /\ IF IsEpisodeFile(o)
             THEN /\ Spelled(Stem(Name(o.target))) # {}
                  /\ EpisodeNumber(o.target) = {[season |-> o.content[2].season, number |-> o.content[2].number]}
             ELSE EpisodeNumber(o.target) = {}

LEMMA LaidIs ==
    ASSUME NEW r, IsPlanSample(r), NEW m, m = Metadata(r)
    PROVE  IsSequence(m) /\ \A i \in 1..Len(m) : Laid(r, m[i]) /\ ManifestKept(m, m[i])
<1> DEFINE p == r.planned
           n == Len(p)
<1>1. PICK at : LaidFrom(m, p, at)
  BY MetadataIs
<1>2. IsLaidOut(r.kind, p)
  BY DEF IsPlanSample
<1> HIDE DEF p
<1>3. \A i \in 1..n :
         /\ IsPath(p[i].target) /\ p[i].target # <<>>
         /\ Extension(Name(p[i].target)) \notin PrimaryExtensions(r.kind)
         /\ r.kind = "television" =>
              /\ p[i].op = "write" => p[i].content[1] # "manifest"
              /\ IF IsEpisodeFile(p[i])
                 THEN /\ Spelled(Stem(Name(p[i].target))) # {}
                      /\ EpisodeNumber(p[i].target) = {[season |-> p[i].content[2].season, number |-> p[i].content[2].number]}
                 ELSE EpisodeNumber(p[i].target) = {}
  <2> TAKE i \in 1..n
  <2>1. /\ IsPath(p[i].target) /\ p[i].target # <<>>
        /\ Extension(Name(p[i].target)) \notin PrimaryExtensions(r.kind)
        /\ p[i].op = "write" /\ r.kind = "television" => p[i].content[1] # "manifest"
    BY <1>2 DEF IsLaidOut
  <2>2. r.kind = "television" =>
           IF IsEpisodeFile(p[i])
           THEN /\ Spelled(Stem(Name(p[i].target))) # {}
                /\ EpisodeNumber(p[i].target) = {[season |-> p[i].content[2].season, number |-> p[i].content[2].number]}
           ELSE EpisodeNumber(p[i].target) = {}
    BY <1>2 DEF IsLaidOut
  <2> QED BY <2>1, <2>2
<1>4. ASSUME NEW i \in 1..Len(m)
      PROVE  Laid(r, m[i]) /\ ManifestKept(m, m[i])
  <2>1. at[i] \in 1..n /\ SameFile(m[i], p[at[i]]) /\ ManifestKept(m, m[i])
    BY <1>1 DEF LaidFrom
  <2> DEFINE q == p[at[i]]
             o == m[i]
  <2>2. /\ IsPath(q.target) /\ q.target # <<>> /\ Extension(Name(q.target)) \notin PrimaryExtensions(r.kind)
        /\ r.kind = "television" =>
             /\ q.op = "write" => q.content[1] # "manifest"
             /\ IF IsEpisodeFile(q)
                THEN /\ Spelled(Stem(Name(q.target))) # {}
                     /\ EpisodeNumber(q.target) = {[season |-> q.content[2].season, number |-> q.content[2].number]}
                ELSE EpisodeNumber(q.target) = {}
    BY <1>3, <2>1
  <2>3. SameFile(o, q)
    BY <2>1
  <2> HIDE DEF q, o
  <2>4. r.kind = "television" => o = q
    BY <2>2, <2>3 DEF SameFile
  <2>5. Laid(r, o)
    BY <2>2, <2>3, <2>4 DEF Laid, SameFile
  <2> QED BY <2>1, <2>5 DEF q, o
<1>5. IsSequence(m)
  BY <1>1 DEF LaidFrom
<1> QED BY <1>4, <1>5

\* What is planned where an NFO goes beside its video is an NFO of that episode.
LEMMA BesideAlone ==
    ASSUME NEW r, IsPlanSample(r), NEW m, m = Metadata(r), NEW i \in 1..Len(m), NEW j \in 1..Len(m),
           NEW v, Accompanies(r, m[i], v),
           WithExtension(Target(r, v), "nfo") = r.package \o m[j].target
    PROVE  LaidOutTogether(r.kind, m[i], m[j])
<1>1. v \in Videos(r) /\ r.kind = "television" /\ IsEpisodeFile(m[i]) /\ EpisodeNumber(v) = EpisodeNumber(m[i].target)
  BY DEF Accompanies
<1>2. PICK e : EpisodeNumber(v) = {e}
  BY <1>1, VideoIs
<1>3. PICK folder \in DOMAIN SeasonOf :
         WithExtension(Target(r, v), "nfo") = r.package \o <<folder, Append(Stem(Name(v)), "nfo")>>
  BY <1>1, <1>2, VideoBeside
<1> DEFINE x == Append(Stem(Name(v)), "nfo")
           q == <<folder, x>>
           t == m[j].target
<1>4. Laid(r, m[j])
  BY LaidIs
<1>5. q = t
  <2>1. IsSequence(t)
    BY <1>4, PathIs DEF Laid
  <2>2. IsSequence(q)
    <3> HIDE DEF x
    <3> QED BY TwoItems
  <2>3. r.package \o q = r.package \o t /\ IsSequence(r.package)
    BY <1>1, <1>3, VideoIs, FileIs
  <2> HIDE DEF q, t
  <2> QED BY <2>1, <2>2, <2>3, SameBehind
<1>6. EpisodeNumber(q) # {} /\ (Spelled(Stem(Name(q))) # {} => EpisodeNumber(q) = EpisodeNumber(v))
  BY <1>1, BesideRead
<1> HIDE DEF q
<1>7. IsEpisodeFile(m[j]) /\ EpisodeNumber(t) = EpisodeNumber(v)
  BY <1>1, <1>4, <1>5, <1>6 DEF Laid
<1>8. EpisodeNumber(m[i].target) = EpisodeNumber(m[j].target)
  BY <1>1, <1>7
<1> QED BY <1>1, <1>7, <1>8 DEF LaidOutTogether

\* Two files are written in one place only if they were laid out together.
LEMMA WritesApart ==
    ASSUME NEW r, IsPlanSample(r), ~ Ambiguous(r), NEW m, m = Metadata(r),
           NEW i \in 1..Len(m), NEW j \in 1..Len(m), Rebased(r, m[i]).target = Rebased(r, m[j]).target
    PROVE  LaidOutTogether(r.kind, m[i], m[j])
<1> DEFINE o == m[i]
           p == m[j]
<1>1. Laid(r, o) /\ Laid(r, p)
  BY LaidIs
<1>2. /\ {"op", "target"} \subseteq DOMAIN o /\ (o.op = "write" => "content" \in DOMAIN o)
      /\ {"op", "target"} \subseteq DOMAIN p /\ (p.op = "write" => "content" \in DOMAIN p)
  BY <1>1 DEF Laid
<1> HIDE DEF o, p
<1>3. /\ \A v : Accompanies(r, o, v) => Rebased(r, o).target = WithExtension(Target(r, v), "nfo")
      /\ (\A v : ~ Accompanies(r, o, v)) => Rebased(r, o).target = r.package \o o.target
  BY <1>2, WriteIs1
<1>4. /\ \A v : Accompanies(r, p, v) => Rebased(r, p).target = WithExtension(Target(r, v), "nfo")
      /\ (\A v : ~ Accompanies(r, p, v)) => Rebased(r, p).target = r.package \o p.target
  BY <1>2, WriteIs1
<1>5. Rebased(r, o).target = Rebased(r, p).target
  BY DEF o, p
<1>6. CASE \E v, w : Accompanies(r, o, v) /\ Accompanies(r, p, w)
  <2>1. PICK v, w : Accompanies(r, o, v) /\ Accompanies(r, p, w)
    BY <1>6
  <2>2. WithExtension(Target(r, v), "nfo") = WithExtension(Target(r, w), "nfo")
    BY <1>3, <1>4, <1>5, <2>1
  <2>3. /\ v \in Videos(r) /\ w \in Videos(r) /\ r.kind = "television" /\ IsEpisodeFile(o) /\ IsEpisodeFile(p)
        /\ EpisodeNumber(v) = EpisodeNumber(o.target) /\ EpisodeNumber(w) = EpisodeNumber(p.target)
    BY <2>1 DEF Accompanies
  <2>4. EpisodeNumber(v) = EpisodeNumber(w)
    BY <2>2, <2>3, BesideApart
  <2>5. EpisodeNumber(o.target) = EpisodeNumber(p.target)
    BY <2>3, <2>4
  <2> QED BY <2>3, <2>5 DEF o, p, LaidOutTogether
<1>7. CASE (\E v : Accompanies(r, o, v)) /\ \A w : ~ Accompanies(r, p, w)
  <2>1. PICK v : Accompanies(r, o, v)
    BY <1>7
  <2>2. WithExtension(Target(r, v), "nfo") = r.package \o p.target
    BY <1>3, <1>4, <1>5, <1>7, <2>1
  <2> QED BY <2>1, <2>2, BesideAlone DEF o, p
<1>8. CASE (\A v : ~ Accompanies(r, o, v)) /\ \E w : Accompanies(r, p, w)
  <2>1. PICK w : Accompanies(r, p, w)
    BY <1>8
  <2>2. WithExtension(Target(r, w), "nfo") = r.package \o o.target
    BY <1>3, <1>4, <1>5, <1>8, <2>1
  <2>3. LaidOutTogether(r.kind, p, o)
    BY <2>1, <2>2, BesideAlone DEF o, p
  <2> QED BY <2>3 DEF o, p, LaidOutTogether
<1>9. CASE (\A v : ~ Accompanies(r, o, v)) /\ \A w : ~ Accompanies(r, p, w)
  <2>1. r.package \o o.target = r.package \o p.target
    BY <1>3, <1>4, <1>5, <1>9
  <2>2. IsSequence(o.target) /\ IsSequence(p.target) /\ IsSequence(r.package)
    BY <1>1, PathIs DEF Laid, IsPlanSample
  <2>3. o.target = p.target
    BY <2>1, <2>2, SameBehind
  <2> QED BY <2>3 DEF o, p, LaidOutTogether
<1> QED BY <1>6, <1>7, <1>8, <1>9

\* Each is written below the package, and none is a medium.
LEMMA WrittenWithin ==
    ASSUME NEW r, IsPlanSample(r), ~ Ambiguous(r), NEW o, Laid(r, o)
    PROVE  Within(r, Rebased(r, o).target) /\ Extension(Name(Rebased(r, o).target)) \notin PrimaryExtensions(r.kind)
<1>1. /\ \A v : Accompanies(r, o, v) => Rebased(r, o).target = WithExtension(Target(r, v), "nfo")
      /\ (\A v : ~ Accompanies(r, o, v)) => Rebased(r, o).target = r.package \o o.target
  BY WriteIs1 DEF Laid
<1>2. IsSequence(r.package)
  BY PathIs DEF IsPlanSample
<1>3. ASSUME NEW v, Accompanies(r, o, v)
      PROVE  Within(r, Rebased(r, o).target) /\ Extension(Name(Rebased(r, o).target)) \notin PrimaryExtensions(r.kind)
  <2>1. v \in Videos(r) /\ r.kind = "television"
    BY <1>3 DEF Accompanies
  <2>2. PICK e : EpisodeNumber(v) = {e}
    BY <2>1, VideoIs
  <2> DEFINE stem == Stem(Name(v))
             x == Append(stem, "nfo")
  <2>3. PICK folder \in DOMAIN SeasonOf : WithExtension(Target(r, v), "nfo") = r.package \o <<folder, x>>
    BY <2>1, <2>2, VideoBeside
  <2>4. IsSequence(stem) /\ stem # <<>>
    BY <2>1, VideoIs, PathIs, StemIs
  <2> HIDE DEF stem
  <2>5. Extension(x) = "nfo"
    BY <2>4, NameIs
  <2> HIDE DEF x
  <2>6. IsSequence(<<folder>>) /\ IsSequence(<<folder, x>>) /\ <<folder, x>> = Append(<<folder>>, x) /\ <<folder, x>> # <<>>
    BY TwoItems
  <2>7. Within(r, r.package \o <<folder, x>>)
    BY <2>6 DEF Within
  <2> DEFINE f == <<folder>>
  <2> HIDE DEF f
  <2>8. Name(r.package \o Append(f, x)) = x
    BY <1>2, <2>6, BehindBoth DEF f
  <2>9. "nfo" \notin PrimaryExtensions("television")
    BY DEF PrimaryExtensions
  <2>10. Rebased(r, o).target = r.package \o <<folder, x>>
    BY <1>1, <1>3, <2>3
  <2>11. Extension(Name(r.package \o <<folder, x>>)) = "nfo"
    BY <2>5, <2>6, <2>8 DEF f
  <2> QED BY <2>1, <2>7, <2>9, <2>10, <2>11
<1>4. CASE \A v : ~ Accompanies(r, o, v)
  <2> DEFINE t == o.target
             front == Parent(t)
             last == Name(t)
             p == r.package
  <2>1. IsSequence(t) /\ t # <<>> /\ Extension(last) \notin PrimaryExtensions(r.kind)
    BY PathIs DEF Laid
  <2>2. IsSequence(front) /\ t = Append(front, last)
    <3> HIDE DEF t
    <3> QED BY <2>1, LastBehind
  <2>3. Rebased(r, o).target = p \o t /\ Within(r, p \o t)
    BY <1>1, <1>4, <2>1 DEF Within
  <2>4. IsSequence(p)
    BY <1>2
  <2> HIDE DEF p, front, last, t
  <2>5. Name(p \o Append(front, last)) = last
    BY <2>2, <2>4, BehindBoth
  <2> QED BY <2>1, <2>2, <2>3, <2>5
<1> QED BY <1>3, <1>4

-----------------------------------------------------------------------------
(***************************************************************************)
(* What a plan is.                                                         *)
(***************************************************************************)

\* A link that is relative leads back from where it starts.
LEMMA LinkFollowed ==
    ASSUME NEW from, IsSequence(from), NEW to, IsPath(to)
    PROVE  LeadsTo(from, RelativePath(from, to)) = to
<1>1. IsSequence(to) /\ \A i \in 1..Len(to) : to[i] # Upward
  BY DEF IsPath, IsName
<1>2. PICK N : from \in Seq(N) /\ to \in Seq(N) /\ Upward \in N
  BY <1>1, OneSet
<1>3. PICK c \in 0..Len(from) :
         /\ c \in 0..Len(to) /\ SubSeq(from, 1, c) = SubSeq(to, 1, c)
         /\ RelativePath(from, to) = Ups(Len(from) - c) \o SubSeq(to, c + 1, Len(to))
  BY <1>2, RelativePathIs
<1>4. Len(from) \in Nat /\ Len(to) \in Nat
  BY <1>1, SequenceIsList
<1> DEFINE k == Len(from) - c
           ups == Ups(k)
           rest == SubSeq(to, c + 1, Len(to))
           link == ups \o rest
<1>5. k \in Nat /\ Len(from) - k = c
  BY <1>3, <1>4
<1> HIDE DEF k
<1>6. ups \in Seq(N) /\ Len(ups) = k /\ \A i \in 1..k : ups[i] = Upward
  <2>1. ups = [i \in 1..k |-> Upward]
    BY DEF Ups
  <2> HIDE DEF ups
  <2>2. ups \in [1..k -> N]
    BY <1>2, <2>1
  <2>3. ups \in Seq(N)
    BY <1>5, <2>2
  <2>4. Len(ups) = k
    BY <1>5, <2>1
  <2> QED BY <2>1, <2>3, <2>4
<1>7. rest \in Seq(N) /\ Len(rest) = Len(to) - c /\ to = SubSeq(to, 1, c) \o rest
  BY <1>2, <1>3, Start
<1>8. Len(rest) # 0 => rest[1] # Upward
  <2> SUFFICES ASSUME Len(rest) # 0 PROVE rest[1] # Upward
    OBVIOUS
  <2>1. c + 1 \in 1..Len(to) /\ 1 \in 1..Len(rest)
    BY <1>3, <1>4, <1>7
  <2>2. rest[1] = to[c + 1]
    BY <1>2, <1>3, <1>4, <2>1
  <2> QED BY <1>1, <2>1, <2>2
<1> HIDE DEF ups, rest
<1>9. /\ Len(link) = k + Len(rest) /\ Len(rest) \in Nat
      /\ \A i \in 1..k : link[i] = Upward
      /\ \A i \in 1..Len(rest) : link[k + i] = rest[i]
      /\ SubSeq(link, k + 1, Len(link)) = rest
  <2>0. ups \in Seq(N) /\ rest \in Seq(N)
    BY <1>6, <1>7
  <2>1. /\ Len(link) = Len(ups) + Len(rest) /\ Len(rest) \in Nat
        /\ \A i \in 1..Len(ups) : link[i] = ups[i]
        /\ \A i \in 1..Len(rest) : link[Len(ups) + i] = rest[i]
    BY <2>0, Both
  <2>2. SubSeq(link, Len(ups) + 1, Len(link)) = rest
    BY <2>0, Halves
  <2> HIDE DEF link
  <2> QED BY <1>6, <2>1, <2>2
<1> HIDE DEF link
<1> DEFINE S == {n \in 0..Len(link) : \A i \in 1..n : link[i] = Upward}
<1>10. Max(S) = k
  <2>1. Len(link) \in Nat /\ k \in 0..Len(link)
    BY <1>5, <1>9
  <2>2. k \in S
    BY <1>9, <2>1
  <2>3. ASSUME NEW n \in S PROVE n <= k
    <3> SUFFICES ASSUME ~ (n <= k) PROVE FALSE
      OBVIOUS
    <3>1. n \in 0..Len(link) /\ \A i \in 1..n : link[i] = Upward
      OBVIOUS
    <3>2. k + 1 \in 1..n /\ 1 \in 1..Len(rest)
      BY <1>5, <1>9, <3>1
    <3>3. link[k + 1] = rest[1]
      BY <1>9, <3>2
    <3> QED BY <1>8, <1>9, <3>1, <3>2, <3>3
  <2>4. S \in SUBSET (0..Len(link)) /\ S # {}
    BY <2>2
  <2> HIDE DEF S
  <2> DEFINE x == Max(S)
  <2>5. x \in S /\ \A n \in S : n <= x
    BY <2>1, <2>4, Greatest
  <2> HIDE DEF x
  <2>6. x \in Nat
    BY <2>1, <2>4, <2>5
  <2>7. x <= k /\ k <= x
    BY <2>2, <2>3, <2>5
  <2>8. x = k
    BY <1>5, <2>6, <2>7
  <2> QED BY <2>8 DEF x
<1>11. LeadsTo(from, link) = SubSeq(from, 1, Len(from) - Max(S)) \o SubSeq(link, Max(S) + 1, Len(link))
  BY DEF LeadsTo, Follows
<1> HIDE DEF S
<1>12. LeadsTo(from, link) = SubSeq(from, 1, c) \o rest
  BY <1>5, <1>9, <1>10, <1>11
<1>13. RelativePath(from, to) = link
  BY <1>3 DEF link, ups, rest, k
<1> QED BY <1>3, <1>7, <1>12, <1>13

\* An unrefused plan, by what is placed and what is written.
LEMMA PlanIs ==
    ASSUME NEW r, NEW m, m = Metadata(r), IsSequence(m), Organized(r) # Refused
    PROVE  LET plan == Organized(r) IN
           /\ ~ Ambiguous(r)
           /\ DOMAIN plan.place \subseteq r.files /\ \A f \in DOMAIN plan.place : plan.place[f] = Placed(r, f)
           /\ DOMAIN plan.write = 1..Len(m) /\ \A i \in 1..Len(m) : plan.write[i] = Rebased(r, m[i])
           /\ \A f, g \in DOMAIN plan.place : f # g => plan.place[f] # plan.place[g]
           /\ \A f \in r.files : f \in DOMAIN plan.place <=>
                 \A i \in 1..Len(m) : Placed(r, f) # Rebased(r, m[i]).target
<1> DEFINE at == [f \in r.files |-> Placed(r, f)]
           w == [i \in 1..Len(m) |-> Rebased(r, m[i])]
           placed == {f \in r.files : at[f] \notin {w[i].target : i \in 1..Len(w)}}
           refused == \/ Ambiguous(r)
                      \/ \E f, g \in placed : f # g /\ at[f] = at[g]
                      \/ \E f \in r.files : ~ r.directory /\ r.override = <<>> /\ Extension(Name(f)) = NoExtension
           plan == [place |-> Restrict(at, placed), write |-> w]
<1>1. Organized(r) = IF refused THEN Refused ELSE plan
  BY DEF Organized, Each, PlanOf
<1>2. Organized(r) = plan /\ ~ refused
  <2> HIDE DEF refused, plan
  <2> QED BY <1>1
<1>3. Len(w) = Len(m)
  <2>1. Len(m) \in Nat
    BY SequenceIsList
  <2> QED BY <2>1
<1>4. /\ Organized(r).place = Restrict(at, placed) /\ Organized(r).write = w
  <2> HIDE DEF w, placed, refused
  <2> QED BY <1>2
<1>5. DOMAIN Restrict(at, placed) = placed /\ \A f \in placed : Restrict(at, placed)[f] = at[f]
  BY DEF Restrict
<1>6. placed \subseteq r.files /\ \A f \in r.files : at[f] = Placed(r, f)
  OBVIOUS
<1>7. \A f \in r.files : f \in placed <=> \A i \in 1..Len(m) : Placed(r, f) # Rebased(r, m[i]).target
  <2>1. \A i \in 1..Len(m) : w[i] = Rebased(r, m[i])
    OBVIOUS
  <2> HIDE DEF w
  <2> QED BY <1>3, <2>1
<1>8. DOMAIN w = 1..Len(m) /\ \A i \in 1..Len(m) : w[i] = Rebased(r, m[i])
  OBVIOUS
<1>9. ~ Ambiguous(r) /\ \A f, g \in placed : f # g => at[f] # at[g]
  BY <1>2
<1> HIDE DEF w, placed, at, refused, plan
<1> QED BY <1>4, <1>5, <1>6, <1>7, <1>8, <1>9

\* A plan of files and metadata that are placed as above is sound.
LEMMA Together ==
    ASSUME NEW r, IsPlanSample(r), NEW m, m = Metadata(r), Organized(r) # Refused
    PROVE  LET plan == Organized(r) IN
           /\ Primaries(r) \subseteq DOMAIN plan.place
           /\ EpisodesTogether(r, plan.place, plan.write, [v \in Videos(r) |-> EpisodeNumber(v)])
<1> DEFINE plan == Organized(r)
           videos == [v \in Videos(r) |-> EpisodeNumber(v)]
<1>1. IsSequence(m) /\ \A i \in 1..Len(m) : Laid(r, m[i])
  BY LaidIs
<1>2. /\ ~ Ambiguous(r)
      /\ DOMAIN plan.place \subseteq r.files /\ \A f \in DOMAIN plan.place : plan.place[f] = Placed(r, f)
      /\ DOMAIN plan.write = 1..Len(m) /\ \A i \in 1..Len(m) : plan.write[i] = Rebased(r, m[i])
      /\ \A f \in r.files : f \in DOMAIN plan.place <=>
            \A i \in 1..Len(m) : Placed(r, f) # Rebased(r, m[i]).target
  BY <1>1, PlanIs
<1> HIDE DEF plan
<1>3. ASSUME NEW f \in Primaries(r) PROVE f \in DOMAIN plan.place
  <2>1. f \in r.files /\ Extension(Name(f)) \in PrimaryExtensions(r.kind)
    BY DEF Primaries
  <2>2. Extension(Name(Placed(r, f))) = Extension(Name(f))
    BY <2>1, MediumPlaced, TargetBelow DEF Below
  <2>3. \A i \in 1..Len(m) : Extension(Name(Rebased(r, m[i]).target)) \notin PrimaryExtensions(r.kind)
    BY <1>1, <1>2, WrittenWithin
  <2>4. \A i \in 1..Len(m) : Placed(r, f) # Rebased(r, m[i]).target
    BY <2>1, <2>2, <2>3
  <2> QED BY <1>2, <2>1, <2>4
<1>4. ASSUME NEW v \in Videos(r)
      PROVE  v \in DOMAIN plan.place /\ plan.place[v] = Target(r, v) /\ r.kind = "television"
  <2>1. v \in Primaries(r) /\ r.kind = "television"
    BY DEF Videos
  <2> QED BY <1>2, <1>3, <2>1, MediumPlaced
<1>5. DOMAIN videos = Videos(r) /\ \A v \in Videos(r) : videos[v] = EpisodeNumber(v)
  OBVIOUS
<1> HIDE DEF videos
<1>6. ASSUME NEW v \in DOMAIN videos, NEW i \in DOMAIN plan.write,
             m[i].op = "write", m[i].content[1] = "episode", m[i].content[2].scheme = "aired",
             videos[v] = {[season |-> m[i].content[2].season, number |-> m[i].content[2].number]}
      PROVE  plan.write[i].target = WithExtension(plan.place[v], "nfo")
  <2>1. v \in Videos(r) /\ i \in 1..Len(m) /\ videos[v] = EpisodeNumber(v)
    BY <1>2, <1>5
  <2>2. Laid(r, m[i]) /\ r.kind = "television" /\ plan.place[v] = Target(r, v)
    BY <1>1, <1>4, <2>1
  <2>3. IsEpisodeFile(m[i])
    BY <1>6 DEF IsEpisodeFile
  <2>4. EpisodeNumber(m[i].target) = EpisodeNumber(v)
    BY <1>6, <2>1, <2>2, <2>3 DEF Laid
  <2>5. Accompanies(r, m[i], v)
    BY <2>1, <2>2, <2>3, <2>4 DEF Accompanies
  <2>6. Rebased(r, m[i]).target = WithExtension(Target(r, v), "nfo")
    BY <1>2, <2>2, <2>5, WriteIs1 DEF Laid
  <2> QED BY <1>2, <2>1, <2>2, <2>6
<1>7. ASSUME NEW v \in DOMAIN videos, NEW f \in DOMAIN plan.place,
             Extension(Name(f)) \in SidecarExtensions \ {"nfo"},
             {w \in DOMAIN videos : Continues(Name(f), Stem(Name(w)))} = {v}
      PROVE  Parent(plan.place[f]) = Parent(plan.place[v])
  <2>1. v \in Videos(r) /\ plan.place[v] = Target(r, v) /\ r.kind = "television" /\ f \in r.files
        /\ plan.place[f] = Placed(r, f)
    BY <1>2, <1>4, <1>5
  <2>2. Continued(r, f) = {v}
    BY <1>5, <1>7 DEF Continued, Continues
  <2> DEFINE beside == [w \in Continued(r, f) |-> Target(r, w)]
  <2>3. Placed(r, f) = Companion(f, Target(r, f), {}, beside)
    BY <1>7, <2>1 DEF Placed
  <2>4. DOMAIN beside = {v} /\ Range(beside) = {Target(r, v)} /\ Cardinality(DOMAIN beside) = 1
    <3>1. DOMAIN beside = {v} /\ beside[v] = Target(r, v)
      BY <2>2
    <3> HIDE DEF beside
    <3> QED BY <3>1, FS_Singleton DEF Range
  <2> HIDE DEF beside
  <2>5. Placed(r, f) = Beside(f, v, Target(r, v))
    BY <2>3, <2>4 DEF Companion
  <2>6. Within(r, Target(r, v)) /\ IsSequence(r.package)
    BY <2>1, VideoIs, FileIs, TargetBelow DEF Below
  <2>7. \A x : Parent(Append(Parent(Target(r, v)), x)) = Parent(Target(r, v))
    BY <2>6, BesideWithin
  <2> QED BY <2>1, <2>5, <2>7 DEF Beside
<1>8. EpisodesTogether(r, plan.place, plan.write, videos)
  BY <1>6, <1>7 DEF EpisodesTogether
<1> QED BY <1>3, <1>8 DEF plan, videos

LEMMA PlansAreSound == ASSUME NEW r, IsPlanSample(r) PROVE SoundPlan(r, Organized(r))
<1> DEFINE plan == Organized(r)
           m == Metadata(r)
<1> SUFFICES ASSUME plan # Refused PROVE SoundPlan(r, plan)
  BY DEF SoundPlan
<1>1. IsSequence(m) /\ \A i \in 1..Len(m) : Laid(r, m[i]) /\ ManifestKept(m, m[i])
  BY LaidIs
<1>2. /\ ~ Ambiguous(r)
      /\ DOMAIN plan.place \subseteq r.files /\ \A f \in DOMAIN plan.place : plan.place[f] = Placed(r, f)
      /\ DOMAIN plan.write = 1..Len(m) /\ \A i \in 1..Len(m) : plan.write[i] = Rebased(r, m[i])
      /\ \A f, g \in DOMAIN plan.place : f # g => plan.place[f] # plan.place[g]
      /\ \A f \in r.files : f \in DOMAIN plan.place <=>
            \A i \in 1..Len(m) : Placed(r, f) # Rebased(r, m[i]).target
  <2> HIDE DEF m
  <2> QED BY <1>1, PlanIs DEF m
<1>3. /\ Primaries(r) \subseteq DOMAIN plan.place
      /\ EpisodesTogether(r, plan.place, plan.write, [v \in Videos(r) |-> EpisodeNumber(v)])
  BY Together
<1>4. \A f \in DOMAIN plan.place : Within(r, plan.place[f]) /\ IsPath(f)
  BY <1>2, PlacedWithin, FileIs
<1>5. \A i \in 1..Len(m) : Within(r, plan.write[i].target)
  BY <1>1, <1>2, WrittenWithin
<1>6. \A i, j \in 1..Len(m) : plan.write[i].target = plan.write[j].target => LaidOutTogether(r.kind, m[i], m[j])
  BY <1>2, WritesApart
<1>7. ASSUME NEW i \in 1..Len(m), plan.write[i].op = "write", plan.write[i].content[1] = "manifest",
             NEW t \in plan.write[i].content[2]
      PROVE  \E j \in 1..Len(m) : plan.write[j].target = r.package \o t
  <2>1. \A j \in 1..Len(m) : /\ plan.write[j].op = m[j].op
                             /\ m[j].op = "write" => plan.write[j].content = m[j].content
                             /\ (\A v : ~ Accompanies(r, m[j], v)) => plan.write[j].target = r.package \o m[j].target
    <3> TAKE j \in 1..Len(m)
    <3> DEFINE o == m[j]
    <3>1. /\ {"op", "target"} \subseteq DOMAIN o /\ (o.op = "write" => "content" \in DOMAIN o)
          /\ plan.write[j] = Rebased(r, o) /\ ~ Ambiguous(r)
      BY <1>1, <1>2 DEF Laid
    <3> HIDE DEF o, plan, m
    <3>2. /\ Rebased(r, o).op = o.op /\ (o.op = "write" => Rebased(r, o).content = o.content)
          /\ (\A v : ~ Accompanies(r, o, v)) => Rebased(r, o).target = r.package \o o.target
      BY <3>1, WriteIs1
    <3> QED BY <3>1, <3>2 DEF o
  <2> HIDE DEF plan, m
  <2>2. m[i].op = "write" /\ m[i].content[1] = "manifest" /\ t \in m[i].content[2]
    BY <1>7, <2>1
  <2>3. PICK j \in 1..Len(m) : m[j].target = t
    BY <1>1, <2>2 DEF ManifestKept
  <2>4. r.kind # "television"
    BY <1>1, <2>2 DEF Laid
  <2>5. plan.write[j].target = r.package \o m[j].target
    BY <2>1, <2>4 DEF Accompanies
  <2> QED BY <2>3, <2>5
<1>8. IsSequence(r.package)
  BY PathIs DEF IsPlanSample
<1> HIDE DEF plan, m
<1>9. NothingCollides(r, plan.place, plan.write)
  <2>1. \A t : Within(r, t) => IsStrictPrefix(r.package, t)
    BY <1>8, StrictlyBelow DEF Within
  <2>2. \A t \in Range(plan.place) \cup {plan.write[i].target : i \in DOMAIN plan.write} : IsStrictPrefix(r.package, t)
    BY <1>2, <1>4, <1>5, <2>1 DEF Range
  <2>3. \A f \in DOMAIN plan.place, i \in DOMAIN plan.write : plan.place[f] # plan.write[i].target
    BY <1>2
  <2>4. \A i, j \in DOMAIN plan.write :
           plan.write[i].target = plan.write[j].target => LaidOutTogether(r.kind, Metadata(r)[i], Metadata(r)[j])
    BY <1>2, <1>6 DEF m
  <2> QED BY <1>2, <2>2, <2>3, <2>4 DEF NothingCollides
<1>10. ASSUME NEW f \in DOMAIN plan.place
       PROVE  LET from == <<<<"library">>>> \o Parent(plan.place[f]) IN LeadsTo(from, RelativePath(from, f)) = f
  <2> DEFINE at == Parent(plan.place[f])
             library == <<<<"library">>>>
             from == library \o at
  <2>1. IsSequence(at)
    BY <1>4, <1>8, BesideWithin
  <2>2. IsSequence(library)
    BY OneItem
  <2> HIDE DEF at, library
  <2>3. IsSequence(from)
    BY <2>1, <2>2, Joined
  <2> HIDE DEF from
  <2>4. LeadsTo(from, RelativePath(from, f)) = f
    BY <1>4, <2>3, LinkFollowed
  <2> QED BY <2>4 DEF from, library, at
<1>11. \A i \in DOMAIN plan.write : plan.write[i].op = "write" /\ plan.write[i].content[1] = "manifest" =>
          \A t \in plan.write[i].content[2] : \E j \in DOMAIN plan.write : plan.write[j].target = r.package \o t
  BY <1>2, <1>7
<1> QED BY <1>3, <1>9, <1>10, <1>11 DEF SoundPlan, plan

-----------------------------------------------------------------------------
(***************************************************************************)
(* The folders of a package.                                               *)
(***************************************************************************)

\* No character of a text is reserved.
IsClean(text) == IsSequence(text) /\ \A i \in 1..Len(text) : text[i] \notin Reserved

LEMMA SanitizeIs == ASSUME NEW text, IsSequence(text) PROVE IsClean(Sanitize(text))
<1> DEFINE n == Len(text)
           t == [i \in 1..n |-> IF text[i] \in Reserved THEN " " ELSE text[i]]
           Inner(i) == (\E j \in 1..(i - 1) : t[j] # " ") /\ (\E j \in i..Len(t) : t[j] # " ")
           K == {i \in 1..Len(t) : t[i] # " " \/ (Inner(i) /\ t[i - 1] # " ")}
<1>1. n \in Nat
  BY SequenceIsList
<1>2. \A i \in 1..n : t[i] \notin Reserved
  BY DEF Reserved
<1>3. Sanitize(text) = Pick(t, K)
  BY DEF Sanitize, KeepAt
<1>4. IsSequence(t) /\ Len(t) = n
  <2>1. t = [i \in 1..n |-> t[i]]
    OBVIOUS
  <2> HIDE DEF t
  <2> QED BY <1>1, <2>1, ListIsSequence
<1>5. K \in SUBSET (1..Len(t))
  OBVIOUS
<1> HIDE DEF t, K
<1>6. IsSequence(Pick(t, K))
  BY <1>4, <1>5, SomePositions, Picked
<1>7. \A j \in 1..Len(Pick(t, K)) : Pick(t, K)[j] \notin Reserved
  <2> TAKE j \in 1..Len(Pick(t, K))
  <2>1. PICK i \in K : Pick(t, K)[j] = t[i]
    BY <1>4, <1>5, PickedItems
  <2> QED BY <1>2, <1>4, <1>5, <2>1
<1> QED BY <1>3, <1>6, <1>7 DEF IsClean

\* The name of a folder starts with a character that is left.
LEMMA SafeIs ==
    ASSUME NEW text, IsSequence(text)
    PROVE  LET name == SafeFolderName(text, <<"u">>) IN IsClean(name) /\ name # <<>> /\ name[1] # "."
<1> DEFINE t == Sanitize(text)
           n == Len(t)
           Filler == {" ", "."}
           solid == {i \in 1..n : t[i] \notin Filler}
           name == SafeFolderName(text, <<"u">>)
<1>1. IsSequence(t) /\ \A i \in 1..n : t[i] \notin Reserved
  BY SanitizeIs DEF IsClean
<1>9. n \in Nat
  BY <1>1, SequenceIsList
<1>2. name = IF solid = {} THEN <<"u">> ELSE SubSeq(t, Min(solid), Max(solid))
  BY DEF SafeFolderName
<1> HIDE DEF t, n, name, Filler
<1>3. CASE solid = {}
  <2>1. IsSequence(<<"u">>) /\ Len(<<"u">>) = 1 /\ <<"u">>[1] = "u"
    BY OneItem
  <2>2. "u" \notin Reserved /\ "u" # "."
    BY DEF Reserved
  <2>3. <<"u">> # <<>>
    BY <2>1, NoItem
  <2>4. IsClean(<<"u">>)
    BY <2>1, <2>2 DEF IsClean
  <2>5. name = <<"u">>
    BY <1>2, <1>3
  <2> QED BY <2>1, <2>2, <2>3, <2>4, <2>5 DEF name
<1>4. CASE solid # {}
  <2> DEFINE a == Min(solid)
             b == Max(solid)
  <2>13. solid \in SUBSET (0..n) /\ solid \in SUBSET Nat
    BY <1>9
  <2>1. a \in solid /\ \A i \in solid : a <= i
    <3>1. \E i \in solid : \A j \in solid : i <= j
      <4> HIDE DEF solid
      <4> QED BY <1>4, <2>13, LeastNumber
    <3> HIDE DEF solid
    <3> QED BY <3>1 DEF Min
  <2>2. b \in solid
    <3> HIDE DEF solid
    <3> QED BY <1>9, <1>4, <2>13, Greatest
  <2>3. a \in 1..n /\ b \in 1..n /\ t[a] \notin Filler /\ a <= b
    <3>1. \A i \in solid : i \in 1..n /\ t[i] \notin Filler
      OBVIOUS
    <3> HIDE DEF a, b, solid
    <3> QED BY <2>1, <2>2, <3>1
  <2>4. PICK N : t \in Seq(N)
    <3>1. \E N : t \in Seq(N) /\ t \in Seq(N) /\ t \in N
      BY <1>1, OneSet
    <3> QED BY <3>1
  <2>5. name = SubSeq(t, a, b)
    BY <1>2, <1>4
  <2> HIDE DEF a, b, solid
  <2>6. /\ SubSeq(t, a, b) \in Seq(N) /\ Len(SubSeq(t, a, b)) = b - a + 1
        /\ \A i \in 1..(b - a + 1) : SubSeq(t, a, b)[i] = t[a + i - 1]
    <3>1. a \in Int /\ b \in Int /\ a <= b
      BY <1>9, <2>3
    <3>2. \A i \in a..b : t[i] \in N
      <4>1. \A i \in 1..Len(t) : t[i] \in N
        BY <2>4, ElementOfSeq
      <4>2. \A i \in a..b : i \in 1..n
        BY <1>9, <2>3
      <4> QED BY <4>1, <4>2 DEF n
    <3>3. /\ SubSeq(t, a, b) \in Seq(N) /\ Len(SubSeq(t, a, b)) = IF a <= b THEN b - a + 1 ELSE 0
          /\ \A i \in 1..(b - a + 1) : SubSeq(t, a, b)[i] = t[a + i - 1]
      BY <3>1, <3>2, SubSeqProperties
    <3> QED BY <3>1, <3>3
  <2>7. IsSequence(name) /\ Len(name) = b - a + 1 /\ \A i \in 1..(b - a + 1) : name[i] = t[a + i - 1]
    BY <2>5, <2>6, SeqIsSequence
  <2>8. \A i \in 1..(b - a + 1) : a + i - 1 \in 1..n
    BY <1>9, <2>3
  <2>9. 1 \in 1..(b - a + 1) /\ a + 1 - 1 = a
    BY <1>9, <2>3
  <2>10. name # <<>>
    BY <2>7, <2>9, NoItem
  <2>11. name[1] # "."
    <3>1. name[1] \notin Filler
      <4> HIDE DEF Filler
      <4> QED BY <2>3, <2>7, <2>9
    <3> QED BY <3>1 DEF Filler
  <2>12. IsClean(name)
    BY <1>1, <2>7, <2>8 DEF IsClean
  <2> QED BY <2>10, <2>11, <2>12 DEF name
<1> QED BY <1>3, <1>4

\* The positions that are picked rise.
LEMMA NthRises ==
    ASSUME NEW K \in SUBSET Nat, IsFiniteSet(K), NEW a \in 1..Cardinality(K), NEW b \in 1..Cardinality(K)
    PROVE  Nth(K, a) < Nth(K, b) => a < b
<1> SUFFICES ASSUME Nth(K, a) < Nth(K, b) PROVE a < b
  OBVIOUS
<1> DEFINE A == {k \in K : k <= Nth(K, a)}
           B == {k \in K : k <= Nth(K, b)}
<1>1. Nth(K, a) \in K /\ Nth(K, b) \in K /\ Cardinality(A) = a /\ Cardinality(B) = b
  BY NthIsIn
<1>2. A \subseteq B /\ Nth(K, b) \in B /\ Nth(K, b) \notin A /\ B \subseteq K
  <2> DEFINE x == Nth(K, a)
             y == Nth(K, b)
  <2>1. x \in K /\ y \in K /\ x < y
    BY <1>1
  <2>3. \A k \in K : k \in Nat
    OBVIOUS
  <2> HIDE DEF x, y
  <2>4. (\A k \in K : k <= x => k <= y) /\ y <= y /\ ~ (y <= x)
    BY <2>1, <2>3
  <2>2. {k \in K : k <= x} \subseteq {k \in K : k <= y} /\ y \in {k \in K : k <= y} /\ y \notin {k \in K : k <= x}
    BY <2>1, <2>4, Zenon
  <2> QED BY <2>2 DEF x, y
<1> HIDE DEF A, B
<1>3. IsFiniteSet(B)
  BY <1>2, FS_Subset
<1>4. Cardinality(A) <= Cardinality(B) /\ (Cardinality(A) = Cardinality(B) => A = B)
  BY <1>2, <1>3, FS_Subset
<1>5. Cardinality(K) \in Nat
  BY FS_CardinalityType
<1> QED BY <1>1, <1>2, <1>4, <1>5

\* Between two that follow each other none is picked.
LEMMA NextNth ==
    ASSUME NEW K \in SUBSET Nat, IsFiniteSet(K), NEW j \in Nat, j \in 1..Cardinality(K), j + 1 \in 1..Cardinality(K)
    PROVE  /\ Nth(K, j) \in K /\ Nth(K, j + 1) \in K /\ Nth(K, j) < Nth(K, j + 1)
           /\ \A k \in K : ~ (Nth(K, j) < k /\ k < Nth(K, j + 1))
<1> DEFINE a == Nth(K, j)
           b == Nth(K, j + 1)
<1>1. a \in K /\ b \in K /\ (a = b => j = j + 1)
  BY NthIsIn
<1>2. b < a => j + 1 < j
  BY NthRises
<1>3. ASSUME NEW k \in K, a < k, k < b PROVE FALSE
  <2>1. PICK l \in 1..Cardinality(K) : Nth(K, l) = k
    BY NthIsIn
  <2>2. j < l
    <3>1. Nth(K, j) < Nth(K, l) => j < l
      BY NthRises
    <3> QED BY <1>3, <2>1, <3>1
  <2>3. l < j + 1
    <3>1. Nth(K, l) < Nth(K, j + 1) => l < j + 1
      BY NthRises
    <3> QED BY <1>3, <2>1, <3>1
  <2>4. Cardinality(K) \in Nat
    BY FS_CardinalityType
  <2> QED BY <2>2, <2>3, <2>4
<1> HIDE DEF a, b
<1>4. a < b
  BY <1>1, <1>2
<1> QED BY <1>1, <1>3, <1>4 DEF a, b

\* A text between two slashes.
NoSlash(text) == IsSequence(text) /\ \A i \in 1..Len(text) : text[i] # "/"
IsSegment(text) == NoSlash(text) /\ text \notin {<<>>, <<".">>}

LEMMA CutOut ==
    ASSUME NEW text, IsSequence(text), NEW a \in 0..Len(text), NEW b \in 1..(Len(text) + 1), a < b
    PROVE  LET cut == SubSeq(text, a + 1, b - 1)
           IN  /\ IsSequence(cut) /\ Len(cut) = b - a - 1 /\ b - a - 1 \in Nat
               /\ \A i \in 1..(b - a - 1) : a + i \in 1..Len(text) /\ a < a + i /\ a + i < b /\ cut[i] = text[a + i]
<1> DEFINE n == Len(text)
           cut == SubSeq(text, a + 1, b - 1)
<1>1. PICK N : text \in Seq(N)
  <2>1. \E N : text \in Seq(N) /\ text \in Seq(N) /\ text \in N
    BY OneSet
  <2> QED BY <2>1
<1>2. n \in Nat
  BY SequenceIsList
<1>3. a \in 0..n /\ b \in 1..(n + 1)
  OBVIOUS
<1>4. \A i \in 1..n : text[i] \in N
  BY <1>1, ElementOfSeq
<1> HIDE DEF n
<1>5. a + 1 \in Int /\ b - 1 \in Int /\ \A i \in (a + 1)..(b - 1) : i \in 1..n
  BY <1>2, <1>3
<1>6. \A i \in (a + 1)..(b - 1) : text[i] \in N
  BY <1>4, <1>5
<1>7. /\ cut \in Seq(N) /\ Len(cut) = IF a + 1 <= b - 1 THEN (b - 1) - (a + 1) + 1 ELSE 0
      /\ \A i \in 1..((b - 1) - (a + 1) + 1) : cut[i] = text[(a + 1) + i - 1]
  BY <1>5, <1>6, SubSeqProperties
<1> HIDE DEF cut
<1>8. IsSequence(cut)
  BY <1>7, SeqIsSequence
<1>9. Len(cut) = b - a - 1 /\ b - a - 1 \in Nat
  BY <1>2, <1>3, <1>7
<1>10. \A i \in 1..(b - a - 1) : a + i \in 1..n /\ a < a + i /\ a + i < b /\ cut[i] = text[a + i]
  <2> TAKE i \in 1..(b - a - 1)
  <2>1. i \in 1..((b - 1) - (a + 1) + 1) /\ (a + 1) + i - 1 = a + i /\ a + i \in 1..n /\ a < a + i /\ a + i < b
    BY <1>2, <1>3
  <2> QED BY <1>7, <2>1
<1> QED BY <1>8, <1>9, <1>10 DEF cut, n

\* Where a text is cut.
Cuts(text) == {0, Len(text) + 1} \cup {i \in 1..Len(text) : text[i] = "/"}
PartsOf(text) ==
    [j \in 1..(Cardinality(Cuts(text)) - 1) |-> SubSeq(text, Nth(Cuts(text), j) + 1, Nth(Cuts(text), j + 1) - 1)]

LEMMA CutsAre ==
    ASSUME NEW text, IsSequence(text)
    PROVE  /\ Cuts(text) \in SUBSET Nat /\ IsFiniteSet(Cuts(text)) /\ Cuts(text) \subseteq 0..(Len(text) + 1)
           /\ Cardinality(Cuts(text)) \in Nat \ {0}
<1> DEFINE n == Len(text)
           C == Cuts(text)
<1>1. n \in Nat
  BY SequenceIsList
<1>2. C \subseteq 0..(n + 1)
  <2>1. \A i \in C : i = 0 \/ i = n + 1 \/ i \in 1..n
    BY DEF Cuts
  <2> HIDE DEF C, n
  <2>2. \A i \in C : i \in 0..(n + 1)
    BY <1>1, <2>1
  <2> QED BY <2>2
<1>3. 0 \in C
  BY DEF Cuts
<1> HIDE DEF C, n
<1>4. C \in SUBSET Nat
  <2>1. \A i \in 0..(n + 1) : i \in Nat
    BY <1>1
  <2> QED BY <1>2, <2>1
<1>5. IsFiniteSet(0..(n + 1))
  <2>1. n + 1 \in Int /\ 0 \in Int
    BY <1>1
  <2> QED BY <2>1, FS_Interval
<1>6. IsFiniteSet(C)
  BY <1>2, <1>5, FS_Subset
<1>7. Cardinality(C) \in Nat
  BY <1>6, FS_CardinalityType
<1>8. Cardinality(C) # 0
  BY <1>3, <1>6, FS_EmptySet
<1> QED BY <1>2, <1>4, <1>6, <1>7, <1>8 DEF C, n

LEMMA PartsAre ==
    ASSUME NEW text, IsSequence(text)
    PROVE  /\ IsSequence(PartsOf(text)) /\ Len(PartsOf(text)) = Cardinality(Cuts(text)) - 1
           /\ \A j \in 1..Len(PartsOf(text)) : NoSlash(PartsOf(text)[j])
<1> DEFINE n == Len(text)
           C == Cuts(text)
           m == Cardinality(C) - 1
           parts == [j \in 1..m |-> SubSeq(text, Nth(C, j) + 1, Nth(C, j + 1) - 1)]
<1>1. n \in Nat
  BY SequenceIsList
<1>2. C \in SUBSET Nat /\ IsFiniteSet(C) /\ C \subseteq 0..(n + 1) /\ Cardinality(C) \in Nat \ {0}
  BY CutsAre
<1>3. \A i \in 1..n : text[i] = "/" => i \in C
  BY DEF Cuts
<1> HIDE DEF C
<1>4. m \in Nat /\ Cardinality(C) = m + 1
  BY <1>2
<1> HIDE DEF m
<1>5. IsSequence(parts) /\ Len(parts) = m
  <2>1. parts = [j \in 1..m |-> parts[j]]
    OBVIOUS
  <2> HIDE DEF parts
  <2> QED BY <1>4, <2>1, ListIsSequence
<1>6. ASSUME NEW j \in 1..m PROVE NoSlash(parts[j])
  <2> DEFINE a == Nth(C, j)
             b == Nth(C, j + 1)
             cut == SubSeq(text, a + 1, b - 1)
  <2>1. j \in Nat /\ j \in 1..Cardinality(C) /\ j + 1 \in 1..Cardinality(C)
    BY <1>4
  <2>2. a \in C /\ b \in C /\ a < b /\ \A k \in C : ~ (a < k /\ k < b)
    BY <1>2, <2>1, NextNth
  <2>3. parts[j] = cut
    OBVIOUS
  <2> HIDE DEF a, b, n
  <2>4. a \in 0..(n + 1) /\ b \in 0..(n + 1)
    BY <1>2, <2>2
  <2>5. a \in 0..n /\ b \in 1..(n + 1)
    BY <1>1, <2>2, <2>4
  <2>6. /\ IsSequence(cut) /\ Len(cut) = b - a - 1
        /\ \A i \in 1..(b - a - 1) : a + i \in 1..n /\ a < a + i /\ a + i < b /\ cut[i] = text[a + i]
    BY <2>2, <2>5, CutOut DEF n
  <2> HIDE DEF cut
  <2>7. \A i \in 1..(b - a - 1) : cut[i] # "/"
    BY <1>3, <2>2, <2>6
  <2> HIDE DEF parts
  <2> QED BY <2>3, <2>6, <2>7 DEF NoSlash
<1>7. PartsOf(text) = parts
  BY DEF PartsOf, C, m
<1> HIDE DEF parts
<1> QED BY <1>4, <1>5, <1>6, <1>7 DEF C

KeptParts(text) == {i \in 1..Len(PartsOf(text)) : PartsOf(text)[i] \notin {<<>>, <<".">>}}

LEMMA SegmentsAre == ASSUME NEW text PROVE Segments(text) = Pick(PartsOf(text), KeptParts(text))
BY DEF Segments, Select, PartsOf, Cuts, KeptParts

LEMMA SegmentsIs ==
    ASSUME NEW text, IsSequence(text)
    PROVE  IsSequence(Segments(text)) /\ \A i \in 1..Len(Segments(text)) : IsSegment(Segments(text)[i])
<1> DEFINE parts == PartsOf(text)
           K == KeptParts(text)
<1>1. IsSequence(parts) /\ \A j \in 1..Len(parts) : NoSlash(parts[j])
  BY PartsAre
<1>2. K \in SUBSET (1..Len(parts)) /\ \A i \in K : parts[i] \notin {<<>>, <<".">>}
  BY DEF KeptParts
<1>3. Segments(text) = Pick(parts, K)
  BY SegmentsAre
<1> HIDE DEF parts, K
<1>4. IsSequence(Pick(parts, K))
  BY <1>1, <1>2, SomePositions, Picked
<1>5. \A i \in 1..Len(Pick(parts, K)) : IsSegment(Pick(parts, K)[i])
  <2> TAKE i \in 1..Len(Pick(parts, K))
  <2>1. PICK j \in K : Pick(parts, K)[i] = parts[j]
    BY <1>1, <1>2, PickedItems
  <2> QED BY <1>1, <1>2, <2>1 DEF IsSegment
<1> QED BY <1>3, <1>4, <1>5

\* A text without a slash is one segment, if it is any.
LEMMA SegmentsOne ==
    ASSUME NEW text, IsSegment(text)
    PROVE  Len(Segments(text)) = 1
<1> DEFINE n == Len(text)
           C == Cuts(text)
           parts == PartsOf(text)
           K == KeptParts(text)
<1>1. IsSequence(text) /\ text \notin {<<>>, <<".">>}
  BY DEF IsSegment, NoSlash
<1>2. n \in Nat
  BY <1>1, SequenceIsList
<1>3. C = {0, n + 1}
  BY DEF Cuts, IsSegment, NoSlash
<1>4. Cardinality(C) = 2 /\ C \in SUBSET Nat /\ IsFiniteSet(C)
  <2>1. IsFiniteSet({0}) /\ Cardinality({0}) = 1
    BY FS_Singleton
  <2>2. n + 1 # 0
    BY <1>2
  <2>3. Cardinality({0} \cup {n + 1}) = 2
    <3> DEFINE x == n + 1
    <3>1. x \notin {0}
      BY <2>2
    <3> HIDE DEF x
    <3>2. Cardinality({0} \cup {x}) = Cardinality({0}) + 1
      BY <2>1, <3>1, FS_AddElement
    <3>3. Cardinality({0} \cup {x}) = 2
      BY <2>1, <3>2
    <3> QED BY <3>3 DEF x
  <2>4. C = {0} \cup {n + 1}
    BY <1>3
  <2> QED BY <1>1, <2>3, <2>4, CutsAre
<1>5. Nth(C, 1) = 0 /\ Nth(C, 2) = n + 1
  <2> DEFINE a == Nth(C, 1)
             b == Nth(C, 2)
  <2>1. 1 \in 1..Cardinality(C) /\ 1 + 1 \in 1..Cardinality(C) /\ 1 + 1 = 2
    BY <1>4
  <2>2. a \in C /\ b \in C /\ a < b
    <3>1. Nth(C, 1) \in C /\ Nth(C, 1 + 1) \in C /\ Nth(C, 1) < Nth(C, 1 + 1)
      <4> HIDE DEF C
      <4> QED BY <1>4, <2>1, NextNth
    <3> QED BY <2>1, <3>1
  <2> HIDE DEF a, b, n, C
  <2>3. a = 0 /\ b = n + 1
    BY <1>2, <1>3, <2>2
  <2> QED BY <2>3 DEF a, b
<1>6. IsSequence(parts) /\ Len(parts) = 1
  BY <1>1, <1>4, PartsAre
<1>7. parts[1] = text
  <2>1. parts[1] = SubSeq(text, Nth(C, 1) + 1, Nth(C, 1 + 1) - 1)
    <3>1. 1 \in 1..(Cardinality(Cuts(text)) - 1)
      BY <1>4
    <3> QED BY <3>1 DEF PartsOf
  <2>2. 0 + 1 = 1 /\ (n + 1) - 1 = n /\ 1 + 1 = 2
    BY <1>2
  <2>3. parts[1] = SubSeq(text, 1, n)
    <3> HIDE DEF parts, C, n
    <3> QED BY <1>5, <2>1, <2>2
  <2>4. SubSeq(text, 1, n) = text
    <3>1. \E N : text \in Seq(N) /\ text \in Seq(N) /\ text \in N
      BY <1>1, OneSet
    <3> QED BY <3>1
  <2> QED BY <2>3, <2>4
<1>8. K = {1}
  <2>1. K = {i \in 1..Len(parts) : parts[i] \notin {<<>>, <<".">>}}
    BY DEF KeptParts
  <2>2. 1..Len(parts) = {1}
    BY <1>6
  <2> HIDE DEF parts, K
  <2> QED BY <1>1, <1>7, <2>1, <2>2
<1>9. IsFiniteSet(K) /\ Cardinality(K) = 1
  BY <1>8, FS_Singleton
<1>10. Len(Pick(parts, K)) = 1
  BY <1>9, Picked
<1> QED BY <1>10, SegmentsAre

\* A slash between two such texts makes two of them.
LEMMA SegmentsTwo ==
    ASSUME NEW one, NEW other, IsSegment(one), IsSegment(other)
    PROVE  Len(Segments((one \o <<"/">>) \o other)) = 2
<1> DEFINE text == (one \o <<"/">>) \o other
           m == Len(one) + 1
           l == Len(other)
           n == Len(text)
           C == Cuts(text)
           parts == PartsOf(text)
           K == KeptParts(text)
<1>1. /\ IsSequence(one) /\ one \notin {<<>>, <<".">>} /\ \A i \in 1..Len(one) : one[i] # "/"
      /\ IsSequence(other) /\ other \notin {<<>>, <<".">>} /\ \A i \in 1..l : other[i] # "/"
  BY DEF IsSegment, NoSlash
<1>2. Len(one) \in Nat /\ m \in Nat /\ m # 0 /\ l \in Nat
  BY <1>1, SequenceIsList
<1>3. /\ IsSequence(one \o <<"/">>) /\ Len(one \o <<"/">>) = m /\ (one \o <<"/">>)[m] = "/"
      /\ \A i \in 1..(m - 1) : (one \o <<"/">>)[i] = one[i] /\ one[i] # "/"
  <2>1. IsSequence(<<"/">>) /\ Len(<<"/">>) = 1 /\ <<"/">>[1] = "/" /\ 1 \in 1..1
    BY OneItem
  <2>2. /\ IsSequence(one \o <<"/">>) /\ Len(one \o <<"/">>) = Len(one) + Len(<<"/">>)
        /\ \A i \in 1..Len(one) : (one \o <<"/">>)[i] = one[i]
        /\ \A i \in 1..Len(<<"/">>) : (one \o <<"/">>)[Len(one) + i] = <<"/">>[i]
    BY <1>1, <2>1, Joined
  <2>3. m - 1 = Len(one)
    BY <1>2
  <2>4. Len(one \o <<"/">>) = m
    BY <2>1, <2>2
  <2>5. (one \o <<"/">>)[m] = "/"
    BY <2>1, <2>2
  <2> QED BY <1>1, <2>2, <2>3, <2>4, <2>5
<1> DEFINE front == one \o <<"/">>
<1>4. /\ IsSequence(text) /\ n = m + l
      /\ \A i \in 1..m : text[i] = front[i]
      /\ \A i \in 1..l : text[m + i] = other[i]
  <2> HIDE DEF front, m, l
  <2>1. IsSequence(front) /\ Len(front) = m
    BY <1>3 DEF front
  <2>2. /\ IsSequence(front \o other) /\ Len(front \o other) = Len(front) + Len(other)
        /\ \A i \in 1..Len(front) : (front \o other)[i] = front[i]
        /\ \A i \in 1..Len(other) : (front \o other)[Len(front) + i] = other[i]
    BY <1>1, <2>1, Joined
  <2> QED BY <2>1, <2>2 DEF front, l
<1>5. n \in Nat /\ m \in 1..n
  BY <1>2, <1>4
<1>6. C = {0, m, n + 1}
  <2>1. C = {0, n + 1} \cup {i \in 1..n : text[i] = "/"}
    BY DEF Cuts
  <2>2. text[m] = "/"
    BY <1>2, <1>3, <1>4
  <2>3. ASSUME NEW i \in 1..n, i # m PROVE text[i] # "/"
    <3> HIDE DEF text, front, m, l, n
    <3>1. CASE i < m
      <4>1. i \in 1..m /\ i \in 1..(m - 1)
        BY <1>2, <1>5, <3>1
      <4> QED BY <1>3, <1>4, <4>1 DEF front
    <3>2. CASE m < i
      <4>1. i - m \in 1..l /\ m + (i - m) = i
        BY <1>2, <1>4, <1>5, <3>2
      <4> QED BY <1>1, <1>4, <4>1
    <3>3. i < m \/ m < i
      BY <1>2, <1>5, <2>3
    <3> QED BY <3>1, <3>2, <3>3
  <2> HIDE DEF text, m, n, C
  <2> QED BY <1>5, <2>1, <2>2, <2>3
<1> HIDE DEF text, m, l, n
<1>7. Cardinality(C) = 3 /\ C \in SUBSET Nat /\ IsFiniteSet(C)
  <2>1. IsFiniteSet({0}) /\ Cardinality({0}) = 1
    BY FS_Singleton
  <2>2. m \notin {0} /\ n + 1 \notin {0, m} /\ {0} \cup {m} = {0, m}
    BY <1>2, <1>5
  <2>3. IsFiniteSet({0} \cup {m}) /\ Cardinality({0} \cup {m}) = Cardinality({0}) + 1
    BY <2>1, <2>2, FS_AddElement
  <2>4. IsFiniteSet({0, m}) /\ Cardinality({0, m}) = 2
    BY <2>1, <2>2, <2>3
  <2>5. Cardinality({0, m} \cup {n + 1}) = Cardinality({0, m}) + 1
    BY <2>2, <2>4, FS_AddElement
  <2>6. C = {0, m} \cup {n + 1}
    BY <1>6
  <2>7. Cardinality(C) = 3
    BY <2>4, <2>5, <2>6
  <2> QED BY <1>4, <2>7, CutsAre
<1>8. Nth(C, 1) = 0 /\ Nth(C, 2) = m /\ Nth(C, 3) = n + 1
  <2> DEFINE a == Nth(C, 1)
             b == Nth(C, 2)
             c == Nth(C, 3)
  <2>1. /\ 1 \in 1..Cardinality(C) /\ 1 + 1 \in 1..Cardinality(C) /\ 1 + 1 = 2
        /\ 2 \in 1..Cardinality(C) /\ 2 + 1 \in 1..Cardinality(C) /\ 2 + 1 = 3
    BY <1>7
  <2>2. a \in C /\ b \in C /\ c \in C /\ a < b /\ b < c
    <3>1. Nth(C, 1) \in C /\ Nth(C, 1 + 1) \in C /\ Nth(C, 1) < Nth(C, 1 + 1)
      <4> HIDE DEF C
      <4> QED BY <1>7, <2>1, NextNth
    <3>2. Nth(C, 2) \in C /\ Nth(C, 2 + 1) \in C /\ Nth(C, 2) < Nth(C, 2 + 1)
      <4> HIDE DEF C
      <4> QED BY <1>7, <2>1, NextNth
    <3> QED BY <2>1, <3>1, <3>2
  <2> HIDE DEF a, b, c, C
  <2>3. a = 0 /\ b = m /\ c = n + 1
    BY <1>2, <1>5, <1>6, <2>2
  <2> QED BY <2>3 DEF a, b, c
<1>9. IsSequence(parts) /\ Len(parts) = 2
  <2>1. IsSequence(text)
    BY <1>4
  <2>2. IsSequence(parts) /\ Len(parts) = Cardinality(C) - 1
    BY <2>1, PartsAre
  <2> HIDE DEF parts, C
  <2> QED BY <1>7, <2>2
<1>10. parts[1] \notin {<<>>, <<".">>}
  <2>1. parts[1] = SubSeq(text, Nth(C, 1) + 1, Nth(C, 1 + 1) - 1)
    <3>1. Cardinality(Cuts(text)) = 3
      BY <1>7
    <3>2. 1 \in 1..(Cardinality(Cuts(text)) - 1) /\ 2 \in 1..(Cardinality(Cuts(text)) - 1)
      BY <3>1
    <3> QED BY <3>2 DEF PartsOf
  <2>2. 0 + 1 = 1 /\ 1 + 1 = 2
    OBVIOUS
  <2>3. parts[1] = SubSeq(text, 0 + 1, m - 1)
    <3> HIDE DEF parts, C
    <3> QED BY <1>8, <2>1, <2>2
  <2>4. 0 \in 0..n /\ m \in 1..(n + 1) /\ 0 < m
    BY <1>2, <1>5
  <2> DEFINE cut == SubSeq(text, 0 + 1, m - 1)
  <2>5. /\ IsSequence(cut) /\ Len(cut) = m - 0 - 1
        /\ \A i \in 1..(m - 0 - 1) : 0 + i \in 1..n /\ 0 + i < m /\ cut[i] = text[0 + i]
    BY <1>4, <2>4, CutOut DEF n
  <2> HIDE DEF cut
  <2>6. m - 0 - 1 = Len(one) /\ \A i \in 1..(m - 0 - 1) : 0 + i = i /\ i \in 1..m /\ i \in 1..(m - 1)
    BY <1>2 DEF m
  <2>7. Len(cut) = Len(one) /\ \A i \in 1..Len(one) : cut[i] = one[i]
    BY <1>3, <1>4, <2>5, <2>6
  <2>8. cut = one
    BY <1>1, <2>5, <2>7, SequenceIsList
  <2> QED BY <1>1, <2>3, <2>8 DEF cut
<1>11. parts[2] \notin {<<>>, <<".">>}
  <2>1. parts[2] = SubSeq(text, Nth(C, 2) + 1, Nth(C, 2 + 1) - 1)
    <3>1. Cardinality(Cuts(text)) = 3
      BY <1>7
    <3>2. 1 \in 1..(Cardinality(Cuts(text)) - 1) /\ 2 \in 1..(Cardinality(Cuts(text)) - 1)
      BY <3>1
    <3> QED BY <3>2 DEF PartsOf
  <2>2. 2 + 1 = 3
    OBVIOUS
  <2>3. parts[2] = SubSeq(text, m + 1, (n + 1) - 1)
    <3> HIDE DEF parts, C
    <3> QED BY <1>8, <2>1, <2>2
  <2>4. m \in 0..n /\ n + 1 \in 1..(n + 1) /\ m < n + 1
    BY <1>2, <1>5
  <2> DEFINE cut == SubSeq(text, m + 1, (n + 1) - 1)
  <2>5. /\ IsSequence(cut) /\ Len(cut) = (n + 1) - m - 1
        /\ \A i \in 1..((n + 1) - m - 1) : cut[i] = text[m + i]
    BY <1>4, <2>4, CutOut DEF n
  <2> HIDE DEF cut
  <2>6. (n + 1) - m - 1 = l
    BY <1>2, <1>4
  <2>7. Len(cut) = l /\ \A i \in 1..l : cut[i] = other[i]
    BY <1>4, <2>5, <2>6
  <2>8. cut = other
    BY <1>1, <2>5, <2>7, SequenceIsList DEF l
  <2> QED BY <1>1, <2>3, <2>8 DEF cut
<1>12. K = {1, 2}
  <2>1. K = {i \in 1..Len(parts) : parts[i] \notin {<<>>, <<".">>}}
    BY DEF KeptParts
  <2>2. 1..Len(parts) = {1, 2}
    BY <1>9
  <2> HIDE DEF parts, K
  <2> QED BY <1>10, <1>11, <2>1, <2>2
<1>13. IsFiniteSet(K) /\ Cardinality(K) = 2
  <2>1. IsFiniteSet({1}) /\ Cardinality({1}) = 1
    BY FS_Singleton
  <2>2. 2 \notin {1} /\ K = {1} \cup {2}
    BY <1>12
  <2>3. IsFiniteSet({1} \cup {2}) /\ Cardinality({1} \cup {2}) = Cardinality({1}) + 1
    BY <2>1, <2>2, FS_AddElement
  <2> HIDE DEF K
  <2> QED BY <2>1, <2>2, <2>3
<1>14. Len(Pick(parts, K)) = 2
  BY <1>13, Picked
<1> QED BY <1>14, SegmentsAre DEF text

\* What a sequence of one text or of two becomes.
LEMMA FlattenFew ==
    ASSUME NEW seqs, NEW n \in {1, 2}, Len(seqs) = n
    PROVE  FlattenSeq(seqs) = IF n = 1 THEN seqs[1] ELSE seqs[1] \o seqs[2]
<1> DEFINE Flat1(f, i) == IF i = 1 THEN seqs[i] ELSE f[i - 1] \o seqs[i]
           flatten == CHOOSE f : f = [i \in 1..n |-> IF i = 1 THEN seqs[i] ELSE f[i - 1] \o seqs[i]]
<1>1. \E f : f = [i \in 1..n |-> IF i = 1 THEN seqs[i] ELSE f[i - 1] \o seqs[i]]
  <2>1. n \in Nat
    OBVIOUS
  <2> QED BY <2>1, Flattens
<1>2. flatten = [i \in 1..n |-> Flat1(flatten, i)]
  BY <1>1, Zenon
<1>3. FlattenSeq(seqs) = flatten[n]
  <2>1. FlattenSeq(seqs) =
            IF n = 0 THEN seqs
            ELSE LET f == CHOOSE f : f = [i \in 1..n |-> IF i = 1 THEN seqs[i] ELSE f[i - 1] \o seqs[i]] IN f[n]
    BY DEF FlattenSeq
  <2> QED BY <2>1
<1> HIDE DEF flatten
<1>4. \A i \in 1..n : flatten[i] = Flat1(flatten, i)
  <2> HIDE DEF Flat1
  <2> QED BY <1>2
<1>5. flatten[1] = seqs[1]
  BY <1>4
<1>6. CASE n = 1
  BY <1>3, <1>5, <1>6
<1>7. CASE n = 2
  <2>1. 2 \in 1..n /\ 2 # 1 /\ 2 - 1 = 1
    BY <1>7
  <2>2. flatten[2] = flatten[1] \o seqs[2]
    <3>1. flatten[2] = flatten[2 - 1] \o seqs[2]
      BY <1>4, <2>1
    <3> QED BY <2>1, <3>1
  <2> QED BY <1>3, <1>5, <1>7, <2>2
<1> QED BY <1>6, <1>7

\* What the variables and texts of a template become.
IsTemplate(template) ==
    /\ IsSequence(template)
    /\ \A i \in 1..Len(template) : template[i].part \notin {"title", "sanitized"} => IsSequence(template[i].text)
Spelt(template, title) ==
    [i \in 1..Len(template) |->
        CASE template[i].part = "title" -> title
          [] template[i].part = "sanitized" -> Sanitize(title)
          [] OTHER -> template[i].text]

LEMMA SpeltIs ==
    ASSUME NEW template, IsTemplate(template), NEW title, IsSequence(title)
    PROVE  /\ IsSequence(Spelt(template, title)) /\ Len(Spelt(template, title)) = Len(template)
           /\ \A i \in 1..Len(template) : IsSequence(Spelt(template, title)[i])
           /\ RenderSource(template, title) = FlattenSeq(Spelt(template, title))
<1> DEFINE spelt == Spelt(template, title)
<1>1. Len(template) \in Nat
  BY SequenceIsList DEF IsTemplate
<1>2. spelt = [i \in 1..Len(template) |-> spelt[i]]
  BY DEF Spelt
<1>3. \A i \in 1..Len(template) : IsSequence(spelt[i])
  <2>1. IsSequence(Sanitize(title))
    BY SanitizeIs DEF IsClean
  <2> TAKE i \in 1..Len(template)
  <2> DEFINE t == template[i]
  <2>2. spelt[i] = CASE t.part = "title" -> title [] t.part = "sanitized" -> Sanitize(title) [] OTHER -> t.text
    BY DEF Spelt
  <2>3. t.part \notin {"title", "sanitized"} => IsSequence(t.text)
    BY DEF IsTemplate
  <2> HIDE DEF t, spelt
  <2>4. spelt[i] \in {title, Sanitize(title)} \/ (t.part \notin {"title", "sanitized"} /\ spelt[i] = t.text)
    BY <2>2
  <2> QED BY <2>1, <2>3, <2>4
<1>4. RenderSource(template, title) = FlattenSeq(spelt)
  BY DEF RenderSource, Spelt
<1> HIDE DEF spelt
<1>5. IsSequence(spelt) /\ Len(spelt) = Len(template)
  BY <1>1, <1>2, ListIsSequence
<1> QED BY <1>3, <1>4, <1>5 DEF spelt

\* A package is what lies between the slashes of the path that is rendered.
LEMMA PackageIs ==
    ASSUME NEW template, IsTemplate(template), NEW title, IsSequence(title), PackagePath(title, template) # Refused
    PROVE  LET package == PackagePath(title, template)
           IN  /\ package = Segments(RenderSource(template, title))
               /\ \A i \in DOMAIN package :
                     package[i] \notin {<<>>, <<".">>, <<".", ".">>} /\ ToSet(package[i]) \cap Reserved = {}
<1> DEFINE text == RenderSource(template, title)
           s == Segments(text)
<1>1. PackagePath(title, template) = s
  BY DEF PackagePath, ValidateRelative
<1>2. \A p \in ToSet(s) : Last(p) \notin {" ", "."} /\ \A i \in 1..Len(p) : p[i] # "?"
  BY DEF PackagePath, ValidateRelative
<1>3. IsSequence(text)
  <2>1. /\ IsSequence(Spelt(template, title)) /\ Len(Spelt(template, title)) = Len(template)
        /\ \A i \in 1..Len(template) : IsSequence(Spelt(template, title)[i])
        /\ text = FlattenSeq(Spelt(template, title))
    BY SpeltIs
  <2> QED BY <2>1, Flattened
<1> HIDE DEF text
<1>4. IsSequence(s) /\ \A i \in 1..Len(s) : IsSegment(s[i])
  BY <1>3, SegmentsIs
<1>5. DOMAIN s = 1..Len(s) /\ ToSet(s) = {s[i] : i \in 1..Len(s)}
  BY <1>4, SequenceIsList, ItemsAre
<1> HIDE DEF s
<1>6. ASSUME NEW i \in DOMAIN s
      PROVE  s[i] \notin {<<>>, <<".">>, <<".", ".">>} /\ ToSet(s[i]) \cap Reserved = {}
  <2> DEFINE p == s[i]
  <2>1. p \in ToSet(s) /\ IsSegment(p)
    BY <1>4, <1>5
  <2>2. Last(p) \notin {" ", "."} /\ \A k \in 1..Len(p) : p[k] # "?"
    BY <1>2, <2>1
  <2> HIDE DEF p
  <2>3. IsSequence(p) /\ p \notin {<<>>, <<".">>} /\ \A k \in 1..Len(p) : p[k] # "/"
    BY <2>1 DEF IsSegment, NoSlash
  <2>4. Last(<<".", ".">>) = "."
    BY DEF Last
  <2>5. p # <<".", ".">>
    BY <2>2, <2>4
  <2>6. ToSet(p) = {p[k] : k \in 1..Len(p)}
    BY <2>3, ItemsAre
  <2>7. ToSet(p) \cap Reserved = {}
    BY <2>2, <2>3, <2>6 DEF Reserved
  <2> QED BY <2>3, <2>5, <2>7 DEF p
<1> QED BY <1>1, <1>6 DEF s, text

-----------------------------------------------------------------------------
\* The templates the program comes with.
BuiltInRenders(template, kind, folder, title) ==
    /\ kind \in {"music", "book"} =>
          RenderSource(template, title) = (SafeFolderName(folder, <<"u">>) \o <<"/">>) \o Sanitize(title)
    /\ kind \notin {"music", "book"} =>
          RenderSource(template, title) \in {Sanitize(title), Sanitize(title) \o <<" ", "y">>}

LEMMA BuiltInIs ==
    ASSUME NEW kind, NEW year \in BOOLEAN, NEW folder, IsSequence(folder), NEW title, IsSequence(title)
    PROVE  /\ IsTemplate(BuiltIn(kind, year, folder))
           /\ BuiltInRenders(BuiltIn(kind, year, folder), kind, folder, title)
<1> DEFINE template == BuiltIn(kind, year, folder)
           sanitized == [part |-> "sanitized"]
           Literal(text) == [part |-> "text", text |-> text]
           one == SafeFolderName(folder, <<"u">>) \o <<"/">>
<1>1. IsSequence(one)
  <2>1. IsSequence(SafeFolderName(folder, <<"u">>))
    BY SafeIs DEF IsClean
  <2>2. IsSequence(<<"/">>)
    BY OneItem
  <2> QED BY <2>1, <2>2, Joined
<1>2. IsSequence(<<" ", "y">>)
  BY TwoItems
<1>3. template = IF kind = "movie" /\ year THEN <<sanitized, Literal(<<" ", "y">>)>>
                 ELSE IF kind \in {"music", "book"} THEN <<Literal(one), sanitized>> ELSE <<sanitized>>
  BY DEF BuiltIn
<1> HIDE DEF one, template
<1>4. ASSUME NEW text, IsSequence(text)
      PROVE  /\ IsTemplate(<<sanitized, Literal(text)>>) /\ IsTemplate(<<Literal(text), sanitized>>)
             /\ RenderSource(<<sanitized, Literal(text)>>, title) = Sanitize(title) \o text
             /\ RenderSource(<<Literal(text), sanitized>>, title) = text \o Sanitize(title)
  <2>1. ASSUME NEW t, IsSequence(t), Len(t) = 2, {t[1], t[2]} = {sanitized, Literal(text)}
        PROVE  /\ IsTemplate(t)
               /\ RenderSource(t, title) = Spelt(t, title)[1] \o Spelt(t, title)[2]
    <3>1. \A i \in 1..Len(t) : t[i] \in {sanitized, Literal(text)}
      BY <2>1
    <3>2. IsTemplate(t)
      <4>1. sanitized.part = "sanitized" /\ Literal(text).text = text
        OBVIOUS
      <4> HIDE DEF sanitized, Literal
      <4> QED BY <1>4, <2>1, <3>1, <4>1 DEF IsTemplate
    <3>3. Len(Spelt(t, title)) = 2 /\ RenderSource(t, title) = FlattenSeq(Spelt(t, title))
      BY <2>1, <3>2, SpeltIs
    <3>4. FlattenSeq(Spelt(t, title)) = IF 2 = 1 THEN Spelt(t, title)[1] ELSE Spelt(t, title)[1] \o Spelt(t, title)[2]
      <4>1. 2 \in {1, 2}
        OBVIOUS
      <4> QED BY <3>3, <4>1, FlattenFew
    <3> QED BY <3>2, <3>3, <3>4
  <2>2. sanitized.part = "sanitized" /\ Literal(text).part = "text" /\ Literal(text).text = text
    OBVIOUS
  <2> HIDE DEF sanitized, Literal
  <2>3. ASSUME NEW t, Len(t) = 2, NEW i \in {1, 2}
        PROVE  /\ t[i] = sanitized => Spelt(t, title)[i] = Sanitize(title)
               /\ t[i] = Literal(text) => Spelt(t, title)[i] = text
    <3>1. i \in 1..Len(t)
      BY <2>3
    <3>2. Spelt(t, title)[i] = CASE t[i].part = "title" -> title
                                 [] t[i].part = "sanitized" -> Sanitize(title)
                                 [] OTHER -> t[i].text
      BY <3>1 DEF Spelt
    <3> QED BY <2>2, <3>2
  <2> DEFINE t1 == <<sanitized, Literal(text)>>
             t2 == <<Literal(text), sanitized>>
  <2>4. Len(t1) = 2 /\ Len(t2) = 2 /\ t1[1] = sanitized /\ t1[2] = Literal(text) /\ t2[1] = Literal(text) /\ t2[2] = sanitized
    OBVIOUS
  <2>5. IsSequence(t1) /\ IsSequence(t2)
    BY TwoItems
  <2> HIDE DEF t1, t2
  <2>6. IsTemplate(t1) /\ RenderSource(t1, title) = Spelt(t1, title)[1] \o Spelt(t1, title)[2]
    BY <2>1, <2>4, <2>5
  <2>7. IsTemplate(t2) /\ RenderSource(t2, title) = Spelt(t2, title)[1] \o Spelt(t2, title)[2]
    BY <2>1, <2>4, <2>5
  <2>8. Spelt(t1, title)[1] = Sanitize(title) /\ Spelt(t1, title)[2] = text
    BY <2>3, <2>4
  <2>9. Spelt(t2, title)[2] = Sanitize(title) /\ Spelt(t2, title)[1] = text
    BY <2>3, <2>4
  <2> QED BY <2>6, <2>7, <2>8, <2>9 DEF t1, t2
<1>5. IsTemplate(<<sanitized>>) /\ RenderSource(<<sanitized>>, title) = Sanitize(title)
  <2> DEFINE t == <<sanitized>>
  <2>1. Len(t) = 1 /\ t[1] = sanitized /\ sanitized.part = "sanitized"
    OBVIOUS
  <2>2. IsSequence(t)
    BY OneItem
  <2> HIDE DEF t, sanitized
  <2>3. IsTemplate(t)
    BY <2>1, <2>2 DEF IsTemplate
  <2>4. Len(Spelt(t, title)) = 1 /\ RenderSource(t, title) = FlattenSeq(Spelt(t, title))
    BY <2>1, <2>3, SpeltIs
  <2>5. Spelt(t, title)[1] = Sanitize(title)
    <3>1. 1 \in 1..Len(t)
      BY <2>1
    <3> QED BY <2>1, <3>1 DEF Spelt
  <2>6. RenderSource(t, title) = Sanitize(title)
    BY <2>4, <2>5, FlattenFew
  <2> QED BY <2>3, <2>6 DEF t
<1>6. /\ IsTemplate(<<sanitized, Literal(<<" ", "y">>)>>)
      /\ RenderSource(<<sanitized, Literal(<<" ", "y">>)>>, title) = Sanitize(title) \o <<" ", "y">>
  BY <1>2, <1>4
<1>7. /\ IsTemplate(<<Literal(one), sanitized>>)
      /\ RenderSource(<<Literal(one), sanitized>>, title) = one \o Sanitize(title)
  BY <1>1, <1>4
<1> HIDE DEF sanitized, Literal
<1>8. /\ IsTemplate(template)
      /\ kind \in {"music", "book"} => RenderSource(template, title) = one \o Sanitize(title)
      /\ kind \notin {"music", "book"} =>
            RenderSource(template, title) \in {Sanitize(title), Sanitize(title) \o <<" ", "y">>}
  BY <1>3, <1>5, <1>6, <1>7
<1> QED BY <1>8 DEF template, one, BuiltInRenders

\* A title that has a character left makes one folder.
LEMMA OneFolder ==
    ASSUME NEW kind \in {"movie", "television", "anime", "music", "book"}, NEW year \in BOOLEAN,
           NEW folder, IsSequence(folder), NEW title, IsSequence(title), Sanitize(title) \notin {<<>>, <<".">>}
    PROVE  Len(Segments(RenderSource(BuiltIn(kind, year, folder), title))) = IF kind \in {"music", "book"} THEN 2 ELSE 1
<1> DEFINE clean == Sanitize(title)
           safe == SafeFolderName(folder, <<"u">>)
           text == RenderSource(BuiltIn(kind, year, folder), title)
<1>1. /\ kind \in {"music", "book"} => text = (safe \o <<"/">>) \o clean
      /\ kind \notin {"music", "book"} => text \in {clean, clean \o <<" ", "y">>}
  <2>1. BuiltInRenders(BuiltIn(kind, year, folder), kind, folder, title)
    BY BuiltInIs
  <2> QED BY <2>1 DEF BuiltInRenders
<1>2. IsClean(clean) /\ clean \notin {<<>>, <<".">>}
  BY SanitizeIs
<1>3. IsClean(safe) /\ safe # <<>> /\ safe[1] # "."
  BY SafeIs
<1> HIDE DEF clean, safe, text
<1>4. IsSegment(clean)
  BY <1>2 DEF IsSegment, NoSlash, IsClean, Reserved
<1>5. IsSegment(safe)
  <2>1. <<".">>[1] = "."
    OBVIOUS
  <2>2. safe # <<".">>
    BY <1>3, <2>1
  <2> QED BY <1>3, <2>2 DEF IsSegment, NoSlash, IsClean, Reserved
<1>6. IsSegment(clean \o <<" ", "y">>)
  <2> DEFINE year2 == <<" ", "y">>
             both == clean \o year2
  <2>1. IsSequence(year2)
    BY TwoItems
  <2>2. Len(year2) = 2 /\ \A i \in 1..2 : year2[i] # "/"
    OBVIOUS
  <2> HIDE DEF year2
  <2>3. IsSequence(clean) /\ clean # <<>> /\ \A i \in 1..Len(clean) : clean[i] # "/"
    BY <1>4 DEF IsSegment, NoSlash
  <2>4. /\ IsSequence(both) /\ Len(both) = Len(clean) + Len(year2)
        /\ \A i \in 1..Len(clean) : both[i] = clean[i]
        /\ \A i \in 1..Len(year2) : both[Len(clean) + i] = year2[i]
    <3>1. IsSequence(clean)
      BY <2>3
    <3> QED BY <2>1, <3>1, Joined
  <2> HIDE DEF both
  <2>5. Len(clean) \in Nat
    BY <2>3, SequenceIsList
  <2> DEFINE m == Len(clean)
  <2>6. \A i \in 1..(m + 2) : i \in 1..m \/ (i - m \in 1..2 /\ m + (i - m) = i)
    <3>1. m \in Nat
      BY <2>5
    <3> HIDE DEF m
    <3> QED BY <3>1
  <2>7. \A i \in 1..(m + 2) : both[i] # "/"
    <3> TAKE i \in 1..(m + 2)
    <3>1. CASE i \in 1..m
      BY <2>3, <2>4, <3>1
    <3>2. CASE i - m \in 1..2 /\ m + (i - m) = i
      <4> DEFINE k == i - m
      <4>1. k \in 1..2 /\ i = m + k
        BY <3>2
      <4> HIDE DEF k
      <4> QED BY <2>2, <2>4, <4>1
    <3> QED BY <2>6, <3>1, <3>2
  <2>8. Len(both) = m + 2
    BY <2>2, <2>4
  <2>9. both \notin {<<>>, <<".">>}
    <3>1. Len(<<>>) = 0 /\ Len(<<".">>) = 1
      OBVIOUS
    <3>2. Len(both) # 0 /\ Len(both) # 1
      BY <2>5, <2>8
    <3> QED BY <3>1, <3>2
  <2>10. IsSegment(both)
    BY <2>4, <2>7, <2>8, <2>9 DEF IsSegment, NoSlash
  <2> QED BY <2>10 DEF both, year2
<1>7. CASE kind \in {"music", "book"}
  <2>1. text = (safe \o <<"/">>) \o clean
    BY <1>1, <1>7
  <2>2. Len(Segments((safe \o <<"/">>) \o clean)) = 2
    BY <1>4, <1>5, SegmentsTwo
  <2>3. Len(Segments(text)) = 2
    BY <2>1, <2>2
  <2> QED BY <1>7, <2>3 DEF text
<1>8. CASE kind \notin {"music", "book"}
  <2>1. text \in {clean, clean \o <<" ", "y">>}
    BY <1>1, <1>8
  <2>2. IsSegment(text)
    BY <1>4, <1>6, <2>1
  <2>3. Len(Segments(text)) = 1
    BY <2>2, SegmentsOne
  <2> QED BY <1>8, <2>3 DEF text
<1> QED BY <1>7, <1>8

LEMMA PackagesHold == ASSUME NEW title \in Titles PROVE PackagesAreFolders(title)
<1> DEFINE Kinds5 == {"movie", "television", "anime", "music", "book"}
<1>1. IsSequence(title) /\ \A folder \in Creators : IsSequence(folder)
  BY PackageAssumption
<1>2. \A template \in Templates : IsTemplate(template)
  BY PackageAssumption DEF IsTemplate
<1>3. ASSUME NEW kind \in Kinds5, NEW year \in BOOLEAN, NEW folder \in Creators
      PROVE  IsTemplate(BuiltIn(kind, year, folder))
  BY <1>1, BuiltInIs
<1>4. ASSUME NEW template \in Templates \cup {BuiltIn(kind, year, folder) :
                          kind \in Kinds5, year \in BOOLEAN, folder \in Creators},
             PackagePath(title, template) # Refused
      PROVE  \A i \in DOMAIN PackagePath(title, template) :
                /\ PackagePath(title, template)[i] \notin {<<>>, <<".">>, <<".", ".">>}
                /\ ToSet(PackagePath(title, template)[i]) \cap Reserved = {}
  <2>1. IsTemplate(template)
    BY <1>2, <1>3
  <2> QED BY <1>1, <1>4, <2>1, PackageIs
<1>5. ASSUME NEW kind \in Kinds5, NEW year \in BOOLEAN, NEW folder \in Creators,
             Sanitize(title) \notin {<<>>, <<".">>}, PackagePath(title, BuiltIn(kind, year, folder)) # Refused
      PROVE  Len(PackagePath(title, BuiltIn(kind, year, folder))) = IF kind \in {"music", "book"} THEN 2 ELSE 1
  <2>1. PackagePath(title, BuiltIn(kind, year, folder)) = Segments(RenderSource(BuiltIn(kind, year, folder), title))
    BY <1>1, <1>3, <1>5, PackageIs
  <2>2. IsSequence(folder)
    BY <1>1
  <2>3. Len(Segments(RenderSource(BuiltIn(kind, year, folder), title))) = IF kind \in {"music", "book"} THEN 2 ELSE 1
    BY <1>1, <1>5, <2>2, OneFolder
  <2> QED BY <2>1, <2>3
<1> HIDE DEF Kinds5
<1>6. \A template \in Templates \cup {BuiltIn(kind, year, folder) :
                          kind \in Kinds5, year \in BOOLEAN, folder \in Creators} :
         LET package == PackagePath(title, template)
         IN  package # Refused =>
               \A i \in DOMAIN package :
                   package[i] \notin {<<>>, <<".">>, <<".", ".">>} /\ ToSet(package[i]) \cap Reserved = {}
  BY <1>4
<1>7. Sanitize(title) \notin {<<>>, <<".">>} =>
         \A kind \in Kinds5, year \in BOOLEAN, folder \in Creators :
             LET package == PackagePath(title, BuiltIn(kind, year, folder))
             IN  package # Refused => Len(package) = IF kind \in {"music", "book"} THEN 2 ELSE 1
  BY <1>5
<1> QED BY <1>6, <1>7 DEF PackagesAreFolders, Kinds5

(***************************************************************************)
(* Whatever is organised, and wherever its package is: no two files and no *)
(* write and no file share a place, two writes do only where the writer    *)
(* laid both out in one place or for one episode, everything lies in the   *)
(* package, an NFO beside the one video of its episode, subtitles beside   *)
(* theirs, a manifest names only what is written, a relative link leads    *)
(* to its source; and a package, of whatever template and title, is        *)
(* folders of plain names below its destination.                           *)
(***************************************************************************)
THEOREM OrganizingHolds == SpecAlgorithms => []PlanIsSound
<1>1. Sampled => PlanIsSound
  <2>1. ASSUME Sampled, part = "organize" PROVE SoundPlan(sample, Organized(sample))
    <3>1. IsPlanSample(sample)
      BY <2>1, PlanAssumption DEF Sampled
    <3> QED BY <3>1, PlansAreSound
  <2>2. ASSUME Sampled, part = "package" PROVE PackagesAreFolders(sample)
    BY <2>2, PackagesHold DEF Sampled
  <2> QED BY <2>1, <2>2 DEF PlanIsSound
<1> QED BY <1>1, SamplesStay, PTL
=============================================================================
