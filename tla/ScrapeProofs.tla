---------------------------- MODULE ScrapeProofs ----------------------------
(***************************************************************************)
(* Proofs about Scrape, for any providers, requests, answers, documents    *)
(* and limits: what a scrape without a person writes was complete, and a   *)
(* group of candidates is one work, decided apart from its order.          *)
(***************************************************************************)
EXTENDS Scrape, FiniteSetTheorems, SequenceTheorems, WellFoundedInduction, TLAPS

-----------------------------------------------------------------------------
(***************************************************************************)
(* Sequences.                                                              *)
(***************************************************************************)

\* A function on 1..n is a sequence of its values.
LEMMA ListIsSequence ==
    ASSUME NEW n \in Nat, NEW s, s = [i \in 1..n |-> s[i]]
    PROVE  IsSequence(s) /\ Len(s) = n
<1> DEFINE S == {s[i] : i \in DOMAIN s}
<1>1. s \in [1..n -> S]
  OBVIOUS
<1>2. s \in Seq(S)
  BY <1>1
<1> QED BY <1>1, <1>2 DEF IsSequence

\* A sequence of anything is a sequence of its values.
LEMMA SeqIsSequence ==
    ASSUME NEW S, NEW s \in Seq(S) PROVE IsSequence(s)
<1>1. Len(s) \in Nat /\ s = [i \in 1..Len(s) |-> s[i]]
  OBVIOUS
<1> QED BY <1>1, ListIsSequence

\* A sequence is the function of its items on 1 to its length.
LEMMA SequenceIsList ==
    ASSUME NEW s, IsSequence(s)
    PROVE  /\ Len(s) \in Nat /\ DOMAIN s = 1..Len(s) /\ s = [i \in 1..Len(s) |-> s[i]]
           /\ IsFiniteSet(1..Len(s)) /\ Cardinality(1..Len(s)) = Len(s)
<1> DEFINE S == {s[i] : i \in DOMAIN s}
<1>1. s \in Seq(S)
  BY DEF IsSequence
<1>2. Len(s) \in Nat /\ DOMAIN s = 1..Len(s) /\ s = [i \in 1..Len(s) |-> s[i]]
  <2> HIDE DEF S
  <2> QED BY <1>1
<1> QED BY <1>2, FS_Interval

\* One sequence after another.
LEMMA Joined ==
    ASSUME NEW s, NEW t, IsSequence(s), IsSequence(t)
    PROVE  /\ IsSequence(s \o t) /\ Len(s \o t) = Len(s) + Len(t)
           /\ \A i \in 1..Len(s) : (s \o t)[i] = s[i]
           /\ \A i \in 1..Len(t) : (s \o t)[Len(s) + i] = t[i]
<1> DEFINE S == {s[i] : i \in DOMAIN s} \cup {t[i] : i \in DOMAIN t}
<1>1. s \in Seq(S) /\ t \in Seq(S)
  <2>1. s \in [1..Len(s) -> S] /\ Len(s) \in Nat /\ t \in [1..Len(t) -> S] /\ Len(t) \in Nat
    BY SequenceIsList
  <2> HIDE DEF S
  <2> QED BY <2>1
<1> HIDE DEF S
<1>2. s \o t \in Seq(S)
  BY <1>1
<1>3. /\ Len(s \o t) = Len(s) + Len(t)
      /\ \A i \in 1..Len(s) : (s \o t)[i] = s[i]
      /\ \A i \in 1..Len(t) : (s \o t)[Len(s) + i] = t[i]
  BY <1>1
<1> QED BY <1>2, <1>3, SeqIsSequence

\* What is picked from finitely many positions is a sequence.
LEMMA Picked ==
    ASSUME NEW s, NEW K, IsFiniteSet(K)
    PROVE  IsSequence(Pick(s, K)) /\ Len(Pick(s, K)) = Cardinality(K) /\ Cardinality(K) \in Nat
<1>1. Cardinality(K) \in Nat
  BY FS_CardinalityType
<1>2. Pick(s, K) = [i \in 1..Cardinality(K) |-> Pick(s, K)[i]]
  BY DEF Pick
<1> QED BY <1>1, <1>2, ListIsSequence

\* Some of the positions of a sequence are finitely many, and all of them only
\* if none is missing.
LEMMA SomePositions ==
    ASSUME NEW s, IsSequence(s), NEW K \in SUBSET (1..Len(s))
    PROVE  /\ IsFiniteSet(K) /\ Cardinality(K) \in Nat /\ Cardinality(K) <= Len(s)
           /\ Cardinality(K) = Len(s) => K = 1..Len(s)
           /\ Cardinality(K) = 0 => K = {}
BY SequenceIsList, FS_Subset, FS_CardinalityType, FS_EmptySet

\* Nth numbers the positions that are picked, one by one.
LEMMA NthIsIn ==
    ASSUME NEW K \in SUBSET Nat, IsFiniteSet(K)
    PROVE  /\ \A j \in 1..Cardinality(K) : Nth(K, j) \in K
           /\ \A i \in K : \E j \in 1..Cardinality(K) : Nth(K, j) = i
           /\ \A j, l \in 1..Cardinality(K) : Nth(K, j) = Nth(K, l) => j = l
           /\ \A j \in 1..Cardinality(K) : Cardinality({k \in K : k <= Nth(K, j)}) = j
<1> DEFINE Upto(i) == {k \in K : k <= i}
           n == Cardinality(K)
           f == [i \in K |-> Cardinality(Upto(i))]
<1>1. \A i \in K : IsFiniteSet(Upto(i)) /\ i \in Upto(i)
  BY FS_Subset
<1>2. \A i \in K : Cardinality(Upto(i)) \in 1..n
  <2> TAKE i \in K
  <2>1. Cardinality(Upto(i)) \in Nat /\ Cardinality(Upto(i)) <= n /\ n \in Nat
    BY <1>1, FS_Subset, FS_CardinalityType
  <2>2. Cardinality(Upto(i)) # 0
    BY <1>1, FS_EmptySet
  <2> QED BY <2>1, <2>2
<1>3. \A i, k \in K : i < k => Cardinality(Upto(i)) # Cardinality(Upto(k))
  <2> SUFFICES ASSUME NEW i \in K, NEW k \in K, i < k, Cardinality(Upto(i)) = Cardinality(Upto(k))
               PROVE FALSE
    OBVIOUS
  <2>0. i \in Nat /\ k \in Nat /\ k <= k /\ ~ (k <= i) /\ \A m \in K : m <= i => m <= k
    OBVIOUS
  <2>1. Upto(i) \subseteq Upto(k) /\ k \in Upto(k) /\ k \notin Upto(i)
    BY <2>0, Zenon
  <2> HIDE DEF Upto
  <2>2. Upto(i) = Upto(k)
    BY <1>1, <2>1, FS_Subset
  <2> QED BY <2>1, <2>2
<1>4. f \in Injection(K, 1..n)
  <2>1. f \in [K -> 1..n]
    BY <1>2
  <2>2. \A a, b \in K : f[a] = f[b] => a = b
    BY <1>3
  <2> HIDE DEF f, n
  <2> QED BY <2>1, <2>2 DEF Injection, IsInjective
<1>5. IsFiniteSet(1..n) /\ Cardinality(1..n) = n
  BY FS_CardinalityType, FS_Interval
<1>6. f \in Surjection(K, 1..n)
  <2> HIDE DEF f
  <2> QED BY <1>4, <1>5, FS_Injection
<1>7. \A j \in 1..n : \E i \in K : Cardinality(Upto(i)) = j
  <2>1. \A j \in 1..n : \E i \in K : f[i] = j
    <3> HIDE DEF f, n
    <3> QED BY <1>6 DEF Surjection
  <2> QED BY <2>1
<1>8. \A j : Nth(K, j) = CHOOSE i \in K : Cardinality(Upto(i)) = j
  BY DEF Nth
<1>9. \A j \in 1..n : Nth(K, j) \in K /\ Cardinality(Upto(Nth(K, j))) = j
  <2> HIDE DEF Upto, n, f
  <2> QED BY <1>7, <1>8
<1>10. ASSUME NEW i \in K PROVE \E j \in 1..n : Nth(K, j) = i
  <2> DEFINE j == Cardinality(Upto(i))
             l == Nth(K, j)
  <2>1. j \in 1..n
    BY <1>2
  <2>2. l \in K /\ Cardinality(Upto(l)) = Cardinality(Upto(i))
    BY <1>9, <2>1
  <2>3. l \in Nat /\ i \in Nat
    BY <2>2
  <2>4. ~ (l < i) /\ ~ (i < l)
    <3> HIDE DEF l, Upto
    <3> QED BY <1>3, <2>2
  <2>5. l = i
    <3> HIDE DEF l
    <3> QED BY <2>3, <2>4
  <2> QED BY <2>1, <2>5
<1> HIDE DEF n, f
<1>11. \A j \in 1..n : Cardinality({k \in K : k <= Nth(K, j)}) = j
  BY <1>9
<1> HIDE DEF Upto
<1>12. \A j, l \in 1..n : Nth(K, j) = Nth(K, l) => j = l
  BY <1>9
<1> QED BY <1>9, <1>10, <1>11, <1>12 DEF n

\* What is kept of a sequence is a sequence of some of its items.
LEMMA PickedItems ==
    ASSUME NEW s, IsSequence(s), NEW K \in SUBSET (1..Len(s)), NEW j \in 1..Len(Pick(s, K))
    PROVE  \E i \in K : Pick(s, K)[j] = s[i]
<1>1. IsFiniteSet(K) /\ K \in SUBSET Nat
  BY SomePositions, SequenceIsList
<1>2. j \in 1..Cardinality(K)
  BY <1>1, Picked
<1>3. Nth(K, j) \in K
  BY <1>1, <1>2, NthIsIn
<1> QED BY <1>2, <1>3 DEF Pick

\* The numbers are well-founded.
LEMMA LeastNumber ==
    ASSUME NEW S \in SUBSET Nat, S # {} PROVE \E n \in S : \A m \in S : n <= m
<1> DEFINE Less == OpToRel(<, Nat)
<1>1. IsWellFoundedOn(Less, Nat)
  BY NatLessThanWellFounded
<1>2. \A m, n \in Nat : m < n => <<m, n>> \in Less
  BY Zenon DEF OpToRel
<1> HIDE DEF Less
<1>3. PICK n \in S : \A m \in S : <<m, n>> \notin Less
  BY <1>1, WFMin, Zenon
<1>4. ASSUME NEW m \in S PROVE n <= m
  <2>1. m \in Nat /\ n \in Nat
    OBVIOUS
  <2>2. ~ (m < n)
    BY <1>2, <1>3, <2>1, Zenon
  <2> QED BY <2>1, <2>2
<1> QED BY <1>4

\* What holds of 0, and of the next number with each, holds up to n.
LEMMA UpTo ==
    ASSUME NEW n \in Nat, NEW S, 0 \in S, \A i \in 0..(n - 1) : i \in S => i + 1 \in S
    PROVE  \A i \in 0..n : i \in S
<1> DEFINE Bad == {i \in 0..n : i \notin S}
<1>1. ASSUME Bad # {} PROVE FALSE
  <2>0. Bad \in SUBSET Nat
    OBVIOUS
  <2>1. PICK m \in Bad : \A i \in Bad : m <= i
    <3> HIDE DEF Bad
    <3> QED BY <1>1, <2>0, LeastNumber
  <2>2. m \in Nat /\ m # 0 /\ m - 1 \in 0..(n - 1) /\ (m - 1) + 1 = m
    OBVIOUS
  <2>3. m - 1 \in 0..n /\ ~ (m <= m - 1)
    BY <2>2
  <2>4. m - 1 \notin Bad
    BY <2>1, <2>3
  <2> QED BY <2>2, <2>3, <2>4
<1> QED BY <1>1

\* The items of a sequence, by their positions.
LEMMA ItemsAre ==
    ASSUME NEW s, IsSequence(s) PROVE ToSet(s) = {s[i] : i \in 1..Len(s)}
BY SequenceIsList DEF ToSet

\* No item is a sequence.
LEMMA NoItem == IsSequence(<<>>) /\ Len(<<>>) = 0
<1>1. <<>> \in Seq({})
  OBVIOUS
<1> QED BY <1>1, SeqIsSequence

\* flat has the items of the first n sequences, those of earlier ones first.
Joins(flat, seqs, n, from) ==
    /\ IsSequence(flat) /\ from \in [1..Len(flat) -> 1..n]
    /\ \A k \in 1..Len(flat) : flat[k] \in ToSet(seqs[from[k]])
    /\ \A k, l \in 1..Len(flat) : k <= l => from[k] <= from[l]
    /\ \A i \in 1..n : \A x \in ToSet(seqs[i]) : \E k \in 1..Len(flat) : from[k] = i /\ flat[k] = x

\* One more sequence is joined.
LEMMA OneMore ==
    ASSUME NEW seqs, NEW n \in Nat, NEW flat, NEW from, Joins(flat, seqs, n, from), IsSequence(seqs[n + 1])
    PROVE  \E to : Joins(flat \o seqs[n + 1], seqs, n + 1, to)
<1> DEFINE s == seqs[n + 1]
           both == flat \o s
           to == [k \in 1..Len(both) |-> IF k <= Len(flat) THEN from[k] ELSE n + 1]
<1>1. /\ IsSequence(both) /\ Len(both) = Len(flat) + Len(s) /\ Len(flat) \in Nat /\ Len(s) \in Nat
      /\ \A i \in 1..Len(flat) : both[i] = flat[i]
  BY Joined, SequenceIsList DEF Joins
<1>2. \A i \in 1..Len(s) : both[Len(flat) + i] = s[i]
  BY Joined DEF Joins
<1> HIDE DEF both
<1>3. from \in [1..Len(flat) -> 1..n]
  BY DEF Joins
<1>4. ASSUME NEW k \in 1..Len(both), ~ (k <= Len(flat)) PROVE both[k] \in ToSet(s) /\ k - Len(flat) \in 1..Len(s)
  <2>1. k - Len(flat) \in 1..Len(s) /\ Len(flat) + (k - Len(flat)) = k
    BY <1>1, <1>4
  <2>2. both[k] = s[k - Len(flat)]
    BY <1>2, <2>1
  <2>3. ToSet(s) = {s[i] : i \in 1..Len(s)}
    BY ItemsAre
  <2> QED BY <2>1, <2>2, <2>3
<1> HIDE DEF s
<1>5. \A k \in 1..Len(both) : to[k] \in 1..(n + 1)
  <2> TAKE k \in 1..Len(both)
  <2>1. CASE k <= Len(flat)
    <3>1. k \in 1..Len(flat)
      BY <1>1, <2>1
    <3>2. from[k] \in 1..n
      BY <1>3, <3>1
    <3> QED BY <2>1, <3>2
  <2>2. CASE ~ (k <= Len(flat))
    BY <2>2
  <2> QED BY <2>1, <2>2
<1>6. ASSUME NEW k \in 1..Len(both) PROVE both[k] \in ToSet(seqs[to[k]])
  <2>1. CASE k <= Len(flat)
    <3>1. k \in 1..Len(flat) /\ to[k] = from[k]
      BY <1>1, <2>1
    <3> HIDE DEF to
    <3> QED BY <1>1, <3>1 DEF Joins
  <2>2. CASE ~ (k <= Len(flat))
    <3>1. to[k] = n + 1
      BY <2>2
    <3> HIDE DEF to
    <3> QED BY <1>4, <2>2, <3>1 DEF s
  <2> QED BY <2>1, <2>2
<1>7. ASSUME NEW k \in 1..Len(both), NEW l \in 1..Len(both), k <= l PROVE to[k] <= to[l]
  <2>1. CASE l <= Len(flat)
    <3>1. k \in 1..Len(flat) /\ l \in 1..Len(flat) /\ to[k] = from[k] /\ to[l] = from[l]
      BY <1>1, <1>7, <2>1
    <3> HIDE DEF to
    <3> QED BY <1>7, <3>1 DEF Joins
  <2>2. CASE ~ (l <= Len(flat))
    <3>1. to[l] = n + 1 /\ to[k] \in 1..(n + 1)
      BY <1>5, <2>2
    <3> HIDE DEF to
    <3> QED BY <3>1
  <2> QED BY <2>1, <2>2
<1>8. ASSUME NEW i \in 1..(n + 1), NEW x \in ToSet(seqs[i])
      PROVE \E k \in 1..Len(both) : to[k] = i /\ both[k] = x
  <2>1. CASE i # n + 1
    <3>1. i \in 1..n
      BY <2>1
    <3>2. PICK k \in 1..Len(flat) : from[k] = i /\ flat[k] = x
      BY <3>1 DEF Joins
    <3>3. k \in 1..Len(both) /\ k <= Len(flat) /\ both[k] = x
      BY <1>1, <3>2
    <3>4. to[k] = i
      BY <3>2, <3>3
    <3> HIDE DEF to
    <3> QED BY <3>3, <3>4
  <2>2. CASE i = n + 1
    <3>1. ToSet(s) = {s[j] : j \in 1..Len(s)}
      BY ItemsAre DEF s
    <3>2. PICK j \in 1..Len(s) : x = s[j]
      BY <2>2, <3>1 DEF s
    <3>3. Len(flat) + j \in 1..Len(both) /\ ~ (Len(flat) + j <= Len(flat)) /\ both[Len(flat) + j] = x
      BY <1>1, <1>2, <3>2
    <3>4. to[Len(flat) + j] = n + 1
      BY <3>3
    <3> HIDE DEF to
    <3> QED BY <2>2, <3>3, <3>4
  <2> QED BY <2>1, <2>2
<1>9. to \in [1..Len(both) -> 1..(n + 1)]
  BY <1>5
<1> HIDE DEF to
<1>10. Joins(both, seqs, n + 1, to)
  BY <1>1, <1>6, <1>7, <1>8, <1>9 DEF Joins
<1> QED BY <1>10 DEF both, s

\* The recursion of FlattenSeq has a solution.
LEMMA Flattens ==
    ASSUME NEW seqs, NEW n \in Nat
    PROVE  \E f : f = [i \in 1..n |-> IF i = 1 THEN seqs[i] ELSE f[i - 1] \o seqs[i]]
<1> DEFINE Flat1(f, i) == IF i = 1 THEN seqs[i] ELSE f[i - 1] \o seqs[i]
           Flats(f, m) == f = [i \in 1..m |-> Flat1(f, i)]
<1>2. \A m \in Nat : \E f : Flats(f, m)
  <2> DEFINE Bad == {m \in Nat : ~ \E f : Flats(f, m)}
  <2> SUFFICES ASSUME Bad # {} PROVE FALSE
    BY Zenon
  <2>1. PICK m \in Bad : \A k \in Bad : m <= k
    BY LeastNumber
  <2>2. m \in Nat /\ ~ \E f : Flats(f, m)
    OBVIOUS
  <2>3. m # 0
    <3>1. Flats([i \in 1..0 |-> i], 0)
      OBVIOUS
    <3> HIDE DEF Flats
    <3> QED BY <2>2, <3>1, Zenon
  <2>4. m - 1 \in Nat /\ m - 1 \notin Bad
    <3>1. m - 1 \in Nat /\ ~ (m <= m - 1)
      BY <2>2, <2>3
    <3> HIDE DEF Bad
    <3> QED BY <2>1, <3>1
  <2>5. PICK g : Flats(g, m - 1)
    <3> HIDE DEF Flats
    <3> QED BY <2>4, Zenon
  <2> DEFINE f == [i \in 1..m |-> IF i = m THEN Flat1(g, m) ELSE g[i]]
  <2>6. \A i \in 1..m : f[i] = Flat1(f, i)
    <3> TAKE i \in 1..m
    <3>1. i \in Nat /\ i >= 1 /\ i <= m
      OBVIOUS
    <3>2. i # 1 => i - 1 \in 1..(m - 1) /\ i - 1 \in 1..m /\ i - 1 # m
      BY <2>2, <3>1
    <3>3. i # 1 => f[i - 1] = g[i - 1]
      BY <3>2
    <3>4. CASE i = m
      BY <3>3, <3>4
    <3>5. CASE i # m
      <4>1. i \in 1..(m - 1)
        BY <2>2, <3>1, <3>5
      <4>2. g[i] = Flat1(g, i)
        BY <2>5, <4>1
      <4> QED BY <3>3, <3>5, <4>2
    <3> QED BY <3>4, <3>5
  <2>7. Flats(f, m)
    <3>1. f = [i \in 1..m |-> f[i]]
      OBVIOUS
    <3> HIDE DEF f, Flat1
    <3> QED BY <2>6, <3>1
  <2> HIDE DEF f, Flats
  <2> QED BY <2>2, <2>7, Zenon
<1> QED BY <1>2

\* FlattenSeq joins all of them.
LEMMA FlattenIs ==
    ASSUME NEW seqs, IsSequence(seqs), \A i \in 1..Len(seqs) : IsSequence(seqs[i])
    PROVE  \E from : Joins(FlattenSeq(seqs), seqs, Len(seqs), from)
<1> DEFINE n == Len(seqs)
           Flat1(f, i) == IF i = 1 THEN seqs[i] ELSE f[i - 1] \o seqs[i]
           flatten == CHOOSE f : f = [i \in 1..n |-> IF i = 1 THEN seqs[i] ELSE f[i - 1] \o seqs[i]]
<1>1. n \in Nat
  BY SequenceIsList
<1>2. \E f : f = [i \in 1..n |-> Flat1(f, i)]
  <2> HIDE DEF n
  <2> QED BY <1>1, Flattens
<1>3. flatten = [i \in 1..n |-> Flat1(flatten, i)]
  <2>1. \E f : f = [i \in 1..n |-> IF i = 1 THEN seqs[i] ELSE f[i - 1] \o seqs[i]]
    BY <1>2
  <2> QED BY <2>1, Zenon
<1>4. FlattenSeq(seqs) = IF n = 0 THEN seqs ELSE flatten[n]
  BY DEF FlattenSeq
<1> HIDE DEF flatten
<1>5. \A i \in 1..n : flatten[i] = Flat1(flatten, i)
  <2> HIDE DEF Flat1
  <2> QED BY <1>3
<1> DEFINE first == [i \in 0..n |-> IF i = 0 THEN <<>> ELSE flatten[i]]
           T == {i \in 0..n : \E from : Joins(first[i], seqs, i, from)}
<1>6. 0 \in T
  <2>1. Joins(<<>>, seqs, 0, [k \in 1..0 |-> k])
    <3>1. IsSequence(<<>>) /\ Len(<<>>) = 0
      BY NoItem
    <3> QED BY <3>1 DEF Joins
  <2>2. first[0] = <<>> /\ 0 \in 0..n
    BY <1>1
  <2> HIDE DEF first, n
  <2> QED BY <2>1, <2>2
<1>7. ASSUME NEW i \in 0..(n - 1), i \in T PROVE i + 1 \in T
  <2>1. i + 1 \in 1..n /\ i + 1 \in 0..n /\ i + 1 # 0 /\ (i + 1) - 1 = i /\ i \in Nat /\ (i # 0 <=> i + 1 # 1) /\ i \in 0..n
    BY <1>1
  <2>2. IsSequence(seqs[i + 1])
    BY <2>1
  <2> DEFINE f == first[i]
  <2>3. PICK from : Joins(f, seqs, i, from)
    BY <1>7
  <2>4. first[i + 1] = f \o seqs[i + 1]
    <3>1. first[i + 1] = Flat1(flatten, i + 1)
      BY <1>5, <2>1
    <3>2. CASE i = 0
      <4>1. f = <<>> /\ first[i + 1] = seqs[i + 1]
        BY <2>1, <3>1, <3>2
      <4>2. seqs[i + 1] \in Seq({seqs[i + 1][j] : j \in DOMAIN seqs[i + 1]})
        BY <2>2 DEF IsSequence
      <4>3. <<>> \o seqs[i + 1] = seqs[i + 1]
        BY <4>2, ConcatEmptySeq
      <4> QED BY <4>1, <4>3
    <3>3. CASE i # 0
      <4>1. first[i + 1] = flatten[i] \o seqs[i + 1] /\ f = flatten[i]
        BY <2>1, <3>1, <3>3
      <4> QED BY <4>1
    <3> QED BY <3>2, <3>3
  <2> HIDE DEF f, first
  <2>5. \E to : Joins(f \o seqs[i + 1], seqs, i + 1, to)
    BY <2>1, <2>2, <2>3, OneMore
  <2> QED BY <2>1, <2>4, <2>5
<1> HIDE DEF T
<1>8. n \in T
  <2>1. \A i \in 0..n : i \in T
    <3> HIDE DEF n
    <3> QED BY <1>1, <1>6, <1>7, UpTo
  <2> QED BY <1>1, <2>1
<1>9. FlattenSeq(seqs) = first[n]
  <2>1. CASE n = 0
    <3>1. seqs = <<>>
      BY <2>1, SequenceIsList DEF IsSequence
    <3> QED BY <1>1, <1>4, <2>1, <3>1
  <2>2. CASE n # 0
    BY <1>1, <1>4, <2>2
  <2> QED BY <2>1, <2>2
<1> HIDE DEF first
<1> QED BY <1>8, <1>9 DEF T

\* FlattenSeq, whose recursion is one on positions, makes a sequence of sequences one.
LEMMA Flattened ==
    ASSUME NEW seqs, IsSequence(seqs), \A i \in 1..Len(seqs) : IsSequence(seqs[i])
    PROVE  IsSequence(FlattenSeq(seqs))
BY FlattenIs DEF Joins

(***************************************************************************)
(* Candidates and warnings.                                                *)
(***************************************************************************)

\* Asked and Found are sequences, if all answers are.
LEMMA AskedIsSequence ==
    ASSUME NEW kind, NEW offline
    PROVE  IsSequence(Asked(Providers, Supports, kind, offline))
<1> DEFINE K == {i \in 1..Len(Providers) : /\ kind \in Supports[Providers[i]]
                                          /\ ~ (offline /\ Providers[i] \in NetworkNeeded)}
<1>1. K \in SUBSET (1..Len(Providers)) /\ IsSequence(Providers)
  BY ScrapeAssumption
<1>2. Asked(Providers, Supports, kind, offline) = Pick(Providers, K)
  BY DEF Asked, Select
<1> HIDE DEF K
<1> QED BY <1>1, <1>2, SomePositions, Picked

\* So is the list of all that the providers found.
LEMMA FoundIsSequence ==
    ASSUME NEW asked, NEW answers, NEW query, IsSequence(asked),
           \A i \in 1..Len(asked) :
               answers[asked[i]] # NoAnswer => IsSequence(answers[asked[i]])
    PROVE  IsSequence(Found(asked, answers, query))
<1> DEFINE K == {i \in 1..Len(asked) : answers[asked[i]] # NoAnswer}
           answered == Pick(asked, K)
           lists == [j \in 1..Len(answered) |-> answers[answered[j]]]
           flat == FlattenSeq(lists)
           L == {i \in 1..Len(flat) : flat[i].kind = query.kind}
           all == Pick(flat, L)
           found == [i \in 1..Len(all) |-> Dated(query, all[i])]
<1>1. Found(asked, answers, query) = found
  BY DEF Found, Select, Flat, Each
<1>2. K \in SUBSET (1..Len(asked)) /\ \A i \in K : IsSequence(answers[asked[i]])
  OBVIOUS
<1>3. IsSequence(answered) /\ Len(answered) \in Nat
  <2> HIDE DEF K
  <2> QED BY <1>2, SomePositions, Picked
<1>4. \A j \in 1..Len(answered) : IsSequence(answers[answered[j]])
  <2> HIDE DEF K
  <2>1. \A j \in 1..Len(answered) : \E i \in K : answered[j] = asked[i]
    BY <1>2, PickedItems
  <2> HIDE DEF answered
  <2> QED BY <1>2, <2>1
<1>5. IsSequence(lists) /\ Len(lists) = Len(answered)
  <2> HIDE DEF answered
  <2>1. lists = [j \in 1..Len(answered) |-> lists[j]]
    OBVIOUS
  <2> HIDE DEF lists
  <2> QED BY <1>3, <2>1, ListIsSequence
<1>6. IsSequence(flat)
  <2> HIDE DEF answered
  <2>1. \A j \in 1..Len(lists) : IsSequence(lists[j])
    BY <1>4, <1>5
  <2> HIDE DEF lists
  <2> QED BY <1>5, <2>1, Flattened
<1>7. IsSequence(all) /\ Len(all) \in Nat
  <2> HIDE DEF flat
  <2>1. L \in SUBSET (1..Len(flat))
    OBVIOUS
  <2> HIDE DEF L
  <2> QED BY <1>6, <2>1, SomePositions, Picked
<1>8. IsSequence(found)
  <2> HIDE DEF all
  <2>1. found = [i \in 1..Len(all) |-> found[i]]
    OBVIOUS
  <2> HIDE DEF found
  <2> QED BY <1>7, <2>1, ListIsSequence
<1> QED BY <1>1, <1>8

\* Ranking keeps the number of candidates.
LEMMA RankedIsSequence ==
    ASSUME NEW query, NEW c, IsSequence(c)
    PROVE  IsSequence(RankedCandidates(query, c)) /\ Len(RankedCandidates(query, c)) = Len(c)
<1> DEFINE ranked == RankedCandidates(query, c)
<1>1. Len(c) \in Nat
  BY SequenceIsList
<1>2. ranked = [p \in 1..Len(c) |-> ranked[p]]
  <2>1. \A place : ByPlace(c, place) = [p \in 1..Len(c) |-> ByPlace(c, place)[p]]
    BY DEF ByPlace
  <2>2. \E place : ranked = ByPlace(c, place)
    BY Zenon DEF RankedCandidates, StableBy, PlacedBy
  <2> HIDE DEF ranked
  <2> QED BY <2>1, <2>2
<1> HIDE DEF ranked
<1>3. IsSequence(ranked) /\ Len(ranked) = Len(c)
  BY <1>1, <1>2, ListIsSequence
<1> QED BY <1>3 DEF ranked

\* One item is a sequence.
LEMMA OneItem == ASSUME NEW x PROVE IsSequence(<<x>>) /\ Len(<<x>>) = 1 /\ <<x>>[1] = x
<1>1. <<x>> \in Seq({x})
  OBVIOUS
<1> QED BY <1>1, SeqIsSequence

\* The chosen candidate is the first of the others, and of its group.
LEMMA ChosenFirst ==
    ASSUME NEW c, IsSequence(c), NEW index
    PROVE  /\ IsSequence(Choose(c, index)) /\ Len(Choose(c, index)) >= 1
           /\ Choose(c, index)[1] = c[index]
<1> DEFINE others == Pick(c, (1..Len(c)) \ {index})
<1>1. IsSequence(others) /\ Len(others) \in Nat
  BY SomePositions, Picked
<1>2. Choose(c, index) = <<c[index]>> \o others
  BY DEF Choose
<1> HIDE DEF others
<1> QED BY <1>1, <1>2, OneItem, Joined

\* The first of a group is the chosen candidate.
LEMMA PrimaryFirst ==
    ASSUME NEW kind, NEW c, NEW ids, IsSequence(c), Len(c) >= 1
    PROVE  /\ IsSequence(Fetched(kind, c, ids)) /\ Len(Fetched(kind, c, ids)) >= 1
           /\ Fetched(kind, c, ids)[1] = c[1]
<1> DEFINE tail == Tail(c)
           K == {i \in 1..Len(tail) : Compatible(c[1], ids, tail[i])}
           matches == Pick(tail, K)
           Alone(m) == \/ SameLocalMovie(c[1], m)
                       \/ Cardinality({i \in 1..Len(matches) : matches[i].provider = m.provider}) = 1
           L == {i \in 1..Len(matches) : Alone(matches[i])}
           others == Pick(matches, L)
<1>1. IsSequence(tail)
  <2>1. c \in Seq({c[i] : i \in DOMAIN c}) /\ c # <<>>
    BY NoItem DEF IsSequence
  <2>2. tail \in Seq({c[i] : i \in DOMAIN c})
    BY <2>1, HeadTailProperties
  <2> HIDE DEF tail
  <2> QED BY <2>2, SeqIsSequence
<1>2. IsSequence(matches)
  <2> HIDE DEF tail
  <2>1. K \in SUBSET (1..Len(tail))
    OBVIOUS
  <2> HIDE DEF K
  <2> QED BY <1>1, <2>1, SomePositions, Picked
<1>3. IsSequence(others) /\ Len(others) \in Nat
  <2> HIDE DEF matches
  <2>1. L \in SUBSET (1..Len(matches))
    OBVIOUS
  <2> HIDE DEF L
  <2> QED BY <1>2, <2>1, SomePositions, Picked
<1>4. \/ Fetched(kind, c, ids) = <<c[1]>>
      \/ Fetched(kind, c, ids) = <<c[1]>> \o others
  BY DEF Fetched, Group, Select
<1> HIDE DEF others
<1>5. CASE Fetched(kind, c, ids) = <<c[1]>>
  BY <1>5, OneItem
<1>6. CASE Fetched(kind, c, ids) = <<c[1]>> \o others
  <2>1. IsSequence(<<c[1]>>) /\ Len(<<c[1]>>) = 1 /\ <<c[1]>>[1] = c[1]
    BY OneItem
  <2> QED BY <1>3, <1>6, <2>1, Joined
<1> QED BY <1>4, <1>5, <1>6

\* Failures == the warnings that keep an automatic job from writing.
Failures == {"provider_search_failed", "provider_fetch_failed"}
NoFailure(w) == \A i \in 1..Len(w) : w[i] \notin Failures

\* A number of equal warnings is a sequence, and holds no failure only if it is empty.
LEMMA Repeated ==
    ASSUME NEW n \in Nat, NEW x, NEW s, s = [i \in 1..n |-> x]
    PROVE  /\ IsSequence(s) /\ Len(s) = n
           /\ x \in Failures /\ NoFailure(s) => n = 0
<1>1. s = [i \in 1..n |-> s[i]] /\ \A i \in 1..n : s[i] = x
  OBVIOUS
<1>2. IsSequence(s) /\ Len(s) = n
  BY <1>1, ListIsSequence
<1>3. n # 0 => 1 \in 1..n
  OBVIOUS
<1> QED BY <1>1, <1>2, <1>3 DEF NoFailure

\* Warnings one after another hold no failure only if none of them does.
LEMMA JoinedFailures ==
    ASSUME NEW s, NEW t, IsSequence(s), IsSequence(t)
    PROVE  IsSequence(s \o t) /\ (NoFailure(s \o t) => NoFailure(s) /\ NoFailure(t))
<1>1. /\ IsSequence(s \o t) /\ Len(s \o t) = Len(s) + Len(t)
      /\ \A i \in 1..Len(s) : (s \o t)[i] = s[i]
      /\ \A i \in 1..Len(t) : (s \o t)[Len(s) + i] = t[i]
  BY Joined
<1>2. Len(s) \in Nat /\ Len(t) \in Nat
  BY SequenceIsList
<1>3. /\ \A i \in 1..Len(s) : i \in 1..Len(s \o t)
      /\ \A i \in 1..Len(t) : Len(s) + i \in 1..Len(s \o t)
  BY <1>1, <1>2
<1> QED BY <1>1, <1>3 DEF NoFailure

\* One warning for each provider that failed.
LEMMA FailuresWarned ==
    ASSUME NEW asked, NEW answers, NEW skipped, IsSequence(asked),
           NEW w, w = SearchWarnings(asked, answers, skipped)
    PROVE  /\ IsSequence(w)
           /\ NoFailure(w) => \A i \in 1..Len(asked) : answers[asked[i]] # NoAnswer
<1> DEFINE K == {i \in 1..Len(asked) : answers[asked[i]] = NoAnswer}
           n == Len(Pick(asked, K))
           first == IF skipped THEN <<"offline_provider_skipped">> ELSE <<>>
           second == [i \in 1..n |-> "provider_search_failed"]
<1>1. w = first \o second
  BY DEF SearchWarnings, Select
<1>2. n \in Nat /\ (n = 0 => \A i \in 1..Len(asked) : answers[asked[i]] # NoAnswer)
  <2>1. K \in SUBSET (1..Len(asked)) /\ (K = {} => \A i \in 1..Len(asked) : answers[asked[i]] # NoAnswer)
    OBVIOUS
  <2> HIDE DEF K
  <2> QED BY <2>1, SomePositions, Picked
<1> HIDE DEF n
<1>3. IsSequence(second) /\ (NoFailure(second) => n = 0)
  BY <1>2, Repeated DEF Failures
<1>4. IsSequence(first)
  BY OneItem, NoItem
<1> HIDE DEF first, second
<1> QED BY <1>1, <1>2, <1>3, <1>4, JoinedFailures

\* One warning for each candidate that was not fetched.
LEMMA MissesWarned ==
    ASSUME NEW got, IsSequence(got),
           NEW docs, docs = Select(got, LAMBDA d : d # NoAnswer),
           NEW w, w = [i \in 1..(Len(got) - Len(docs)) |-> "provider_fetch_failed"]
    PROVE  IsSequence(w) /\ (NoFailure(w) => \A i \in 1..Len(got) : got[i] # NoAnswer)
<1> DEFINE K == {i \in 1..Len(got) : got[i] # NoAnswer}
           n == Len(got) - Len(docs)
<1>1. docs = Pick(got, K)
  BY DEF Select
<1>2. K \in SUBSET (1..Len(got)) /\ (K = 1..Len(got) => \A i \in 1..Len(got) : got[i] # NoAnswer)
  OBVIOUS
<1> HIDE DEF K
<1>3. n \in Nat /\ (n = 0 => \A i \in 1..Len(got) : got[i] # NoAnswer)
  <2>1. /\ Len(docs) = Cardinality(K) /\ Cardinality(K) \in Nat /\ Len(got) \in Nat
        /\ Cardinality(K) <= Len(got) /\ (Cardinality(K) = Len(got) => K = 1..Len(got))
    BY <1>1, <1>2, SomePositions, Picked, SequenceIsList
  <2> QED BY <1>2, <2>1
<1>4. w = [i \in 1..n |-> "provider_fetch_failed"]
  OBVIOUS
<1> HIDE DEF n
<1>5. IsSequence(w) /\ (NoFailure(w) => n = 0)
  BY <1>3, <1>4, Repeated DEF Failures
<1> QED BY <1>3, <1>5

-----------------------------------------------------------------------------
(***************************************************************************)
(* The invariant.                                                          *)
(***************************************************************************)

AllAnswered(p) == \A q \in DOMAIN p.answers : p.answers[q] # NoAnswer
AllFetched(p) == \A i \in DOMAIN p.got : p.got[i] # NoAnswer

\* A pass that fetches a group has a warning for each provider that failed, and
\* the group begins with the candidate decided on.
FetchInv ==
    pass # NoPlan /\ pass.step = "fetch" =>
        /\ IsSequence(pass.warnings) /\ (NoFailure(pass.warnings) => AllAnswered(pass))
        /\ IsSequence(pass.group) /\ Len(pass.group) >= 1
        /\ Index = 0 => pass.group[1] = pass.ranked[1]

\* A resolved pass has the warnings of its search and of its fetches.
ResolvedInv ==
    pass # NoPlan /\ pass.step = "resolved" =>
        /\ IsSequence(pass.resolved.warnings)
        /\ NoFailure(pass.resolved.warnings) => AllAnswered(pass) /\ AllFetched(pass)
        /\ Index = 0 => pass.primary = pass.ranked[1]

\* Nothing is computed while a client is to decide; the server never takes the
\* one pass of the command line.
StageInv ==
    /\ ~ Computing => pass = NoPlan
    /\ request.front = "server" => stage # "resolve"

PassInv == FetchInv /\ ResolvedInv /\ StageInv /\ AutomaticIsClean

\* A pass that is over leaves nothing behind.
LEMMA PassOver ==
    ASSUME PassInv, pass' = NoPlan, request' = request, stage' # "resolve",
           stage' = "written" /\ request.front = "server" => AutomaticIsClean'
    PROVE  PassInv'
BY DEF PassInv, FetchInv, ResolvedInv, StageInv, AutomaticIsClean

\* A pass that fails leaves nothing, so nothing unsound.
LEMMA FailureKeeps == ASSUME PassInv, PassFails PROVE PassInv'
<1>1. pass' = NoPlan /\ request' = request /\ stage' \in {"failed", "awaiting", "planning"}
  BY DEF PassFails, AfterError
<1> QED BY <1>1, PassOver

\* A search warns of each provider that did not answer.
LEMMA SearchKeeps == ASSUME PassInv, Search PROVE PassInv'
<1> DEFINE asked == Asked(Providers, Supports, request.kind, request.offline)
           skipped == Skipped(Providers, Supports, request.kind, request.offline)
           ranked(answers) == RankedCandidates(Query(request), Found(asked, answers, Query(request)))
           chosen(answers) == Choose(ranked(answers), Index + 1)
           next(answers) ==
               [step |-> "fetch", answers |-> answers, ranked |-> ranked(answers),
                group |-> Fetched(request.kind, chosen(answers), Identity(request)),
                warnings |-> SearchWarnings(asked, answers, skipped)]
<1>1. PICK answers \in [{asked[i] : i \in 1..Len(asked)} -> UNION {Answers[p] : p \in DOMAIN Answers}] :
        \/ PassFails
        \/ pass' = next(answers) /\ UNCHANGED <<request, stage, decision, approved, written>>
  BY DEF Search
<1>2. CASE PassFails
  BY <1>2, FailureKeeps
<1>3. CASE pass' = next(answers) /\ UNCHANGED <<request, stage, decision, approved, written>>
  <2>1. IsSequence(asked)
    BY AskedIsSequence
  <2>2. \A i \in 1..Len(asked) : answers[asked[i]] # NoAnswer => IsSequence(answers[asked[i]])
    <3> HIDE DEF asked
    <3>1. \A i \in 1..Len(asked) : answers[asked[i]] \in UNION {Answers[p] : p \in DOMAIN Answers}
      OBVIOUS
    <3> QED BY <3>1, ScrapeAssumption
  <2>3. IsSequence(ranked(answers))
    <3> HIDE DEF asked
    <3> QED BY <2>1, <2>2, FoundIsSequence, RankedIsSequence
  <2>4. /\ IsSequence(next(answers).group) /\ Len(next(answers).group) >= 1
        /\ next(answers).group[1] = ranked(answers)[Index + 1]
    <3> HIDE DEF ranked
    <3>1. /\ IsSequence(chosen(answers)) /\ Len(chosen(answers)) >= 1
          /\ chosen(answers)[1] = ranked(answers)[Index + 1]
      BY <2>3, ChosenFirst
    <3> HIDE DEF chosen
    <3>2. next(answers).group = Fetched(request.kind, chosen(answers), Identity(request))
      OBVIOUS
    <3> QED BY <3>1, <3>2, PrimaryFirst
  <2>5. /\ IsSequence(next(answers).warnings)
        /\ NoFailure(next(answers).warnings) => \A q \in DOMAIN answers : answers[q] # NoAnswer
    <3>1. next(answers).warnings = SearchWarnings(asked, answers, skipped)
      OBVIOUS
    <3>2. DOMAIN answers = {asked[i] : i \in 1..Len(asked)}
      OBVIOUS
    <3> HIDE DEF asked, next, skipped
    <3> QED BY <2>1, <3>1, <3>2, FailuresWarned
  <2>6. next(answers).answers = answers /\ next(answers).ranked = ranked(answers) /\ next(answers).step = "fetch"
    OBVIOUS
  <2>7. Computing /\ request' = request /\ stage' = stage /\ decision' = decision /\ written' = written /\ pass' = next(answers)
    BY <1>3 DEF Search
  <2> HIDE DEF next, ranked, asked, chosen
  <2>8. FetchInv'
    BY <2>4, <2>5, <2>6, <2>7 DEF FetchInv, AllAnswered, Index
  <2>9. ResolvedInv'
    BY <2>6, <2>7 DEF ResolvedInv
  <2>10. StageInv' /\ AutomaticIsClean'
    BY <2>7 DEF PassInv, StageInv, AutomaticIsClean, Computing, Conflicts
  <2> QED BY <2>8, <2>9, <2>10 DEF PassInv
<1> QED BY <1>1, <1>2, <1>3

\* What is shown of a resolved pass has the warnings there were.
LEMMA ResolvedWarnings ==
    ASSUME NEW r, NEW docs, NEW policy, NEW w, IsSequence(w)
    PROVE  /\ IsSequence(Resolved(r, docs, policy, w).warnings)
           /\ NoFailure(Resolved(r, docs, policy, w).warnings) => NoFailure(w)
<1> DEFINE own == IF Complete(r.kind, Merged(r.kind, docs, policy)) THEN <<>> ELSE <<"incomplete_metadata">>
<1>1. Resolved(r, docs, policy, w).warnings = own \o w
  BY DEF Resolved, Complemented
<1>2. IsSequence(own)
  BY NoItem, OneItem
<1> HIDE DEF own
<1> QED BY <1>1, <1>2, JoinedFailures

\* A pass that is resolved with no failure among its warnings was answered in full.
LEMMA ResolvedKeeps ==
    ASSUME PassInv, Computing, UNCHANGED <<request, stage, decision, approved, written>>,
           NEW p, pass' = p, p.step = "resolved",
           IsSequence(p.resolved.warnings),
           NoFailure(p.resolved.warnings) => AllAnswered(p) /\ AllFetched(p),
           Index = 0 => p.primary = p.ranked[1]
    PROVE  PassInv'
<1>1. FetchInv' /\ ResolvedInv'
  BY DEF FetchInv, ResolvedInv, Index, AllAnswered, AllFetched
<1>2. StageInv' /\ AutomaticIsClean'
  BY DEF PassInv, StageInv, AutomaticIsClean, Computing, Conflicts
<1> QED BY <1>1, <1>2 DEF PassInv

\* A fetch warns of each member of the group that it did not get.
LEMMA FetchKeeps == ASSUME PassInv, Fetch PROVE PassInv'
<1> DEFINE Docs(got) == Select(got, LAMBDA d : d # NoAnswer)
           Failed(got) == [i \in 1..(Len(got) - Len(Docs(got))) |-> "provider_fetch_failed"]
           U(got) == Usable(request, Docs(got))
           Ignored(got) == IF Len(U(got)) = Len(Docs(got)) THEN <<>> ELSE <<"ordering_incompatible_source">>
           Warned(got) == (pass.warnings \o Failed(got)) \o Ignored(got)
           next(got) ==
               [step |-> "resolved", answers |-> pass.answers, got |-> got,
                ranked |-> pass.ranked, primary |-> pass.group[1],
                resolved |-> Resolved(request, U(got), Policy(Providers), Warned(got))]
<1>1. PICK got \in [1..Len(pass.group) -> UNION {Documents[c] : c \in DOMAIN Documents}] :
        \/ PassFails
        \/ pass' = next(got) /\ UNCHANGED <<request, stage, decision, approved, written>>
  BY DEF Fetch
<1>2. CASE PassFails
  BY <1>2, FailureKeeps
<1>3. CASE pass' = next(got) /\ UNCHANGED <<request, stage, decision, approved, written>>
  <2>1. pass # NoPlan /\ pass.step = "fetch" /\ Computing
    BY DEF Fetch, PassInv, StageInv
  <2>2. /\ IsSequence(pass.warnings) /\ (NoFailure(pass.warnings) => AllAnswered(pass))
        /\ IsSequence(pass.group) /\ (Index = 0 => pass.group[1] = pass.ranked[1])
    BY <2>1 DEF PassInv, FetchInv
  <2>3. IsSequence(got) /\ Len(got) = Len(pass.group) /\ DOMAIN got = 1..Len(got)
    <3>1. Len(pass.group) \in Nat
      BY <2>2, SequenceIsList
    <3>2. got = [i \in 1..Len(pass.group) |-> got[i]]
      OBVIOUS
    <3> QED BY <3>1, <3>2, ListIsSequence
  <2>4. IsSequence(Failed(got)) /\ (NoFailure(Failed(got)) => \A i \in 1..Len(got) : got[i] # NoAnswer)
    BY <2>3, MissesWarned
  <2>5. IsSequence(Ignored(got))
    BY NoItem, OneItem
  <2>6. /\ IsSequence(Warned(got))
        /\ NoFailure(Warned(got)) => NoFailure(pass.warnings) /\ NoFailure(Failed(got))
    <3> HIDE DEF Failed, Ignored
    <3>1. /\ IsSequence(pass.warnings \o Failed(got))
          /\ NoFailure(pass.warnings \o Failed(got)) => NoFailure(pass.warnings) /\ NoFailure(Failed(got))
      BY <2>2, <2>4, JoinedFailures
    <3> QED BY <2>5, <3>1, JoinedFailures
  <2>7. /\ next(got).step = "resolved" /\ next(got).answers = pass.answers /\ next(got).got = got
        /\ next(got).ranked = pass.ranked /\ next(got).primary = pass.group[1]
        /\ next(got).resolved = Resolved(request, U(got), Policy(Providers), Warned(got))
    OBVIOUS
  <2> HIDE DEF Warned, Failed
  <2>8. /\ IsSequence(next(got).resolved.warnings)
        /\ NoFailure(next(got).resolved.warnings) => NoFailure(Warned(got))
    <3> HIDE DEF next, U
    <3> QED BY <2>6, <2>7, ResolvedWarnings
  <2> HIDE DEF next, U
  <2>9. NoFailure(next(got).resolved.warnings) => AllAnswered(next(got)) /\ AllFetched(next(got))
    BY <2>2, <2>3, <2>4, <2>6, <2>7, <2>8 DEF AllAnswered, AllFetched
  <2> QED BY <1>3, <2>1, <2>2, <2>7, <2>8, <2>9, ResolvedKeeps
<1> QED BY <1>1, <1>2, <1>3

\* An exact selection asks no provider but its own, and is fetched or the pass fails.
LEMMA FetchExactKeeps == ASSUME PassInv, FetchExact PROVE PassInv'
<1> DEFINE e == request.exact
           Docs(remote) == IF request.scanned = NoAnswer THEN <<remote>> ELSE <<request.scanned, remote>>
           next(remote) ==
               [step |-> "resolved", answers |-> [p \in {} |-> NoAnswer], got |-> <<remote>>,
                ranked |-> <<e>>, primary |-> e,
                resolved |-> IF request.scanned = NoAnswer
                             THEN [value |-> [work |-> remote, conflicts |-> <<>>], warnings |-> <<>>]
                             ELSE Resolved(request, Docs(remote), Policy(Precedence(e.provider)), <<>>)]
<1>1. PICK remote \in Documents[<<e.provider, e.id>>] :
        \/ PassFails
        \/ /\ remote # NoAnswer /\ pass' = next(remote)
           /\ UNCHANGED <<request, stage, decision, approved, written>>
  BY DEF FetchExact
<1>2. CASE PassFails
  BY <1>2, FailureKeeps
<1>3. CASE /\ remote # NoAnswer /\ pass' = next(remote)
           /\ UNCHANGED <<request, stage, decision, approved, written>>
  <2>1. /\ next(remote).step = "resolved" /\ next(remote).answers = [p \in {} |-> NoAnswer]
        /\ next(remote).got = <<remote>> /\ next(remote).ranked = <<e>> /\ next(remote).primary = e
    OBVIOUS
  <2>2. IsSequence(next(remote).resolved.warnings)
    <3>1. CASE request.scanned = NoAnswer
      BY <3>1, NoItem
    <3>2. CASE request.scanned # NoAnswer
      <4>1. next(remote).resolved = Resolved(request, Docs(remote), Policy(Precedence(e.provider)), <<>>)
        BY <3>2
      <4> HIDE DEF next, Docs
      <4> QED BY <4>1, NoItem, ResolvedWarnings
    <3> QED BY <3>1, <3>2
  <2> HIDE DEF next
  <2>3. AllAnswered(next(remote)) /\ AllFetched(next(remote)) /\ next(remote).primary = next(remote).ranked[1]
    BY <1>3, <2>1 DEF AllAnswered, AllFetched
  <2>4. Computing
    BY DEF FetchExact
  <2> QED BY <1>3, <2>1, <2>2, <2>3, <2>4, ResolvedKeeps
<1> QED BY <1>1, <1>2, <1>3

\* A decision of a client changes no pass.
LEMMA ClientKeeps == ASSUME PassInv, ClientReview \/ ClientExecute PROVE PassInv'
<1>1. ~ Computing /\ pass' = pass /\ request' = request /\ stage' \in {"review", "execute"}
  BY DEF ClientReview, ClientExecute, Computing
<1>2. pass = NoPlan
  BY <1>1 DEF PassInv, StageInv
<1> QED BY <1>1, <1>2, PassOver

\* Preparing and reviewing drop the pass and write nothing.
LEMMA ReviewKeeps == ASSUME PassInv, FinishPrepare \/ FinishReview PROVE PassInv'
<1>1. CASE PassFails
  BY <1>1, FailureKeeps
<1>2. CASE FinishPrepare
  <2>1. pass' = NoPlan /\ request' = request /\ stage' \in {"review", "failed", "awaiting"}
    BY <1>2 DEF FinishPrepare
  <2> QED BY <2>1, PassOver
<1>3. CASE FinishReview /\ ~ PassFails
  <2>1. pass' = NoPlan /\ request' = request /\ stage' \in {"execute", "planning"}
    BY <1>3 DEF FinishReview
  <2> QED BY <2>1, PassOver
<1> QED BY <1>1, <1>2, <1>3

\* A resolved pass that may execute has no failure among its warnings.
LEMMA MayExecuteIsClean ==
    ASSUME NEW p, MayExecute(p), IsSequence(p.resolved.warnings) PROVE NoFailure(p.resolved.warnings)
<1> DEFINE w == p.resolved.warnings
<1>1. Len(w) \in Nat /\ Len(w) <= MaxWarnings /\ MaxWarnings \in Nat
  BY SequenceIsList, ScrapeAssumption DEF MayExecute
<1>2. Min({Len(w), MaxWarnings}) = Len(w)
  <2> HIDE DEF w
  <2>1. \A x \in {Len(w), MaxWarnings} : Len(w) <= x
    BY <1>1
  <2>2. \A m \in {Len(w), MaxWarnings} : (\A x \in {Len(w), MaxWarnings} : m <= x) => m = Len(w)
    BY <1>1
  <2> QED BY <2>1, <2>2 DEF Min
<1>3. WarningsShown(p) = SubSeq(w, 1, Len(w))
  BY <1>2 DEF WarningsShown
<1>4. SubSeq(w, 1, Len(w)) = w
  <2>1. w \in Seq({w[i] : i \in DOMAIN w})
    BY DEF IsSequence
  <2> HIDE DEF w
  <2> QED BY <2>1
<1> HIDE DEF w
<1>5. \A i \in 1..Len(w) : w[i] \notin Failures
  BY <1>3, <1>4 DEF MayExecute, Failures
<1> QED BY <1>5 DEF NoFailure, w

\* A pass goes on to the plan only if its warnings and its index allow it.
LEMMA ExecuteKeeps == ASSUME PassInv, FinishExecute PROVE PassInv'
<1>1. CASE PassFails
  BY <1>1, FailureKeeps
<1>2. CASE ~ PassFails
  <2>1. /\ pass # NoPlan /\ pass.step = "resolved" /\ Rechecked(pass)
        /\ stage' = "written" /\ written' = pass /\ pass' = NoPlan
        /\ UNCHANGED <<request, decision, approved>>
    BY <1>2 DEF FinishExecute, Ready
  <2>2. ASSUME Automatic(request)
        PROVE  /\ AllAnswered(pass) /\ AllFetched(pass) /\ pass.primary = pass.ranked[1]
               /\ Len(pass.ranked) <= MaxCandidates
               /\ Conflicts(pass) = 0 \/ request.how = "unattended"
    <3>1. MayExecute(pass) /\ decision.index = 0
      BY <2>1, <2>2 DEF Rechecked
    <3>2. Index = 0
      BY <3>1 DEF Index
    <3>3. IsSequence(pass.resolved.warnings)
      BY <2>1 DEF PassInv, ResolvedInv
    <3>4. NoFailure(pass.resolved.warnings)
      BY <3>1, <3>3, MayExecuteIsClean
    <3> QED BY <2>1, <3>1, <3>2, <3>4 DEF PassInv, ResolvedInv, MayExecute
  <2>3. AutomaticIsClean'
    BY <2>1, <2>2 DEF AutomaticIsClean, Automatic, AllAnswered, AllFetched, Conflicts
  <2> QED BY <2>1, <2>3, PassOver
<1> QED BY <1>1, <1>2

\* The command line plans by itself, and its writes are a person's.
LEMMA PlanKeeps == ASSUME PassInv, FinishPlan PROVE PassInv'
<1>1. /\ pass' = NoPlan /\ request' = request /\ stage = "resolve"
      /\ stage' \in {"failed", "review_required", "written", "printed"}
  BY DEF FinishPlan, Ready
<1>2. request.front # "server"
  BY <1>1 DEF PassInv, StageInv
<1> QED BY <1>1, <1>2, PassOver

-----------------------------------------------------------------------------
\* The invariant of a pass: its warnings tell of every failure, and it is about
\* the candidate decided on, for any answers, documents and requests.
THEOREM PassInvariant == SpecScrape => []PassInv
<1>1. InitScrape => PassInv
  BY DEF InitScrape, PassInv, FetchInv, ResolvedInv, StageInv, AutomaticIsClean
<1>2. PassInv /\ [NextScrape]_scrapeVars => PassInv'
  <2> SUFFICES ASSUME PassInv, [NextScrape]_scrapeVars PROVE PassInv'
    OBVIOUS
  <2>1. CASE UNCHANGED scrapeVars
    BY <2>1 DEF scrapeVars, PassInv, FetchInv, ResolvedInv, StageInv, AutomaticIsClean, Computing, Index,
       AllAnswered, AllFetched, Conflicts
  <2> QED BY <2>1, SearchKeeps, FetchKeeps, FetchExactKeeps, ClientKeeps, ReviewKeeps, ExecuteKeeps,
          PlanKeeps DEF NextScrape
<1> QED BY <1>1, <1>2, PTL DEF SpecScrape

\* AutomaticIsClean: what a scrape without a person has written was answered by
\* every provider that was asked, fetched from every candidate of the group, and
\* is the best of a list that was shown whole, for any lists and limits.
THEOREM AutomaticWritesAreClean == SpecScrape => []AutomaticIsClean
<1>1. PassInv => AutomaticIsClean
  BY DEF PassInv
<1> QED BY <1>1, PassInvariant, PTL

-----------------------------------------------------------------------------
(***************************************************************************)
(* The group of a candidate.                                               *)
(***************************************************************************)

\* The positions that fit the first candidate, and those of them that a
\* provider has only one of.
Fitting(c, ids) == {i \in 2..Len(c) : Compatible(c[1], ids, c[i])}
Taken(c, ids) ==
    {i \in Fitting(c, ids) : \/ SameLocalMovie(c[1], c[i])
                             \/ \A j \in Fitting(c, ids) : c[j].provider = c[i].provider => j = i}

\* What is picked of a sequence are the items at the positions.
LEMMA PickedSet ==
    ASSUME NEW s, IsSequence(s), NEW K \in SUBSET (1..Len(s))
    PROVE  ToSet(Pick(s, K)) = {s[i] : i \in K}
<1>1. IsFiniteSet(K) /\ K \in SUBSET Nat
  BY SomePositions, SequenceIsList
<1>2. DOMAIN Pick(s, K) = 1..Cardinality(K) /\ \A j \in 1..Cardinality(K) : Pick(s, K)[j] = s[Nth(K, j)]
  BY DEF Pick
<1>3. /\ \A j \in 1..Cardinality(K) : Nth(K, j) \in K
      /\ \A i \in K : \E j \in 1..Cardinality(K) : Nth(K, j) = i
  BY <1>1, NthIsIn
<1>4. ToSet(Pick(s, K)) = {Pick(s, K)[j] : j \in 1..Cardinality(K)}
  BY <1>2 DEF ToSet
<1>5. \A x : x \in ToSet(Pick(s, K)) <=> \E i \in K : x = s[i]
  <2> TAKE x
  <2>1. x \in ToSet(Pick(s, K)) <=> \E j \in 1..Cardinality(K) : x = s[Nth(K, j)]
    BY <1>2, <1>4
  <2> QED BY <1>3, <2>1, Zenon
<1> QED BY <1>5

\* Some item is the only one of its provider if there is one such position.
LEMMA OnlyOne ==
    ASSUME NEW s, IsSequence(s), NEW l \in 1..Len(s)
    PROVE  Cardinality({i \in 1..Len(s) : s[i].provider = s[l].provider}) = 1
             <=> \A k \in 1..Len(s) : s[k].provider = s[l].provider => k = l
<1> DEFINE S == {i \in 1..Len(s) : s[i].provider = s[l].provider}
<1>1. l \in S /\ S \in SUBSET (1..Len(s))
  OBVIOUS
<1>2. IsFiniteSet(S)
  BY <1>1, SomePositions
<1>3. Cardinality(S) = 1 <=> \E x : S = {x}
  BY <1>2, FS_Singleton
<1>4. (\E x : S = {x}) <=> S = {l}
  <2> HIDE DEF S
  <2> QED BY <1>1
<1>5. S = {l} <=> \A k \in 1..Len(s) : s[k].provider = s[l].provider => k = l
  OBVIOUS
<1> QED BY <1>3, <1>4, <1>5

\* The group is the first candidate and those that are taken, whatever their order.
LEMMA GroupMembers ==
    ASSUME NEW c, IsSequence(c), Len(c) >= 1, NEW ids, ~ Contradicts(ids, c[1].id)
    PROVE  ToSet(Group(c, ids)) = {c[1]} \cup {c[i] : i \in Taken(c, ids)}
<1> DEFINE tail == Tail(c)
           K == {i \in 1..Len(tail) : Compatible(c[1], ids, tail[i])}
           matches == Pick(tail, K)
           L == {i \in 1..Len(matches) :
                    \/ SameLocalMovie(c[1], matches[i])
                    \/ Cardinality({j \in 1..Len(matches) : matches[j].provider = matches[i].provider}) = 1}
           others == Pick(matches, L)
<1>1. /\ IsSequence(tail) /\ Len(tail) = Len(c) - 1 /\ Len(c) \in Nat
      /\ \A i \in 1..Len(tail) : tail[i] = c[i + 1]
  <2>1. c \in Seq({c[i] : i \in DOMAIN c}) /\ c # <<>>
    BY NoItem DEF IsSequence
  <2>2. /\ tail \in Seq({c[i] : i \in DOMAIN c}) /\ Len(tail) = Len(c) - 1
        /\ \A i \in 1..Len(tail) : tail[i] = c[i + 1]
    BY <2>1, HeadTailProperties
  <2> HIDE DEF tail
  <2> QED BY <2>2, SeqIsSequence, SequenceIsList
<1>2. Group(c, ids) = <<c[1]>> \o others
  BY DEF Group, Select
<1> HIDE DEF tail
<1>3. K \in SUBSET (1..Len(tail)) /\ IsFiniteSet(K) /\ K \in SUBSET Nat
  BY <1>1, SomePositions, SequenceIsList
<1>4. IsSequence(matches) /\ Len(matches) = Cardinality(K)
  <2> HIDE DEF K
  <2> QED BY <1>3, Picked
<1>5. \A l \in 1..Len(matches) : matches[l] = tail[Nth(K, l)]
  <2> HIDE DEF K
  <2> QED BY <1>4 DEF Pick
<1>6. /\ \A l \in 1..Len(matches) : Nth(K, l) \in K
      /\ \A i \in K : \E l \in 1..Len(matches) : Nth(K, l) = i
      /\ \A l, m \in 1..Len(matches) : Nth(K, l) = Nth(K, m) => l = m
  <2> HIDE DEF K, matches
  <2> QED BY <1>3, <1>4, NthIsIn
<1>7. \A i : i \in K <=> i + 1 \in Fitting(c, ids) /\ i \in 1..Len(tail)
  BY <1>1 DEF Fitting
<1>8. \A j \in Fitting(c, ids) : j - 1 \in K /\ (j - 1) + 1 = j
  BY <1>1 DEF Fitting
<1> DEFINE At1(l) == Nth(K, l) + 1
<1>9. /\ \A l \in 1..Len(matches) : At1(l) \in Fitting(c, ids) /\ matches[l] = c[At1(l)]
      /\ \A j \in Fitting(c, ids) : \E l \in 1..Len(matches) : At1(l) = j
      /\ \A l, m \in 1..Len(matches) : At1(l) = At1(m) => l = m
  <2> HIDE DEF K, matches
  <2>1. \A l \in 1..Len(matches) : At1(l) \in Fitting(c, ids) /\ matches[l] = c[At1(l)]
    BY <1>1, <1>3, <1>5, <1>6, <1>7
  <2>2. \A j \in Fitting(c, ids) : \E l \in 1..Len(matches) : At1(l) = j
    BY <1>6, <1>8
  <2>3. \A l, m \in 1..Len(matches) : At1(l) = At1(m) => l = m
    <3> TAKE l, m \in 1..Len(matches)
    <3>1. Nth(K, l) \in Nat /\ Nth(K, m) \in Nat
      BY <1>3, <1>6
    <3> QED BY <1>6, <3>1
  <2> QED BY <2>1, <2>2, <2>3
<1> HIDE DEF At1, K, matches
<1>10. \A l \in 1..Len(matches) : l \in L <=> At1(l) \in Taken(c, ids)
  <2> TAKE l \in 1..Len(matches)
  <2>1. Cardinality({j \in 1..Len(matches) : matches[j].provider = matches[l].provider}) = 1
          <=> \A k \in 1..Len(matches) : matches[k].provider = matches[l].provider => k = l
    BY <1>4, OnlyOne
  <2>2. (\A k \in 1..Len(matches) : matches[k].provider = matches[l].provider => k = l)
          <=> \A j \in Fitting(c, ids) : c[j].provider = c[At1(l)].provider => j = At1(l)
    BY <1>9
  <2> QED BY <1>9, <2>1, <2>2 DEF Taken
<1>11. L \in SUBSET (1..Len(matches))
  OBVIOUS
<1>12. ToSet(others) = {c[i] : i \in Taken(c, ids)}
  <2> HIDE DEF L
  <2>1. ToSet(others) = {matches[l] : l \in L}
    BY <1>4, <1>11, PickedSet
  <2>2. \A j \in Taken(c, ids) : j \in Fitting(c, ids)
    BY DEF Taken
  <2> QED BY <1>9, <1>10, <1>11, <2>1, <2>2
<1>13. IsSequence(others)
  <2> HIDE DEF L
  <2> QED BY <1>4, <1>11, SomePositions, Picked
<1> HIDE DEF others
<1>14. ToSet(<<c[1]>> \o others) = {c[1]} \cup ToSet(others)
  <2>1. /\ IsSequence(<<c[1]>> \o others) /\ Len(<<c[1]>> \o others) = 1 + Len(others)
        /\ (<<c[1]>> \o others)[1] = c[1]
        /\ \A i \in 1..Len(others) : (<<c[1]>> \o others)[1 + i] = others[i]
    <3>1. IsSequence(<<c[1]>>) /\ Len(<<c[1]>>) = 1 /\ <<c[1]>>[1] = c[1]
      BY OneItem
    <3> QED BY <1>13, <3>1, Joined
  <2> DEFINE all == <<c[1]>> \o others
  <2> HIDE DEF all
  <2>2. /\ Len(others) \in Nat /\ DOMAIN others = 1..Len(others)
        /\ DOMAIN all = 1..(1 + Len(others)) /\ all[1] = c[1]
        /\ \A i \in 1..Len(others) : all[1 + i] = others[i]
    BY <1>13, <2>1, SequenceIsList DEF all
  <2>3. \A i \in DOMAIN all : i = 1 \/ (i - 1 \in DOMAIN others /\ all[i] = others[i - 1])
    BY <2>2
  <2>4. 1 \in DOMAIN all /\ \A i \in DOMAIN others : 1 + i \in DOMAIN all
    BY <2>2
  <2>5. ToSet(all) = {c[1]} \cup ToSet(others)
    BY <2>2, <2>3, <2>4 DEF ToSet
  <2> QED BY <2>5 DEF all
<1> QED BY <1>2, <1>12, <1>14

\* Known ids that contradict the chosen candidate leave it alone in its group.
LEMMA LoneGroup ==
    ASSUME NEW c, NEW ids, Contradicts(ids, c[1].id)
    PROVE  ToSet(Group(c, ids)) = {c[1]}
<1>1. Group(c, ids) = <<c[1]>>
  BY DEF Group
<1>2. DOMAIN <<c[1]>> = {1} /\ <<c[1]>>[1] = c[1]
  OBVIOUS
<1> QED BY <1>1, <1>2 DEF ToSet

\* A group is one work, for any list of candidates and any ids known: it has the
\* candidate that was chosen, no provider but the scanned files contributes two,
\* and if the known ids are of the chosen candidate no member contradicts them.
THEOREM GroupsAreOneWork ==
    ASSUME NEW c, IsSequence(c), Len(c) >= 1, NEW ids, NEW group, group = ToSet(Group(c, ids))
    PROVE  /\ c[1] \in group
           /\ \A a, b \in group : a.provider = b.provider /\ {a.provider, c[1].provider} # {Local} => a = b
           /\ c[1].id \in ids /\ ~ Contradicts(ids, c[1].id) => \A m \in group : ~ Contradicts(ids, m.id)
<1>1. CASE Contradicts(ids, c[1].id)
  BY <1>1, LoneGroup
<1>2. CASE ~ Contradicts(ids, c[1].id)
  <2>1. group = {c[1]} \cup {c[i] : i \in Taken(c, ids)}
    BY <1>2, GroupMembers
  <2>2. \A i \in Taken(c, ids) :
          /\ i \in Fitting(c, ids) /\ Compatible(c[1], ids, c[i])
          /\ \/ SameLocalMovie(c[1], c[i])
             \/ \A j \in Fitting(c, ids) : c[j].provider = c[i].provider => j = i
    BY DEF Taken, Fitting
  <2>3. \A i \in Taken(c, ids) : SameLocalMovie(c[1], c[i]) \/ c[i].provider # c[1].provider
    BY <2>2 DEF Compatible
  <2>4. \A i \in Taken(c, ids) : SameLocalMovie(c[1], c[i]) => c[i].provider = Local /\ c[1].provider = Local
    BY DEF SameLocalMovie
  <2>5. ASSUME NEW a \in group, NEW b \in group, a.provider = b.provider,
               {a.provider, c[1].provider} # {Local}
        PROVE  a = b
    <3>1. CASE a = c[1] \/ b = c[1]
      BY <2>1, <2>3, <2>4, <2>5, <3>1
    <3>2. CASE a # c[1] /\ b # c[1]
      <4>1. PICK i \in Taken(c, ids), j \in Taken(c, ids) : a = c[i] /\ b = c[j]
        BY <2>1, <3>2
      <4>2. ~ SameLocalMovie(c[1], c[i])
        BY <2>4, <2>5, <4>1
      <4> QED BY <2>2, <2>5, <4>1, <4>2
    <3> QED BY <3>1, <3>2
  <2>6. c[1].id \in ids => \A i \in Taken(c, ids) : ~ Contradicts(ids, c[i].id)
    BY <2>2 DEF Compatible, Anchored
  <2> QED BY <1>2, <2>1, <2>5, <2>6
<1> QED BY <1>1, <1>2

\* The candidates that others than the providers in Q found.
Outside(S, Q) == {m \in S : m.provider \notin Q}

\* What some providers found never decides whether a candidate of another is
\* taken in, nor does the order of the others: d has the candidates of c, in any
\* order behind the first, but for those of the providers in Q.
THEOREM GroupsAreDecidedApart ==
    ASSUME NEW c, IsSequence(c), Len(c) >= 1, NEW d, IsSequence(d), Len(d) >= 1, NEW ids,
           NEW Q, c[1].provider \notin Q,
           NEW p \in Injection(1..Len(d), 1..Len(c)), p[1] = 1,
           \A i \in 1..Len(d) : d[i] = c[p[i]],
           \A j \in 1..Len(c) : c[j].provider \notin Q <=> \E i \in 1..Len(d) : p[i] = j
    PROVE  ToSet(Group(d, ids)) = Outside(ToSet(Group(c, ids)), Q)
<1> USE DEF Outside
<1>1. /\ Len(c) \in Nat /\ Len(d) \in Nat /\ 1 \in 1..Len(d) /\ 1 \in 1..Len(c)
      /\ p \in [1..Len(d) -> 1..Len(c)] /\ \A i, k \in 1..Len(d) : p[i] = p[k] => i = k
  BY SequenceIsList DEF Injection, IsInjective
<1>2. d[1] = c[1]
  BY <1>1
<1>3. CASE Contradicts(ids, c[1].id)
  BY <1>2, <1>3, LoneGroup
<1>4. CASE ~ Contradicts(ids, c[1].id)
  <2>1. \A i \in 1..Len(d) : (i \in 2..Len(d) <=> i # 1) /\ (p[i] \in 2..Len(c) <=> i # 1)
    BY <1>1
  <2>2. \A i \in 2..Len(d) : i \in 1..Len(d)
    BY <1>1
  <2>3. \A j \in 2..Len(c) : j \in 1..Len(c)
    BY <1>1
  <2>4. \A i \in 1..Len(d) : i \in Fitting(d, ids) <=> p[i] \in Fitting(c, ids)
    BY <1>2, <2>1 DEF Fitting
  <2>5. /\ \A i \in Fitting(d, ids) : i \in 1..Len(d)
        /\ \A j \in Fitting(c, ids) : j \in 1..Len(c)
    BY <2>2, <2>3 DEF Fitting
  <2>6. \A i \in 1..Len(d) : i \in Taken(d, ids) <=> p[i] \in Taken(c, ids)
    <3> TAKE i \in 1..Len(d)
    <3>1. d[i] = c[p[i]] /\ p[i] \in 1..Len(c) /\ c[p[i]].provider \notin Q
      BY <1>1
    <3>2. (\A k \in Fitting(d, ids) : d[k].provider = d[i].provider => k = i)
            <=> \A j \in Fitting(c, ids) : c[j].provider = c[p[i]].provider => j = p[i]
      <4>1. ASSUME \A k \in Fitting(d, ids) : d[k].provider = d[i].provider => k = i,
                   NEW j \in Fitting(c, ids), c[j].provider = c[p[i]].provider
            PROVE  j = p[i]
        <5>1. PICK k \in 1..Len(d) : p[k] = j
          BY <2>5, <3>1, <4>1
        <5> QED BY <2>4, <3>1, <4>1, <5>1
      <4>2. ASSUME \A j \in Fitting(c, ids) : c[j].provider = c[p[i]].provider => j = p[i],
                   NEW k \in Fitting(d, ids), d[k].provider = d[i].provider
            PROVE  k = i
        <5>1. k \in 1..Len(d) /\ p[k] \in Fitting(c, ids) /\ d[k] = c[p[k]]
          BY <2>4, <2>5
        <5> QED BY <1>1, <3>1, <4>2, <5>1
      <4> QED BY <4>1, <4>2
    <3> QED BY <1>2, <2>4, <3>1, <3>2 DEF Taken
  <2>7. /\ ToSet(Group(c, ids)) = {c[1]} \cup {c[j] : j \in Taken(c, ids)}
        /\ ToSet(Group(d, ids)) = {c[1]} \cup {d[i] : i \in Taken(d, ids)}
    BY <1>2, <1>4, GroupMembers
  <2>8. /\ \A i \in Taken(d, ids) : i \in 1..Len(d)
        /\ \A j \in Taken(c, ids) : j \in 1..Len(c)
    BY <2>5 DEF Taken
  <2>9. \A i \in Taken(d, ids) : d[i] \in {m \in ToSet(Group(c, ids)) : m.provider \notin Q}
    <3> TAKE i \in Taken(d, ids)
    <3>1. i \in 1..Len(d) /\ p[i] \in Taken(c, ids) /\ p[i] \in 1..Len(c) /\ d[i] = c[p[i]]
      BY <1>1, <2>6, <2>8
    <3> QED BY <2>7, <3>1
  <2>10. \A j \in Taken(c, ids) : c[j].provider \notin Q => c[j] \in ToSet(Group(d, ids))
    <3> SUFFICES ASSUME NEW j \in Taken(c, ids), c[j].provider \notin Q
                 PROVE c[j] \in ToSet(Group(d, ids))
      OBVIOUS
    <3>1. PICK i \in 1..Len(d) : p[i] = j
      BY <2>8
    <3>2. i \in Taken(d, ids) /\ d[i] = c[j]
      BY <2>6, <3>1
    <3> QED BY <2>7, <3>2
  <2> QED BY <2>7, <2>9, <2>10
<1> QED BY <1>3, <1>4
=============================================================================
