-------------------------- MODULE AlgorithmProofs --------------------------
(***************************************************************************)
(* Proofs about Algorithms, for any candidates, documents and precedence,  *)
(* and for any tree of directories, files and links: what a group is, what *)
(* a merge keeps, and that the parts of the server mean one place by a     *)
(* path.                                                                   *)
(***************************************************************************)
EXTENDS Algorithms, ScrapeProofs

-----------------------------------------------------------------------------
(***************************************************************************)
(* Candidate groups.                                                       *)
(***************************************************************************)

\* One item before a sequence.
LEMMA OneBefore ==
    ASSUME NEW x, NEW s, IsSequence(s)
    PROVE  /\ IsSequence(<<x>> \o s) /\ Len(<<x>> \o s) = Len(s) + 1 /\ (<<x>> \o s)[1] = x
           /\ \A j \in 1..Len(s) : (<<x>> \o s)[1 + j] = s[j]
<1>1. IsSequence(<<x>>) /\ Len(<<x>>) = 1 /\ <<x>>[1] = x /\ Len(s) \in Nat
  BY OneItem, SequenceIsList
<1> QED BY <1>1, Joined

\* Position i of t has what position q[i] of s has, and q leaves none out.
Permutes(q, s, t) ==
    /\ q \in Injection(1..Len(s), 1..Len(s))
    /\ IsSequence(t) /\ Len(t) = Len(s)
    /\ \A i \in 1..Len(s) : t[i] = s[q[i]]
    /\ \A j \in 1..Len(s) : \E i \in 1..Len(s) : q[i] = j

\* A list in another order has the same items, each once.
LEMMA ReorderedItems ==
    ASSUME NEW s, IsSequence(s), NEW t \in Reordered(s) PROVE \E q : Permutes(q, s, t)
<1>1. PICK q \in Bijection(1..Len(s), 1..Len(s)) : t = [i \in 1..Len(s) |-> s[q[i]]]
  BY DEF Reordered
<1>2. Len(s) \in Nat
  BY SequenceIsList
<1>3. IsSequence(t) /\ Len(t) = Len(s)
  BY <1>1, <1>2, ListIsSequence
<1>4. q \in Injection(1..Len(s), 1..Len(s)) /\ \A j \in 1..Len(s) : \E i \in 1..Len(s) : q[i] = j
  BY DEF Bijection, Surjection
<1>5. \A i \in 1..Len(s) : t[i] = s[q[i]]
  BY <1>1
<1> QED BY <1>3, <1>4, <1>5 DEF Permutes

\* A candidate and those behind it that no provider in `out` found.
Behind(first, tail, out) == <<first>> \o Pick(tail, {i \in 1..Len(tail) : tail[i].provider \notin out})

\* What is left of a list in another order, behind its first item.
LEMMA LeftBehind ==
    ASSUME NEW c, IsSequence(c), c # <<>>, NEW tail \in Reordered(Tail(c)), NEW out,
           NEW d, d = Behind(c[1], tail, out), c[1].provider \notin out
    PROVE  \E p \in Injection(1..Len(d), 1..Len(c)) :
              /\ IsSequence(d) /\ Len(d) >= 1 /\ p[1] = 1
              /\ \A i \in 1..Len(d) : d[i] = c[p[i]]
              /\ \A j \in 1..Len(c) : c[j].provider \notin out <=> \E i \in 1..Len(d) : p[i] = j
<1> DEFINE n == Len(c)
           rest == Tail(c)
           K == {i \in 1..Len(tail) : tail[i].provider \notin out}
           kept == Pick(tail, K)
<1>1. n \in Nat \ {0} /\ IsSequence(rest) /\ Len(rest) = n - 1 /\ \A i \in 1..(n - 1) : rest[i] = c[i + 1]
  <2>1. c \in Seq({c[i] : i \in DOMAIN c})
    BY DEF IsSequence
  <2>2. n \in Nat \ {0} /\ Len(rest) = n - 1 /\ \A i \in 1..(n - 1) : rest[i] = c[i + 1]
    BY <2>1
  <2>3. rest \in Seq({c[i] : i \in DOMAIN c})
    BY <2>1
  <2> QED BY <2>2, <2>3, SeqIsSequence
<1> HIDE DEF rest
<1>2. PICK q \in Injection(1..(n - 1), 1..(n - 1)) :
        /\ IsSequence(tail) /\ Len(tail) = n - 1
        /\ \A i \in 1..(n - 1) : tail[i] = rest[q[i]]
        /\ \A j \in 1..(n - 1) : \E i \in 1..(n - 1) : q[i] = j
  <2>1. tail \in Reordered(rest) /\ IsSequence(rest)
    BY <1>1 DEF rest
  <2>2. PICK q : Permutes(q, rest, tail)
    BY <2>1, ReorderedItems
  <2>3. Len(rest) = n - 1 /\ 1..Len(rest) = 1..(n - 1)
    BY <1>1
  <2>4. /\ q \in Injection(1..(n - 1), 1..(n - 1))
        /\ IsSequence(tail) /\ Len(tail) = n - 1
        /\ \A i \in 1..(n - 1) : tail[i] = rest[q[i]]
        /\ \A j \in 1..(n - 1) : \E i \in 1..(n - 1) : q[i] = j
    <3> HIDE DEF n
    <3> QED BY <2>2, <2>3 DEF Permutes
  <2> QED BY <2>4
<1>3. K \in SUBSET (1..(n - 1)) /\ K \in SUBSET Nat
  BY <1>1, <1>2
<1>4. IsFiniteSet(K) /\ Cardinality(K) \in Nat
  BY <1>2, <1>3, SomePositions
<1> DEFINE m == Cardinality(K)
<1>19. m \in Nat
  BY <1>4
<1>5. IsSequence(kept) /\ Len(kept) = m /\ \A j \in 1..m : kept[j] = tail[Nth(K, j)]
  BY <1>4, Picked DEF Pick
<1>6. /\ \A j \in 1..m : Nth(K, j) \in K
      /\ \A i \in K : \E j \in 1..m : Nth(K, j) = i
      /\ \A j, l \in 1..m : Nth(K, j) = Nth(K, l) => j = l
  BY <1>3, <1>4, NthIsIn
<1>7. \A i \in 1..(n - 1) : i \in K <=> c[q[i] + 1].provider \notin out
  <2> TAKE i \in 1..(n - 1)
  <2>1. q[i] \in 1..(n - 1)
    BY DEF Injection
  <2> QED BY <1>1, <1>2, <2>1
<1>8. d = <<c[1]>> \o kept
  BY DEF Behind
<1> HIDE DEF kept, K, m
<1>9. /\ IsSequence(d) /\ Len(d) = m + 1 /\ d[1] = c[1] /\ \A j \in 1..m : d[1 + j] = kept[j]
  <2>1. IsSequence(kept) /\ Len(kept) = m
    BY <1>5 DEF m
  <2> QED BY <1>8, <1>19, <2>1, OneBefore
<1> DEFINE P(i) == IF i = 1 THEN 1 ELSE q[Nth(K, i - 1)] + 1
           p == [i \in 1..(m + 1) |-> P(i)]
<1>10. \A i \in 2..(m + 1) : /\ i - 1 \in 1..m /\ Nth(K, i - 1) \in K /\ Nth(K, i - 1) \in 1..(n - 1)
                             /\ q[Nth(K, i - 1)] \in 1..(n - 1) /\ d[i] = kept[i - 1]
  <2> TAKE i \in 2..(m + 1)
  <2>1. i - 1 \in 1..m /\ 1 + (i - 1) = i
    BY <1>19
  <2>2. Nth(K, i - 1) \in K /\ Nth(K, i - 1) \in 1..(n - 1)
    BY <1>3, <1>6, <2>1
  <2>3. q[Nth(K, i - 1)] \in 1..(n - 1)
    BY <2>2 DEF Injection
  <2> QED BY <1>9, <2>1, <2>2, <2>3
<1>11. p \in [1..(m + 1) -> 1..n]
  <2>1. \A i \in 1..(m + 1) : P(i) \in 1..n
    <3> TAKE i \in 1..(m + 1)
    <3>1. CASE i = 1
      BY <1>1, <3>1
    <3>2. CASE i # 1
      <4>1. i \in 2..(m + 1)
        BY <1>19, <3>2
      <4>2. \A x \in 1..(n - 1) : x + 1 \in 1..n
        BY <1>1
      <4> QED BY <1>10, <3>2, <4>1, <4>2
    <3> QED BY <3>1, <3>2
  <2> HIDE DEF P
  <2> QED BY <2>1
<1>12. \A i, k \in 1..(m + 1) : p[i] = p[k] => i = k
  <2> SUFFICES ASSUME NEW i \in 1..(m + 1), NEW k \in 1..(m + 1), P(i) = P(k) PROVE i = k
    OBVIOUS
  <2>1. i = 1 \/ i \in 2..(m + 1)
    BY <1>19
  <2>2. k = 1 \/ k \in 2..(m + 1)
    BY <1>19
  <2>3. CASE i = 1 \/ k = 1
    BY <1>10, <2>1, <2>2, <2>3
  <2>4. CASE i \in 2..(m + 1) /\ k \in 2..(m + 1)
    <3>1. q[Nth(K, i - 1)] = q[Nth(K, k - 1)]
      BY <1>10, <2>4
    <3>2. Nth(K, i - 1) = Nth(K, k - 1)
      BY <1>10, <2>4, <3>1 DEF Injection, IsInjective
    <3>3. i - 1 = k - 1
      BY <1>6, <1>10, <2>4, <3>2
    <3> QED BY <2>4, <3>3
  <2> QED BY <2>1, <2>2, <2>3, <2>4
<1>13. p \in Injection(1..Len(d), 1..n)
  <2> HIDE DEF p
  <2> QED BY <1>9, <1>11, <1>12 DEF Injection, IsInjective
<1>14. \A i \in 1..Len(d) : d[i] = c[p[i]]
  <2> TAKE i \in 1..Len(d)
  <2>1. CASE i = 1
    BY <1>9, <2>1
  <2>2. CASE i # 1
    <3>1. i \in 2..(m + 1)
      BY <1>19, <1>9, <2>2
    <3>2. p[i] = q[Nth(K, i - 1)] + 1
      BY <1>9, <2>2
    <3>3. d[i] = tail[Nth(K, i - 1)]
      BY <1>5, <1>10, <3>1
    <3> HIDE DEF p, P
    <3> QED BY <1>1, <1>2, <1>10, <3>1, <3>2, <3>3
  <2> QED BY <2>1, <2>2
<1>15. ASSUME NEW j \in 1..n, c[j].provider \notin out PROVE \E i \in 1..Len(d) : p[i] = j
  <2>1. CASE j = 1
    <3>1. 1 \in 1..Len(d) /\ p[1] = 1
      BY <1>19, <1>9
    <3> QED BY <2>1, <3>1
  <2>2. CASE j # 1
    <3>1. j - 1 \in 1..(n - 1)
      BY <1>1, <2>2
    <3>2. PICK k \in 1..(n - 1) : q[k] = j - 1
      BY <1>2, <3>1
    <3>3. q[k] + 1 = j
      BY <1>1, <3>2
    <3>4. k \in K
      BY <1>7, <1>15, <3>3
    <3>5. PICK l \in 1..m : Nth(K, l) = k
      BY <1>6, <3>4
    <3>6. l + 1 \in 1..(m + 1) /\ l + 1 # 1 /\ (l + 1) - 1 = l
      BY <1>19
    <3>7. p[l + 1] = j
      BY <3>3, <3>5, <3>6
    <3> QED BY <1>9, <3>6, <3>7
  <2> QED BY <2>1, <2>2
<1>16. ASSUME NEW i \in 1..Len(d) PROVE c[p[i]].provider \notin out
  <2>1. CASE i = 1
    BY <1>9, <2>1
  <2>2. CASE i # 1
    <3>1. i \in 2..(m + 1)
      BY <1>19, <1>9, <2>2
    <3>2. p[i] = q[Nth(K, i - 1)] + 1
      BY <1>9, <2>2
    <3> QED BY <1>7, <1>10, <3>1, <3>2
  <2> QED BY <2>1, <2>2
<1>17. Len(d) >= 1 /\ p[1] = 1
  BY <1>19, <1>9
<1> HIDE DEF p, P
<1> QED BY <1>9, <1>13, <1>14, <1>15, <1>16, <1>17

\* A group of candidates is one work, decided by each provider on its own.
LEMMA GroupSample ==
    ASSUME NEW c, IsSequence(c), c # <<>>, NEW ids
    PROVE  GroupOf(c, ids)
<1> DEFINE group == ToSet(Group(c, ids))
           others == {c[i].provider : i \in 1..Len(c)} \ {c[1].provider}
<1>1. Len(c) \in Nat /\ Len(c) >= 1
  BY DEF IsSequence
<1>2. /\ \A a, b \in group : a.provider = b.provider /\ {a.provider, c[1].provider} # {Local} => a = b
      /\ c[1].id \in ids /\ ~ Contradicts(ids, c[1].id) => \A m \in group : ~ Contradicts(ids, m.id)
  BY <1>1, GroupsAreOneWork
<1>3. ASSUME NEW tail \in Reordered(Tail(c)), NEW out \in SUBSET others
      PROVE  ToSet(Group(<<c[1]>> \o Select(tail, LAMBDA m : m.provider \notin out), ids))
             = {m \in group : m.provider \notin out}
  <2> DEFINE d == <<c[1]>> \o Select(tail, LAMBDA m : m.provider \notin out)
  <2>1. c[1].provider \notin out
    OBVIOUS
  <2>0. d = Behind(c[1], tail, out)
    BY DEF Select, Behind
  <2> HIDE DEF d, group
  <2>2. PICK p \in Injection(1..Len(d), 1..Len(c)) :
              /\ IsSequence(d) /\ Len(d) >= 1 /\ p[1] = 1
              /\ \A i \in 1..Len(d) : d[i] = c[p[i]]
              /\ \A j \in 1..Len(c) : c[j].provider \notin out <=> \E i \in 1..Len(d) : p[i] = j
    BY <2>0, <2>1, LeftBehind
  <2>3. ToSet(Group(d, ids)) = Outside(ToSet(Group(c, ids)), out)
    BY <1>1, <2>1, <2>2, GroupsAreDecidedApart
  <2> QED BY <2>3 DEF d, group, Outside
<1> QED BY <1>2, <1>3 DEF GroupOf

-----------------------------------------------------------------------------
(***************************************************************************)
(* Sorting.                                                                *)
(***************************************************************************)

\* Position i comes before position j.
Before(key, i, j) == key[i] < key[j] \/ (key[i] = key[j] /\ i < j)

\* q has every position once, those with smaller keys first.
Sorts(q, key, n) ==
    /\ q \in [1..n -> 1..n]
    /\ \A i \in 1..n : \E p \in 1..n : q[p] = i
    /\ \A a, b \in 1..n : a < b => Before(key, q[a], q[b])

\* Of two positions one comes before the other.
LEMMA BeforeIs ==
    ASSUME NEW n \in Nat, NEW key \in [1..n -> Nat], NEW i \in 1..n, NEW j \in 1..n
    PROVE  /\ Before(key, i, j) \/ Before(key, j, i) \/ (i = j)
           /\ ~ (Before(key, i, j) /\ Before(key, j, i))
           /\ ~ Before(key, i, i)
<1>1. i \in Nat /\ j \in Nat /\ key[i] \in Nat /\ key[j] \in Nat
  OBVIOUS
<1> QED BY <1>1 DEF Before

\* Every position has a place of its own, in order of the keys.
LEMMA PlaceIs ==
    ASSUME NEW n \in Nat, NEW key \in [1..n -> Nat]
    PROVE  /\ \A i \in 1..n : Place(key, i) \in 1..n
           /\ \A i, j \in 1..n : Before(key, i, j) => Place(key, i) < Place(key, j)
           /\ \A p \in 1..n : \E i \in 1..n : Place(key, i) = p
<1> DEFINE Upto(i) == {j \in 1..n : key[j] < key[i] \/ (key[j] = key[i] /\ j <= i)}
           f == [i \in 1..n |-> Place(key, i)]
<1>1. \A i : Place(key, i) = Cardinality(Upto(i))
  BY DEF Place
<1>2. IsFiniteSet(1..n) /\ Cardinality(1..n) = n
  BY FS_Interval
<1>3. \A i \in 1..n : IsFiniteSet(Upto(i)) /\ i \in Upto(i) /\ Upto(i) \subseteq 1..n
  <2> TAKE i \in 1..n
  <2>1. Upto(i) \subseteq 1..n /\ i \in Upto(i)
    OBVIOUS
  <2> QED BY <1>2, <2>1, FS_Subset
<1>4. \A i \in 1..n : Cardinality(Upto(i)) \in 1..n
  <2> TAKE i \in 1..n
  <2> HIDE DEF Upto
  <2>1. Cardinality(Upto(i)) \in Nat /\ Cardinality(Upto(i)) <= n
    BY <1>2, <1>3, FS_Subset, FS_CardinalityType
  <2>2. Cardinality(Upto(i)) # 0
    BY <1>3, FS_EmptySet
  <2> QED BY <2>1, <2>2
<1>5. ASSUME NEW i \in 1..n, NEW j \in 1..n, Before(key, i, j) PROVE Cardinality(Upto(i)) < Cardinality(Upto(j))
  <2>1. Upto(i) \subseteq Upto(j) /\ j \notin Upto(i)
    <3>1. ASSUME NEW k \in Upto(i) PROVE k \in Upto(j)
      <4>1. k \in 1..n /\ key[k] \in Nat /\ key[i] \in Nat /\ key[j] \in Nat /\ (key[k] < key[i] \/ (key[k] = key[i] /\ k <= i))
        OBVIOUS
      <4>2. key[k] < key[j] \/ (key[k] = key[j] /\ k <= j)
        BY <1>5, <4>1 DEF Before
      <4> QED BY <4>1, <4>2
    <3>2. j \notin Upto(i)
      BY <1>5 DEF Before
    <3> QED BY <3>1, <3>2
  <2> HIDE DEF Upto
  <2>2. j \in Upto(j)
    BY <1>3
  <2>3. Upto(i) # Upto(j)
    BY <2>1, <2>2
  <2>4. Cardinality(Upto(i)) \in Nat /\ Cardinality(Upto(j)) \in Nat /\ Cardinality(Upto(i)) <= Cardinality(Upto(j))
    BY <1>3, <2>1, FS_Subset, FS_CardinalityType
  <2>5. Cardinality(Upto(i)) # Cardinality(Upto(j))
    BY <1>3, <2>1, <2>3, FS_Subset
  <2> QED BY <2>4, <2>5
<1> HIDE DEF Upto
<1>6. f \in Injection(1..n, 1..n)
  <2>1. f \in [1..n -> 1..n]
    BY <1>1, <1>4
  <2>2. ASSUME NEW i \in 1..n, NEW j \in 1..n, f[i] = f[j] PROVE i = j
    <3>1. Cardinality(Upto(i)) = Cardinality(Upto(j)) /\ Cardinality(Upto(i)) \in Nat
      BY <1>1, <1>4, <2>2
    <3>2. ~ Before(key, i, j) /\ ~ Before(key, j, i)
      BY <1>5, <3>1
    <3> QED BY <3>2, BeforeIs
  <2> QED BY <2>1, <2>2 DEF Injection, IsInjective
<1>7. f \in Surjection(1..n, 1..n)
  <2> HIDE DEF f
  <2> QED BY <1>2, <1>6, FS_Injection
<1>8. \A p \in 1..n : \E i \in 1..n : Place(key, i) = p
  <2>1. \A p \in 1..n : \E i \in 1..n : f[i] = p
    <3> HIDE DEF f
    <3> QED BY <1>7 DEF Surjection
  <2> QED BY <2>1
<1> QED BY <1>1, <1>4, <1>5, <1>8

\* There is one order of the positions.
LEMMA SortsOnce ==
    ASSUME NEW n \in Nat, NEW key \in [1..n -> Nat], NEW q, Sorts(q, key, n), NEW r, Sorts(r, key, n)
    PROVE  q = r
<1> DEFINE Bad == {p \in 1..n : q[p] # r[p]}
<1>1. ASSUME Bad # {} PROVE FALSE
  <2>1. PICK p \in Bad : \A m \in Bad : p <= m
    <3>1. Bad \in SUBSET Nat
      OBVIOUS
    <3> HIDE DEF Bad
    <3> QED BY <1>1, <3>1, LeastNumber
  <2>2. p \in 1..n /\ q[p] # r[p] /\ \A m \in 1..n : m < p => q[m] = r[m]
    BY <2>1
  <2>3. q[p] \in 1..n /\ r[p] \in 1..n
    BY <2>2 DEF Sorts
  <2>4. PICK a \in 1..n : r[a] = q[p]
    BY <2>3 DEF Sorts
  <2>5. PICK b \in 1..n : q[b] = r[p]
    BY <2>3 DEF Sorts
  <2>6. p < a
    <3>1. a # p
      BY <2>2, <2>4
    <3>2. ASSUME a < p PROVE FALSE
      <4>1. q[a] = q[p]
        BY <2>2, <2>4, <3>2
      <4>2. Before(key, q[a], q[p])
        BY <2>2, <3>2 DEF Sorts
      <4> QED BY <2>3, <4>1, <4>2, BeforeIs
    <3> QED BY <2>2, <3>1, <3>2
  <2>7. p < b
    <3>1. b # p
      BY <2>2, <2>5
    <3>2. ASSUME b < p PROVE FALSE
      <4>1. r[b] = r[p]
        BY <2>2, <2>5, <3>2
      <4>2. Before(key, r[b], r[p])
        BY <2>2, <3>2 DEF Sorts
      <4> QED BY <2>3, <4>1, <4>2, BeforeIs
    <3> QED BY <2>2, <3>1, <3>2
  <2>8. Before(key, r[p], q[p])
    <3>1. Before(key, r[p], r[a])
      BY <2>2, <2>6 DEF Sorts
    <3> QED BY <2>4, <3>1
  <2>9. Before(key, q[p], r[p])
    <3>1. Before(key, q[p], q[b])
      BY <2>2, <2>7 DEF Sorts
    <3> QED BY <2>5, <3>1
  <2> QED BY <2>3, <2>8, <2>9, BeforeIs
<1>2. \A p \in 1..n : q[p] = r[p]
  BY <1>1
<1> QED BY <1>2 DEF Sorts

\* t has what s has, sorted by q.
Sorted(t, s, key, q) ==
    /\ IsSequence(t) /\ Len(t) = Len(s) /\ Sorts(q, key, Len(s))
    /\ t = [p \in 1..Len(s) |-> s[q[p]]]

\* PlacedBy sorts.
LEMMA PlacedIs ==
    ASSUME NEW s, IsSequence(s), NEW key \in [1..Len(s) -> Nat]
    PROVE  \E q : Sorted(PlacedBy(s, key), s, key, q)
<1> DEFINE n == Len(s)
           place == [i \in 1..n |-> Place(key, i)]
           q == [p \in 1..n |-> CHOOSE i \in 1..n : place[i] = p]
<1>1. n \in Nat
  BY SequenceIsList
<1>2. PlacedBy(s, key) = [p \in 1..n |-> s[q[p]]]
  BY DEF PlacedBy, ByPlace
<1> HIDE DEF n
<1>3. key \in [1..n -> Nat]
  BY DEF n
<1>4. /\ \A i \in 1..n : place[i] \in 1..n
      /\ \A p \in 1..n : \E i \in 1..n : place[i] = p
      /\ \A i, j \in 1..n : Before(key, i, j) => place[i] < place[j]
  BY <1>1, <1>3, PlaceIs
<1> HIDE DEF place
<1>5. \A p \in 1..n : q[p] \in 1..n /\ place[q[p]] = p
  BY <1>4
<1>6. q \in [1..n -> 1..n]
  BY <1>5
<1> HIDE DEF q
<1>7. \A i \in 1..n : \E p \in 1..n : q[p] = i
  <2> TAKE i \in 1..n
  <2>1. place[i] \in 1..n /\ place[q[place[i]]] = place[i] /\ q[place[i]] \in 1..n
    BY <1>4, <1>5
  <2>2. q[place[i]] = i
    <3> DEFINE j == q[place[i]]
    <3>0. j \in 1..n /\ place[j] = place[i] /\ place[i] \in Nat
      BY <1>1, <2>1
    <3> HIDE DEF j
    <3>1. ~ Before(key, j, i) /\ ~ Before(key, i, j)
      <4>1. Before(key, j, i) => place[j] < place[i]
        BY <1>4, <3>0
      <4>2. Before(key, i, j) => place[i] < place[j]
        BY <1>4, <3>0
      <4> HIDE DEF Before
      <4> QED BY <3>0, <4>1, <4>2
    <3> USE DEF j
    <3> QED BY <1>1, <1>3, <2>1, <3>1, BeforeIs
  <2> QED BY <2>1, <2>2
<1>8. ASSUME NEW a \in 1..n, NEW b \in 1..n, a < b PROVE Before(key, q[a], q[b])
  <2>1. q[a] \in 1..n /\ q[b] \in 1..n /\ place[q[a]] = a /\ place[q[b]] = b
    BY <1>5
  <2>2. ~ Before(key, q[b], q[a]) /\ q[a] # q[b]
    <3>1. Before(key, q[b], q[a]) => place[q[b]] < place[q[a]]
      BY <1>4, <2>1
    <3>2. ~ (b < a) /\ a # b
      BY <1>1, <1>8
    <3> QED BY <2>1, <3>1, <3>2
  <2> QED BY <1>1, <1>3, <2>1, <2>2, BeforeIs
<1>9. Sorts(q, key, n)
  BY <1>6, <1>7, <1>8 DEF Sorts
<1> DEFINE t == PlacedBy(s, key)
<1>10. IsSequence(t) /\ Len(t) = n
  <2>1. t = [i \in 1..n |-> t[i]]
    BY <1>2
  <2> HIDE DEF t
  <2> QED BY <1>1, <2>1, ListIsSequence
<1> QED BY <1>2, <1>9, <1>10 DEF Sorted, n

\* The order of the items does not matter where no two of them that change places have one key.
LEMMA SortedAlike ==
    ASSUME NEW s, IsSequence(s), NEW key \in [1..Len(s) -> Nat],
           NEW p \in Bijection(1..Len(s), 1..Len(s)),
           \A i, j \in 1..Len(s) : i < j /\ key[p[i]] = key[p[j]] => p[i] < p[j]
    PROVE  PlacedBy([i \in 1..Len(s) |-> s[p[i]]], [i \in 1..Len(s) |-> key[p[i]]]) = PlacedBy(s, key)
<1> DEFINE n == Len(s)
           t == [i \in 1..n |-> s[p[i]]]
           other == [i \in 1..n |-> key[p[i]]]
<1>1. n \in Nat /\ key \in [1..n -> Nat]
  BY SequenceIsList
<1>2. p \in [1..n -> 1..n] /\ \A j \in 1..n : \E i \in 1..n : p[i] = j
  BY DEF Bijection, Surjection
<1>3. other \in [1..n -> Nat]
  BY <1>1, <1>2
<1>4. IsSequence(t) /\ Len(t) = n
  <2>1. t = [i \in 1..n |-> t[i]]
    OBVIOUS
  <2> HIDE DEF t, n
  <2> QED BY <1>1, <2>1, ListIsSequence
<1>5. PICK q : Sorted(PlacedBy(s, key), s, key, q)
  BY PlacedIs
<1>6. PICK r : Sorted(PlacedBy(t, other), t, other, r)
  <2> HIDE DEF t, other, n
  <2> QED BY <1>3, <1>4, PlacedIs
<1> DEFINE both == [a \in 1..n |-> p[r[a]]]
<1>7. r \in [1..n -> 1..n] /\ Sorts(r, other, n) /\ PlacedBy(t, other) = [a \in 1..n |-> t[r[a]]]
  <2> HIDE DEF t, other
  <2> QED BY <1>4, <1>6 DEF Sorted, Sorts
<1>8. Sorts(both, key, n)
  <2>1. both \in [1..n -> 1..n]
    <3> HIDE DEF n
    <3> QED BY <1>2, <1>7
  <2>2. ASSUME NEW i \in 1..n PROVE \E a \in 1..n : both[a] = i
    <3> HIDE DEF n
    <3>1. PICK j \in 1..n : p[j] = i
      BY <1>2
    <3>2. PICK a \in 1..n : r[a] = j
      BY <1>7 DEF Sorts
    <3> QED BY <3>1, <3>2
  <2>3. ASSUME NEW a \in 1..n, NEW b \in 1..n, a < b PROVE Before(key, both[a], both[b])
    <3>1. Before(other, r[a], r[b]) /\ r[a] \in 1..n /\ r[b] \in 1..n
      <4> HIDE DEF n, other
      <4> QED BY <1>7, <2>3 DEF Sorts
    <3>2. other[r[a]] = key[both[a]] /\ other[r[b]] = key[both[b]] /\ both[a] = p[r[a]] /\ both[b] = p[r[b]]
      <4> HIDE DEF n
      <4> QED BY <3>1
    <3> HIDE DEF other, both
    <3>3. CASE key[both[a]] < key[both[b]]
      BY <3>3 DEF Before
    <3>4. CASE key[both[a]] = key[both[b]] /\ r[a] < r[b]
      BY <3>1, <3>2, <3>4 DEF Before
    <3> QED BY <3>1, <3>2, <3>3, <3>4 DEF Before
  <2> HIDE DEF both, n
  <2> QED BY <2>1, <2>2, <2>3 DEF Sorts
<1>9. Sorts(q, key, n) /\ PlacedBy(s, key) = [a \in 1..n |-> s[q[a]]]
  BY <1>5 DEF Sorted
<1>10. both = q
  <2> HIDE DEF both, n
  <2> QED BY <1>1, <1>8, <1>9, SortsOnce
<1>11. PlacedBy(t, other) = [a \in 1..n |-> s[both[a]]]
  <2>1. \A a \in 1..n : t[r[a]] = s[both[a]]
    <3> HIDE DEF n
    <3> QED BY <1>7
  <2> HIDE DEF t, both, other, n
  <2> QED BY <1>7, <2>1
<1> HIDE DEF both
<1> QED BY <1>9, <1>10, <1>11

-----------------------------------------------------------------------------
(***************************************************************************)
(* Precedence.                                                             *)
(***************************************************************************)

\* Every order of a policy is a list of providers.
HasLists(policy) == \A order \in Orders(policy) : IsSequence(order)

\* Every provider has a place in every order.
LEMMA RankIs ==
    ASSUME NEW policy, HasLists(policy), NEW kind, NEW path
    PROVE  /\ OrderFor(policy, kind, path) \in Orders(policy)
           /\ \A provider : Rank(policy, kind, path, provider) \in Nat
<1> DEFINE order == OrderFor(policy, kind, path)
           once == Deduplicate(order)
<1>1. order \in Orders(policy)
  BY DEF OrderFor, Orders, Range
<1>2. IsSequence(order)
  BY <1>1 DEF HasLists
<1>3. Len(once) \in Nat
  <2> DEFINE K == {i \in 1..Len(order) : \A j \in 1..(i - 1) : order[j] # order[i]}
  <2>1. K \in SUBSET (1..Len(order))
    OBVIOUS
  <2>2. once = Pick(order, K)
    BY DEF Deduplicate, KeepAt
  <2> HIDE DEF K, order
  <2>3. IsFiniteSet(K)
    BY <1>2, <2>1, SomePositions
  <2> HIDE DEF once
  <2>4. Len(Pick(order, K)) \in Nat
    BY <2>3, Picked
  <2> QED BY <2>2, <2>4
<1>4. ASSUME NEW provider PROVE Rank(policy, kind, path, provider) \in Nat
  <2>1. Rank(policy, kind, path, provider) = PositionIn(once, provider)
    BY DEF Rank
  <2> HIDE DEF once
  <2> QED BY <1>3, <2>1 DEF PositionIn
<1> QED BY <1>1, <1>4

\* The ranks of documents.
Ranks(docs, policy, kind, path) == [i \in 1..Len(docs) |-> Rank(policy, kind, path, docs[i].provider)]

\* Ordered sorts by rank.
LEMMA OrderedByRank ==
    ASSUME NEW docs, NEW policy, NEW kind, NEW path
    PROVE  Ordered(docs, policy, kind, path) = PlacedBy(docs, Ranks(docs, policy, kind, path))
BY DEF Ordered, StableBy, Each, Ranks

\* t has the documents in the set, those of preferred providers first.
InRank(t, documents, policy, kind, path) ==
    /\ IsSequence(t) /\ ToSet(t) = documents
    /\ \A i, j \in 1..Len(t) :
          i <= j => Rank(policy, kind, path, t[i].provider) <= Rank(policy, kind, path, t[j].provider)

\* Ordered documents are in rank, and none is lost.
LEMMA OrderedIs ==
    ASSUME NEW docs, IsSequence(docs), NEW policy, HasLists(policy), NEW kind, NEW path
    PROVE  InRank(Ordered(docs, policy, kind, path), ToSet(docs), policy, kind, path)
<1> DEFINE n == Len(docs)
           key == Ranks(docs, policy, kind, path)
           t == Ordered(docs, policy, kind, path)
           R(d) == Rank(policy, kind, path, d.provider)
<1>1. n \in Nat
  BY SequenceIsList
<1>2. key \in [1..n -> Nat] /\ \A i \in 1..n : key[i] = R(docs[i])
  BY RankIs DEF Ranks
<1>3. t = PlacedBy(docs, key)
  BY OrderedByRank
<1> HIDE DEF key, t, R
<1>4. PICK q : Sorted(PlacedBy(docs, key), docs, key, q)
  BY <1>2, PlacedIs
<1> HIDE DEF n
<1>5. /\ IsSequence(t) /\ Len(t) = n /\ t = [p \in 1..n |-> docs[q[p]]]
      /\ q \in [1..n -> 1..n] /\ \A i \in 1..n : \E p \in 1..n : q[p] = i
      /\ \A a, b \in 1..n : a < b => Before(key, q[a], q[b])
  BY <1>3, <1>4 DEF Sorted, Sorts, n
<1>6. ToSet(t) = ToSet(docs)
  <2>1. ToSet(t) = {t[p] : p \in 1..n} /\ ToSet(docs) = {docs[i] : i \in 1..n}
    <3>1. ToSet(t) = {t[p] : p \in 1..Len(t)}
      BY <1>5, ItemsAre
    <3>2. ToSet(docs) = {docs[i] : i \in 1..Len(docs)}
      BY ItemsAre
    <3>3. Len(t) = n /\ Len(docs) = n
      BY <1>5 DEF n
    <3> QED BY <3>1, <3>2, <3>3
  <2>2. \A p \in 1..n : q[p] \in 1..n /\ t[p] = docs[q[p]]
    BY <1>5
  <2>3. \A i \in 1..n : \E p \in 1..n : t[p] = docs[i]
    <3> TAKE i \in 1..n
    <3>1. PICK p \in 1..n : q[p] = i
      BY <1>5
    <3> QED BY <2>2, <3>1
  <2> QED BY <2>1, <2>2, <2>3
<1>7. ASSUME NEW i \in 1..n, NEW j \in 1..n, i <= j PROVE R(t[i]) <= R(t[j])
  <2>1. q[i] \in 1..n /\ q[j] \in 1..n /\ t[i] = docs[q[i]] /\ t[j] = docs[q[j]]
    BY <1>5
  <2>2. R(t[i]) = key[q[i]] /\ R(t[j]) = key[q[j]] /\ key[q[i]] \in Nat /\ key[q[j]] \in Nat
    BY <1>2, <2>1
  <2>3. CASE i = j
    BY <2>2, <2>3
  <2>4. CASE i # j
    <3>1. i < j
      BY <1>1, <1>7, <2>4
    <3>2. Before(key, q[i], q[j])
      BY <1>5, <3>1
    <3> QED BY <2>2, <3>2 DEF Before
  <2> QED BY <2>3, <2>4
<1> QED BY <1>5, <1>6, <1>7 DEF InRank, t, R

\* The order in which providers were asked is forgotten.
LEMMA OrderedAlike ==
    ASSUME NEW docs, IsSequence(docs), NEW policy, HasLists(policy), NEW kind, NEW path,
           NEW other \in Rearranged(docs, policy)
    PROVE  Ordered(other, policy, kind, path) = Ordered(docs, policy, kind, path)
<1> DEFINE n == Len(docs)
           key == Ranks(docs, policy, kind, path)
<1>1. n \in Nat /\ key \in [1..n -> Nat] /\ \A i \in 1..n : key[i] = Rank(policy, kind, path, docs[i].provider)
  BY SequenceIsList, RankIs DEF Ranks
<1>2. PICK p \in Bijection(1..n, 1..n) :
         /\ other = [i \in 1..n |-> docs[p[i]]]
         /\ \A i, j \in 1..n : i < j /\ RankedAlike(policy, docs[p[i]], docs[p[j]]) => p[i] < p[j]
  <2> DEFINE alike == {x \in (1..n) \X (1..n) : RankedAlike(policy, docs[x[1]], docs[x[2]])}
  <2>1. PICK p \in {q \in Bijection(1..n, 1..n) : \A i, j \in 1..n : i < j /\ <<q[i], q[j]>> \in alike => q[i] < q[j]} :
           other = [i \in 1..n |-> docs[p[i]]]
    BY DEF Rearranged
  <2>2. p \in [1..n -> 1..n]
    BY DEF Bijection, Injection, Surjection
  <2>3. ASSUME NEW i \in 1..n, NEW j \in 1..n, i < j, RankedAlike(policy, docs[p[i]], docs[p[j]]) PROVE p[i] < p[j]
    <3>1. <<p[i], p[j]>> \in alike
      BY <2>2, <2>3
    <3> HIDE DEF alike
    <3> QED BY <2>1, <2>3, <3>1
  <2> QED BY <2>1, <2>3
<1>3. p \in [1..n -> 1..n]
  BY DEF Bijection, Injection, Surjection
<1>4. ASSUME NEW i \in 1..n, NEW j \in 1..n, i < j, key[p[i]] = key[p[j]] PROVE p[i] < p[j]
  <2>1. p[i] \in 1..n /\ p[j] \in 1..n
    BY <1>3
  <2>2. Rank(policy, kind, path, docs[p[i]].provider) = Rank(policy, kind, path, docs[p[j]].provider)
    BY <1>1, <1>4, <2>1
  <2>3. RankedAlike(policy, docs[p[i]], docs[p[j]])
    BY <2>2, RankIs DEF RankedAlike, Rank
  <2> QED BY <1>2, <1>4, <2>3
<1>5. IsSequence(other) /\ Len(other) = n
  <2>1. other = [i \in 1..n |-> other[i]]
    BY <1>2
  <2> HIDE DEF n
  <2> QED BY <1>1, <2>1, ListIsSequence
<1>6. Ranks(other, policy, kind, path) = [i \in 1..n |-> key[p[i]]]
  <2>1. \A i \in 1..n : Rank(policy, kind, path, other[i].provider) = key[p[i]]
    <3> HIDE DEF key, n
    <3> QED BY <1>1, <1>2, <1>3
  <2> HIDE DEF key, n
  <2> QED BY <1>5, <2>1 DEF Ranks
<1>7. PlacedBy([i \in 1..n |-> docs[p[i]]], [i \in 1..n |-> key[p[i]]]) = PlacedBy(docs, key)
  <2> HIDE DEF key
  <2> QED BY <1>1, <1>4, SortedAlike
<1> HIDE DEF n
<1> QED BY <1>2, <1>6, <1>7, OrderedByRank

-----------------------------------------------------------------------------
(***************************************************************************)
(* Offers.                                                                 *)
(***************************************************************************)

\* What documents say of a field, each with the provider that says it.
OfferedIn(documents, field) ==
    UNION {{[value |-> v, provider |-> d.provider] : v \in ToSet(d[field])} : d \in documents}

\* Offers come in the order of their documents.
LEMMA OffersInRank ==
    ASSUME NEW docs, NEW documents, NEW policy, NEW kind, NEW path, NEW field,
           InRank(docs, documents, policy, kind, path), \A d \in documents : IsSequence(d[field])
    PROVE  InRank(Offers(docs, field), OfferedIn(documents, field), policy, kind, path)
<1> DEFINE n == Len(docs)
           Offer(d, v) == [value |-> v, provider |-> d.provider]
           seqs == [i \in 1..n |-> [j \in 1..Len(docs[i][field]) |-> Offer(docs[i], docs[i][field][j])]]
           flat == FlattenSeq(seqs)
<1>1. n \in Nat /\ documents = {docs[i] : i \in 1..n} /\ \A i \in 1..n : docs[i] \in documents
  <2>1. documents = {docs[i] : i \in 1..n} /\ n \in Nat
    BY ItemsAre, SequenceIsList DEF InRank
  <2> QED BY <2>1
<1>2. Offers(docs, field) = flat
  BY DEF Offers, Flat, Each
<1>3. IsSequence(seqs) /\ Len(seqs) = n
  <2>1. seqs = [i \in 1..n |-> seqs[i]]
    OBVIOUS
  <2> HIDE DEF seqs, n
  <2> QED BY <1>1, <2>1, ListIsSequence
<1>4. ASSUME NEW i \in 1..n
      PROVE  IsSequence(seqs[i]) /\ ToSet(seqs[i]) = {Offer(docs[i], v) : v \in ToSet(docs[i][field])}
  <2> DEFINE texts == docs[i][field]
             s == seqs[i]
  <2>1. IsSequence(texts)
    BY <1>1
  <2>2. Len(texts) \in Nat /\ ToSet(texts) = {texts[j] : j \in 1..Len(texts)}
    <3> HIDE DEF texts
    <3> QED BY <2>1, SequenceIsList, ItemsAre
  <2>3. s = [j \in 1..Len(texts) |-> Offer(docs[i], texts[j])]
    OBVIOUS
  <2> HIDE DEF texts, s, Offer
  <2>4. IsSequence(s) /\ Len(s) = Len(texts)
    <3>1. s = [j \in 1..Len(texts) |-> s[j]]
      BY <2>3
    <3> QED BY <2>2, <3>1, ListIsSequence
  <2>5. ToSet(s) = {s[j] : j \in 1..Len(texts)}
    BY <2>4, ItemsAre
  <2>6. ToSet(s) = {Offer(docs[i], v) : v \in ToSet(texts)}
    BY <2>2, <2>3, <2>5
  <2> QED BY <2>4, <2>6 DEF s, texts
<1> HIDE DEF seqs
<1>5. PICK from : Joins(flat, seqs, n, from)
  <2> HIDE DEF n
  <2> QED BY <1>3, <1>4, FlattenIs
<1> DEFINE L == Len(flat)
<1> HIDE DEF flat, n
<1>6. /\ IsSequence(flat) /\ from \in [1..L -> 1..n]
      /\ \A k \in 1..L : flat[k] \in ToSet(seqs[from[k]])
      /\ \A i \in 1..n : \A x \in ToSet(seqs[i]) : \E k \in 1..L : flat[k] = x
  BY <1>5 DEF Joins
<1>7. \A k, l \in 1..L : k <= l => from[k] <= from[l]
  BY <1>5 DEF Joins
<1>8. \A k \in 1..L : \E v \in ToSet(docs[from[k]][field]) : flat[k] = Offer(docs[from[k]], v)
  <2> TAKE k \in 1..L
  <2>1. from[k] \in 1..n /\ flat[k] \in ToSet(seqs[from[k]])
    BY <1>6
  <2>2. flat[k] \in {Offer(docs[from[k]], v) : v \in ToSet(docs[from[k]][field])}
    BY <1>4, <2>1
  <2> HIDE DEF Offer
  <2> QED BY <2>2
<1>9. ToSet(flat) = OfferedIn(documents, field)
  <2>1. ToSet(flat) = {flat[k] : k \in 1..L}
    BY <1>6, ItemsAre
  <2>2. ASSUME NEW k \in 1..L PROVE flat[k] \in OfferedIn(documents, field)
    <3>1. PICK v \in ToSet(docs[from[k]][field]) : flat[k] = Offer(docs[from[k]], v)
      BY <1>8
    <3>2. docs[from[k]] \in documents
      BY <1>1, <1>6
    <3>3. flat[k] \in {[value |-> w, provider |-> docs[from[k]].provider] : w \in ToSet(docs[from[k]][field])}
      BY <3>1
    <3> HIDE DEF Offer
    <3> QED BY <3>2, <3>3 DEF OfferedIn
  <2>3. ASSUME NEW x \in OfferedIn(documents, field) PROVE \E k \in 1..L : flat[k] = x
    <3>1. PICK d \in documents : x \in {Offer(d, v) : v \in ToSet(d[field])}
      BY DEF OfferedIn
    <3>2. PICK i \in 1..n : d = docs[i]
      BY <1>1
    <3> HIDE DEF Offer
    <3>3. x \in ToSet(seqs[i])
      BY <1>4, <3>1, <3>2
    <3> QED BY <1>6, <3>3
  <2> QED BY <2>1, <2>2, <2>3
<1>10. ASSUME NEW i \in 1..L, NEW j \in 1..L, i <= j
       PROVE Rank(policy, kind, path, flat[i].provider) <= Rank(policy, kind, path, flat[j].provider)
  <2>1. \A k \in 1..L : flat[k].provider = docs[from[k]].provider
    <3> TAKE k \in 1..L
    <3>1. PICK v \in ToSet(docs[from[k]][field]) : flat[k] = Offer(docs[from[k]], v)
      BY <1>8
    <3> QED BY <3>1
  <2>2. from[i] \in 1..n /\ from[j] \in 1..n /\ from[i] <= from[j]
    BY <1>6, <1>7, <1>10
  <2>3. Rank(policy, kind, path, docs[from[i]].provider) <= Rank(policy, kind, path, docs[from[j]].provider)
    BY <2>2 DEF InRank, n
  <2> QED BY <2>1, <2>3
<1>11. InRank(flat, OfferedIn(documents, field), policy, kind, path)
  BY <1>6, <1>9, <1>10 DEF InRank
<1> QED BY <1>2, <1>11

-----------------------------------------------------------------------------
(***************************************************************************)
(* What is kept.                                                           *)
(***************************************************************************)

\* The first position with a key.
LEMMA FirstIs ==
    ASSUME NEW n \in Nat, NEW keys, DOMAIN keys = 1..n, NEW i \in 1..n
    PROVE  /\ FirstOf(keys, i) \in 1..i /\ FirstOf(keys, i) \in 1..n /\ keys[FirstOf(keys, i)] = keys[i]
           /\ \A k \in 1..(FirstOf(keys, i) - 1) : keys[k] # keys[i]
           /\ FirstOf(keys, FirstOf(keys, i)) = FirstOf(keys, i)
<1> DEFINE Fits(a, j) == keys[j] = keys[a] /\ \A k \in 1..(j - 1) : keys[k] # keys[a]
<1>1. ASSUME NEW a \in 1..n PROVE \E j \in 1..a : Fits(a, j)
  <2> DEFINE Same == {j \in 1..a : keys[j] = keys[a]}
  <2>1. a \in Same /\ Same \in SUBSET Nat
    OBVIOUS
  <2>2. PICK j \in Same : \A k \in Same : j <= k
    <3> HIDE DEF Same
    <3> QED BY <2>1, LeastNumber
  <2>3. ASSUME NEW k \in 1..(j - 1) PROVE keys[k] # keys[a]
    <3>1. k \in 1..a /\ ~ (j <= k)
      OBVIOUS
    <3> QED BY <2>2, <3>1
  <2> QED BY <2>2, <2>3
<1>2. ASSUME NEW a \in 1..n PROVE FirstOf(keys, a) \in 1..a /\ Fits(a, FirstOf(keys, a))
  <2>1. FirstOf(keys, a) = CHOOSE j \in 1..a : Fits(a, j)
    BY DEF FirstOf
  <2> HIDE DEF Fits
  <2> QED BY <1>1, <2>1
<1> DEFINE f == FirstOf(keys, i)
<1>3. f \in 1..i /\ f \in 1..n /\ Fits(i, f)
  BY <1>2
<1>4. FirstOf(keys, f) \in 1..f /\ Fits(f, FirstOf(keys, f))
  BY <1>2, <1>3
<1> DEFINE g == FirstOf(keys, f)
<1> HIDE DEF g, f
<1>5. g = f
  <2>1. keys[g] = keys[i] /\ g \in 1..f
    BY <1>3, <1>4 DEF g
  <2>2. g \notin 1..(f - 1)
    BY <1>3, <2>1
  <2> QED BY <1>3, <2>1, <2>2
<1> QED BY <1>3, <1>5 DEF g, f

\* at are the first positions of o with their keys; kept has what is there.
KeepsFirst(kept, o, keys, at) ==
    /\ IsSequence(kept) /\ at \in [1..Len(kept) -> 1..Len(o)]
    /\ \A j \in 1..Len(kept) : kept[j] = o[at[j]]
    /\ \A j, l \in 1..Len(kept) : keys[at[j]] = keys[at[l]] => j = l
    /\ \A i \in 1..Len(o) : \E j \in 1..Len(kept) : keys[at[j]] = keys[i] /\ at[j] <= i

\* MergeUnique keeps what is at the first positions.
LEMMA UniqueKeeps ==
    ASSUME NEW o, IsSequence(o), NEW keys, DOMAIN keys = 1..Len(o)
    PROVE  \E at : KeepsFirst(MergeUnique(o, keys), o, keys, at)
<1> DEFINE n == Len(o)
           K == {i \in 1..n : FirstOf(keys, i) = i}
           kept == Pick(o, K)
           at == [j \in 1..Len(kept) |-> Nth(K, j)]
<1>1. MergeUnique(o, keys) = kept
  BY DEF MergeUnique, KeepAt
<1>2. n \in Nat /\ K \in SUBSET (1..n) /\ K \in SUBSET Nat /\ IsFiniteSet(K)
  <2>1. n \in Nat /\ K \in SUBSET (1..n)
    BY SequenceIsList
  <2> HIDE DEF K
  <2> QED BY <2>1, SomePositions
<1>3. \A i \in 1..n : FirstOf(keys, i) \in K /\ FirstOf(keys, i) <= i /\ keys[FirstOf(keys, i)] = keys[i]
  <2> HIDE DEF n
  <2>1. \A i \in 1..n : /\ FirstOf(keys, i) \in 1..i /\ FirstOf(keys, i) \in 1..n /\ keys[FirstOf(keys, i)] = keys[i]
                        /\ FirstOf(keys, FirstOf(keys, i)) = FirstOf(keys, i)
    BY <1>2, FirstIs DEF n
  <2> QED BY <1>2, <2>1
<1>4. ASSUME NEW i \in K, NEW l \in K, keys[i] = keys[l] PROVE i = l
  <2>1. i \in 1..n /\ l \in 1..n /\ FirstOf(keys, i) = i /\ FirstOf(keys, l) = l
    OBVIOUS
  <2>2. (\A k \in 1..(i - 1) : keys[k] # keys[i]) /\ (\A k \in 1..(l - 1) : keys[k] # keys[l])
    <3>1. \A k \in 1..(FirstOf(keys, i) - 1) : keys[k] # keys[i]
      BY <1>2, <2>1, FirstIs
    <3>2. \A k \in 1..(FirstOf(keys, l) - 1) : keys[k] # keys[l]
      BY <1>2, <2>1, FirstIs
    <3> QED BY <2>1, <3>1, <3>2
  <2> HIDE DEF K
  <2> QED BY <1>2, <1>4, <2>1, <2>2
<1> HIDE DEF K
<1>5. /\ IsSequence(kept) /\ Len(kept) = Cardinality(K)
      /\ \A j \in 1..Cardinality(K) : Nth(K, j) \in K
      /\ \A i \in K : \E j \in 1..Cardinality(K) : Nth(K, j) = i
      /\ \A j, l \in 1..Cardinality(K) : Nth(K, j) = Nth(K, l) => j = l
  BY <1>2, NthIsIn, Picked
<1>6. \A j \in 1..Len(kept) : kept[j] = o[at[j]] /\ at[j] \in K /\ at[j] = Nth(K, j)
  BY <1>5 DEF Pick
<1>7. at \in [1..Len(kept) -> 1..n]
  BY <1>2, <1>6
<1> HIDE DEF kept, at, n
<1>8. ASSUME NEW j \in 1..Len(kept), NEW l \in 1..Len(kept), keys[at[j]] = keys[at[l]] PROVE j = l
  <2>1. at[j] = at[l]
    BY <1>4, <1>6, <1>8
  <2> QED BY <1>5, <1>6, <2>1
<1>9. ASSUME NEW i \in 1..n PROVE \E j \in 1..Len(kept) : keys[at[j]] = keys[i] /\ at[j] <= i
  <2>1. PICK j \in 1..Len(kept) : Nth(K, j) = FirstOf(keys, i)
    BY <1>3, <1>5
  <2>2. at[j] = FirstOf(keys, i)
    BY <1>6, <2>1
  <2> QED BY <1>3, <2>1, <2>2
<1>10. KeepsFirst(kept, o, keys, at)
  BY <1>5, <1>6, <1>7, <1>8, <1>9 DEF KeepsFirst, n
<1> QED BY <1>1, <1>10

\* Kept is, for every key of an offer, the first offer that has it.
LEMMA KeptIs ==
    ASSUME NEW o, NEW offered, NEW policy, NEW kind, NEW path, InRank(o, offered, policy, kind, path),
           NEW keys, DOMAIN keys = 1..Len(o), NEW kept, NEW at, KeepsFirst(kept, o, keys, at)
    PROVE  /\ ToSet(kept) \subseteq offered /\ DOMAIN kept = 1..Len(kept)
           /\ \A i \in 1..Len(o) : \E j \in 1..Len(kept) :
                 /\ keys[at[j]] = keys[i]
                 /\ Rank(policy, kind, path, kept[j].provider) <= Rank(policy, kind, path, o[i].provider)
<1>1. IsSequence(o) /\ offered = {o[i] : i \in 1..Len(o)}
  BY ItemsAre DEF InRank
<1>2. /\ IsSequence(kept) /\ at \in [1..Len(kept) -> 1..Len(o)]
      /\ \A j \in 1..Len(kept) : kept[j] = o[at[j]]
  BY DEF KeepsFirst
<1>3. ToSet(kept) = {kept[j] : j \in 1..Len(kept)} /\ DOMAIN kept = 1..Len(kept)
  BY <1>2, ItemsAre, SequenceIsList
<1>4. ToSet(kept) \subseteq offered
  BY <1>1, <1>2, <1>3
<1>5. ASSUME NEW i \in 1..Len(o)
      PROVE \E j \in 1..Len(kept) :
               /\ keys[at[j]] = keys[i]
               /\ Rank(policy, kind, path, kept[j].provider) <= Rank(policy, kind, path, o[i].provider)
  <2>1. PICK j \in 1..Len(kept) : keys[at[j]] = keys[i] /\ at[j] <= i
    BY DEF KeepsFirst
  <2>2. Rank(policy, kind, path, o[at[j]].provider) <= Rank(policy, kind, path, o[i].provider)
    BY <1>2, <2>1 DEF InRank
  <2> QED BY <1>2, <2>1, <2>2
<1> QED BY <1>3, <1>4, <1>5

\* The languages of localized offers.
Languages(o) == [i \in 1..Len(o) |-> o[i].value.lang]

\* Conflicts tell of the offers that differ, and of all of them.
Tells(conflicts, path, offered) ==
    /\ IsSequence(conflicts)
    /\ \A c \in ToSet(conflicts) :
          /\ c.path = path
          /\ \E a, b \in offered : Differ(a, b) /\ c.lang = a.value.lang /\ c.providers = <<a.provider, b.provider>>
    /\ \A a, b \in offered : Differ(a, b) => \E c \in ToSet(conflicts) : c.lang = a.value.lang

\* The conflicts of localized texts tell of exactly the texts that differ.
LEMMA LocalizedTells ==
    ASSUME NEW o, IsSequence(o), NEW path
    PROVE  Tells(LocalizedOffers(path, o).conflicts, path, ToSet(o))
<1> DEFINE n == Len(o)
           keys == Languages(o)
           first == [i \in 1..Len(keys) |-> FirstOf(keys, i)]
           K == {i \in 1..n : Norm[o[first[i]].value.text] # Norm[o[i].value.text]}
           numbers == [i \in 1..n |-> i]
           Conflict(i) == [path |-> path, lang |-> o[i].value.lang, providers |-> <<o[first[i]].provider, o[i].provider>>]
           found == Pick(numbers, K)
           conflicts == [j \in 1..Len(found) |-> Conflict(found[j])]
<1>1. LocalizedOffers(path, o).conflicts = conflicts
  BY DEF LocalizedOffers, LocalizedByLanguage, Localized, Each, Languages
<1>2. n \in Nat /\ DOMAIN keys = 1..n /\ Len(keys) = n /\ \A i \in 1..n : keys[i] = o[i].value.lang
  <2>1. n \in Nat
    BY SequenceIsList
  <2> HIDE DEF n
  <2>2. keys = [i \in 1..n |-> o[i].value.lang]
    BY DEF Languages, n
  <2> HIDE DEF keys
  <2>3. keys = [i \in 1..n |-> keys[i]]
    BY <2>2
  <2> QED BY <2>1, <2>2, <2>3, ListIsSequence
<1> HIDE DEF keys
<1>3. \A i \in 1..n : first[i] \in 1..n /\ o[first[i]].value.lang = o[i].value.lang
  <2> TAKE i \in 1..n
  <2>1. FirstOf(keys, i) \in 1..n /\ keys[FirstOf(keys, i)] = keys[i]
    <3> HIDE DEF n, first
    <3> QED BY <1>2, FirstIs
  <2>2. first[i] = FirstOf(keys, i)
    BY <1>2
  <2> HIDE DEF first, n
  <2> QED BY <1>2, <2>1, <2>2
<1>4. \A i, j \in 1..n : o[i].value.lang = o[j].value.lang => first[i] = first[j]
  <2> SUFFICES ASSUME NEW i \in 1..n, NEW j \in 1..n, o[i].value.lang = o[j].value.lang PROVE first[i] = first[j]
    OBVIOUS
  <2> DEFINE a == FirstOf(keys, i)
             b == FirstOf(keys, j)
  <2>1. keys[i] = keys[j]
    BY <1>2
  <2>2. a \in 1..n /\ keys[a] = keys[i] /\ b \in 1..n /\ keys[b] = keys[j]
    <3> HIDE DEF n, first
    <3>1. a \in 1..n /\ keys[a] = keys[i]
      BY <1>2, FirstIs
    <3>2. b \in 1..n /\ keys[b] = keys[j]
      BY <1>2, FirstIs
    <3> QED BY <3>1, <3>2
  <2>3. \A k \in 1..(a - 1) : keys[k] # keys[i]
    BY <1>2, FirstIs
  <2>4. \A k \in 1..(b - 1) : keys[k] # keys[j]
    BY <1>2, FirstIs
  <2>5. first[i] = a /\ first[j] = b
    BY <1>2
  <2> HIDE DEF a, b, first, n
  <2> QED BY <1>2, <2>1, <2>2, <2>3, <2>4, <2>5
<1> HIDE DEF first
<1>5. K \in SUBSET (1..n) /\ IsSequence(numbers) /\ Len(numbers) = n
  <2>1. numbers = [i \in 1..n |-> numbers[i]]
    OBVIOUS
  <2> HIDE DEF numbers, n
  <2> QED BY <1>2, <2>1, ListIsSequence
<1>6. ToSet(found) = {numbers[i] : i \in K} /\ IsSequence(found)
  <2> HIDE DEF numbers, K, n
  <2>1. IsFiniteSet(K)
    BY <1>5, SomePositions
  <2> QED BY <1>5, <2>1, PickedSet, Picked
<1>7. ToSet(found) = K /\ ToSet(found) = {found[j] : j \in 1..Len(found)} /\ Len(found) \in Nat
  <2>1. {numbers[i] : i \in K} = K
    OBVIOUS
  <2> HIDE DEF found, K, numbers
  <2> QED BY <1>6, <2>1, ItemsAre, SequenceIsList
<1> HIDE DEF found
<1>8. IsSequence(conflicts) /\ ToSet(conflicts) = {Conflict(i) : i \in K}
  <2> HIDE DEF Conflict, K
  <2>1. conflicts = [j \in 1..Len(found) |-> conflicts[j]]
    OBVIOUS
  <2>2. IsSequence(conflicts) /\ Len(conflicts) = Len(found)
    <3> HIDE DEF conflicts
    <3> QED BY <1>7, <2>1, ListIsSequence
  <2>3. ToSet(conflicts) = {conflicts[j] : j \in 1..Len(found)}
    <3> HIDE DEF conflicts
    <3> QED BY <2>2, ItemsAre
  <2>4. {conflicts[j] : j \in 1..Len(found)} = {Conflict(i) : i \in K}
    BY <1>7
  <2> QED BY <2>2, <2>3, <2>4
<1> HIDE DEF conflicts
<1>9. ToSet(o) = {o[i] : i \in 1..n}
  BY ItemsAre
<1>10. ASSUME NEW c \in ToSet(conflicts)
       PROVE  /\ c.path = path
              /\ \E a, b \in ToSet(o) : Differ(a, b) /\ c.lang = a.value.lang /\ c.providers = <<a.provider, b.provider>>
  <2>1. PICK i \in K : c = Conflict(i)
    BY <1>8
  <2>2. i \in 1..n /\ first[i] \in 1..n /\ o[first[i]].value.lang = o[i].value.lang
    BY <1>3
  <2>3. c.path = path /\ c.lang = o[first[i]].value.lang /\ c.providers = <<o[first[i]].provider, o[i].provider>>
    BY <2>1, <2>2
  <2>4. Differ(o[first[i]], o[i])
    BY <2>2 DEF Differ
  <2>5. o[first[i]] \in ToSet(o) /\ o[i] \in ToSet(o)
    BY <1>9, <2>2
  <2> QED BY <2>3, <2>4, <2>5
<1>11. ASSUME NEW a \in ToSet(o), NEW b \in ToSet(o), Differ(a, b)
       PROVE  \E c \in ToSet(conflicts) : c.lang = a.value.lang
  <2>1. PICK i \in 1..n : a = o[i]
    BY <1>9
  <2>2. PICK j \in 1..n : b = o[j]
    BY <1>9
  <2>3. first[i] = first[j] /\ o[i].value.lang = o[j].value.lang /\ Norm[o[i].value.text] # Norm[o[j].value.text]
    BY <1>4, <1>11, <2>1, <2>2 DEF Differ
  <2>4. PICK k \in {i, j} : k \in K
    BY <2>3
  <2>5. Conflict(k) \in ToSet(conflicts) /\ Conflict(k).lang = a.value.lang
    BY <1>8, <2>1, <2>3, <2>4
  <2> QED BY <2>5
<1> QED BY <1>1, <1>8, <1>10, <1>11 DEF Tells

\* Localized texts are merged by language.
LEMMA LocalizedIs ==
    ASSUME NEW o, NEW offered, NEW policy, NEW kind, NEW path, InRank(o, offered, policy, kind, path)
    PROVE  /\ OncePerKey(LocalizedOffers(path, o).kept, offered, LAMBDA t : t.lang,
                         LAMBDA p : Rank(policy, kind, path, p))
           /\ Tells(LocalizedOffers(path, o).conflicts, path, offered)
<1> DEFINE n == Len(o)
           keys == Languages(o)
           kept == LocalizedOffers(path, o).kept
           R(p) == Rank(policy, kind, path, p)
<1>1. IsSequence(o) /\ ToSet(o) = offered /\ offered = {o[i] : i \in 1..n}
  BY ItemsAre DEF InRank
<1>2. n \in Nat /\ DOMAIN keys = 1..n /\ Len(keys) = n /\ \A i \in 1..n : keys[i] = o[i].value.lang
  <2>1. n \in Nat
    BY <1>1, SequenceIsList
  <2> HIDE DEF n
  <2>2. keys = [i \in 1..n |-> o[i].value.lang]
    BY DEF Languages, n
  <2> HIDE DEF keys
  <2>3. keys = [i \in 1..n |-> keys[i]]
    BY <2>2
  <2> QED BY <2>1, <2>2, <2>3, ListIsSequence
<1>3. kept = MergeUnique(o, keys)
  <2> DEFINE first == [i \in 1..Len(keys) |-> FirstOf(keys, i)]
  <2>1. kept = Pick(o, {i \in 1..n : first[i] = i})
    BY DEF LocalizedOffers, LocalizedByLanguage, Localized, Each, Languages, KeepAt
  <2>2. MergeUnique(o, keys) = Pick(o, {i \in 1..n : FirstOf(keys, i) = i})
    BY DEF MergeUnique, KeepAt
  <2> HIDE DEF keys, n
  <2>3. \A i \in 1..n : first[i] = FirstOf(keys, i)
    BY <1>2
  <2> HIDE DEF first, kept
  <2>4. {i \in 1..n : first[i] = i} = {i \in 1..n : FirstOf(keys, i) = i}
    BY <2>3
  <2> QED BY <2>1, <2>2, <2>4
<1> HIDE DEF kept, keys
<1>4. PICK at : KeepsFirst(kept, o, keys, at)
  BY <1>1, <1>2, <1>3, UniqueKeeps
<1>5. ToSet(kept) \subseteq offered /\ DOMAIN kept = 1..Len(kept)
  BY <1>2, <1>4, KeptIs
<1>6. \A i \in 1..n : \E j \in 1..Len(kept) : keys[at[j]] = keys[i] /\ R(kept[j].provider) <= R(o[i].provider)
  BY <1>2, <1>4, KeptIs
<1>7. \A j \in 1..Len(kept) : kept[j] = o[at[j]] /\ at[j] \in 1..n
  BY <1>4 DEF KeepsFirst
<1> HIDE DEF R, n
<1>8. \A j, l \in DOMAIN kept : kept[j].value.lang = kept[l].value.lang => j = l
  <2> SUFFICES ASSUME NEW j \in 1..Len(kept), NEW l \in 1..Len(kept), kept[j].value.lang = kept[l].value.lang PROVE j = l
    BY <1>5
  <2>1. keys[at[j]] = keys[at[l]]
    BY <1>2, <1>7
  <2> QED BY <1>4, <2>1 DEF KeepsFirst
<1>9. \A x \in offered : \E k \in ToSet(kept) : k.value.lang = x.value.lang /\ R(k.provider) <= R(x.provider)
  <2> TAKE x \in offered
  <2>1. PICK i \in 1..n : x = o[i]
    BY <1>1 DEF n
  <2>2. PICK j \in 1..Len(kept) : keys[at[j]] = keys[i] /\ R(kept[j].provider) <= R(o[i].provider)
    BY <1>6
  <2>3. kept[j].value.lang = x.value.lang /\ kept[j] \in ToSet(kept)
    BY <1>2, <1>5, <1>7, <2>1, <2>2 DEF ToSet
  <2> QED BY <2>1, <2>2, <2>3
<1>10. Range(kept) = ToSet(kept)
  BY DEF Range, ToSet
<1>11. OncePerKey(kept, offered, LAMBDA t : t.lang, LAMBDA p : R(p))
  BY <1>5, <1>8, <1>9, <1>10 DEF OncePerKey
<1>12. Tells(LocalizedOffers(path, o).conflicts, path, offered)
  BY <1>1, LocalizedTells
<1> QED BY <1>11, <1>12 DEF R, kept

\* The order of the answers is forgotten by a merge.
LEMMA OrderForgotten ==
    ASSUME NEW docs, IsSequence(docs), NEW policy, HasLists(policy), NEW other \in Rearranged(docs, policy),
           NEW kind \in {"movie", "television", "anime"}
    PROVE  Merged(kind, other, policy) = Merged(kind, docs, policy)
<1>1. MergeMovie(other, policy) = MergeMovie(docs, policy)
  BY OrderedAlike DEF MergeMovie
<1>2. MergeSeries(other, policy) = MergeSeries(docs, policy)
  BY OrderedAlike DEF MergeSeries
<1>3. MergeAnime(other, policy) = MergeAnime(docs, policy)
  <2>1. AnimeBase(other, policy) = AnimeBase(docs, policy)
    BY OrderedAlike DEF AnimeBase
  <2>2. \A field : MergeAnimeTexts(other, policy, field) = MergeAnimeTexts(docs, policy, field)
    BY OrderedAlike DEF MergeAnimeTexts
  <2> QED BY <2>1, <2>2 DEF MergeAnime
<1> QED BY <1>1, <1>2, <1>3 DEF Merged

\* Kept is the first text of every language.
ByLanguage(kept, offered, policy, kind, path) ==
    OncePerKey(kept, offered, LAMBDA t : t.lang, LAMBDA p : Rank(policy, kind, path, p))

\* A localized field of documents.
LEMMA FieldIs ==
    ASSUME NEW docs, IsSequence(docs), NEW policy, HasLists(policy), NEW kind, NEW path, NEW field,
           \A d \in ToSet(docs) : IsSequence(d[field]),
           NEW m, m = MergeLocalized(docs, policy, kind, path, field)
    PROVE  /\ ByLanguage(m.kept, OfferedIn(ToSet(docs), field), policy, kind, path)
           /\ Tells(m.conflicts, path, OfferedIn(ToSet(docs), field))
<1> DEFINE ordered == Ordered(docs, policy, kind, path)
           offered == OfferedIn(ToSet(docs), field)
           o == Offers(ordered, field)
<1>1. InRank(ordered, ToSet(docs), policy, kind, path)
  BY OrderedIs
<1>2. m = LocalizedOffers(path, o)
  BY DEF MergeLocalized
<1> HIDE DEF ordered
<1>3. InRank(o, offered, policy, kind, path)
  BY <1>1, OffersInRank
<1> HIDE DEF o, offered
<1>4. /\ OncePerKey(LocalizedOffers(path, o).kept, offered, LAMBDA t : t.lang, LAMBDA p : Rank(policy, kind, path, p))
      /\ Tells(LocalizedOffers(path, o).conflicts, path, offered)
  BY <1>3, LocalizedIs
<1> QED BY <1>2, <1>4 DEF ByLanguage, offered

\* Conflicts of one field among others.
LEMMA TellsThere ==
    ASSUME NEW told, NEW path, NEW offered, Tells(told, path, offered), NEW conflicts,
           ToSet(told) \subseteq Range(conflicts), \A c \in Range(conflicts) : c.path = path => c \in ToSet(told)
    PROVE  ConflictsAt(conflicts, path, offered)
BY DEF ConflictsAt, Tells

\* What two sequences have together.
LEMMA JoinedSet ==
    ASSUME NEW s, NEW t, IsSequence(s), IsSequence(t)
    PROVE  ToSet(s \o t) = ToSet(s) \cup ToSet(t)
<1> DEFINE n == Len(s)
           m == Len(t)
           both == s \o t
<1>1. /\ IsSequence(both) /\ Len(both) = n + m /\ n \in Nat /\ m \in Nat
      /\ \A i \in 1..n : both[i] = s[i]
      /\ \A i \in 1..m : both[n + i] = t[i]
  BY Joined, SequenceIsList
<1>2. ToSet(s) = {s[i] : i \in 1..n}
  BY ItemsAre
<1>3. ToSet(t) = {t[i] : i \in 1..m}
  BY ItemsAre
<1> HIDE DEF both, n, m
<1>4. ToSet(both) = {both[i] : i \in 1..(n + m)}
  BY <1>1, ItemsAre
<1>5. \A i \in 1..(n + m) : i \in 1..n \/ (i - n \in 1..m /\ n + (i - n) = i)
  BY <1>1
<1>6. \A i \in 1..(n + m) : both[i] \in ToSet(s) \cup ToSet(t)
  <2> TAKE i \in 1..(n + m)
  <2>1. CASE i \in 1..n
    BY <1>1, <1>2, <2>1
  <2>2. CASE i - n \in 1..m /\ n + (i - n) = i
    <3>1. both[i] = t[i - n]
      BY <1>1, <2>2
    <3> QED BY <1>3, <2>2, <3>1
  <2> QED BY <1>5, <2>1, <2>2
<1>7. (\A i \in 1..n : i \in 1..(n + m)) /\ (\A i \in 1..m : n + i \in 1..(n + m))
  BY <1>1
<1>8. ToSet(s) \subseteq ToSet(both)
  BY <1>1, <1>2, <1>4, <1>7
<1>9. ToSet(t) \subseteq ToSet(both)
  BY <1>1, <1>3, <1>4, <1>7
<1>10. ToSet(both) = ToSet(s) \cup ToSet(t)
  BY <1>4, <1>6, <1>8, <1>9
<1> QED BY <1>10 DEF both

\* Kept is the first offer of every key.
KeptOnce(kept, offered, keyOf, policy, kind, path) ==
    OncePerKey(kept, offered, LAMBDA v : keyOf[v], LAMBDA p : Rank(policy, kind, path, p))

\* MergeUnique keeps the first offer of every key.
LEMMA OnceIs ==
    ASSUME NEW o, NEW offered, NEW policy, NEW kind, NEW path, InRank(o, offered, policy, kind, path),
           NEW keyOf, NEW keys, DOMAIN keys = 1..Len(o), \A i \in 1..Len(o) : keys[i] = keyOf[o[i].value]
    PROVE  KeptOnce(MergeUnique(o, keys), offered, keyOf, policy, kind, path)
<1> DEFINE n == Len(o)
           kept == MergeUnique(o, keys)
           R(p) == Rank(policy, kind, path, p)
<1>1. IsSequence(o) /\ offered = {o[i] : i \in 1..n}
  BY ItemsAre DEF InRank
<1>2. PICK at : KeepsFirst(kept, o, keys, at)
  BY <1>1, UniqueKeeps
<1> HIDE DEF kept
<1>3. ToSet(kept) \subseteq offered /\ DOMAIN kept = 1..Len(kept)
  BY <1>2, KeptIs
<1>4. \A i \in 1..n : \E j \in 1..Len(kept) : keys[at[j]] = keys[i] /\ R(kept[j].provider) <= R(o[i].provider)
  BY <1>2, KeptIs
<1>5. \A j \in 1..Len(kept) : kept[j] = o[at[j]] /\ at[j] \in 1..n
  BY <1>2 DEF KeepsFirst
<1> HIDE DEF R
<1>6. \A j, l \in DOMAIN kept : keyOf[kept[j].value] = keyOf[kept[l].value] => j = l
  <2> SUFFICES ASSUME NEW j \in 1..Len(kept), NEW l \in 1..Len(kept), keyOf[kept[j].value] = keyOf[kept[l].value] PROVE j = l
    BY <1>3
  <2>1. keys[at[j]] = keys[at[l]]
    BY <1>5
  <2> QED BY <1>2, <2>1 DEF KeepsFirst
<1>7. \A x \in offered : \E k \in ToSet(kept) : keyOf[k.value] = keyOf[x.value] /\ R(k.provider) <= R(x.provider)
  <2> TAKE x \in offered
  <2>1. PICK i \in 1..n : x = o[i]
    BY <1>1
  <2>2. PICK j \in 1..Len(kept) : keys[at[j]] = keys[i] /\ R(kept[j].provider) <= R(o[i].provider)
    BY <1>4
  <2>3. keyOf[kept[j].value] = keyOf[x.value] /\ kept[j] \in ToSet(kept)
    BY <1>3, <1>5, <2>1, <2>2 DEF ToSet
  <2> QED BY <2>1, <2>2, <2>3
<1>8. Range(kept) = ToSet(kept)
  BY DEF Range, ToSet
<1>9. OncePerKey(kept, offered, LAMBDA v : keyOf[v], LAMBDA p : R(p))
  BY <1>3, <1>6, <1>7, <1>8 DEF OncePerKey
<1> QED BY <1>9 DEF KeptOnce, R, kept

-----------------------------------------------------------------------------
(***************************************************************************)
(* Movies and anime.                                                       *)
(***************************************************************************)

\* What documents say of a field depends on the set of documents.
LEMMA OfferedIs ==
    ASSUME NEW docs, IsSequence(docs)
    PROVE  /\ Offered(docs, LAMBDA d : d.titles) = OfferedIn(ToSet(docs), "titles")
           /\ Offered(docs, LAMBDA d : d.summaries) = OfferedIn(ToSet(docs), "summaries")
           /\ Offered(docs, LAMBDA d : d.genres) = OfferedIn(ToSet(docs), "genres")
<1>1. ToSet(docs) = {docs[i] : i \in 1..Len(docs)}
  BY ItemsAre
<1>2. \A s : Range(s) = ToSet(s)
  BY DEF Range, ToSet
<1>3. Offered(docs, LAMBDA d : d.titles) = OfferedIn(ToSet(docs), "titles")
  BY <1>1, <1>2 DEF Offered, OfferedIn
<1>4. Offered(docs, LAMBDA d : d.summaries) = OfferedIn(ToSet(docs), "summaries")
  BY <1>1, <1>2 DEF Offered, OfferedIn
<1>5. Offered(docs, LAMBDA d : d.genres) = OfferedIn(ToSet(docs), "genres")
  BY <1>1, <1>2 DEF Offered, OfferedIn
<1> QED BY <1>3, <1>4, <1>5

\* Conflicts of two fields that are told one after the other.
LEMMA ToldTogether ==
    ASSUME NEW a, NEW b, NEW pathA, NEW pathB, pathA # pathB, NEW offersA, NEW offersB,
           Tells(a, pathA, offersA), Tells(b, pathB, offersB)
    PROVE  /\ IsSequence(a \o b) /\ \A c \in ToSet(a \o b) : c.path \in {pathA, pathB}
           /\ ConflictsAt(a \o b, pathA, offersA) /\ ConflictsAt(a \o b, pathB, offersB)
<1>1. IsSequence(a) /\ IsSequence(b)
  BY DEF Tells
<1>2. IsSequence(a \o b) /\ ToSet(a \o b) = ToSet(a) \cup ToSet(b)
  BY <1>1, Joined, JoinedSet
<1>3. Range(a \o b) = ToSet(a \o b)
  BY DEF Range, ToSet
<1>4. (\A c \in ToSet(a) : c.path = pathA) /\ (\A c \in ToSet(b) : c.path = pathB)
  BY DEF Tells
<1>5. ConflictsAt(a \o b, pathA, offersA)
  BY <1>2, <1>3, <1>4, TellsThere
<1>6. ConflictsAt(a \o b, pathB, offersB)
  BY <1>2, <1>3, <1>4, TellsThere
<1> QED BY <1>2, <1>4, <1>5, <1>6

\* A movie is merged by precedence.
LEMMA MovieIs ==
    ASSUME NEW docs, IsSequence(docs), NEW policy, HasLists(policy),
           \A d \in ToSet(docs) : IsDocument("movie", d)
    PROVE  MovieMerged(MergeMovie(docs, policy), docs, policy)
<1> DEFINE first == Ordered(docs, policy, "movie", <<"movie">>)
           titles == MergeLocalized(first, policy, "movie", <<"movie", "titles">>, "titles")
           summaries == MergeLocalized(first, policy, "movie", <<"movie", "summaries">>, "summaries")
           second == Ordered(first, policy, "movie", <<"movie", "genres">>)
           o == Offers(second, "genres")
           keys == [i \in 1..Len(o) |-> Norm[o[i].value]]
           merged == MergeMovie(docs, policy)
           Documents1 == ToSet(docs)
<1>1. IsSequence(first) /\ ToSet(first) = Documents1
  BY OrderedIs DEF InRank
<1>2. /\ merged.titles = titles.kept /\ merged.summaries = summaries.kept
      /\ merged.genres = MergeUnique(o, keys)
      /\ merged.conflicts = titles.conflicts \o summaries.conflicts
  BY DEF MergeMovie, MergeMovieFields, MergedMovie, UniqueGenres, Each
<1>3. \A d \in ToSet(first) : IsSequence(d["titles"]) /\ IsSequence(d["summaries"]) /\ IsSequence(d["genres"])
  BY <1>1 DEF IsDocument
<1> HIDE DEF first, merged
<1>4. /\ ByLanguage(titles.kept, OfferedIn(ToSet(first), "titles"), policy, "movie", <<"movie", "titles">>)
      /\ Tells(titles.conflicts, <<"movie", "titles">>, OfferedIn(ToSet(first), "titles"))
  <2> HIDE DEF titles
  <2>1. titles = MergeLocalized(first, policy, "movie", <<"movie", "titles">>, "titles")
    BY DEF titles
  <2> QED BY <1>1, <1>3, <2>1, FieldIs
<1>5. /\ ByLanguage(summaries.kept, OfferedIn(ToSet(first), "summaries"), policy, "movie", <<"movie", "summaries">>)
      /\ Tells(summaries.conflicts, <<"movie", "summaries">>, OfferedIn(ToSet(first), "summaries"))
  <2> HIDE DEF summaries
  <2>1. summaries = MergeLocalized(first, policy, "movie", <<"movie", "summaries">>, "summaries")
    BY DEF summaries
  <2> QED BY <1>1, <1>3, <2>1, FieldIs
<1>6. KeptOnce(MergeUnique(o, keys), OfferedIn(ToSet(first), "genres"), Norm, policy, "movie", <<"movie", "genres">>)
  <2>1. InRank(second, ToSet(first), policy, "movie", <<"movie", "genres">>)
    BY <1>1, OrderedIs
  <2> HIDE DEF second
  <2>2. InRank(o, OfferedIn(ToSet(first), "genres"), policy, "movie", <<"movie", "genres">>)
    BY <1>3, <2>1, OffersInRank
  <2> HIDE DEF o
  <2>3. DOMAIN keys = 1..Len(o) /\ \A i \in 1..Len(o) : keys[i] = Norm[o[i].value]
    OBVIOUS
  <2> HIDE DEF keys
  <2> QED BY <2>2, <2>3, OnceIs
<1> HIDE DEF titles, summaries, second, o, keys
<1>7. <<"movie", "titles">> # <<"movie", "summaries">>
  OBVIOUS
<1>8. /\ ConflictsAt(titles.conflicts \o summaries.conflicts, <<"movie", "titles">>, OfferedIn(ToSet(first), "titles"))
      /\ ConflictsAt(titles.conflicts \o summaries.conflicts, <<"movie", "summaries">>, OfferedIn(ToSet(first), "summaries"))
  BY <1>4, <1>5, <1>7, ToldTogether
<1>9. ByPrecedence(merged.titles, merged.conflicts, Offered(docs, LAMBDA d : d.titles), policy, "movie", <<"movie", "titles">>)
  <2>1. Offered(docs, LAMBDA d : d.titles) = OfferedIn(ToSet(first), "titles")
    BY <1>1, OfferedIs
  <2> QED BY <1>2, <1>4, <1>8, <2>1 DEF ByPrecedence, ByLanguage
<1>10. ByPrecedence(merged.summaries, merged.conflicts, Offered(docs, LAMBDA d : d.summaries), policy, "movie", <<"movie", "summaries">>)
  <2>1. Offered(docs, LAMBDA d : d.summaries) = OfferedIn(ToSet(first), "summaries")
    BY <1>1, OfferedIs
  <2> QED BY <1>2, <1>5, <1>8, <2>1 DEF ByPrecedence, ByLanguage
<1>11. OncePerKey(merged.genres, Offered(docs, LAMBDA d : d.genres), LAMBDA g : Norm[g],
                  LAMBDA p : Rank(policy, "movie", <<"movie", "genres">>, p))
  <2>1. Offered(docs, LAMBDA d : d.genres) = OfferedIn(ToSet(first), "genres")
    BY <1>1, OfferedIs
  <2> QED BY <1>2, <1>6, <2>1 DEF KeptOnce
<1> QED BY <1>9, <1>10, <1>11 DEF MovieMerged, merged

\* Kept is the first of the equal texts.
TextsOnce(kept, offered, policy, field) ==
    OncePerKey(kept, offered, LAMBDA t : Norm[t.text], LAMBDA p : Rank(policy, "anime", <<"anime", field>>, p))

\* The texts of an anime are kept once.
LEMMA TextsAre ==
    ASSUME NEW docs, IsSequence(docs), NEW policy, HasLists(policy), NEW field,
           \A d \in ToSet(docs) : IsSequence(d[field])
    PROVE  TextsOnce(MergeAnimeTexts(docs, policy, field), OfferedIn(ToSet(docs), field), policy, field)
<1> DEFINE offered == OfferedIn(ToSet(docs), field)
           kept == MergeAnimeTexts(docs, policy, field)
           ordered == Ordered(docs, policy, "anime", <<"anime", field>>)
           o == Offers(ordered, field)
           keys == [i \in 1..Len(o) |-> Norm[o[i].value.text]]
           keyOf == [v \in {x.value : x \in offered} |-> Norm[v.text]]
<1>1. InRank(ordered, ToSet(docs), policy, "anime", <<"anime", field>>)
  BY OrderedIs
<1>2. kept = MergeUnique(o, keys)
  BY DEF MergeAnimeTexts, UniqueTexts, Each
<1> HIDE DEF ordered, kept
<1>3. InRank(o, offered, policy, "anime", <<"anime", field>>)
  BY <1>1, OffersInRank
<1> HIDE DEF o, offered
<1>4. \A x \in offered : keyOf[x.value] = Norm[x.value.text]
  OBVIOUS
<1>5. offered = {o[i] : i \in 1..Len(o)}
  BY <1>3, ItemsAre DEF InRank
<1>6. DOMAIN keys = 1..Len(o) /\ \A i \in 1..Len(o) : keys[i] = Norm[o[i].value.text]
  OBVIOUS
<1> HIDE DEF keyOf, keys
<1>7. KeptOnce(MergeUnique(o, keys), offered, keyOf, policy, "anime", <<"anime", field>>)
  <2>1. \A i \in 1..Len(o) : keys[i] = keyOf[o[i].value]
    BY <1>4, <1>5, <1>6
  <2> QED BY <1>3, <1>6, <2>1, OnceIs
<1>8. Range(kept) \subseteq offered /\ \A i \in DOMAIN kept : kept[i] \in offered
  BY <1>2, <1>7 DEF KeptOnce, OncePerKey, Range
<1>9. \A i, j \in DOMAIN kept : Norm[kept[i].value.text] = Norm[kept[j].value.text] => i = j
  BY <1>2, <1>4, <1>7, <1>8 DEF KeptOnce, OncePerKey
<1>10. \A x \in offered : \E k \in Range(kept) :
           Norm[k.value.text] = Norm[x.value.text]
           /\ Rank(policy, "anime", <<"anime", field>>, k.provider) <= Rank(policy, "anime", <<"anime", field>>, x.provider)
  BY <1>2, <1>4, <1>7, <1>8 DEF KeptOnce, OncePerKey
<1> QED BY <1>8, <1>9, <1>10 DEF OncePerKey, TextsOnce, kept, offered

\* The first of the positions in a set.
LEMMA FirstNth ==
    ASSUME NEW K \in SUBSET Nat, IsFiniteSet(K), K # {}
    PROVE  1 \in 1..Cardinality(K) /\ Nth(K, 1) \in K /\ \A m \in K : Nth(K, 1) <= m
<1> DEFINE Upto(i) == {k \in K : k <= i}
           f == Nth(K, 1)
<1>1. PICK m \in K : \A k \in K : m <= k
  BY LeastNumber
<1>2. m \in Nat
  OBVIOUS
<1>3. Upto(m) = {m}
  <2>1. \A k \in K : k \in Nat /\ (k <= m => k = m)
    BY <1>1, <1>2
  <2>2. m \in K /\ m <= m
    BY <1>1, <1>2
  <2> QED BY <2>1, <2>2
<1>4. Cardinality(Upto(m)) = 1
  BY <1>3, FS_Singleton
<1>5. f = CHOOSE i \in K : Cardinality(Upto(i)) = 1
  BY DEF Nth
<1>6. f \in K /\ Cardinality(Upto(f)) = 1
  <2> HIDE DEF f, Upto
  <2> QED BY <1>4, <1>5
<1> HIDE DEF f
<1>7. m \in Upto(f) /\ f \in Upto(f)
  BY <1>1, <1>2, <1>6
<1>8. IsFiniteSet(Upto(f))
  <2>1. Upto(f) \subseteq K
    OBVIOUS
  <2> HIDE DEF Upto
  <2> QED BY <2>1, FS_Subset
<1> HIDE DEF Upto
<1>9. \E x : Upto(f) = {x}
  BY <1>6, <1>8, FS_Singleton
<1>10. f = m
  BY <1>7, <1>9
<1>11. Cardinality(K) \in Nat /\ Cardinality(K) # 0
  BY FS_CardinalityType, FS_EmptySet
<1> QED BY <1>1, <1>6, <1>10, <1>11 DEF f

\* The hierarchy of an anime is that of the first document that has one.
IsBase(base, docs, policy) ==
    \E i \in 1..Len(docs) :
       /\ base = docs[i]
       /\ \A j \in 1..Len(docs) :
             IF (docs[i].cours = {}) = (docs[j].cours = {})
             THEN Rank(policy, "anime", <<"anime">>, docs[i].provider) <= Rank(policy, "anime", <<"anime">>, docs[j].provider)
             ELSE docs[i].cours # {}

\* AnimeBase is such a document.
LEMMA BaseIs ==
    ASSUME NEW docs, IsSequence(docs), docs # <<>>, NEW policy, HasLists(policy)
    PROVE  IsBase(AnimeBase(docs, policy), docs, policy)
<1> DEFINE t == Ordered(docs, policy, "anime", <<"anime">>)
           n == Len(t)
           K == {i \in 1..n : t[i].cours # {}}
           having == Pick(t, K)
           both == having \o t
           R(d) == Rank(policy, "anime", <<"anime">>, d.provider)
<1>1. AnimeBase(docs, policy) = both[1]
  BY DEF AnimeBase, Select
<1>2. InRank(t, ToSet(docs), policy, "anime", <<"anime">>)
  BY OrderedIs
<1> HIDE DEF t
<1>3. IsSequence(t) /\ n \in Nat /\ {t[i] : i \in 1..n} = {docs[i] : i \in 1..Len(docs)}
  BY <1>2, ItemsAre, SequenceIsList DEF InRank
<1>4. n # 0
  <2>1. Len(docs) \in Nat /\ Len(docs) # 0
    BY SequenceIsList DEF IsSequence
  <2>2. docs[1] \in {docs[i] : i \in 1..Len(docs)}
    BY <2>1
  <2>3. docs[1] \in {t[i] : i \in 1..n}
    BY <1>3, <2>2
  <2> QED BY <2>3
<1>5. \A i, j \in 1..n : i <= j => R(t[i]) <= R(t[j])
  BY <1>2 DEF InRank
<1> HIDE DEF R, n
<1>6. K \in SUBSET (1..n) /\ K \in SUBSET Nat /\ IsFiniteSet(K)
  <2>1. K \in SUBSET (1..n)
    OBVIOUS
  <2> HIDE DEF K
  <2>2. K \in SUBSET (1..Len(t))
    BY <2>1 DEF n
  <2> QED BY <1>3, <2>1, <2>2, SomePositions
<1>7. IsSequence(having) /\ Len(having) = Cardinality(K)
  <2> HIDE DEF K
  <2> QED BY <1>6, Picked
<1>8. PICK a \in 1..n : both[1] = t[a] /\ (t[a].cours = {} => K = {}) /\ \A b \in 1..n : (t[a].cours = {} \/ b \in K) => a <= b
  <2>1. CASE K = {}
    <3>1. Len(having) = 0
      BY <1>7, <2>1, FS_EmptySet
    <3>2. both[Len(having) + 1] = t[1]
      <4> HIDE DEF having
      <4>1. 1 \in 1..Len(t)
        BY <1>3, <1>4 DEF n
      <4> QED BY <1>3, <1>7, <4>1, Joined
    <3>3. 1 \in 1..n /\ \A b \in 1..n : 1 <= b
      BY <1>3, <1>4
    <3> HIDE DEF both
    <3>4. both[1] = t[1]
      BY <3>1, <3>2
    <3> QED BY <2>1, <3>3, <3>4
  <2>2. CASE K # {}
    <3> DEFINE a == Nth(K, 1)
    <3>1. 1 \in 1..Cardinality(K) /\ a \in K /\ \A m \in K : a <= m
      <4> HIDE DEF K
      <4> QED BY <1>6, <2>2, FirstNth
    <3>2. having[1] = t[a]
      <4> HIDE DEF K
      <4> QED BY <3>1 DEF Pick
    <3>3. both[1] = having[1]
      <4> HIDE DEF having
      <4> QED BY <1>3, <1>7, <3>1, Joined
    <3>4. a \in 1..n /\ t[a].cours # {}
      BY <3>1
    <3> HIDE DEF a, both, having, K
    <3> QED BY <3>1, <3>2, <3>3, <3>4
  <2> QED BY <2>1, <2>2
<1>9. PICK i \in 1..Len(docs) : docs[i] = t[a]
  BY <1>3
<1>10. ASSUME NEW j \in 1..Len(docs)
       PROVE  IF (docs[i].cours = {}) = (docs[j].cours = {}) THEN R(docs[i]) <= R(docs[j]) ELSE docs[i].cours # {}
  <2>1. PICK b \in 1..n : docs[j] = t[b]
    BY <1>3
  <2>2. CASE t[a].cours = {}
    <3>1. t[b].cours = {} /\ a <= b
      BY <1>8, <2>2
    <3> QED BY <1>5, <1>9, <2>1, <2>2, <3>1
  <2>3. CASE t[a].cours # {}
    <3>1. CASE t[b].cours # {}
      <4>1. b \in K
        BY <3>1
      <4>2. a <= b
        BY <1>8, <4>1
      <4> QED BY <1>5, <1>9, <2>1, <2>3, <3>1, <4>2
    <3>2. CASE t[b].cours = {}
      BY <1>9, <2>1, <2>3, <3>2
    <3> QED BY <3>1, <3>2
  <2> QED BY <2>2, <2>3
<1> HIDE DEF both, K, having
<1> QED BY <1>1, <1>8, <1>9, <1>10 DEF R, IsBase

\* An anime is merged by precedence.
LEMMA AnimeIs ==
    ASSUME NEW docs, IsSequence(docs), docs # <<>>, NEW policy, HasLists(policy),
           \A d \in ToSet(docs) : IsDocument("anime", d)
    PROVE  AnimeMerged(MergeAnime(docs, policy), docs, policy)
<1> DEFINE merged == MergeAnime(docs, policy)
<1>1. /\ merged.titles = MergeAnimeTexts(docs, policy, "titles")
      /\ merged.summaries = MergeAnimeTexts(docs, policy, "summaries")
      /\ merged.cours = AnimeBase(docs, policy).cours /\ merged.base = AnimeBase(docs, policy).provider
  BY DEF MergeAnime
<1> HIDE DEF merged
<1>2. \A d \in ToSet(docs) : IsSequence(d["titles"]) /\ IsSequence(d["summaries"])
  BY DEF IsDocument
<1>3. OncePerKey(merged.titles, Offered(docs, LAMBDA d : d.titles), LAMBDA t : Norm[t.text],
                 LAMBDA p : Rank(policy, "anime", <<"anime", "titles">>, p))
  <2>1. Offered(docs, LAMBDA d : d.titles) = OfferedIn(ToSet(docs), "titles")
    BY OfferedIs
  <2>2. TextsOnce(merged.titles, OfferedIn(ToSet(docs), "titles"), policy, "titles")
    BY <1>1, <1>2, TextsAre
  <2> QED BY <2>1, <2>2 DEF TextsOnce
<1>4. OncePerKey(merged.summaries, Offered(docs, LAMBDA d : d.summaries), LAMBDA t : Norm[t.text],
                 LAMBDA p : Rank(policy, "anime", <<"anime", "summaries">>, p))
  <2>1. Offered(docs, LAMBDA d : d.summaries) = OfferedIn(ToSet(docs), "summaries")
    BY OfferedIs
  <2>2. TextsOnce(merged.summaries, OfferedIn(ToSet(docs), "summaries"), policy, "summaries")
    BY <1>1, <1>2, TextsAre
  <2> QED BY <2>1, <2>2 DEF TextsOnce
<1>5. \E i \in 1..Len(docs) :
          /\ merged.base = docs[i].provider /\ merged.cours = docs[i].cours
          /\ \A j \in 1..Len(docs) :
                IF (docs[i].cours = {}) = (docs[j].cours = {})
                THEN Rank(policy, "anime", <<"anime">>, docs[i].provider) <= Rank(policy, "anime", <<"anime">>, docs[j].provider)
                ELSE docs[i].cours # {}
  <2>1. IsBase(AnimeBase(docs, policy), docs, policy)
    BY BaseIs
  <2> QED BY <1>1, <2>1 DEF IsBase
<1> QED BY <1>3, <1>4, <1>5 DEF AnimeMerged, merged

-----------------------------------------------------------------------------
(***************************************************************************)
(* Television.                                                             *)
(***************************************************************************)

\* A finite set as a sequence.
LEMMA SetToSeqIs ==
    ASSUME NEW S, IsFiniteSet(S)
    PROVE  IsSequence(SetToSeq(S)) /\ ToSet(SetToSeq(S)) = S
<1> DEFINE n == Cardinality(S)
           q == SetToSeq(S)
<1>1. n \in Nat /\ \E f : f \in Bijection(1..n, S)
  BY FS_CardinalityType DEF ExistsBijection
<1>2. \E f \in [1..n -> S] : IsInjective(f)
  BY <1>1 DEF Bijection, Injection
<1>3. q \in [1..n -> S] /\ IsInjective(q)
  BY <1>2 DEF SetToSeq
<1> HIDE DEF q, n
<1>4. IsSequence(q) /\ Len(q) = n
  <2>1. q = [i \in 1..n |-> q[i]]
    BY <1>3
  <2> QED BY <1>1, <2>1, ListIsSequence
<1>5. q \in Surjection(1..n, S)
  <2>1. q \in Injection(1..n, S)
    BY <1>3 DEF Injection
  <2>2. IsFiniteSet(1..n) /\ Cardinality(1..n) = n
    BY <1>1, FS_Interval
  <2>3. IsFiniteSet(1..n) /\ IsFiniteSet(S) /\ Cardinality(1..n) = Cardinality(S)
    BY <2>2 DEF n
  <2> QED BY <2>1, <2>3, FS_Injection
<1>6. ToSet(q) = {q[i] : i \in 1..n}
  BY <1>4, ItemsAre
<1>7. ToSet(q) = S
  <2>1. \A x \in S : \E i \in 1..n : q[i] = x
    BY <1>5 DEF Surjection
  <2> QED BY <1>3, <1>6, <2>1
<1> QED BY <1>4, <1>7 DEF q

\* Sorting keeps the items.
LEMMA PlacedSet ==
    ASSUME NEW s, IsSequence(s), NEW key \in [1..Len(s) -> Nat]
    PROVE  IsSequence(PlacedBy(s, key)) /\ ToSet(PlacedBy(s, key)) = ToSet(s)
<1> DEFINE n == Len(s)
           t == PlacedBy(s, key)
<1>1. PICK q : Sorted(t, s, key, q)
  BY PlacedIs
<1> HIDE DEF t
<1>2. IsSequence(t) /\ Len(t) = n /\ t = [p \in 1..n |-> s[q[p]]]
  BY <1>1 DEF Sorted
<1>3. q \in [1..n -> 1..n] /\ \A i \in 1..n : \E p \in 1..n : q[p] = i
  BY <1>1 DEF Sorted, Sorts
<1>4. ToSet(t) = {t[p] : p \in 1..n}
  <2>0. IsSequence(t)
    BY <1>2
  <2>1. ToSet(t) = {t[p] : p \in 1..Len(t)}
    BY <2>0, ItemsAre
  <2> QED BY <1>2, <2>1
<1>5. ToSet(s) = {s[i] : i \in 1..n}
  BY ItemsAre
<1> HIDE DEF n
<1>6. \A p \in 1..n : q[p] \in 1..n /\ t[p] = s[q[p]]
  BY <1>2, <1>3
<1>7. \A i \in 1..n : \E p \in 1..n : t[p] = s[i]
  <2> TAKE i \in 1..n
  <2>1. PICK p \in 1..n : q[p] = i
    BY <1>3
  <2> QED BY <1>6, <2>1
<1>8. ToSet(t) = ToSet(s)
  <2>1. \A p \in 1..n : t[p] \in ToSet(s)
    BY <1>5, <1>6
  <2>2. \A i \in 1..n : s[i] \in ToSet(t)
    BY <1>4, <1>7
  <2> QED BY <1>4, <1>5, <2>1, <2>2
<1> QED BY <1>2, <1>8 DEF t

\* What sequences have together.
LEMMA FlatSet ==
    ASSUME NEW seqs, IsSequence(seqs), \A i \in 1..Len(seqs) : IsSequence(seqs[i])
    PROVE  IsSequence(FlattenSeq(seqs)) /\ ToSet(FlattenSeq(seqs)) = UNION {ToSet(seqs[i]) : i \in 1..Len(seqs)}
<1> DEFINE flat == FlattenSeq(seqs)
           n == Len(seqs)
<1>1. PICK from : Joins(flat, seqs, n, from)
  BY FlattenIs
<1> HIDE DEF flat, n
<1>2. /\ IsSequence(flat) /\ from \in [1..Len(flat) -> 1..n]
      /\ \A k \in 1..Len(flat) : flat[k] \in ToSet(seqs[from[k]])
      /\ \A i \in 1..n : \A x \in ToSet(seqs[i]) : \E k \in 1..Len(flat) : flat[k] = x
  BY <1>1 DEF Joins
<1>3. ToSet(flat) = {flat[k] : k \in 1..Len(flat)}
  BY <1>2, ItemsAre
<1>4. \A x \in ToSet(flat) : \E i \in 1..n : x \in ToSet(seqs[i])
  BY <1>2, <1>3
<1>5. \A i \in 1..n : ToSet(seqs[i]) \subseteq ToSet(flat)
  BY <1>2, <1>3
<1>6. ToSet(flat) = UNION {ToSet(seqs[i]) : i \in 1..n}
  BY <1>4, <1>5
<1> QED BY <1>2, <1>6 DEF flat, n

\* The items of a set in order of their keys.
LEMMA InOrderIs ==
    ASSUME NEW S, IsFiniteSet(S), NEW key \in [1..Len(SetToSeq(S)) -> Nat]
    PROVE  IsSequence(PlacedBy(SetToSeq(S), key)) /\ ToSet(PlacedBy(SetToSeq(S), key)) = S
<1> DEFINE s == SetToSeq(S)
<1>1. IsSequence(s) /\ ToSet(s) = S /\ key \in [1..Len(s) -> Nat]
  BY SetToSeqIs
<1> HIDE DEF s
<1>2. IsSequence(PlacedBy(s, key)) /\ ToSet(PlacedBy(s, key)) = ToSet(s)
  BY <1>1, PlacedSet
<1> QED BY <1>1, <1>2 DEF s

\* What the sequences of some things have together.
LEMMA Gathered ==
    ASSUME NEW t, IsSequence(t), NEW of, \A x \in ToSet(t) : IsSequence(of[x]),
           NEW seqs, seqs = [i \in 1..Len(t) |-> seqs[i]], \A i \in 1..Len(t) : t[i] \in ToSet(t) => seqs[i] = of[t[i]]
    PROVE  IsSequence(FlattenSeq(seqs)) /\ ToSet(FlattenSeq(seqs)) = UNION {ToSet(of[x]) : x \in ToSet(t)}
<1> DEFINE S == ToSet(t)
<1>1. Len(t) \in Nat /\ S = {t[i] : i \in 1..Len(t)}
  BY SequenceIsList, ItemsAre
<1> HIDE DEF S
<1>2. \A i \in 1..Len(t) : t[i] \in S /\ seqs[i] = of[t[i]]
  BY <1>1 DEF S
<1>3. IsSequence(seqs) /\ Len(seqs) = Len(t)
  BY <1>1, ListIsSequence
<1>4. \A x \in S : IsSequence(of[x])
  BY DEF S
<1>5. IsSequence(FlattenSeq(seqs)) /\ ToSet(FlattenSeq(seqs)) = UNION {ToSet(seqs[i]) : i \in 1..Len(seqs)}
  <2>1. \A i \in 1..Len(seqs) : IsSequence(seqs[i])
    BY <1>2, <1>3, <1>4
  <2>2. IsSequence(seqs)
    BY <1>3
  <2> QED BY <2>1, <2>2, FlatSet
<1>6. UNION {ToSet(seqs[i]) : i \in 1..Len(seqs)} = UNION {ToSet(of[x]) : x \in S}
  <2>1. \A x \in S : \E i \in 1..Len(t) : seqs[i] = of[x]
    <3> TAKE x \in S
    <3>1. PICK i \in 1..Len(t) : x = t[i]
      BY <1>1
    <3> QED BY <1>2, <3>1
  <2>2. \A i \in 1..Len(t) : ToSet(seqs[i]) \subseteq UNION {ToSet(of[x]) : x \in S}
    BY <1>2
  <2>3. \A x \in S : ToSet(of[x]) \subseteq UNION {ToSet(seqs[i]) : i \in 1..Len(t)}
    BY <2>1
  <2>4. \A c \in UNION {ToSet(seqs[i]) : i \in 1..Len(t)} : c \in UNION {ToSet(of[x]) : x \in S}
    BY <2>2
  <2>5. \A c \in UNION {ToSet(of[x]) : x \in S} : c \in UNION {ToSet(seqs[i]) : i \in 1..Len(t)}
    BY <2>3
  <2>6. UNION {ToSet(seqs[i]) : i \in 1..Len(t)} = UNION {ToSet(of[x]) : x \in S}
    BY <2>4, <2>5
  <2> QED BY <1>3, <2>6
<1> QED BY <1>5, <1>6 DEF S

\* The path of a field of an episode tells which episode it is.
EpisodeField(s, e, field) == Append(EpisodePath(s, e), field)

\* The parts of that path.
LEMMA EpisodeFieldIs ==
    ASSUME NEW s, NEW e, NEW field, NEW p, p = EpisodeField(s, e, field)
    PROVE  Len(p) = 6 /\ p[3] = s /\ p[5] = e.number /\ p[6] = field
<1> DEFINE a == SeasonPath(s)
           b == <<"episodes", e.number>>
           S == {"series", "seasons", "episodes", s, e.number, field}
<1>1. a \in Seq(S) /\ Len(a) = 3 /\ a[3] = s
  BY DEF SeasonPath
<1>2. b \in Seq(S) /\ Len(b) = 2 /\ b[2] = e.number
  OBVIOUS
<1> DEFINE both == a \o b
<1> HIDE DEF a, b
<1>3. both \in Seq(S) /\ Len(both) = 5 /\ both[3] = s /\ both[5] = e.number
  <2> HIDE DEF S
  <2>1. both \in Seq(S) /\ Len(both) = Len(a) + Len(b)
    BY <1>1, <1>2, ConcatProperties
  <2>2. both[3] = a[3] /\ both[5] = b[2]
    <3>1. IsSequence(a) /\ IsSequence(b)
      BY <1>1, <1>2, SeqIsSequence
    <3>2. (\A i \in 1..Len(a) : both[i] = a[i]) /\ (\A i \in 1..Len(b) : both[Len(a) + i] = b[i])
      BY <3>1, Joined
    <3> HIDE DEF both
    <3> QED BY <1>1, <1>2, <3>2
  <2> QED BY <1>1, <1>2, <2>1, <2>2
<1>4. p = Append(both, field) /\ field \in S
  BY DEF EpisodeField, EpisodePath, a, b
<1> HIDE DEF both, S
<1>5. Len(Append(both, field)) = 6 /\ Append(both, field)[6] = field /\ \A i \in 1..5 : Append(both, field)[i] = both[i]
  <2>0. both \in Seq(S) /\ field \in S
    BY <1>3, <1>4
  <2>1. /\ Len(Append(both, field)) = Len(both) + 1 /\ Append(both, field)[Len(both) + 1] = field
        /\ \A i \in 1..Len(both) : Append(both, field)[i] = both[i]
    BY <2>0, AppendProperties
  <2> QED BY <1>3, <2>1
<1> QED BY <1>3, <1>4, <1>5

\* What documents say of a field of an episode.
EpisodeOffers(documents, s, e, field) ==
    UNION {{[value |-> v, provider |-> d.provider] : v \in ToSet(d.seasons[s][e][field])} :
              d \in {c \in documents : Has(c, s, e)}}

\* m is what documents say of an episode.
IsMergedEpisode(m, documents, policy, s, e) ==
    /\ ByLanguage(m.titles, EpisodeOffers(documents, s, e, "titles"), policy, "television", EpisodeField(s, e, "titles"))
    /\ ByLanguage(m.summaries, EpisodeOffers(documents, s, e, "summaries"), policy, "television", EpisodeField(s, e, "summaries"))
    /\ IsSequence(m.conflicts)
    /\ \A c \in ToSet(m.conflicts) : c.path \in {EpisodeField(s, e, "titles"), EpisodeField(s, e, "summaries")}
    /\ ConflictsAt(m.conflicts, EpisodeField(s, e, "titles"), EpisodeOffers(documents, s, e, "titles"))
    /\ ConflictsAt(m.conflicts, EpisodeField(s, e, "summaries"), EpisodeOffers(documents, s, e, "summaries"))

\* MergeEpisode merges what documents say.
LEMMA MergedEpisode ==
    ASSUME NEW having, IsSequence(having), NEW policy, HasLists(policy), NEW s, NEW e,
           \A d \in ToSet(having) : s \in DOMAIN d.seasons /\ (e \in DOMAIN d.seasons[s] => IsEpisode(e, d.seasons[s][e]))
    PROVE  IsMergedEpisode(MergeEpisode(having, policy, s, e), ToSet(having), policy, s, e)
<1> DEFINE K == {i \in 1..Len(having) : e \in DOMAIN having[i].seasons[s]}
           chosen == Pick(having, K)
           E(d) == [provider |-> d.provider, titles |-> d.seasons[s][e].titles, summaries |-> d.seasons[s][e].summaries,
                    runtime |-> d.seasons[s][e].runtime, credits |-> d.seasons[s][e].credits]
           episodes == [i \in 1..Len(chosen) |-> E(chosen[i])]
           path == EpisodePath(s, e)
           first == Ordered(episodes, policy, "television", path)
           titles == MergeLocalized(first, policy, "television", Append(path, "titles"), "titles")
           summaries == MergeLocalized(first, policy, "television", Append(path, "summaries"), "summaries")
           m == MergeEpisode(having, policy, s, e)
<1>1. EpisodesOf(having, s, e) = episodes
  BY DEF EpisodesOf, Each, Select
<1>2. MergeEpisode(having, policy, s, e) = EpisodeFrom(first, policy, path)
  BY <1>1 DEF MergeEpisode
<1> HIDE DEF first, episodes, path
<1>0. m = EpisodeOf(first, titles, summaries, policy, path)
  BY <1>2 DEF EpisodeFrom
<1>3. m.titles = titles.kept /\ m.summaries = summaries.kept /\ m.conflicts = titles.conflicts \o summaries.conflicts
  <2> HIDE DEF m, titles, summaries
  <2> QED BY <1>0 DEF EpisodeOf
<1> HIDE DEF m
<1>4. IsSequence(chosen) /\ ToSet(chosen) = {d \in ToSet(having) : Has(d, s, e)}
  <2>1. K \in SUBSET (1..Len(having)) /\ IsFiniteSet(K)
    <3>1. K \in SUBSET (1..Len(having))
      OBVIOUS
    <3> HIDE DEF K
    <3> QED BY <3>1, SomePositions
  <2>2. IsSequence(chosen) /\ ToSet(chosen) = {having[i] : i \in K}
    <3> HIDE DEF K
    <3> QED BY <2>1, Picked, PickedSet
  <2>3. ToSet(having) = {having[i] : i \in 1..Len(having)}
    BY ItemsAre
  <2>4. \A i \in 1..Len(having) : i \in K <=> Has(having[i], s, e)
    BY <2>3 DEF Has
  <2> HIDE DEF chosen, K
  <2>5. \A d \in ToSet(chosen) : d \in ToSet(having) /\ Has(d, s, e)
    BY <2>1, <2>2, <2>3, <2>4
  <2>6. \A d \in ToSet(having) : Has(d, s, e) => d \in ToSet(chosen)
    BY <2>2, <2>3, <2>4
  <2> QED BY <2>2, <2>5, <2>6
<1> HIDE DEF chosen
<1>5. IsSequence(episodes) /\ ToSet(episodes) = {E(d) : d \in ToSet(chosen)}
  <2> DEFINE n == Len(chosen)
  <2>1. n \in Nat /\ ToSet(chosen) = {chosen[i] : i \in 1..n}
    BY <1>4, SequenceIsList, ItemsAre
  <2> HIDE DEF E
  <2>2. episodes = [i \in 1..n |-> E(chosen[i])]
    BY DEF episodes
  <2> HIDE DEF n
  <2>3. IsSequence(episodes) /\ Len(episodes) = n
    <3>1. episodes = [i \in 1..n |-> episodes[i]]
      BY <2>2
    <3> QED BY <2>1, <3>1, ListIsSequence
  <2>4. ToSet(episodes) = {episodes[i] : i \in 1..n}
    <3>1. IsSequence(episodes)
      BY <2>3
    <3>2. ToSet(episodes) = {episodes[i] : i \in 1..Len(episodes)}
      BY <3>1, ItemsAre
    <3> QED BY <2>3, <3>2
  <2>5. \A i \in 1..n : episodes[i] = E(chosen[i])
    BY <2>2
  <2> QED BY <2>1, <2>3, <2>4, <2>5
<1>6. IsSequence(first) /\ ToSet(first) = {E(d) : d \in ToSet(chosen)}
  <2>1. IsSequence(first) /\ ToSet(first) = ToSet(episodes)
    BY <1>5, OrderedIs DEF InRank, first
  <2> QED BY <1>5, <2>1
<1>7. \A x \in ToSet(first) : IsSequence(x["titles"]) /\ IsSequence(x["summaries"])
  <2> TAKE x \in ToSet(first)
  <2>1. PICK d \in ToSet(chosen) : x = E(d)
    BY <1>6
  <2>2. IsSequence(d.seasons[s][e].titles) /\ IsSequence(d.seasons[s][e].summaries)
    BY <1>4 DEF IsEpisode, Has
  <2>3. x.titles = d.seasons[s][e].titles /\ x.summaries = d.seasons[s][e].summaries
    BY <2>1
  <2> QED BY <2>2, <2>3
<1>8. /\ OfferedIn(ToSet(first), "titles") = EpisodeOffers(ToSet(having), s, e, "titles")
      /\ OfferedIn(ToSet(first), "summaries") = EpisodeOffers(ToSet(having), s, e, "summaries")
  <2>1. \A d \in ToSet(chosen) :
           /\ E(d).provider = d.provider /\ E(d)["titles"] = d.seasons[s][e]["titles"]
           /\ E(d)["summaries"] = d.seasons[s][e]["summaries"]
    OBVIOUS
  <2> HIDE DEF E
  <2>2. OfferedIn(ToSet(first), "titles") = EpisodeOffers(ToSet(having), s, e, "titles")
    BY <1>4, <1>6, <2>1 DEF OfferedIn, EpisodeOffers
  <2>3. OfferedIn(ToSet(first), "summaries") = EpisodeOffers(ToSet(having), s, e, "summaries")
    BY <1>4, <1>6, <2>1 DEF OfferedIn, EpisodeOffers
  <2> QED BY <2>2, <2>3
<1> HIDE DEF E
<1>9. /\ ByLanguage(titles.kept, OfferedIn(ToSet(first), "titles"), policy, "television", Append(path, "titles"))
      /\ Tells(titles.conflicts, Append(path, "titles"), OfferedIn(ToSet(first), "titles"))
  <2> HIDE DEF titles
  <2>1. titles = MergeLocalized(first, policy, "television", Append(path, "titles"), "titles")
    BY DEF titles
  <2> QED BY <1>6, <1>7, <2>1, FieldIs
<1>10. /\ ByLanguage(summaries.kept, OfferedIn(ToSet(first), "summaries"), policy, "television", Append(path, "summaries"))
       /\ Tells(summaries.conflicts, Append(path, "summaries"), OfferedIn(ToSet(first), "summaries"))
  <2> HIDE DEF summaries
  <2>1. summaries = MergeLocalized(first, policy, "television", Append(path, "summaries"), "summaries")
    BY DEF summaries
  <2> QED BY <1>6, <1>7, <2>1, FieldIs
<1> HIDE DEF titles, summaries
<1>11. Append(path, "titles") = EpisodeField(s, e, "titles") /\ Append(path, "summaries") = EpisodeField(s, e, "summaries")
  BY DEF EpisodeField, path
<1>12. EpisodeField(s, e, "titles") # EpisodeField(s, e, "summaries")
  BY EpisodeFieldIs
<1>13. /\ Tells(titles.conflicts, EpisodeField(s, e, "titles"), EpisodeOffers(ToSet(having), s, e, "titles"))
       /\ Tells(summaries.conflicts, EpisodeField(s, e, "summaries"), EpisodeOffers(ToSet(having), s, e, "summaries"))
       /\ ByLanguage(titles.kept, EpisodeOffers(ToSet(having), s, e, "titles"), policy, "television", EpisodeField(s, e, "titles"))
       /\ ByLanguage(summaries.kept, EpisodeOffers(ToSet(having), s, e, "summaries"), policy, "television", EpisodeField(s, e, "summaries"))
  BY <1>8, <1>9, <1>10, <1>11
<1> DEFINE both == titles.conflicts \o summaries.conflicts
<1>14. /\ IsSequence(both) /\ \A c \in ToSet(both) : c.path \in {EpisodeField(s, e, "titles"), EpisodeField(s, e, "summaries")}
       /\ ConflictsAt(both, EpisodeField(s, e, "titles"), EpisodeOffers(ToSet(having), s, e, "titles"))
       /\ ConflictsAt(both, EpisodeField(s, e, "summaries"), EpisodeOffers(ToSet(having), s, e, "summaries"))
  BY <1>12, <1>13, ToldTogether
<1> QED BY <1>3, <1>13, <1>14 DEF IsMergedEpisode, m

\* m is what documents say of a season.
IsMergedSeason(m, documents, policy, s) ==
    /\ DOMAIN m = UNION {DOMAIN d.seasons[s] : d \in {c \in documents : s \in DOMAIN c.seasons}}
    /\ \A e \in DOMAIN m : IsMergedEpisode(m[e], documents, policy, s, e)

\* MergeSeason has every episode, merged.
LEMMA MergedSeason ==
    ASSUME NEW docs, IsSequence(docs), NEW policy, HasLists(policy), NEW s,
           \A d \in ToSet(docs) : IsDocument("television", d)
    PROVE  IsMergedSeason(MergeSeason(Select(Ordered(docs, policy, "television", SeasonPath(s)), LAMBDA d : s \in DOMAIN d.seasons),
                                      policy, s),
                          ToSet(docs), policy, s)
<1> DEFINE ordered == Ordered(docs, policy, "television", SeasonPath(s))
           K == {i \in 1..Len(ordered) : s \in DOMAIN ordered[i].seasons}
           having == Pick(ordered, K)
           m == MergeSeason(having, policy, s)
           Of == {c \in ToSet(docs) : s \in DOMAIN c.seasons}
<1>1. IsSequence(ordered) /\ ToSet(ordered) = ToSet(docs)
  BY OrderedIs DEF InRank
<1>2. Select(ordered, LAMBDA d : s \in DOMAIN d.seasons) = having
  BY DEF Select
<1> HIDE DEF ordered
<1>3. IsSequence(having) /\ ToSet(having) = Of
  <2>1. K \in SUBSET (1..Len(ordered)) /\ IsFiniteSet(K)
    <3>1. K \in SUBSET (1..Len(ordered))
      OBVIOUS
    <3> HIDE DEF K
    <3> QED BY <1>1, <3>1, SomePositions
  <2>2. IsSequence(having) /\ ToSet(having) = {ordered[i] : i \in K}
    <3> HIDE DEF K
    <3> QED BY <1>1, <2>1, Picked, PickedSet
  <2>3. ToSet(ordered) = {ordered[i] : i \in 1..Len(ordered)}
    BY <1>1, ItemsAre
  <2>4. \A i \in 1..Len(ordered) : i \in K <=> s \in DOMAIN ordered[i].seasons
    OBVIOUS
  <2> HIDE DEF having, K
  <2>5. \A d \in ToSet(having) : d \in ToSet(docs) /\ s \in DOMAIN d.seasons
    BY <1>1, <2>1, <2>2, <2>3, <2>4
  <2>6. \A d \in ToSet(docs) : s \in DOMAIN d.seasons => d \in ToSet(having)
    BY <1>1, <2>2, <2>3, <2>4
  <2> QED BY <2>2, <2>5, <2>6
<1> HIDE DEF having
<1>4. DOMAIN m = UNION {DOMAIN d.seasons[s] : d \in Of} /\ \A e \in DOMAIN m : m[e] = MergeEpisode(having, policy, s, e)
  <2> DEFINE D == UNION {DOMAIN having[i].seasons[s] : i \in 1..Len(having)}
  <2>1. m = [e \in D |-> MergeEpisode(having, policy, s, e)]
    BY DEF MergeSeason
  <2> HIDE DEF m
  <2>2. Of = {having[i] : i \in 1..Len(having)}
    BY <1>3, ItemsAre
  <2> HIDE DEF Of
  <2>3. D = UNION {DOMAIN d.seasons[s] : d \in Of}
    BY <2>2
  <2> HIDE DEF D
  <2> QED BY <2>1, <2>3
<1> HIDE DEF m
<1>5. ASSUME NEW e \in DOMAIN m PROVE IsMergedEpisode(m[e], ToSet(docs), policy, s, e)
  <2>1. \A d \in ToSet(having) : s \in DOMAIN d.seasons /\ (e \in DOMAIN d.seasons[s] => IsEpisode(e, d.seasons[s][e]))
    BY <1>3 DEF IsDocument
  <2>2. IsMergedEpisode(m[e], ToSet(having), policy, s, e)
    <3>1. IsSequence(having)
      BY <1>3
    <3>2. IsMergedEpisode(MergeEpisode(having, policy, s, e), ToSet(having), policy, s, e)
      BY <2>1, <3>1, MergedEpisode
    <3> QED BY <1>4, <3>2
  <2>3. \A field : EpisodeOffers(ToSet(having), s, e, field) = EpisodeOffers(ToSet(docs), s, e, field)
    <3>1. {c \in ToSet(having) : Has(c, s, e)} = {c \in ToSet(docs) : Has(c, s, e)}
      BY <1>3 DEF Has
    <3> QED BY <3>1 DEF EpisodeOffers
  <2> QED BY <2>2, <2>3 DEF IsMergedEpisode
<1> QED BY <1>2, <1>4, <1>5 DEF IsMergedSeason, m, ordered

\* The seasons are what documents say of them.
AreMergedSeasons(seasons, documents, policy) ==
    /\ DOMAIN seasons = UNION {DOMAIN d.seasons : d \in documents}
    /\ \A s \in DOMAIN seasons : IsMergedSeason(seasons[s], documents, policy, s)

\* MergeSeasons has every season, merged.
LEMMA MergedSeasons ==
    ASSUME NEW docs, IsSequence(docs), NEW policy, HasLists(policy), \A d \in ToSet(docs) : IsDocument("television", d)
    PROVE  AreMergedSeasons(MergeSeasons(docs, policy), ToSet(docs), policy)
<1> DEFINE D == UNION {DOMAIN docs[i].seasons : i \in 1..Len(docs)}
           Season(s) == MergeSeason(Select(Ordered(docs, policy, "television", SeasonPath(s)), LAMBDA d : s \in DOMAIN d.seasons),
                                    policy, s)
           seasons == MergeSeasons(docs, policy)
<1>1. seasons = [s \in D |-> Season(s)]
  BY DEF MergeSeasons
<1>2. \A s : IsMergedSeason(Season(s), ToSet(docs), policy, s)
  <2> TAKE s
  <2> QED BY MergedSeason
<1> HIDE DEF Season, seasons
<1>3. D = UNION {DOMAIN d.seasons : d \in ToSet(docs)}
  <2>1. ToSet(docs) = {docs[i] : i \in 1..Len(docs)}
    BY ItemsAre
  <2> QED BY <2>1
<1> HIDE DEF D
<1>4. DOMAIN seasons = D /\ \A s \in D : seasons[s] = Season(s)
  BY <1>1
<1> QED BY <1>2, <1>3, <1>4 DEF AreMergedSeasons, seasons

\* Finitely many finite sets have finitely many elements.
LEMMA FiniteUnion ==
    ASSUME NEW S, IsFiniteSet(S), NEW f, \A x \in S : IsFiniteSet(f[x])
    PROVE  IsFiniteSet(UNION {f[x] : x \in S})
<1> DEFINE T == {f[x] : x \in S}
           g == [x \in S |-> f[x]]
<1>1. g \in Surjection(S, T)
  BY DEF Surjection
<1> HIDE DEF g
<1>2. \A t \in T : IsFiniteSet(t)
  OBVIOUS
<1> HIDE DEF T
<1>3. IsFiniteSet(T)
  BY <1>1, FS_Surjection
<1>4. IsFiniteSet(UNION T)
  BY <1>2, <1>3, FS_UNION
<1> QED BY <1>4 DEF T

\* The items of a sequence are finitely many.
LEMMA FiniteItems ==
    ASSUME NEW s, IsSequence(s) PROVE IsFiniteSet(ToSet(s))
<1> DEFINE g == [i \in 1..Len(s) |-> s[i]]
<1>1. IsFiniteSet(1..Len(s)) /\ ToSet(s) = {s[i] : i \in 1..Len(s)}
  BY SequenceIsList, ItemsAre
<1>2. g \in Surjection(1..Len(s), {s[i] : i \in 1..Len(s)})
  BY DEF Surjection
<1> HIDE DEF g
<1>3. IsFiniteSet({s[i] : i \in 1..Len(s)})
  BY <1>1, <1>2, FS_Surjection
<1> QED BY <1>1, <1>3

\* Seasons and episodes are finitely many and have numbers.
AreNumbered(seasons) ==
    /\ IsFiniteSet(DOMAIN seasons) /\ DOMAIN seasons \subseteq Nat
    /\ \A s \in DOMAIN seasons : IsFiniteSet(DOMAIN seasons[s]) /\ \A e \in DOMAIN seasons[s] : e.number \in Nat

\* Merged seasons and episodes are numbered, as those of the documents are.
LEMMA MergedNumbers ==
    ASSUME NEW docs, IsSequence(docs), \A d \in ToSet(docs) : IsDocument("television", d),
           NEW policy, NEW seasons, AreMergedSeasons(seasons, ToSet(docs), policy)
    PROVE  AreNumbered(seasons)
<1> DEFINE D == ToSet(docs)
<1>1. IsFiniteSet(D) /\ \A d \in D : /\ DOMAIN d.seasons \subseteq Nat /\ IsFiniteSet(DOMAIN d.seasons)
                                     /\ \A s \in DOMAIN d.seasons : IsFiniteSet(DOMAIN d.seasons[s])
                                     /\ \A s \in DOMAIN d.seasons : \A e \in DOMAIN d.seasons[s] : e.number \in Nat
  BY FiniteItems DEF IsDocument, IsEpisode
<1>2. DOMAIN seasons = UNION {DOMAIN d.seasons : d \in D}
  BY DEF AreMergedSeasons
<1> HIDE DEF D
<1>3. IsFiniteSet(DOMAIN seasons) /\ DOMAIN seasons \subseteq Nat
  <2> DEFINE f == [d \in D |-> DOMAIN d.seasons]
  <2>1. \A d \in D : f[d] = DOMAIN d.seasons
    OBVIOUS
  <2> HIDE DEF f
  <2>2. IsFiniteSet(UNION {f[d] : d \in D})
    BY <1>1, <2>1, FiniteUnion
  <2>3. UNION {f[d] : d \in D} = UNION {DOMAIN d.seasons : d \in D}
    BY <2>1
  <2>4. \A x \in UNION {DOMAIN d.seasons : d \in D} : x \in Nat
    BY <1>1
  <2> QED BY <1>2, <2>2, <2>3, <2>4
<1>4. ASSUME NEW s \in DOMAIN seasons
      PROVE  IsFiniteSet(DOMAIN seasons[s]) /\ \A e \in DOMAIN seasons[s] : e.number \in Nat
  <2> DEFINE Of == {d \in D : s \in DOMAIN d.seasons}
             f == [d \in Of |-> DOMAIN d.seasons[s]]
  <2>1. DOMAIN seasons[s] = UNION {DOMAIN d.seasons[s] : d \in Of}
    BY DEF AreMergedSeasons, IsMergedSeason, D
  <2>2. IsFiniteSet(Of)
    <3>1. Of \subseteq D
      OBVIOUS
    <3> HIDE DEF Of
    <3> QED BY <1>1, <3>1, FS_Subset
  <2>3. \A d \in Of : f[d] = DOMAIN d.seasons[s] /\ IsFiniteSet(DOMAIN d.seasons[s]) /\ \A e \in DOMAIN d.seasons[s] : e.number \in Nat
    BY <1>1
  <2> HIDE DEF f, Of
  <2>4. IsFiniteSet(UNION {f[d] : d \in Of})
    BY <2>2, <2>3, FiniteUnion
  <2>5. UNION {f[d] : d \in Of} = UNION {DOMAIN d.seasons[s] : d \in Of}
    BY <2>3
  <2>6. \A e \in UNION {DOMAIN d.seasons[s] : d \in Of} : e.number \in Nat
    BY <2>3
  <2> QED BY <2>1, <2>4, <2>5, <2>6
<1> QED BY <1>3, <1>4 DEF AreNumbered

\* The conflicts of a season are those of its episodes.
SeasonConflicts(season) == Flat(Ascending(DOMAIN season, LAMBDA e : e.number), LAMBDA e : season[e].conflicts)

\* They are all there.
LEMMA SeasonTells ==
    ASSUME NEW season, IsFiniteSet(DOMAIN season),
           \A e \in DOMAIN season : e.number \in Nat /\ IsSequence(season[e].conflicts)
    PROVE  /\ IsSequence(SeasonConflicts(season))
           /\ ToSet(SeasonConflicts(season)) = UNION {ToSet(season[e].conflicts) : e \in DOMAIN season}
<1> DEFINE S == DOMAIN season
           q == SetToSeq(S)
           key == [i \in 1..Len(q) |-> q[i].number]
           t == PlacedBy(q, key)
           of == [e \in S |-> season[e].conflicts]
           seqs == [i \in 1..Len(t) |-> season[t[i]].conflicts]
<1>1. SeasonConflicts(season) = FlattenSeq(seqs)
  BY DEF SeasonConflicts, Flat, Ascending, StableBy, Each
<1>2. IsSequence(q) /\ ToSet(q) = S
  BY SetToSeqIs
<1> HIDE DEF q, S
<1>3. key \in [1..Len(q) -> Nat]
  <2>1. S = {q[i] : i \in 1..Len(q)}
    BY <1>2, ItemsAre
  <2>2. \A i \in 1..Len(q) : q[i].number \in Nat
    BY <2>1 DEF S
  <2> QED BY <2>2
<1> HIDE DEF key
<1>4. IsSequence(t) /\ ToSet(t) = S
  BY <1>2, <1>3, PlacedSet
<1> HIDE DEF t
<1>5. \A e \in S : of[e] = season[e].conflicts /\ IsSequence(of[e])
  BY DEF S
<1>6. seqs = [i \in 1..Len(t) |-> seqs[i]] /\ \A i \in 1..Len(t) : t[i] \in ToSet(t) => seqs[i] = of[t[i]]
  BY <1>4, <1>5
<1> HIDE DEF of, seqs
<1>7. IsSequence(FlattenSeq(seqs)) /\ ToSet(FlattenSeq(seqs)) = UNION {ToSet(of[x]) : x \in ToSet(t)}
  <2>1. IsSequence(t) /\ \A x \in ToSet(t) : IsSequence(of[x])
    BY <1>4, <1>5
  <2> QED BY <1>6, <2>1, Gathered
<1>8. UNION {ToSet(of[x]) : x \in ToSet(t)} = UNION {ToSet(season[e].conflicts) : e \in S}
  BY <1>4, <1>5
<1> QED BY <1>1, <1>7, <1>8 DEF S

\* The conflicts of all episodes, and no others, are told.
LEMMA EpisodesTell ==
    ASSUME NEW seasons, AreNumbered(seasons),
           \A s \in DOMAIN seasons : \A e \in DOMAIN seasons[s] : IsSequence(seasons[s][e].conflicts)
    PROVE  /\ IsSequence(EpisodeConflicts(seasons))
           /\ \A c : c \in ToSet(EpisodeConflicts(seasons)) <=>
                 \E s \in DOMAIN seasons : \E e \in DOMAIN seasons[s] : c \in ToSet(seasons[s][e].conflicts)
<1> DEFINE S == DOMAIN seasons
           q == SetToSeq(S)
           key == [i \in 1..Len(q) |-> q[i]]
           t == PlacedBy(q, key)
           of == [s \in S |-> SeasonConflicts(seasons[s])]
           seqs == [i \in 1..Len(t) |-> SeasonConflicts(seasons[t[i]])]
<1>1. EpisodeConflicts(seasons) = FlattenSeq(seqs)
  BY DEF EpisodeConflicts, SeasonConflicts, Flat, Ascending, StableBy, Each
<1>2. IsSequence(q) /\ ToSet(q) = S
  BY SetToSeqIs DEF AreNumbered
<1> HIDE DEF q, S
<1>3. key \in [1..Len(q) -> Nat]
  <2>1. S = {q[i] : i \in 1..Len(q)}
    BY <1>2, ItemsAre
  <2>2. \A i \in 1..Len(q) : q[i] \in Nat
    BY <2>1 DEF S, AreNumbered
  <2> QED BY <2>2
<1> HIDE DEF key
<1>4. IsSequence(t) /\ ToSet(t) = S
  BY <1>2, <1>3, PlacedSet
<1> HIDE DEF t
<1>5. \A s \in S : /\ of[s] = SeasonConflicts(seasons[s]) /\ IsSequence(of[s])
                   /\ ToSet(of[s]) = UNION {ToSet(seasons[s][e].conflicts) : e \in DOMAIN seasons[s]}
  <2> TAKE s \in S
  <2>1. /\ IsFiniteSet(DOMAIN seasons[s])
        /\ \A e \in DOMAIN seasons[s] : e.number \in Nat /\ IsSequence(seasons[s][e].conflicts)
    BY DEF AreNumbered, S
  <2>2. /\ IsSequence(SeasonConflicts(seasons[s]))
        /\ ToSet(SeasonConflicts(seasons[s])) = UNION {ToSet(seasons[s][e].conflicts) : e \in DOMAIN seasons[s]}
    BY <2>1, SeasonTells
  <2> QED BY <2>2
<1>6. seqs = [i \in 1..Len(t) |-> seqs[i]] /\ \A i \in 1..Len(t) : t[i] \in ToSet(t) => seqs[i] = of[t[i]]
  BY <1>4, <1>5
<1> HIDE DEF of, seqs
<1>7. IsSequence(FlattenSeq(seqs)) /\ ToSet(FlattenSeq(seqs)) = UNION {ToSet(of[x]) : x \in ToSet(t)}
  <2>1. IsSequence(t) /\ \A x \in ToSet(t) : IsSequence(of[x])
    BY <1>4, <1>5
  <2> QED BY <1>6, <2>1, Gathered
<1>8. ASSUME NEW c
      PROVE  c \in UNION {ToSet(of[x]) : x \in ToSet(t)} <=> \E s \in S : \E e \in DOMAIN seasons[s] : c \in ToSet(seasons[s][e].conflicts)
  <2>1. c \in UNION {ToSet(of[x]) : x \in ToSet(t)} <=> \E s \in S : c \in ToSet(of[s])
    BY <1>4
  <2>2. \A s \in S : c \in ToSet(of[s]) <=> \E e \in DOMAIN seasons[s] : c \in ToSet(seasons[s][e].conflicts)
    <3> TAKE s \in S
    <3>1. ToSet(of[s]) = UNION {ToSet(seasons[s][e].conflicts) : e \in DOMAIN seasons[s]}
      BY <1>5
    <3> QED BY <3>1
  <2> QED BY <2>1, <2>2
<1> QED BY <1>1, <1>7, <1>8 DEF S

\* Conflicts at a path among others.
LEMMA ConflictsThere ==
    ASSUME NEW told, NEW path, NEW offered, ConflictsAt(told, path, offered), NEW conflicts,
           Range(told) \subseteq Range(conflicts), \A c \in Range(conflicts) : c.path = path => c \in Range(told)
    PROVE  ConflictsAt(conflicts, path, offered)
BY DEF ConflictsAt

\* Where a field of an episode is not a field of the series.
LEMMA SeriesFields ==
    ASSUME NEW s, NEW e, NEW field, NEW other
    PROVE  EpisodeField(s, e, field) # <<"series", other>>
<1>1. Len(<<"series", other>>) = 2
  OBVIOUS
<1>2. Len(EpisodeField(s, e, field)) = 6
  BY EpisodeFieldIs
<1> QED BY <1>1, <1>2

\* What documents say of a field of an episode, by document.
LEMMA EpisodeOffered ==
    ASSUME NEW docs, IsSequence(docs), NEW s, NEW e, NEW field
    PROVE  Offered(docs, LAMBDA d : IF Has(d, s, e) THEN d.seasons[s][e][field] ELSE <<>>)
           = EpisodeOffers(ToSet(docs), s, e, field)
<1> DEFINE Texts(d) == IF Has(d, s, e) THEN d.seasons[s][e][field] ELSE <<>>
           Of(d) == {[value |-> v, provider |-> d.provider] : v \in ToSet(d.seasons[s][e][field])}
           Some(d) == {[value |-> v, provider |-> d.provider] : v \in Range(Texts(d))}
           D == ToSet(docs)
<1>1. D = {docs[i] : i \in 1..Len(docs)}
  BY ItemsAre
<1>2. \A d : Some(d) = IF Has(d, s, e) THEN Of(d) ELSE {}
  <2> TAKE d
  <2>1. CASE Has(d, s, e)
    BY <2>1 DEF Range, ToSet
  <2>2. CASE ~ Has(d, s, e)
    <3>1. Range(Texts(d)) = {}
      BY <2>2 DEF Range
    <3> HIDE DEF Texts
    <3> QED BY <2>2, <3>1
  <2> QED BY <2>1, <2>2
<1>3. Offered(docs, LAMBDA d : Texts(d)) = UNION {Some(docs[i]) : i \in 1..Len(docs)}
  BY DEF Offered
<1>4. EpisodeOffers(ToSet(docs), s, e, field) = UNION {Of(d) : d \in {c \in D : Has(c, s, e)}}
  BY DEF EpisodeOffers
<1> HIDE DEF Some, Of, D
<1>5. \A x : (\E i \in 1..Len(docs) : x \in Some(docs[i])) <=> (\E d \in D : Has(d, s, e) /\ x \in Of(d))
  <2> TAKE x
  <2>1. ASSUME NEW i \in 1..Len(docs), x \in Some(docs[i]) PROVE \E d \in D : Has(d, s, e) /\ x \in Of(d)
    <3>1. docs[i] \in D
      BY <1>1
    <3>2. Has(docs[i], s, e) /\ x \in Of(docs[i])
      BY <1>2, <2>1
    <3> QED BY <3>1, <3>2
  <2>2. ASSUME NEW d \in D, Has(d, s, e), x \in Of(d) PROVE \E i \in 1..Len(docs) : x \in Some(docs[i])
    <3>1. PICK i \in 1..Len(docs) : d = docs[i]
      BY <1>1
    <3> QED BY <1>2, <2>2, <3>1
  <2> QED BY <2>1, <2>2
<1>6. UNION {Some(docs[i]) : i \in 1..Len(docs)} = UNION {Of(d) : d \in {c \in D : Has(c, s, e)}}
  <2>1. ASSUME NEW x \in UNION {Some(docs[i]) : i \in 1..Len(docs)}
        PROVE  x \in UNION {Of(d) : d \in {c \in D : Has(c, s, e)}}
    <3>1. PICK i \in 1..Len(docs) : x \in Some(docs[i])
      OBVIOUS
    <3>2. PICK d \in D : Has(d, s, e) /\ x \in Of(d)
      BY <1>5, <3>1
    <3> QED BY <3>2
  <2>2. ASSUME NEW x \in UNION {Of(d) : d \in {c \in D : Has(c, s, e)}}
        PROVE  x \in UNION {Some(docs[i]) : i \in 1..Len(docs)}
    <3>1. PICK d \in D : Has(d, s, e) /\ x \in Of(d)
      OBVIOUS
    <3>2. PICK i \in 1..Len(docs) : x \in Some(docs[i])
      BY <1>5, <3>1
    <3> QED BY <3>2
  <2> QED BY <2>1, <2>2
<1> QED BY <1>3, <1>4, <1>6 DEF Texts

\* A series is merged by precedence.
LEMMA SeriesIs ==
    ASSUME NEW docs, IsSequence(docs), NEW policy, HasLists(policy),
           \A d \in ToSet(docs) : IsDocument("television", d), NumberedOnce(docs)
    PROVE  SeriesMerged(MergeSeries(docs, policy), docs, policy)
<1> DEFINE first == Ordered(docs, policy, "television", <<"series">>)
           titles == MergeLocalized(first, policy, "television", <<"series", "titles">>, "titles")
           summaries == MergeLocalized(first, policy, "television", <<"series", "summaries">>, "summaries")
           seasons == MergeSeasons(first, policy)
           merged == MergeSeries(docs, policy)
           fields == titles.conflicts \o summaries.conflicts
           D == ToSet(docs)
<1>1. IsSequence(first) /\ ToSet(first) = D
  BY OrderedIs DEF InRank
<1>2. merged = MergeSeriesFields(first, policy)
  BY DEF MergeSeries
<1> HIDE DEF first, merged, D
<1>3. merged = MergedSeries(titles, summaries, seasons)
  BY <1>2 DEF MergeSeriesFields
<1>4. \A d \in D : IsSequence(d["titles"]) /\ IsSequence(d["summaries"]) /\ IsDocument("television", d)
  BY DEF IsDocument, D
<1>5. /\ ByLanguage(titles.kept, OfferedIn(D, "titles"), policy, "television", <<"series", "titles">>)
      /\ Tells(titles.conflicts, <<"series", "titles">>, OfferedIn(D, "titles"))
  <2> HIDE DEF titles
  <2>1. titles = MergeLocalized(first, policy, "television", <<"series", "titles">>, "titles")
    BY DEF titles
  <2>2. \A d \in ToSet(first) : IsSequence(d["titles"])
    BY <1>1, <1>4
  <2>3. IsSequence(first)
    BY <1>1
  <2>4. /\ ByLanguage(titles.kept, OfferedIn(ToSet(first), "titles"), policy, "television", <<"series", "titles">>)
        /\ Tells(titles.conflicts, <<"series", "titles">>, OfferedIn(ToSet(first), "titles"))
    BY <2>1, <2>2, <2>3, FieldIs
  <2> QED BY <1>1, <2>4
<1>6. /\ ByLanguage(summaries.kept, OfferedIn(D, "summaries"), policy, "television", <<"series", "summaries">>)
      /\ Tells(summaries.conflicts, <<"series", "summaries">>, OfferedIn(D, "summaries"))
  <2> HIDE DEF summaries
  <2>1. summaries = MergeLocalized(first, policy, "television", <<"series", "summaries">>, "summaries")
    BY DEF summaries
  <2>2. \A d \in ToSet(first) : IsSequence(d["summaries"])
    BY <1>1, <1>4
  <2>3. IsSequence(first)
    BY <1>1
  <2>4. /\ ByLanguage(summaries.kept, OfferedIn(ToSet(first), "summaries"), policy, "television", <<"series", "summaries">>)
        /\ Tells(summaries.conflicts, <<"series", "summaries">>, OfferedIn(ToSet(first), "summaries"))
    BY <2>1, <2>2, <2>3, FieldIs
  <2> QED BY <1>1, <2>4
<1>7. AreMergedSeasons(seasons, D, policy) /\ AreNumbered(seasons)
  <2> HIDE DEF seasons
  <2>1. \A d \in ToSet(first) : IsDocument("television", d)
    BY <1>1, <1>4
  <2>2. IsSequence(first)
    BY <1>1
  <2>3. AreMergedSeasons(seasons, ToSet(first), policy)
    BY <2>1, <2>2, MergedSeasons DEF seasons
  <2>4. AreNumbered(seasons)
    BY <2>1, <2>2, <2>3, MergedNumbers
  <2> QED BY <1>1, <2>3, <2>4
<1> HIDE DEF titles, summaries, seasons
<1>8. \A s \in DOMAIN seasons : \A e \in DOMAIN seasons[s] : IsMergedEpisode(seasons[s][e], D, policy, s, e)
  BY <1>7 DEF AreMergedSeasons, IsMergedSeason
<1>9. /\ IsSequence(EpisodeConflicts(seasons))
      /\ \A c : c \in ToSet(EpisodeConflicts(seasons)) <=>
            \E s \in DOMAIN seasons : \E e \in DOMAIN seasons[s] : c \in ToSet(seasons[s][e].conflicts)
  <2>1. \A s \in DOMAIN seasons : \A e \in DOMAIN seasons[s] : IsSequence(seasons[s][e].conflicts)
    BY <1>8 DEF IsMergedEpisode
  <2> QED BY <1>7, <2>1, EpisodesTell
<1>10. /\ merged.titles = titles.kept /\ merged.summaries = summaries.kept /\ merged.seasons = seasons
       /\ merged.conflicts = fields \o EpisodeConflicts(seasons)
  BY <1>3 DEF MergedSeries
<1> DEFINE seriesTitles == <<"series", "titles">>
           seriesSummaries == <<"series", "summaries">>
<1>11. /\ IsSequence(fields) /\ \A c \in ToSet(fields) : c.path \in {seriesTitles, seriesSummaries}
       /\ ConflictsAt(fields, seriesTitles, OfferedIn(D, "titles"))
       /\ ConflictsAt(fields, seriesSummaries, OfferedIn(D, "summaries"))
  <2>1. seriesTitles # seriesSummaries
    OBVIOUS
  <2> HIDE DEF seriesTitles, seriesSummaries
  <2>2. Tells(titles.conflicts, seriesTitles, OfferedIn(D, "titles")) /\ Tells(summaries.conflicts, seriesSummaries, OfferedIn(D, "summaries"))
    BY <1>5, <1>6 DEF seriesTitles, seriesSummaries
  <2> QED BY <2>1, <2>2, ToldTogether
<1> HIDE DEF fields
<1>12. Range(merged.conflicts) = ToSet(fields) \cup ToSet(EpisodeConflicts(seasons))
  <2>1. ToSet(fields \o EpisodeConflicts(seasons)) = ToSet(fields) \cup ToSet(EpisodeConflicts(seasons))
    BY <1>9, <1>11, JoinedSet
  <2> QED BY <1>10, <2>1 DEF Range, ToSet
<1>13. \A s, e, f : EpisodeField(s, e, f) # seriesTitles /\ EpisodeField(s, e, f) # seriesSummaries
  BY SeriesFields
<1>14. \A s : Range(s) = ToSet(s)
  BY DEF Range, ToSet
<1> HIDE DEF seriesTitles, seriesSummaries
<1>15. \A s \in DOMAIN seasons : \A e \in DOMAIN seasons[s] : \A c \in ToSet(seasons[s][e].conflicts) :
          c.path \in {EpisodeField(s, e, "titles"), EpisodeField(s, e, "summaries")}
  BY <1>8 DEF IsMergedEpisode
<1>16. \A c \in Range(merged.conflicts) : c.path \in {seriesTitles, seriesSummaries} => c \in ToSet(fields)
  BY <1>9, <1>12, <1>13, <1>15
<1>17. ConflictsAt(merged.conflicts, seriesTitles, OfferedIn(D, "titles"))
  BY <1>11, <1>12, <1>14, <1>16, ConflictsThere
<1>18. ConflictsAt(merged.conflicts, seriesSummaries, OfferedIn(D, "summaries"))
  BY <1>11, <1>12, <1>14, <1>16, ConflictsThere
<1>19. ByPrecedence(merged.titles, merged.conflicts, Offered(docs, LAMBDA d : d.titles), policy, "television", <<"series", "titles">>)
  <2>1. Offered(docs, LAMBDA d : d.titles) = OfferedIn(D, "titles")
    BY OfferedIs DEF D
  <2> QED BY <1>5, <1>10, <1>17, <2>1 DEF ByPrecedence, ByLanguage, seriesTitles
<1>20. ByPrecedence(merged.summaries, merged.conflicts, Offered(docs, LAMBDA d : d.summaries), policy, "television", <<"series", "summaries">>)
  <2>1. Offered(docs, LAMBDA d : d.summaries) = OfferedIn(D, "summaries")
    BY OfferedIs DEF D
  <2> QED BY <1>6, <1>10, <1>18, <2>1 DEF ByPrecedence, ByLanguage, seriesSummaries
<1>21. D = {docs[i] : i \in 1..Len(docs)}
  BY ItemsAre DEF D
<1>22. DOMAIN merged.seasons = UNION {DOMAIN docs[i].seasons : i \in 1..Len(docs)}
  BY <1>7, <1>10, <1>21 DEF AreMergedSeasons
<1>23. ASSUME NEW s \in DOMAIN seasons
       PROVE DOMAIN seasons[s] = UNION {DOMAIN docs[i].seasons[s] : i \in {j \in 1..Len(docs) : s \in DOMAIN docs[j].seasons}}
  <2>1. DOMAIN seasons[s] = UNION {DOMAIN d.seasons[s] : d \in {c \in D : s \in DOMAIN c.seasons}}
    BY <1>7 DEF AreMergedSeasons, IsMergedSeason
  <2> QED BY <1>21, <2>1
<1>24. ASSUME NEW s \in DOMAIN seasons, NEW e \in DOMAIN seasons[s], NEW f \in DOMAIN seasons[s], e.number = f.number
       PROVE  e = f
  <2>0. DOMAIN seasons[s] = UNION {DOMAIN docs[i].seasons[s] : i \in {j \in 1..Len(docs) : s \in DOMAIN docs[j].seasons}}
    BY <1>23
  <2>1. PICK i \in 1..Len(docs) : s \in DOMAIN docs[i].seasons /\ e \in DOMAIN docs[i].seasons[s]
    <3>1. e \in UNION {DOMAIN docs[k].seasons[s] : k \in {l \in 1..Len(docs) : s \in DOMAIN docs[l].seasons}}
      BY <2>0
    <3> QED BY <3>1
  <2>2. PICK j \in 1..Len(docs) : s \in DOMAIN docs[j].seasons /\ f \in DOMAIN docs[j].seasons[s]
    <3>1. f \in UNION {DOMAIN docs[k].seasons[s] : k \in {l \in 1..Len(docs) : s \in DOMAIN docs[l].seasons}}
      BY <2>0
    <3> QED BY <3>1
  <2> QED BY <1>24, <2>1, <2>2 DEF NumberedOnce
<1>25. ASSUME NEW s \in DOMAIN seasons, NEW e \in DOMAIN seasons[s]
       PROVE  EpisodeMerged(seasons[s][e], merged.conflicts, docs, policy, s, e)
  <2> DEFINE m == seasons[s][e]
  <2>1. Range(m.conflicts) \subseteq Range(merged.conflicts)
    BY <1>9, <1>12, <1>14
  <2>2. ASSUME NEW c \in Range(merged.conflicts), NEW field, c.path = EpisodeField(s, e, field) PROVE c \in Range(m.conflicts)
    <3>1. c \notin ToSet(fields)
      BY <1>11, <1>13, <2>2
    <3>2. PICK r \in DOMAIN seasons : \E f \in DOMAIN seasons[r] : c \in ToSet(seasons[r][f].conflicts)
      BY <1>9, <1>12, <3>1
    <3>3. PICK f \in DOMAIN seasons[r] : c \in ToSet(seasons[r][f].conflicts)
      BY <3>2
    <3>4. PICK g \in {"titles", "summaries"} : c.path = EpisodeField(r, f, g)
      BY <1>15, <3>3
    <3>5. EpisodeField(s, e, field)[3] = s /\ EpisodeField(s, e, field)[5] = e.number
      BY EpisodeFieldIs
    <3>6. EpisodeField(r, f, g)[3] = r /\ EpisodeField(r, f, g)[5] = f.number
      BY EpisodeFieldIs
    <3>7. r = s /\ f.number = e.number
      BY <2>2, <3>4, <3>5, <3>6
    <3>8. f = e
      BY <1>24, <3>7
    <3> QED BY <1>14, <3>3, <3>7, <3>8
  <2>3. IsMergedEpisode(m, D, policy, s, e)
    BY <1>8
  <2> HIDE DEF m
  <2>4. ConflictsAt(merged.conflicts, EpisodeField(s, e, "titles"), EpisodeOffers(D, s, e, "titles"))
    <3>1. ConflictsAt(m.conflicts, EpisodeField(s, e, "titles"), EpisodeOffers(D, s, e, "titles"))
      BY <2>3 DEF IsMergedEpisode
    <3> QED BY <2>1, <2>2, <3>1, ConflictsThere
  <2>5. ConflictsAt(merged.conflicts, EpisodeField(s, e, "summaries"), EpisodeOffers(D, s, e, "summaries"))
    <3>1. ConflictsAt(m.conflicts, EpisodeField(s, e, "summaries"), EpisodeOffers(D, s, e, "summaries"))
      BY <2>3 DEF IsMergedEpisode
    <3> QED BY <2>1, <2>2, <3>1, ConflictsThere
  <2>6. Offered(docs, LAMBDA d : IF Has(d, s, e) THEN d.seasons[s][e]["titles"] ELSE <<>>) = EpisodeOffers(D, s, e, "titles")
    BY EpisodeOffered DEF D
  <2>7. Offered(docs, LAMBDA d : IF Has(d, s, e) THEN d.seasons[s][e]["summaries"] ELSE <<>>) = EpisodeOffers(D, s, e, "summaries")
    BY EpisodeOffered DEF D
  <2>8. ByPrecedence(m.titles, merged.conflicts, Offered(docs, LAMBDA d : IF Has(d, s, e) THEN d.seasons[s][e]["titles"] ELSE <<>>),
                     policy, "television", Append(EpisodePath(s, e), "titles"))
    BY <2>3, <2>4, <2>6 DEF ByPrecedence, IsMergedEpisode, ByLanguage, EpisodeField
  <2>9. ByPrecedence(m.summaries, merged.conflicts, Offered(docs, LAMBDA d : IF Has(d, s, e) THEN d.seasons[s][e]["summaries"] ELSE <<>>),
                     policy, "television", Append(EpisodePath(s, e), "summaries"))
    BY <2>3, <2>5, <2>7 DEF ByPrecedence, IsMergedEpisode, ByLanguage, EpisodeField
  <2> QED BY <2>8, <2>9 DEF EpisodeMerged, m
<1> QED BY <1>10, <1>19, <1>20, <1>22, <1>23, <1>25 DEF SeriesMerged, merged

-----------------------------------------------------------------------------
(***************************************************************************)
(* Numbers and spelled paths.                                              *)
(***************************************************************************)

\* f has the intermediate values of a fold over n positions.
Folds(f, n, V, first, step) ==
    f \in [0..n -> V] /\ f[0] = first /\ \A i \in 1..n : f[i] = step[i][f[i - 1]]

\* There is a fold over n positions.
LEMMA Recursion ==
    ASSUME NEW n \in Nat, NEW V, NEW first \in V, NEW step \in [1..n -> [V -> V]]
    PROVE  \E f : Folds(f, n, V, first, step)
<1> DEFINE FoldsTo(f, m) == f \in [0..m -> V] /\ f[0] = first /\ \A i \in 1..m : f[i] = step[i][f[i - 1]]
           S == {m \in Nat : \E f : FoldsTo(f, m)}
<1>1. 0 \in S
  <2>1. FoldsTo([i \in 0..0 |-> first], 0)
    OBVIOUS
  <2> QED BY <2>1
<1>2. ASSUME NEW m \in 0..(n - 1), m \in S PROVE m + 1 \in S
  <2>1. PICK f : FoldsTo(f, m)
    BY <1>2
  <2> DEFINE g == [i \in 0..(m + 1) |-> IF i = m + 1 THEN step[m + 1][f[m]] ELSE f[i]]
  <2>2. m \in Nat /\ m + 1 \in 1..n /\ m + 1 \in 0..(m + 1) /\ m \in 0..m
    OBVIOUS
  <2>3. \A i \in 0..m : i \in 0..(m + 1) /\ i # m + 1 /\ f[i] \in V
    BY <2>1, <2>2
  <2>4. step[m + 1][f[m]] \in V
    BY <2>1, <2>2
  <2>5. g \in [0..(m + 1) -> V]
    <3>1. \A i \in 0..(m + 1) : i = m + 1 \/ i \in 0..m
      BY <2>2
    <3> QED BY <2>3, <2>4, <3>1
  <2>6. \A i \in 0..m : g[i] = f[i]
    BY <2>3
  <2>7. g[m + 1] = step[m + 1][g[m]]
    BY <2>2, <2>6
  <2> HIDE DEF g
  <2>8. g[0] = first
    BY <2>1, <2>2, <2>6
  <2>9. ASSUME NEW i \in 1..(m + 1) PROVE g[i] = step[i][g[i - 1]]
    <3>1. CASE i = m + 1
      BY <2>2, <2>7, <3>1
    <3>2. CASE i # m + 1
      <4>1. i \in 1..m /\ i \in 0..m /\ i - 1 \in 0..m
        BY <2>2, <3>2
      <4> QED BY <2>1, <2>6, <4>1
    <3> QED BY <3>1, <3>2
  <2>10. FoldsTo(g, m + 1)
    BY <2>5, <2>8, <2>9
  <2> HIDE DEF FoldsTo
  <2> QED BY <2>2, <2>10
<1>3. n \in S
  <2> HIDE DEF S
  <2>1. \A i \in 0..n : i \in S
    BY <1>1, <1>2, UpTo
  <2> QED BY <2>1
<1> QED BY <1>3 DEF Folds

\* Paths are made name by name.
LEMMA NameByName ==
    ASSUME NEW N, NEW S, <<>> \in S, \A p \in Seq(N), x \in N : p \in S => Append(p, x) \in S
    PROVE  \A p \in Seq(N) : p \in S
<1> DEFINE Good == {n \in Nat : \A p \in Seq(N) : Len(p) = n => p \in S}
<1>1. 0 \in Good
  BY EmptySeq
<1>2. ASSUME NEW n \in Nat, n \in Good PROVE n + 1 \in Good
  <2> SUFFICES ASSUME NEW p \in Seq(N), Len(p) = n + 1 PROVE p \in S
    OBVIOUS
  <2>1. p # <<>>
    BY EmptySeq
  <2>2. PICK s \in Seq(N), x \in N : p = Append(s, x)
    BY <2>1, SequenceEmptyOrAppend
  <2>3. Len(s) = n
    BY <2>2, AppendProperties, LenProperties
  <2> QED BY <1>2, <2>2, <2>3
<1> SUFFICES ASSUME NEW p \in Seq(N) PROVE p \in S
  OBVIOUS
<1>3. Len(p) \in Nat
  BY LenProperties
<1>4. Len(p) \in Good
  <2> HIDE DEF Good
  <2>1. \A i \in 0..Len(p) : i \in Good
    <3>1. \A i \in 0..(Len(p) - 1) : i \in Nat
      BY <1>3
    <3> QED BY <1>1, <1>2, <1>3, <3>1, UpTo
  <2> QED BY <1>3, <2>1
<1> QED BY <1>4

-----------------------------------------------------------------------------
\* One name behind a path.
LEMMA OneName ==
    ASSUME NEW N, NEW p \in Seq(N), NEW x \in N
    PROVE  /\ Append(p, x) \in Seq(N) /\ Append(p, x) # <<>> /\ Len(Append(p, x)) = Len(p) + 1
           /\ Append(p, x) = p \o <<x>> /\ <<x>> \in Seq(N)
           /\ Parent(Append(p, x)) = p /\ Name(Append(p, x)) = x
<1>1. /\ Append(p, x) \in Seq(N) /\ Append(p, x) # <<>> /\ Len(Append(p, x)) = Len(p) + 1
      /\ \A i \in 1..Len(p) : Append(p, x)[i] = p[i]
      /\ Append(p, x)[Len(p) + 1] = x /\ Append(p, x) = p \o <<x>>
  BY AppendProperties, AppendIsConcat
<1>2. Len(p) \in Nat /\ \A i \in 1..Len(p) : p[i] \in N
  BY LenProperties, ElementOfSeq
<1>3. <<x>> \in Seq(N)
  OBVIOUS
<1>4. Parent(Append(p, x)) = SubSeq(Append(p, x), 1, Len(p))
  BY <1>1, <1>2 DEF Parent
<1>5. SubSeq(Append(p, x), 1, Len(p)) = p
  <2>0. \A i \in 1..Len(p) : Append(p, x)[i] \in N
    BY <1>1, <1>2
  <2>1. /\ SubSeq(Append(p, x), 1, Len(p)) \in Seq(N)
        /\ Len(SubSeq(Append(p, x), 1, Len(p))) = Len(p)
        /\ \A i \in 1..Len(p) : SubSeq(Append(p, x), 1, Len(p))[i] = Append(p, x)[i]
    BY <1>2, <2>0, SubSeqProperties
  <2> QED BY <1>1, <2>1, SeqEqual
<1> QED BY <1>1, <1>3, <1>4, <1>5 DEF Name

\* A path that is not empty is its parent with its name.
LEMMA LastName ==
    ASSUME NEW N, NEW p \in Seq(N), p # <<>>
    PROVE  /\ Parent(p) \in Seq(N) /\ Name(p) \in N /\ p = Append(Parent(p), Name(p))
           /\ Len(p) = Len(Parent(p)) + 1 /\ Len(p) \in Nat \ {0}
<1>1. PICK s \in Seq(N), x \in N : p = Append(s, x)
  BY SequenceEmptyOrAppend
<1>2. Parent(p) = s /\ Name(p) = x /\ Len(p) = Len(s) + 1
  BY <1>1, OneName
<1> QED BY <1>1, <1>2, LenProperties

\* The start of a path.
LEMMA Start ==
    ASSUME NEW N, NEW p \in Seq(N), NEW n \in 0..Len(p)
    PROVE  /\ SubSeq(p, 1, n) \in Seq(N) /\ Len(SubSeq(p, 1, n)) = n
           /\ SubSeq(p, n + 1, Len(p)) \in Seq(N) /\ Len(SubSeq(p, n + 1, Len(p))) = Len(p) - n
           /\ p = SubSeq(p, 1, n) \o SubSeq(p, n + 1, Len(p))
           /\ SubSeq(p, 1, 0) = <<>> /\ SubSeq(p, 1, Len(p)) = p
           /\ n < Len(p) => p[n + 1] \in N /\ SubSeq(p, 1, n + 1) = Append(SubSeq(p, 1, n), p[n + 1])
<1>1. Len(p) \in Nat /\ n \in Nat /\ \A i \in 1..Len(p) : p[i] \in N
  BY LenProperties, ElementOfSeq
<1>2. SubSeq(p, 1, n) \in Seq(N) /\ Len(SubSeq(p, 1, n)) = n
  BY <1>1, SubSeqProperties
<1>3. SubSeq(p, n + 1, Len(p)) \in Seq(N) /\ Len(SubSeq(p, n + 1, Len(p))) = Len(p) - n
  BY <1>1, SubSeqProperties
<1>4. SubSeq(p, 1, Len(p)) = p
  BY SubSeqFull
<1>5. SubSeq(p, 1, 0) = <<>>
  BY SubSeqEmpty
<1>6. p = SubSeq(p, 1, n) \o SubSeq(p, n + 1, Len(p))
  <2>1. 1 \in 1..(Len(p) + 1) /\ n \in (1 - 1)..Len(p) /\ Len(p) \in n..Len(p)
    BY <1>1
  <2>2. SubSeq(p, 1, n) \o SubSeq(p, n + 1, Len(p)) = SubSeq(p, 1, Len(p))
    BY <2>1, ConcatAdjacentSubSeq
  <2> QED BY <1>4, <2>2
<1>7. ASSUME n < Len(p) PROVE p[n + 1] \in N /\ SubSeq(p, 1, n + 1) = Append(SubSeq(p, 1, n), p[n + 1])
  <2>1. 1 \in 1..Len(p) /\ n + 1 \in 1..Len(p) /\ (n + 1) - 1 = n
    BY <1>1, <1>7
  <2>2. SubSeq(p, 1, n + 1) = SubSeq(p, 1, n) \o <<p[n + 1]>>
    BY <2>1, SubSeqRecursiveSecond
  <2> QED BY <1>1, <1>2, <2>1, <2>2, AppendIsConcat
<1> QED BY <1>2, <1>3, <1>4, <1>5, <1>6, <1>7

\* A path with one behind it.
LEMMA Both ==
    ASSUME NEW N, NEW p \in Seq(N), NEW q \in Seq(N)
    PROVE  /\ p \o q \in Seq(N) /\ Len(p \o q) = Len(p) + Len(q) /\ Len(p) \in Nat /\ Len(q) \in Nat
           /\ \A i \in 1..Len(p) : (p \o q)[i] = p[i]
           /\ \A i \in 1..Len(q) : (p \o q)[Len(p) + i] = q[i]
<1>1. Len(p) \in Nat /\ Len(q) \in Nat
  BY LenProperties
<1>2. /\ p \o q \in Seq(N) /\ Len(p \o q) = Len(p) + Len(q)
      /\ \A i \in 1 .. Len(p) + Len(q) : (p \o q)[i] = IF i <= Len(p) THEN p[i] ELSE q[i - Len(p)]
  BY ConcatProperties
<1>3. ASSUME NEW i \in 1..Len(p) PROVE (p \o q)[i] = p[i]
  BY <1>1, <1>2
<1>4. ASSUME NEW i \in 1..Len(q) PROVE (p \o q)[Len(p) + i] = q[i]
  <2>1. Len(p) + i \in 1..(Len(p) + Len(q)) /\ ~ (Len(p) + i <= Len(p)) /\ (Len(p) + i) - Len(p) = i
    BY <1>1
  <2> QED BY <1>2, <2>1
<1> QED BY <1>1, <1>2, <1>3, <1>4

\* A start of two paths that reaches into the second.
LEMMA StartOfBoth ==
    ASSUME NEW N, NEW p \in Seq(N), NEW q \in Seq(N), NEW n \in 0..Len(q)
    PROVE  SubSeq(p \o q, 1, Len(p) + n) = p \o SubSeq(q, 1, n)
<1> DEFINE e == SubSeq(p \o q, 1, Len(p) + n)
           f == p \o SubSeq(q, 1, n)
<1>1. Len(p) + n \in 0..Len(p \o q) /\ n \in Nat
  BY Both
<1>2. e \in Seq(N) /\ Len(e) = Len(p) + n
  BY Both, <1>1, Start
<1>3. SubSeq(q, 1, n) \in Seq(N) /\ Len(SubSeq(q, 1, n)) = n
  BY Start
<1>4. f \in Seq(N) /\ Len(f) = Len(p) + n
      /\ \A i \in 1..(Len(p) + n) : f[i] = IF i <= Len(p) THEN p[i] ELSE SubSeq(q, 1, n)[i - Len(p)]
  BY <1>3, ConcatProperties
<1>5. \A i \in 1..n : SubSeq(q, 1, n)[i] = q[i]
  <2>1. \A i \in 1..n : q[i] \in N
    BY Both, ElementOfSeq
  <2>2. \A i \in 1..(n - 1 + 1) : SubSeq(q, 1, n)[i] = q[1 + i - 1]
    BY <1>1, <2>1, SubSeqProperties
  <2> QED BY <1>1, <2>2
<1>6. \A i \in 1..(Len(p) + n) : e[i] = (p \o q)[i]
  <2>1. \A i \in 1..(Len(p) + n) : (p \o q)[i] \in N
    BY Both, <1>1, ElementOfSeq
  <2>2. \A i \in 1..((Len(p) + n) - 1 + 1) : e[i] = (p \o q)[1 + i - 1]
    BY Both, <1>1, <2>1, SubSeqProperties
  <2> QED BY Both, <1>1, <2>2
<1> HIDE DEF e, f
<1>7. \A i \in 1..(Len(p) + n) : e[i] = f[i]
  <2> TAKE i \in 1..(Len(p) + n)
  <2>1. CASE i <= Len(p)
    BY Both, <1>1, <1>4, <1>6, <2>1
  <2>2. CASE ~ (i <= Len(p))
    <3>1. i - Len(p) \in 1..n /\ i - Len(p) \in 1..Len(q) /\ Len(p) + (i - Len(p)) = i
      BY Both, <1>1, <2>2
    <3>2. (p \o q)[i] = q[i - Len(p)]
      BY Both, <3>1
    <3> QED BY <1>4, <1>5, <1>6, <2>2, <3>1, <3>2
  <2> QED BY <2>1, <2>2
<1>8. e = f
  BY <1>2, <1>4, <1>7, SeqEqual
<1> QED BY <1>8 DEF e, f

\* The two halves of two paths.
LEMMA Halves ==
    ASSUME NEW N, NEW p \in Seq(N), NEW q \in Seq(N)
    PROVE  /\ p \o q \in Seq(N) /\ Len(p \o q) = Len(p) + Len(q) /\ Len(p) \in Nat /\ Len(q) \in Nat
           /\ SubSeq(p \o q, 1, Len(p)) = p /\ SubSeq(p \o q, Len(p) + 1, Len(p \o q)) = q
<1>1. /\ p \o q \in Seq(N) /\ Len(p \o q) = Len(p) + Len(q) /\ Len(p) \in Nat /\ Len(q) \in Nat
      /\ \A i \in 1..Len(p) : (p \o q)[i] = p[i]
      /\ \A i \in 1..Len(q) : (p \o q)[Len(p) + i] = q[i]
  BY Both
<1>2. SubSeq(p \o q, Len(p) + 1, Len(p \o q)) = q
  <2> DEFINE e == SubSeq(p \o q, Len(p) + 1, Len(p \o q))
  <2>1. Len(p) \in 0..Len(p \o q)
    BY <1>1
  <2>2. e \in Seq(N) /\ Len(e) = Len(q)
    BY <1>1, <2>1, Start
  <2>3. \A i \in (Len(p) + 1)..Len(p \o q) : (p \o q)[i] \in N
    BY <1>1, ElementOfSeq
  <2>4. \A i \in 1..(Len(p \o q) - (Len(p) + 1) + 1) : e[i] = (p \o q)[(Len(p) + 1) + i - 1]
    BY <1>1, <2>3, SubSeqProperties
  <2>5. \A i \in 1..Len(q) : e[i] = q[i]
    <3> TAKE i \in 1..Len(q)
    <3>1. i \in 1..(Len(p \o q) - (Len(p) + 1) + 1) /\ (Len(p) + 1) + i - 1 = Len(p) + i
      BY <1>1
    <3> QED BY <1>1, <2>4, <3>1
  <2> HIDE DEF e
  <2>6. e = q
    BY <2>2, <2>5, SeqEqual
  <2> QED BY <2>6 DEF e
<1>3. SubSeq(p \o q, 1, Len(p)) = p
  <2>1. 0 \in 0..Len(q) /\ Len(p) + 0 = Len(p)
    BY <1>1
  <2>2. SubSeq(q, 1, 0) = <<>> /\ p \o <<>> = p
    BY <2>1, Start, ConcatEmptySeq
  <2>3. SubSeq(p \o q, 1, Len(p) + 0) = p \o SubSeq(q, 1, 0)
    BY <2>1, StartOfBoth
  <2> QED BY <2>1, <2>2, <2>3
<1> QED BY <1>1, <1>2, <1>3

\* A path lies below its starts.
LEMMA BelowIs ==
    ASSUME NEW N, NEW s \in Seq(N), NEW t \in Seq(N)
    PROVE  /\ IsPrefix(s, t) <=> \E r \in Seq(N) : t = s \o r
           /\ IsPrefix(s, t) => /\ Len(s) \in 0..Len(t) /\ SubSeq(t, 1, Len(s)) = s
                                /\ RelativeDisplay(s, t) \in Seq(N) /\ t = s \o RelativeDisplay(s, t)
<1>1. Len(s) \in Nat /\ Len(t) \in Nat /\ SubSeq(s, 1, Len(s)) = s
  BY LenProperties, SubSeqFull
<1>2. ASSUME IsPrefix(s, t)
      PROVE  /\ Len(s) \in 0..Len(t) /\ SubSeq(t, 1, Len(s)) = s
             /\ RelativeDisplay(s, t) \in Seq(N) /\ t = s \o RelativeDisplay(s, t)
  <2>1. Len(s) \in 0..Len(t) /\ SubSeq(t, 1, Len(s)) = s
    BY <1>1, <1>2 DEF IsPrefix
  <2> QED BY <2>1, Start DEF RelativeDisplay
<1>3. ASSUME NEW r \in Seq(N), t = s \o r PROVE IsPrefix(s, t)
  <2>1. Len(s) <= Len(t)
    BY <1>1, <1>3, Halves
  <2> QED BY <1>1, <1>3, <2>1, Halves DEF IsPrefix
<1> QED BY <1>2, <1>3

-----------------------------------------------------------------------------
(***************************************************************************)
(* Where paths lead.                                                       *)
(***************************************************************************)

\* The entries that are not links; where paths can lead; what relative links are made of.
Present(tree) == {p \in DOMAIN tree : tree[p].kind # "link"}
Leads(tree) == Present(tree) \cup Unfound
Steps == Names \cup {Upward}

\* Where a path leads there is an entry that is not a link, or the path is unfound.
LEMMA FoundIs ==
    ASSUME NEW tree, IsTree(tree)
    PROVE  /\ Present(tree) \subseteq Seq(Names) /\ <<>> \in Present(tree)
           /\ \A p \in Present(tree) : p \notin Unfound /\ p \in DOMAIN tree /\ p \in Seq(Names)
           /\ \A p \in Leads(tree) : p \notin Unfound => p \in Present(tree)
           /\ \A p \in DOMAIN tree : p # <<>> => Parent(p) \in Present(tree) /\ tree[Parent(p)].kind = "directory"
           /\ Nowhere \in Leads(tree) /\ Barred \in Leads(tree)
<1>1. \A p \in Seq(Names) : p \in Seq(Names \cup {Upward})
  <2>1. Names \subseteq Names \cup {Upward}
    OBVIOUS
  <2> QED BY <2>1, SeqMonotonic
<1>2. \A p \in Seq(Names) : p \notin Unfound
  BY <1>1, MarkAssumption DEF Unfound
<1>3. Present(tree) \subseteq Seq(Names) /\ <<>> \in Present(tree)
  BY DEF IsTree, Present
<1>4. \A p \in DOMAIN tree : p # <<>> => Parent(p) \in Present(tree) /\ tree[Parent(p)].kind = "directory"
  BY DEF IsTree, Present
<1> QED BY <1>2, <1>3, <1>4 DEF Present, Leads, Unfound

\* One name leads further, whatever the links lead to.
LEMMA EnteredLeads ==
    ASSUME NEW tree, IsTree(tree), NEW follow \in [LinksOf(tree) -> Leads(tree)],
           NEW above \in Leads(tree), NEW name
    PROVE  Entered(tree, follow, above, name) \in Leads(tree)
<1> DEFINE here == Append(above, name)
<1>1. CASE above \in Unfound
  BY <1>1 DEF Entered, Leads
<1>2. CASE above \notin Unfound
  <2>1. above \in Present(tree) /\ above \in DOMAIN tree
    BY <1>2, FoundIs
  <2>2. above # <<>> => Parent(above) \in Leads(tree)
    BY <2>1, FoundIs DEF Leads
  <2>3. <<>> \in Leads(tree) /\ Nowhere \in Leads(tree) /\ Barred \in Leads(tree)
    BY FoundIs DEF Leads
  <2>4. ASSUME here \in DOMAIN tree PROVE IF tree[here].kind = "link" THEN follow[here] \in Leads(tree) ELSE here \in Leads(tree)
    <3> HIDE DEF here
    <3> QED BY <2>4 DEF LinksOf, Present, Leads
  <2> QED BY <1>2, <2>2, <2>3, <2>4 DEF Entered
<1> QED BY <1>1, <1>2

\* A path is walked name by name.
LEMMA Walks ==
    ASSUME NEW tree, IsTree(tree), NEW follow \in [LinksOf(tree) -> Leads(tree)], NEW N
    PROVE  /\ Walk(tree, follow, <<>>) = <<>>
           /\ \A p \in Seq(N) : Walk(tree, follow, p) \in Leads(tree)
           /\ \A p \in Seq(N), x \in N :
                 Walk(tree, follow, Append(p, x)) = Entered(tree, follow, Walk(tree, follow, p), x)
<1> DEFINE V == Leads(tree)
           E(v, x) == Entered(tree, follow, v, x)
           Goes(p, f) == f \in [0..Len(p) -> V] /\ f[0] = <<>> /\ \A i \in 1..Len(p) : f[i] = E(f[i - 1], p[i])
<1>1. <<>> \in V /\ \A v \in V : \A x : E(v, x) \in V
  BY FoundIs, EnteredLeads DEF Leads
<1> HIDE DEF V, E
<1>2. ASSUME NEW p \in Seq(N) PROVE \E f : Goes(p, f) /\ Walk(tree, follow, p) = f[Len(p)]
  <2>1. Len(p) \in Nat
    BY LenProperties
  <2> DEFINE step == [i \in 1..Len(p) |-> [v \in V |-> E(v, p[i])]]
             R(f) == [n \in 0..Len(p) |-> IF n = 0 THEN <<>> ELSE E(f[n - 1], p[n])]
             at == CHOOSE f : f = R(f)
  <2>2. step \in [1..Len(p) -> [V -> V]]
    BY <1>1
  <2>3. PICK f \in [0..Len(p) -> V] : f[0] = <<>> /\ \A i \in 1..Len(p) : f[i] = step[i][f[i - 1]]
    <3> HIDE DEF step
    <3>1. \E f : Folds(f, Len(p), V, <<>>, step)
      BY <1>1, <2>1, <2>2, Recursion
    <3> QED BY <3>1 DEF Folds
  <2>4. \A i \in 1..Len(p) : i - 1 \in 0..Len(p) /\ f[i - 1] \in V /\ f[i] = E(f[i - 1], p[i])
    <3> TAKE i \in 1..Len(p)
    <3>1. i - 1 \in 0..Len(p)
      BY <2>1
    <3> QED BY <2>3, <3>1
  <2>5. f = R(f)
    <3>1. \A i \in 0..Len(p) : i # 0 => i \in 1..Len(p)
      BY <2>1
    <3> QED BY <2>3, <2>4, <3>1
  <2>6. at = R(at)
    <3> HIDE DEF R
    <3> QED BY <2>5
  <2>7. Walk(tree, follow, p) = at[Len(p)]
    BY DEF Walk, E
  <2> HIDE DEF at
  <2>8. at[0] = <<>>
    BY <2>1, <2>6
  <2>9. \A i \in 1..Len(p) : at[i] = E(at[i - 1], p[i])
    <3> TAKE i \in 1..Len(p)
    <3>1. i \in 0..Len(p) /\ i # 0
      BY <2>1
    <3> QED BY <2>6, <3>1
  <2>10. \A i \in 0..Len(p) : at[i] \in V
    <3> DEFINE T == {i \in 0..Len(p) : at[i] \in V}
    <3>1. 0 \in T
      BY <1>1, <2>1, <2>8
    <3>2. ASSUME NEW i \in 0..(Len(p) - 1), i \in T PROVE i + 1 \in T
      <4>1. i + 1 \in 1..Len(p) /\ i + 1 \in 0..Len(p) /\ (i + 1) - 1 = i
        BY <2>1
      <4> QED BY <1>1, <2>9, <3>2, <4>1
    <3> HIDE DEF T
    <3>3. \A i \in 0..Len(p) : i \in T
      BY <2>1, <3>1, <3>2, UpTo
    <3> QED BY <3>3 DEF T
  <2>11. at \in [0..Len(p) -> V]
    <3>1. at = [n \in 0..Len(p) |-> R(at)[n]]
      BY <2>6
    <3> HIDE DEF R
    <3> QED BY <2>10, <3>1
  <2> QED BY <2>7, <2>8, <2>9, <2>11
<1>3. Walk(tree, follow, <<>>) = <<>>
  <2>1. <<>> \in Seq(N) /\ Len(<<>>) = 0
    BY EmptySeq
  <2>2. PICK f : Goes(<<>>, f) /\ Walk(tree, follow, <<>>) = f[Len(<<>>)]
    BY <1>2, <2>1
  <2> QED BY <2>1, <2>2
<1>4. ASSUME NEW p \in Seq(N) PROVE Walk(tree, follow, p) \in V
  <2>1. PICK f : Goes(p, f) /\ Walk(tree, follow, p) = f[Len(p)]
    BY <1>2
  <2> QED BY <2>1, LenProperties
<1>5. ASSUME NEW p \in Seq(N), NEW x \in N PROVE Walk(tree, follow, Append(p, x)) = E(Walk(tree, follow, p), x)
  <2> DEFINE q == Append(p, x)
             n == Len(p)
  <2>1. n \in Nat /\ q \in Seq(N) /\ Len(q) = n + 1 /\ q[n + 1] = x /\ \A i \in 1..n : q[i] = p[i]
    BY AppendProperties, LenProperties
  <2>2. PICK f : Goes(p, f) /\ Walk(tree, follow, p) = f[n]
    BY <1>2
  <2>3. PICK g : Goes(q, g) /\ Walk(tree, follow, q) = g[n + 1]
    BY <1>2, <2>1
  <2> HIDE DEF q
  <2> DEFINE T == {i \in 0..n : f[i] = g[i]}
  <2>4. 0 \in T
    BY <2>1, <2>2, <2>3
  <2>5. ASSUME NEW i \in 0..(n - 1), i \in T PROVE i + 1 \in T
    <3>1. i + 1 \in 1..n /\ i + 1 \in 1..(n + 1) /\ i + 1 \in 0..n /\ (i + 1) - 1 = i
      BY <2>1
    <3>2. f[i + 1] = E(f[i], p[i + 1])
      BY <2>2, <3>1
    <3>3. g[i + 1] = E(g[i], q[i + 1])
      BY <2>1, <2>3, <3>1
    <3> QED BY <2>1, <2>5, <3>1, <3>2, <3>3
  <2> HIDE DEF T
  <2>6. \A i \in 0..n : i \in T
    BY <2>1, <2>4, <2>5, UpTo
  <2>7. f[n] = g[n]
    BY <2>1, <2>6 DEF T
  <2>8. g[n + 1] = E(g[n], x)
    <3>1. n + 1 \in 1..(n + 1) /\ (n + 1) - 1 = n
      BY <2>1
    <3>2. g[n + 1] = E(g[(n + 1) - 1], q[n + 1])
      BY <2>1, <2>3, <3>1
    <3> QED BY <2>1, <3>1, <3>2
  <2> QED BY <2>2, <2>3, <2>7, <2>8 DEF q
<1> QED BY <1>3, <1>4, <1>5 DEF V, E

\* Where the links lead, level by level.
Following(tree, to) ==
    /\ to \in [0..Cardinality(LinksOf(tree)) -> [LinksOf(tree) -> Leads(tree)]]
    /\ to[0] = [l \in LinksOf(tree) |-> Barred]
    /\ \A i \in 1..Cardinality(LinksOf(tree)) :
          to[i] = [l \in LinksOf(tree) |-> Walk(tree, to[i - 1], tree[l].to)]
    /\ Follow(tree) = to[Cardinality(LinksOf(tree))]

\* Every link leads somewhere, and each level follows from the one before.
LEMMA FollowIs ==
    ASSUME NEW tree, IsTree(tree)
    PROVE  /\ Cardinality(LinksOf(tree)) \in Nat
           /\ \E to : Following(tree, to)
           /\ Follow(tree) \in [LinksOf(tree) -> Leads(tree)]
<1> DEFINE n == Cardinality(LinksOf(tree))
           V == [LinksOf(tree) -> Leads(tree)]
           first == [l \in LinksOf(tree) |-> Barred]
           Next1(g) == [l \in LinksOf(tree) |-> Walk(tree, g, tree[l].to)]
           step == [i \in 1..n |-> [g \in V |-> Next1(g)]]
           R(f) == [i \in 0..n |-> [l \in LinksOf(tree) |-> IF i = 0 THEN Barred ELSE Walk(tree, f[i - 1], tree[l].to)]]
           at == CHOOSE f : f = R(f)
<1>1. n \in Nat
  <2>1. IsFiniteSet(DOMAIN tree) /\ LinksOf(tree) \subseteq DOMAIN tree
    BY DEF IsTree, LinksOf
  <2> QED BY <2>1, FS_Subset, FS_CardinalityType
<1>2. first \in V
  BY FoundIs
<1>3. \A g \in V : Next1(g) \in V
  <2> TAKE g \in V
  <2>1. ASSUME NEW l \in LinksOf(tree) PROVE Walk(tree, g, tree[l].to) \in Leads(tree)
    <3>1. tree[l].to \in Seq(Names \cup {Upward})
      BY DEF LinksOf, IsTree
    <3> QED BY <3>1, Walks
  <2> QED BY <2>1
<1> HIDE DEF V, Next1
<1>4. step \in [1..n -> [V -> V]]
  BY <1>3
<1>5. PICK f : Folds(f, n, V, first, step)
  <2> HIDE DEF step, first, n
  <2> QED BY <1>1, <1>2, <1>4, Recursion
<1>6. f \in [0..n -> V] /\ f[0] = first /\ \A i \in 1..n : f[i] = Next1(f[i - 1])
  <2>1. f \in [0..n -> V] /\ f[0] = first /\ \A i \in 1..n : f[i] = step[i][f[i - 1]]
    BY <1>5 DEF Folds
  <2>2. ASSUME NEW i \in 1..n PROVE f[i] = Next1(f[i - 1])
    <3>1. i - 1 \in 0..n
      BY <1>1
    <3> QED BY <2>1, <3>1
  <2> QED BY <2>1, <2>2
<1>7. f = R(f)
  <2>1. \A i \in 0..n : f[i] = [l \in LinksOf(tree) |-> IF i = 0 THEN Barred ELSE Walk(tree, f[i - 1], tree[l].to)]
    <3> TAKE i \in 0..n
    <3>1. CASE i = 0
      BY <1>6, <3>1
    <3>2. CASE i # 0
      <4>1. i \in 1..n
        BY <1>1, <3>2
      <4> QED BY <1>6, <3>2, <4>1 DEF Next1
    <3> QED BY <3>1, <3>2
  <2> HIDE DEF n
  <2> QED BY <1>6, <2>1
<1>8. at = R(at)
  <2> HIDE DEF R
  <2> QED BY <1>7
<1>9. Follow(tree) = at[n]
  BY DEF Follow
<1> HIDE DEF at, n
<1>10. at[0] = first
  BY <1>1, <1>8
<1>11. \A i \in 1..n : at[i] = Next1(at[i - 1])
  <2> TAKE i \in 1..n
  <2>1. i \in 0..n /\ i # 0
    BY <1>1
  <2> QED BY <1>8, <2>1 DEF Next1
<1>12. \A i \in 0..n : at[i] \in V
  <2> DEFINE T == {i \in 0..n : at[i] \in V}
  <2>1. 0 \in T
    BY <1>1, <1>2, <1>10
  <2>2. ASSUME NEW i \in 0..(n - 1), i \in T PROVE i + 1 \in T
    <3>1. i + 1 \in 1..n /\ i + 1 \in 0..n /\ (i + 1) - 1 = i
      BY <1>1
    <3> QED BY <1>3, <1>11, <2>2, <3>1
  <2> HIDE DEF T
  <2>3. \A i \in 0..n : i \in T
    BY <1>1, <2>1, <2>2, UpTo
  <2> QED BY <2>3 DEF T
<1>13. at \in [0..n -> V]
  <2>1. at = [i \in 0..n |-> R(at)[i]]
    BY <1>8
  <2> HIDE DEF R
  <2> QED BY <1>12, <2>1
<1>14. Following(tree, at)
  BY <1>9, <1>10, <1>11, <1>13 DEF Following, V, Next1, n
<1>15. Follow(tree) \in V
  BY <1>1, <1>9, <1>13
<1> QED BY <1>1, <1>14, <1>15 DEF V, n

\* A path is followed name by name.
LEMMA CanonicalIs ==
    ASSUME NEW tree, IsTree(tree), NEW N
    PROVE  /\ Canonical(tree, <<>>) = <<>>
           /\ \A p \in Seq(N) : Canonical(tree, p) \in Leads(tree)
           /\ \A p \in Seq(N), x \in N :
                 Canonical(tree, Append(p, x)) = Entered(tree, Follow(tree), Canonical(tree, p), x)
BY FollowIs, Walks DEF Canonical

\* What leads to one place leads to one place further on.
LEMMA SameBelow ==
    ASSUME NEW tree, IsTree(tree), NEW N, NEW a \in Seq(N), NEW b \in Seq(N),
           Canonical(tree, a) = Canonical(tree, b)
    PROVE  \A r \in Seq(N) : Canonical(tree, a \o r) = Canonical(tree, b \o r)
<1> DEFINE S == {r \in Seq(N) : Canonical(tree, a \o r) = Canonical(tree, b \o r)}
<1>1. <<>> \in S
  BY EmptySeq, ConcatEmptySeq
<1>2. ASSUME NEW r \in Seq(N), NEW x \in N, r \in S PROVE Append(r, x) \in S
  <2>1. a \o r \in Seq(N) /\ b \o r \in Seq(N) /\ Append(r, x) = r \o <<x>> /\ <<x>> \in Seq(N) /\ Append(r, x) \in Seq(N)
    BY ConcatProperties, OneName
  <2>2. a \o Append(r, x) = Append(a \o r, x) /\ b \o Append(r, x) = Append(b \o r, x)
    BY <2>1, ConcatAssociative, OneName
  <2>3. Canonical(tree, a \o Append(r, x)) = Entered(tree, Follow(tree), Canonical(tree, a \o r), x)
    BY <2>1, <2>2, CanonicalIs
  <2>4. Canonical(tree, b \o Append(r, x)) = Entered(tree, Follow(tree), Canonical(tree, b \o r), x)
    BY <2>1, <2>2, CanonicalIs
  <2> QED BY <1>2, <2>1, <2>3, <2>4
<1> HIDE DEF S
<1>3. \A r \in Seq(N) : r \in S
  BY <1>1, <1>2, NameByName
<1> QED BY <1>3 DEF S

\* Nothing is found below what is not found.
LEMMA LostBelow ==
    ASSUME NEW tree, IsTree(tree), NEW N, NEW a \in Seq(N), Canonical(tree, a) \in Unfound
    PROVE  \A r \in Seq(N) : Canonical(tree, a \o r) = Canonical(tree, a)
<1> DEFINE S == {r \in Seq(N) : Canonical(tree, a \o r) = Canonical(tree, a)}
<1>1. <<>> \in S
  BY EmptySeq, ConcatEmptySeq
<1>2. ASSUME NEW r \in Seq(N), NEW x \in N, r \in S PROVE Append(r, x) \in S
  <2>1. a \o r \in Seq(N) /\ Append(r, x) = r \o <<x>> /\ <<x>> \in Seq(N) /\ Append(r, x) \in Seq(N)
    BY ConcatProperties, OneName
  <2>2. a \o Append(r, x) = Append(a \o r, x)
    BY <2>1, ConcatAssociative, OneName
  <2>3. Canonical(tree, a \o Append(r, x)) = Entered(tree, Follow(tree), Canonical(tree, a \o r), x)
    BY <2>1, <2>2, CanonicalIs
  <2> QED BY <1>2, <2>1, <2>3 DEF Entered
<1> HIDE DEF S
<1>3. \A r \in Seq(N) : r \in S
  BY <1>1, <1>2, NameByName
<1> QED BY <1>3 DEF S

\* What is there and is not a link leads to itself.
LEMMA Itself ==
    ASSUME NEW tree, IsTree(tree), NEW p \in Present(tree)
    PROVE  Canonical(tree, p) = p
<1> DEFINE S == {q \in Seq(Names) : q \in Present(tree) => Canonical(tree, q) = q}
<1>1. <<>> \in S
  BY EmptySeq, CanonicalIs
<1>2. ASSUME NEW q \in Seq(Names), NEW x \in Names, q \in S PROVE Append(q, x) \in S
  <2> DEFINE r == Append(q, x)
  <2> SUFFICES ASSUME r \in Present(tree) PROVE Canonical(tree, r) = r
    BY OneName
  <2>1. r \in DOMAIN tree /\ r # <<>> /\ Parent(r) = q /\ tree[r].kind # "link"
    BY FoundIs, OneName DEF Present
  <2>2. q \in Present(tree) /\ tree[q].kind = "directory" /\ q \notin Unfound
    BY <2>1, FoundIs
  <2>3. Canonical(tree, q) = q
    BY <1>2, <2>2
  <2>4. Canonical(tree, r) = Entered(tree, Follow(tree), q, x)
    BY <2>3, CanonicalIs
  <2>5. x # Upward
    BY TreeAssumption
  <2> QED BY <2>1, <2>2, <2>4, <2>5 DEF Entered
<1> HIDE DEF S
<1>3. \A q \in Seq(Names) : q \in S
  BY <1>1, <1>2, NameByName
<1>4. p \in Seq(Names)
  BY FoundIs
<1> QED BY <1>3, <1>4 DEF S

\* What is there lies in directories.
LEMMA FoundStarts ==
    ASSUME NEW tree, IsTree(tree), NEW p \in Present(tree)
    PROVE  \A n \in 0..(Len(p) - 1) : SubSeq(p, 1, n) \in Present(tree) /\ tree[SubSeq(p, 1, n)].kind = "directory"
<1> DEFINE S == {q \in Seq(Names) : q \in Present(tree) =>
                    \A n \in 0..(Len(q) - 1) : SubSeq(q, 1, n) \in Present(tree) /\ tree[SubSeq(q, 1, n)].kind = "directory"}
<1>1. <<>> \in S
  BY EmptySeq
<1>2. ASSUME NEW q \in Seq(Names), NEW x \in Names, q \in S PROVE Append(q, x) \in S
  <2> DEFINE r == Append(q, x)
  <2> SUFFICES ASSUME r \in Present(tree), NEW n \in 0..(Len(r) - 1)
               PROVE  SubSeq(r, 1, n) \in Present(tree) /\ tree[SubSeq(r, 1, n)].kind = "directory"
    BY OneName
  <2>1. r \in DOMAIN tree /\ r # <<>> /\ Parent(r) = q /\ Len(r) = Len(q) + 1 /\ Len(q) \in Nat
    BY FoundIs, OneName, LenProperties
  <2>2. q \in Present(tree) /\ tree[q].kind = "directory"
    BY <2>1, FoundIs
  <2>3. CASE n = Len(q)
    <3>1. SubSeq(r, 1, n) = q
      BY <2>1, <2>3 DEF Parent
    <3> QED BY <2>2, <3>1
  <2>4. CASE n # Len(q)
    <3>1. n \in 0..(Len(q) - 1) /\ n \in 0..Len(q) /\ n \in Nat
      BY <2>1, <2>4
    <3>2. SubSeq(r, 1, n) = SubSeq(q, 1, n)
      <4>1. \A i \in 1..n : q[i] \in Names /\ r[i] = q[i]
        BY <2>1, <3>1, ElementOfSeq, AppendProperties
      <4>2. /\ SubSeq(q, 1, n) \in Seq(Names) /\ Len(SubSeq(q, 1, n)) = n
            /\ \A i \in 1..n : SubSeq(q, 1, n)[i] = q[i]
        BY <3>1, <4>1, SubSeqProperties
      <4>3. /\ SubSeq(r, 1, n) \in Seq(Names) /\ Len(SubSeq(r, 1, n)) = n
            /\ \A i \in 1..n : SubSeq(r, 1, n)[i] = r[i]
        <5> HIDE DEF r
        <5> QED BY <3>1, <4>1, SubSeqProperties
      <4> HIDE DEF r
      <4> QED BY <4>1, <4>2, <4>3, SeqEqual
    <3> QED BY <1>2, <2>2, <3>1, <3>2
  <2> QED BY <2>3, <2>4
<1> HIDE DEF S
<1>3. \A q \in Seq(Names) : q \in S
  BY <1>1, <1>2, NameByName
<1>4. p \in Seq(Names)
  BY FoundIs
<1> QED BY <1>3, <1>4 DEF S

-----------------------------------------------------------------------------
(***************************************************************************)
(* Entries, and what is left of a path whose end is gone.                  *)
(***************************************************************************)

\* The entry of a path is found where its parent leads to a directory; it
\* leads to itself, unless it is a link, and a path with no entry leads nowhere.
LEMMA EntryIs ==
    ASSUME NEW tree, IsTree(tree), NEW p \in Seq(Names)
    PROVE  /\ Entry(tree, p) \in Unfound => Canonical(tree, p) = Entry(tree, p)
           /\ Entry(tree, p) \notin Unfound =>
                 /\ Entry(tree, p) \in DOMAIN tree
                 /\ tree[Entry(tree, p)].kind # "link" =>
                       Entry(tree, p) \in Present(tree) /\ Canonical(tree, p) = Entry(tree, p)
                 /\ p # <<>> =>
                       /\ Canonical(tree, Parent(p)) \in Present(tree)
                       /\ tree[Canonical(tree, Parent(p))].kind = "directory"
                       /\ Entry(tree, p) = Append(Canonical(tree, Parent(p)), Name(p))
           /\ Entry(tree, p) = Barred <=> p # <<>> /\
                 LET above == Canonical(tree, Parent(p))
                 IN  above = Barred \/ (above \in Present(tree) /\ tree[above].kind # "directory")
<1>1. CASE p = <<>>
  <2>1. Entry(tree, p) = <<>> /\ Canonical(tree, p) = <<>> /\ <<>> \in Present(tree)
    BY <1>1, CanonicalIs, FoundIs DEF Entry
  <2> QED BY <1>1, <2>1, FoundIs DEF Unfound
<1>2. CASE p # <<>>
  <2> DEFINE above == Canonical(tree, Parent(p))
             here == Append(above, Name(p))
  <2>1. Parent(p) \in Seq(Names) /\ Name(p) \in Names /\ p = Append(Parent(p), Name(p))
    BY <1>2, LastName
  <2>2. above \in Leads(tree) /\ Canonical(tree, p) = Entered(tree, Follow(tree), above, Name(p))
    <3>1. Canonical(tree, Append(Parent(p), Name(p))) = Entered(tree, Follow(tree), above, Name(p))
      BY <2>1, CanonicalIs
    <3> QED BY <2>1, <3>1, CanonicalIs
  <2>3. Name(p) # Upward
    BY <2>1, TreeAssumption
  <2>4. Entry(tree, p) =
            IF above \in Unfound THEN above
            ELSE IF tree[above].kind # "directory" THEN Barred
            ELSE IF here \in DOMAIN tree THEN here ELSE Nowhere
    BY <1>2 DEF Entry
  <2>5. above \notin Unfound => above \in Present(tree)
    BY <2>2, FoundIs
  <2>6. here \in DOMAIN tree => here \notin Unfound
    <3> HIDE DEF here
    <3>1. \A q \in DOMAIN tree : q \in Seq(Names)
      BY DEF IsTree
    <3>2. \A q \in Seq(Names) : q \in Seq(Names \cup {Upward})
      <4>1. Names \subseteq Names \cup {Upward}
        OBVIOUS
      <4> QED BY <4>1, SeqMonotonic
    <3> QED BY <3>1, <3>2, MarkAssumption DEF Unfound
  <2>7. Nowhere # Barred /\ Nowhere \in Unfound /\ Barred \in Unfound
    BY MarkAssumption DEF Unfound
  <2>8. above \in Present(tree) => above \notin Unfound
    BY FoundIs
  <2> HIDE DEF above, here
  <2>9. CASE above \in Unfound
    <3>1. Entry(tree, p) = above /\ Canonical(tree, p) = above
      BY <2>2, <2>4, <2>9 DEF Entered
    <3>2. above \notin Present(tree) /\ (Entry(tree, p) = Barred <=> above = Barred)
      BY <2>8, <2>9, <3>1
    <3>3. Entry(tree, p) \in Unfound /\ Canonical(tree, p) = Entry(tree, p)
      BY <2>9, <3>1
    <3> QED BY <1>2, <3>2, <3>3, Zenon DEF above
  <2>10. CASE above \notin Unfound /\ tree[above].kind # "directory"
    <3>1. Entry(tree, p) = Barred /\ Canonical(tree, p) = Barred
      BY <2>2, <2>4, <2>10 DEF Entered
    <3> QED BY <1>2, <2>5, <2>7, <2>10, <3>1 DEF above
  <2>11. CASE above \notin Unfound /\ tree[above].kind = "directory" /\ here \notin DOMAIN tree
    <3>1. Entry(tree, p) = Nowhere /\ Canonical(tree, p) = Nowhere
      BY <2>2, <2>3, <2>4, <2>11 DEF Entered, here
    <3> QED BY <2>7, <2>11, <3>1 DEF above, Unfound
  <2>12. CASE above \notin Unfound /\ tree[above].kind = "directory" /\ here \in DOMAIN tree
    <3>1. Entry(tree, p) = here
      BY <2>4, <2>12
    <3>2. tree[here].kind # "link" => Canonical(tree, p) = here
      BY <2>2, <2>3, <2>12 DEF Entered, here
    <3> QED BY <2>5, <2>6, <2>7, <2>12, <3>1, <3>2 DEF above, here, Present
  <2> QED BY <2>9, <2>10, <2>11, <2>12
<1> QED BY <1>1, <1>2

\* The greatest of finitely many numbers.
LEMMA Greatest ==
    ASSUME NEW n \in Nat, NEW S \in SUBSET (0..n), S # {}
    PROVE  Max(S) \in S /\ \A m \in S : m <= Max(S)
<1> DEFINE T == {k \in 0..n : n - k \in S}
<1>1. T # {} /\ T \in SUBSET Nat
  <2>1. PICK m \in S : TRUE
    OBVIOUS
  <2>2. m \in 0..n /\ n - m \in 0..n /\ n - (n - m) = m
    BY <2>1
  <2>3. n - m \in T
    BY <2>1, <2>2
  <2> QED BY <2>3
<1>2. PICK k \in T : \A l \in T : k <= l
  <2> HIDE DEF T
  <2> QED BY <1>1, LeastNumber
<1>3. n - k \in S /\ \A m \in S : n - k >= m
  <2>1. n - k \in S
    OBVIOUS
  <2>2. ASSUME NEW m \in S PROVE n - k >= m
    <3>1. m \in 0..n /\ n - m \in 0..n /\ n - (n - m) = m
      OBVIOUS
    <3>2. k \in 0..n /\ k <= n - m
      BY <1>2, <3>1
    <3> QED BY <3>1, <3>2
  <2> QED BY <2>1, <2>2
<1>4. Max(S) \in S /\ \A m \in S : Max(S) >= m
  BY <1>3 DEF Max
<1> QED BY <1>4

\* What is left of a path whose end is gone: it is where the longest start that
\* leads anywhere leads, which no start that is longer does.
LEMMA Reached ==
    ASSUME NEW n \in Nat, NEW where, DOMAIN where = 0..n, where[0] # Nowhere
    PROVE  Reach(where) \in 0..n /\ where[Reach(where)] # Nowhere
           /\ \A m \in 0..n : Reach(where) < m => where[m] = Nowhere
<1> DEFINE S == {k \in DOMAIN where : where[k] # Nowhere}
<1>1. S \in SUBSET (0..n) /\ 0 \in S
  OBVIOUS
<1> HIDE DEF S
<1>2. Max(S) \in S /\ \A m \in S : m <= Max(S)
  BY <1>1, Greatest
<1>3. Reach(where) = Max(S)
  BY DEF Reach, S
<1>4. ASSUME NEW m \in 0..n, Max(S) < m PROVE where[m] = Nowhere
  <2> DEFINE k == Max(S)
  <2>00. k \in 0..n /\ k < m
    BY <1>1, <1>2, <1>4
  <2> HIDE DEF k
  <2>0. ~ (m <= k)
    BY <2>00
  <2>1. m \notin S
    BY <1>2, <2>0 DEF k
  <2> QED BY <2>1 DEF S
<1> QED BY <1>1, <1>2, <1>3, <1>4 DEF S

\* s leads to `at`, and nothing below s, up to s \o r, leads anywhere.
LostAfter(tree, s, r, at) ==
    /\ s \in Seq(Names) /\ r \in Seq(Names)
    /\ at \in Present(tree) /\ Canonical(tree, s) = at
    /\ \A n \in 1..Len(r) : Canonical(tree, s \o SubSeq(r, 1, n)) = Nowhere

\* A path is where its longest start that leads anywhere leads, with the rest behind it.
LEMMA MissingTail ==
    ASSUME NEW tree, IsTree(tree), NEW p \in Seq(Names), WithMissingTail(tree, p) # Refused
    PROVE  \E s, r, at : p = s \o r /\ LostAfter(tree, s, r, at) /\ WithMissingTail(tree, p) = at \o r
<1> DEFINE L == Len(p)
           where == [k \in 0..L |-> Canonical(tree, SubSeq(p, 1, k))]
           n == Reach(where)
           s == SubSeq(p, 1, n)
           r == SubSeq(p, n + 1, L)
           at == Canonical(tree, s)
<1>1. L \in Nat /\ DOMAIN where = 0..L /\ where[0] # Nowhere
  <2>1. L \in Nat
    BY LenProperties
  <2>2. SubSeq(p, 1, 0) = <<>> /\ 0 \in 0..L
    BY <2>1, SubSeqEmpty
  <2>3. where[0] = <<>>
    BY <2>2, CanonicalIs
  <2>4. <<>> # Nowhere
    BY FoundIs DEF Unfound
  <2> QED BY <2>1, <2>3, <2>4
<1> HIDE DEF L
<1>2. n \in 0..L /\ where[n] # Nowhere /\ \A m \in 0..L : n < m => where[m] = Nowhere
  <2> HIDE DEF where
  <2> QED BY <1>1, Reached
<1>3. WithMissingTail(tree, p) = (IF at = Barred THEN Refused ELSE at \o r)
  BY DEF WithMissingTail, L
<1> HIDE DEF n
<1>4. /\ s \in Seq(Names) /\ r \in Seq(Names) /\ p = s \o r /\ Len(s) = n /\ Len(r) = L - n /\ n \in Nat
  <2>1. n \in 0..Len(p) /\ L = Len(p) /\ n \in Nat
    BY <1>1, <1>2 DEF L
  <2>2. /\ SubSeq(p, 1, n) \in Seq(Names) /\ Len(SubSeq(p, 1, n)) = n
        /\ SubSeq(p, n + 1, Len(p)) \in Seq(Names) /\ Len(SubSeq(p, n + 1, Len(p))) = Len(p) - n
        /\ p = SubSeq(p, 1, n) \o SubSeq(p, n + 1, Len(p))
    BY <2>1, Start
  <2> QED BY <2>1, <2>2
<1>5. at \in Present(tree)
  <2>1. at \in Leads(tree) /\ at # Nowhere /\ at # Barred
    BY <1>2, <1>3, <1>4, CanonicalIs
  <2> QED BY <2>1, FoundIs DEF Unfound
<1>6. ASSUME NEW m \in 1..Len(r) PROVE Canonical(tree, s \o SubSeq(r, 1, m)) = Nowhere
  <2>1. n + m \in 0..L /\ n < n + m /\ m \in 0..Len(r)
    BY <1>1, <1>4
  <2>2. SubSeq(p, 1, n + m) = s \o SubSeq(r, 1, m)
    <3> HIDE DEF s, r
    <3>1. SubSeq(s \o r, 1, Len(s) + m) = s \o SubSeq(r, 1, m)
      BY <1>4, <2>1, StartOfBoth
    <3> QED BY <1>4, <3>1
  <2>3. where[n + m] = Nowhere
    BY <1>2, <2>1
  <2>4. where[n + m] = Canonical(tree, SubSeq(p, 1, n + m))
    BY <2>1
  <2> QED BY <2>2, <2>3, <2>4
<1>7. LostAfter(tree, s, r, at)
  <2> HIDE DEF s, r
  <2> QED BY <1>4, <1>5, <1>6 DEF LostAfter
<1>8. WithMissingTail(tree, p) = at \o r
  BY <1>3, <1>5, FoundIs DEF Unfound
<1> HIDE DEF s, r, at
<1> QED BY <1>4, <1>7, <1>8

\* What is left of a path leads where the path leads, and below it too.
LEMMA TailLeads ==
    ASSUME NEW tree, IsTree(tree), NEW p \in Seq(Names), WithMissingTail(tree, p) # Refused
    PROVE  /\ WithMissingTail(tree, p) \in Seq(Names)
           /\ Canonical(tree, WithMissingTail(tree, p)) = Canonical(tree, p)
<1>1. PICK s, r, at : p = s \o r /\ LostAfter(tree, s, r, at) /\ WithMissingTail(tree, p) = at \o r
  BY MissingTail
<1>2. s \in Seq(Names) /\ r \in Seq(Names) /\ at \in Seq(Names) /\ at \in Present(tree) /\ Canonical(tree, s) = at
  BY <1>1, FoundIs DEF LostAfter
<1>3. Canonical(tree, at) = Canonical(tree, s)
  BY <1>2, Itself
<1>4. Canonical(tree, at \o r) = Canonical(tree, s \o r)
  BY <1>2, <1>3, SameBelow
<1>5. at \o r \in Seq(Names)
  BY <1>2, ConcatProperties
<1> QED BY <1>1, <1>4, <1>5

\* Every start of the path leads to itself, or nowhere.
Plain(tree, p) == \A n \in 0..Len(p) : Canonical(tree, SubSeq(p, 1, n)) \in {SubSeq(p, 1, n), Nowhere}

\* The start of the first half.
LEMMA StartOfFirst ==
    ASSUME NEW N, NEW p \in Seq(N), NEW q \in Seq(N), NEW n \in 0..Len(p)
    PROVE  SubSeq(p \o q, 1, n) = SubSeq(p, 1, n)
<1>1. Len(p) \in Nat /\ n \in Nat
  BY LenProperties
<1>2. CASE n = 0
  BY <1>2, SubSeqEmpty
<1>3. CASE n # 0
  <2>1. 1 \in 1..Len(p) /\ n \in 1..Len(p)
    BY <1>1, <1>3
  <2> QED BY <2>1, SubSeqOfConcat1
<1> QED BY <1>2, <1>3

\* What is left of a path is plain.
LEMMA TailIsPlain ==
    ASSUME NEW tree, IsTree(tree), NEW p \in Seq(Names), WithMissingTail(tree, p) # Refused
    PROVE  Plain(tree, WithMissingTail(tree, p))
<1>1. PICK s, r, at : p = s \o r /\ LostAfter(tree, s, r, at) /\ WithMissingTail(tree, p) = at \o r
  BY MissingTail
<1>2. /\ s \in Seq(Names) /\ r \in Seq(Names) /\ at \in Seq(Names) /\ at \in Present(tree) /\ Canonical(tree, s) = at
      /\ \A n \in 1..Len(r) : Canonical(tree, s \o SubSeq(r, 1, n)) = Nowhere
  BY <1>1, FoundIs DEF LostAfter
<1>3. Canonical(tree, at) = at /\ Len(at) \in Nat /\ Len(r) \in Nat /\ Len(at \o r) = Len(at) + Len(r)
  BY <1>2, Itself, Halves
<1> SUFFICES ASSUME NEW n \in 0..Len(at \o r)
             PROVE  Canonical(tree, SubSeq(at \o r, 1, n)) \in {SubSeq(at \o r, 1, n), Nowhere}
  BY <1>1 DEF Plain
<1>4. CASE n <= Len(at)
  <2>1. n \in 0..Len(at)
    BY <1>3, <1>4
  <2>2. SubSeq(at \o r, 1, n) = SubSeq(at, 1, n)
    BY <1>2, <2>1, StartOfFirst
  <2>3. SubSeq(at, 1, n) \in Present(tree)
    <3>1. CASE n = Len(at)
      BY <1>2, <3>1, SubSeqFull
    <3>2. CASE n # Len(at)
      <4>1. n \in 0..(Len(at) - 1)
        BY <1>3, <2>1, <3>2
      <4> QED BY <1>2, <4>1, FoundStarts
    <3> QED BY <3>1, <3>2
  <2> QED BY <2>2, <2>3, Itself
<1>5. CASE ~ (n <= Len(at))
  <2> DEFINE k == n - Len(at)
  <2>1. k \in 1..Len(r) /\ k \in 0..Len(r) /\ n = Len(at) + k
    BY <1>3, <1>5
  <2> HIDE DEF k
  <2>2. SubSeq(at \o r, 1, n) = at \o SubSeq(r, 1, k) /\ SubSeq(r, 1, k) \in Seq(Names)
    <3>1. SubSeq(at \o r, 1, Len(at) + k) = at \o SubSeq(r, 1, k)
      BY <1>2, <2>1, StartOfBoth
    <3>2. SubSeq(r, 1, k) \in Seq(Names)
      BY <1>2, <2>1, Start
    <3> QED BY <2>1, <3>1, <3>2
  <2>3. Canonical(tree, at \o SubSeq(r, 1, k)) = Canonical(tree, s \o SubSeq(r, 1, k))
    <3>1. \A x \in Seq(Names) : Canonical(tree, at \o x) = Canonical(tree, s \o x)
      BY <1>2, <1>3, SameBelow
    <3> QED BY <2>2, <3>1
  <2> QED BY <1>2, <2>1, <2>2, <2>3
<1> QED BY <1>4, <1>5

\* A plain path is all that is left of it.
LEMMA PlainStays ==
    ASSUME NEW tree, IsTree(tree), NEW p \in Seq(Names), Plain(tree, p)
    PROVE  WithMissingTail(tree, p) = p
<1> DEFINE L == Len(p)
           where == [k \in 0..L |-> Canonical(tree, SubSeq(p, 1, k))]
           n == Reach(where)
           at == Canonical(tree, SubSeq(p, 1, n))
<1>1. L \in Nat /\ DOMAIN where = 0..L /\ where[0] # Nowhere
  <2>1. L \in Nat
    BY LenProperties
  <2>2. SubSeq(p, 1, 0) = <<>> /\ 0 \in 0..L
    BY <2>1, SubSeqEmpty
  <2>3. where[0] = <<>>
    BY <2>2, CanonicalIs
  <2>4. <<>> # Nowhere
    BY FoundIs DEF Unfound
  <2> QED BY <2>1, <2>3, <2>4
<1>2. n \in 0..L /\ where[n] # Nowhere
  <2> HIDE DEF where, L
  <2> QED BY <1>1, Reached
<1>3. WithMissingTail(tree, p) = (IF at = Barred THEN Refused ELSE at \o SubSeq(p, n + 1, L))
  BY DEF WithMissingTail
<1> HIDE DEF n
<1>4. at = SubSeq(p, 1, n)
  BY <1>2 DEF Plain
<1>5. SubSeq(p, 1, n) \in Seq(Names) /\ p = SubSeq(p, 1, n) \o SubSeq(p, n + 1, L)
  BY <1>2, Start
<1>6. at # Barred
  <2>1. Names \subseteq Names \cup {Upward}
    OBVIOUS
  <2>2. SubSeq(p, 1, n) \in Seq(Names \cup {Upward})
    BY <1>5, <2>1, SeqMonotonic
  <2> QED BY <1>4, <2>2, MarkAssumption
<1> QED BY <1>3, <1>4, <1>5, <1>6

\* Where no directory down to a target is a link, the way there is plain.
LEMMA SafeIsPlain ==
    ASSUME NEW tree, IsTree(tree), NEW root \in Seq(Names), Plain(tree, root),
           NEW target \in Seq(Names), target # <<>>, SafeAncestors(tree, root, target)
    PROVE  Plain(tree, root \o Parent(target))
<1> DEFINE t == Parent(target)
           Z(n) == root \o SubSeq(t, 1, n)
<1>1. t \in Seq(Names) /\ Len(target) = Len(t) + 1 /\ Len(t) \in Nat /\ Len(root) \in Nat
  BY LastName, LenProperties
<1>2. \A n \in 0..Len(t) : SubSeq(target, 1, n) = SubSeq(t, 1, n)
  <2> TAKE n \in 0..Len(t)
  <2>1. target = Append(t, Name(target)) /\ Name(target) \in Names
    BY LastName
  <2>2. Append(t, Name(target)) = t \o <<Name(target)>> /\ <<Name(target)>> \in Seq(Names)
    BY <1>1, <2>1, OneName
  <2> HIDE DEF t
  <2> QED BY <1>1, <2>1, <2>2, StartOfFirst
<1>3. \A n \in 0..Len(t) : Entry(tree, Z(n)) # Barred
                           /\ (Entry(tree, Z(n)) # Nowhere => tree[Entry(tree, Z(n))].kind # "link")
  <2> TAKE n \in 0..Len(t)
  <2>1. n \in 0..(Len(target) - 1)
    BY <1>1
  <2> HIDE DEF t
  <2> QED BY <1>2, <2>1 DEF SafeAncestors
<1> HIDE DEF t
<1>4. \A n \in 0..Len(t) : Canonical(tree, Z(n)) \in {Z(n), Nowhere}
  <2> DEFINE S == {n \in 0..Len(t) : Canonical(tree, Z(n)) \in {Z(n), Nowhere}}
  <2>1. 0 \in S
    <3>1. SubSeq(t, 1, 0) = <<>> /\ root \o <<>> = root
      BY SubSeqEmpty, ConcatEmptySeq
    <3>2. Canonical(tree, SubSeq(root, 1, Len(root))) \in {SubSeq(root, 1, Len(root)), Nowhere}
      BY <1>1 DEF Plain
    <3>3. Canonical(tree, root) \in {root, Nowhere}
      BY <3>2, SubSeqFull
    <3>4. Z(0) = root /\ 0 \in 0..Len(t)
      BY <1>1, <3>1
    <3> HIDE DEF Z
    <3> QED BY <3>3, <3>4
  <2>2. ASSUME NEW n \in 0..(Len(t) - 1), n \in S PROVE n + 1 \in S
    <3>1. n \in 0..Len(t) /\ n + 1 \in 0..Len(t) /\ n < Len(t)
      BY <1>1
    <3>2. t[n + 1] \in Names /\ SubSeq(t, 1, n + 1) = Append(SubSeq(t, 1, n), t[n + 1]) /\ SubSeq(t, 1, n) \in Seq(Names)
      BY <1>1, <3>1, Start
    <3>3. Z(n) \in Seq(Names) /\ Z(n + 1) = Append(Z(n), t[n + 1])
      <4>1. Append(SubSeq(t, 1, n), t[n + 1]) = SubSeq(t, 1, n) \o <<t[n + 1]>> /\ <<t[n + 1]>> \in Seq(Names)
        BY <3>2, OneName
      <4>2. Z(n) \in Seq(Names)
        BY <3>2, ConcatProperties
      <4>3. Append(Z(n), t[n + 1]) = Z(n) \o <<t[n + 1]>>
        BY <3>2, <4>2, OneName
      <4> QED BY <3>2, <4>1, <4>2, <4>3, ConcatAssociative
    <3> DEFINE z == Z(n + 1)
    <3>4. z \in Seq(Names) /\ z # <<>> /\ Parent(z) = Z(n) /\ z = Append(Parent(z), Name(z))
      <4> HIDE DEF Z
      <4>1. /\ Append(Z(n), t[n + 1]) \in Seq(Names) /\ Append(Z(n), t[n + 1]) # <<>>
            /\ Parent(Append(Z(n), t[n + 1])) = Z(n) /\ Name(Append(Z(n), t[n + 1])) = t[n + 1]
        BY <3>2, <3>3, OneName
      <4> QED BY <3>3, <4>1
    <3>5. Canonical(tree, Z(n)) \in {Z(n), Nowhere}
      BY <2>2
    <3>6. Entry(tree, z) # Barred /\ (Entry(tree, z) # Nowhere => tree[Entry(tree, z)].kind # "link")
      BY <1>3, <3>1
    <3> HIDE DEF z, S, Z
    <3>7. CASE Entry(tree, z) \in Unfound
      <4>1. Canonical(tree, z) = Nowhere
        BY <3>4, <3>6, <3>7, EntryIs DEF Unfound
      <4> QED BY <3>1, <4>1 DEF z, S
    <3>8. CASE Entry(tree, z) \notin Unfound
      <4>1. /\ Canonical(tree, Parent(z)) \in Present(tree)
            /\ Entry(tree, z) = Append(Canonical(tree, Parent(z)), Name(z))
            /\ Canonical(tree, z) = Entry(tree, z)
        BY <3>4, <3>6, <3>8, EntryIs DEF Unfound
      <4>2. Canonical(tree, Parent(z)) = Parent(z)
        BY <3>4, <3>5, <4>1, FoundIs DEF Unfound
      <4>3. Canonical(tree, z) = z
        BY <3>4, <4>1, <4>2
      <4> QED BY <3>1, <4>3 DEF z, S
    <3> QED BY <3>7, <3>8
  <2> HIDE DEF S
  <2>3. \A n \in 0..Len(t) : n \in S
    BY <1>1, <2>1, <2>2, UpTo
  <2> QED BY <2>3 DEF S
<1> SUFFICES ASSUME NEW n \in 0..Len(root \o t)
             PROVE  Canonical(tree, SubSeq(root \o t, 1, n)) \in {SubSeq(root \o t, 1, n), Nowhere}
  BY DEF Plain, t
<1>5. Len(root \o t) = Len(root) + Len(t)
  BY <1>1, Halves
<1>6. CASE n <= Len(root)
  <2>1. n \in 0..Len(root)
    BY <1>1, <1>6
  <2>2. SubSeq(root \o t, 1, n) = SubSeq(root, 1, n)
    BY <1>1, <2>1, StartOfFirst
  <2> QED BY <2>1, <2>2 DEF Plain
<1>7. CASE ~ (n <= Len(root))
  <2> DEFINE k == n - Len(root)
  <2>1. k \in 0..Len(t) /\ n = Len(root) + k
    BY <1>1, <1>5, <1>7
  <2> HIDE DEF k
  <2>2. SubSeq(root \o t, 1, Len(root) + k) = root \o SubSeq(t, 1, k)
    BY <1>1, <2>1, StartOfBoth
  <2> QED BY <1>4, <2>1, <2>2
<1> QED BY <1>6, <1>7

-----------------------------------------------------------------------------
(***************************************************************************)
(* The policy.                                                             *)
(***************************************************************************)

\* Two numbers are ordered or the same.
LEMMA Trichotomy == \A a, b \in Nat : a < b \/ a > b \/ a = b
  OBVIOUS

\* Below what is in a root is in a root.
LEMMA AllowedBelow ==
    ASSUME NEW roots \in SUBSET Seq(Names), NEW p \in Seq(Names), NEW r \in Seq(Names), Allowed(roots, p)
    PROVE  Allowed(roots, p \o r)
<1>1. PICK s \in roots : IsPrefix(s, p)
  BY DEF Allowed
<1>2. s \in Seq(Names)
  OBVIOUS
<1> DEFINE q == RelativeDisplay(s, p)
<1>3. q \in Seq(Names) /\ p = s \o q
  BY <1>1, <1>2, BelowIs
<1> HIDE DEF q
<1>4. p \o r = s \o (q \o r) /\ q \o r \in Seq(Names) /\ p \o r \in Seq(Names)
  BY <1>2, <1>3, ConcatAssociative, ConcatProperties
<1>5. IsPrefix(s, p \o r)
  BY <1>2, <1>4, BelowIs
<1> QED BY <1>5 DEF Allowed

\* What may be read is there, in a root.
LEMMA ReadIs ==
    ASSUME NEW tree, IsTree(tree), NEW roots, NEW N, NEW p \in Seq(N), ValidateRead(tree, roots, p) # Refused
    PROVE  /\ Canonical(tree, p) \in Present(tree) /\ Allowed(roots, Canonical(tree, p))
           /\ ValidateRead(tree, roots, p) = Canonical(tree, p)
<1>1. Canonical(tree, p) \in Leads(tree)
  BY CanonicalIs
<1>2. /\ Canonical(tree, p) \notin Unfound /\ Allowed(roots, Canonical(tree, p))
      /\ ValidateRead(tree, roots, p) = Canonical(tree, p)
  BY DEF ValidateRead
<1> QED BY <1>1, <1>2, FoundIs

\* Where a path may be written, its longest start with an entry leads into a root.
LEMMA WriteIs ==
    ASSUME NEW tree, IsTree(tree), NEW roots, NEW p \in Seq(Names), ValidateWrite(tree, roots, p) # Refused
    PROVE  \E k \in 0..Len(p) :
              /\ Canonical(tree, SubSeq(p, 1, k)) \in Present(tree)
              /\ Allowed(roots, Canonical(tree, SubSeq(p, 1, k)))
              /\ \A m \in 0..Len(p) : k < m => Entry(tree, SubSeq(p, 1, m)) = Nowhere
<1> DEFINE where == [n \in 0..Len(p) |-> Entry(tree, SubSeq(p, 1, n))]
           k == Reach(where)
<1>1. Len(p) \in Nat /\ DOMAIN where = 0..Len(p) /\ where[0] # Nowhere
  <2>1. Len(p) \in Nat
    BY LenProperties
  <2>2. SubSeq(p, 1, 0) = <<>> /\ 0 \in 0..Len(p)
    BY <2>1, SubSeqEmpty
  <2>3. where[0] = <<>>
    BY <2>2 DEF Entry
  <2>4. <<>> # Nowhere
    BY FoundIs DEF Unfound
  <2> QED BY <2>1, <2>3, <2>4
<1>2. k \in 0..Len(p) /\ \A m \in 0..Len(p) : k < m => where[m] = Nowhere
  <2> HIDE DEF where
  <2> QED BY <1>1, Reached
<1>3. NearestExisting(tree, p) # Refused /\ ValidateRead(tree, roots, NearestExisting(tree, p)) # Refused
  BY DEF ValidateWrite
<1>4. NearestExisting(tree, p) = SubSeq(p, 1, k)
  BY <1>3 DEF NearestExisting
<1>5. \A m \in 0..Len(p) : k < m => Entry(tree, SubSeq(p, 1, m)) = Nowhere
  BY <1>2
<1> HIDE DEF k
<1>6. SubSeq(p, 1, k) \in Seq(Names)
  BY <1>2, Start
<1>7. Canonical(tree, SubSeq(p, 1, k)) \in Present(tree) /\ Allowed(roots, Canonical(tree, SubSeq(p, 1, k)))
  BY <1>3, <1>4, <1>6, ReadIs
<1> QED BY <1>2, <1>5, <1>7

\* A path with no entry leads nowhere.
LEMMA NoEntry ==
    ASSUME NEW tree, IsTree(tree), NEW p \in Seq(Names), Entry(tree, p) = Nowhere
    PROVE  Canonical(tree, p) = Nowhere
BY EntryIs DEF Unfound

\* The marks are no entries.
LEMMA NotFound == ASSUME NEW tree, IsTree(tree) PROVE Nowhere \notin Present(tree) /\ Barred \notin Present(tree)
BY FoundIs DEF Unfound

\* Where a path may be written, what is left of it lies in a root.
LEMMA TailIsAllowed ==
    ASSUME NEW tree, IsTree(tree), NEW roots \in SUBSET Seq(Names), NEW p \in Seq(Names),
           WithMissingTail(tree, p) # Refused, ValidateWrite(tree, roots, p) # Refused
    PROVE  Allowed(roots, WithMissingTail(tree, p))
<1>1. PICK s, r, at : p = s \o r /\ LostAfter(tree, s, r, at) /\ WithMissingTail(tree, p) = at \o r
  BY MissingTail
<1>2. /\ s \in Seq(Names) /\ r \in Seq(Names) /\ at \in Seq(Names) /\ at \in Present(tree) /\ Canonical(tree, s) = at
      /\ \A n \in 1..Len(r) : Canonical(tree, s \o SubSeq(r, 1, n)) = Nowhere
  BY <1>1, FoundIs DEF LostAfter
<1>3. PICK k \in 0..Len(p) :
              /\ Canonical(tree, SubSeq(p, 1, k)) \in Present(tree)
              /\ Allowed(roots, Canonical(tree, SubSeq(p, 1, k)))
              /\ \A m \in 0..Len(p) : k < m => Entry(tree, SubSeq(p, 1, m)) = Nowhere
  BY WriteIs
<1>4. Len(p) = Len(s) + Len(r) /\ Len(s) \in Nat /\ Len(r) \in Nat /\ SubSeq(p, 1, Len(s)) = s
  BY <1>1, <1>2, Halves
<1>5. ~ (k < Len(s))
  <2> SUFFICES ASSUME k < Len(s) PROVE FALSE
    OBVIOUS
  <2>1. Len(s) \in 0..Len(p)
    BY <1>4
  <2>2. Entry(tree, s) = Nowhere
    BY <1>3, <1>4, <2>1
  <2> QED BY <1>2, <2>2, NoEntry, NotFound
<1>6. ~ (k > Len(s))
  <2> SUFFICES ASSUME k > Len(s) PROVE FALSE
    OBVIOUS
  <2> DEFINE n == k - Len(s)
  <2>1. n \in 1..Len(r) /\ n \in 0..Len(r) /\ Len(s) + n = k
    BY <1>4
  <2> HIDE DEF n
  <2>2. SubSeq(s \o r, 1, Len(s) + n) = s \o SubSeq(r, 1, n)
    BY <1>2, <2>1, StartOfBoth
  <2>3. Canonical(tree, SubSeq(p, 1, k)) = Nowhere
    BY <1>1, <1>2, <2>1, <2>2
  <2> QED BY <1>3, <2>3, NotFound
<1>7. k = Len(s)
  <2>1. k \in Nat /\ Len(s) \in Nat
    BY <1>3, <1>4
  <2> QED BY <1>5, <1>6, <2>1, Trichotomy
<1>8. Allowed(roots, at)
  BY <1>2, <1>3, <1>4, <1>7
<1> QED BY <1>1, <1>2, <1>8, AllowedBelow

\* What may be moved away lies in a root, as does its entry.
LEMMA RemovalIs ==
    ASSUME NEW tree, IsTree(tree), NEW roots \in SUBSET Seq(Names), NEW p \in Seq(Names), p # <<>>,
           ValidateRemoval(tree, roots, p) # Refused
    PROVE  Allowed(roots, Canonical(tree, p)) /\ Allowed(roots, Entry(tree, p))
<1>1. ValidateWrite(tree, roots, Parent(p)) # Refused /\ ValidateRead(tree, roots, p) # Refused
  BY DEF ValidateRemoval
<1>2. Canonical(tree, p) \in Present(tree) /\ Allowed(roots, Canonical(tree, p))
  BY <1>1, ReadIs
<1>3. Entry(tree, p) \notin Unfound
  BY <1>2, EntryIs, FoundIs
<1>4. Canonical(tree, Parent(p)) \in Present(tree) /\ Entry(tree, p) = Append(Canonical(tree, Parent(p)), Name(p))
  BY <1>3, EntryIs
<1> DEFINE q == Parent(p)
<1>5. q \in Seq(Names) /\ Name(p) \in Names
  BY LastName
<1> HIDE DEF q
<1>6. PICK k \in 0..Len(q) :
              /\ Canonical(tree, SubSeq(q, 1, k)) \in Present(tree)
              /\ Allowed(roots, Canonical(tree, SubSeq(q, 1, k)))
              /\ \A m \in 0..Len(q) : k < m => Entry(tree, SubSeq(q, 1, m)) = Nowhere
  BY <1>1, <1>5, WriteIs DEF q
<1>7. Len(q) \in Nat /\ SubSeq(q, 1, Len(q)) = q
  BY <1>5, LenProperties, SubSeqFull
<1>8. k = Len(q)
  <2> SUFFICES ASSUME k # Len(q) PROVE FALSE
    OBVIOUS
  <2>1. Len(q) \in 0..Len(q) /\ k < Len(q)
    <3>1. k \in Nat /\ Len(q) \in Nat /\ ~ (k > Len(q))
      <4>1. Len(q) \in Nat
        BY <1>5, LenProperties
      <4> QED BY <4>1
    <3>2. k < Len(q)
      BY <3>1, Trichotomy
    <3> QED BY <3>1, <3>2
  <2>2. Entry(tree, q) = Nowhere
    BY <1>6, <1>7, <2>1
  <2> QED BY <1>4, <1>5, <2>2, NoEntry, NotFound DEF q
<1>9. Canonical(tree, q) \in Seq(Names) /\ Allowed(roots, Canonical(tree, q))
  BY <1>4, <1>6, <1>7, <1>8, FoundIs DEF q
<1>10. Append(Canonical(tree, q), Name(p)) = Canonical(tree, q) \o <<Name(p)>> /\ <<Name(p)>> \in Seq(Names)
  BY <1>5, <1>9, OneName
<1>11. Allowed(roots, Append(Canonical(tree, q), Name(p)))
  BY <1>9, <1>10, AllowedBelow
<1> QED BY <1>2, <1>4, <1>11 DEF q

-----------------------------------------------------------------------------
(***************************************************************************)
(* Relative links.                                                         *)
(***************************************************************************)

\* So many steps up.
Ups(k) == [i \in 1..k |-> Upward]

\* Steps up are taken one by one.
LEMMA UpsAre ==
    ASSUME NEW k \in Nat
    PROVE  /\ Ups(k) \in Seq(Steps) /\ Len(Ups(k)) = k /\ (k = 0 => Ups(k) = <<>>) /\ Upward \in Steps
           /\ Ups(k + 1) = Append(Ups(k), Upward)
<1>1. Upward \in Steps
  BY DEF Steps
<1> HIDE DEF Steps
<1>2. \A j \in Nat : Ups(j) \in Seq(Steps) /\ Len(Ups(j)) = j /\ \A i \in 1..j : Ups(j)[i] = Upward
  BY <1>1 DEF Ups
<1>3. k = 0 => Ups(k) = <<>>
  BY <1>2, EmptySeq
<1>4. Ups(k + 1) = Append(Ups(k), Upward)
  <2> DEFINE a == Append(Ups(k), Upward)
  <2>1. /\ a \in Seq(Steps) /\ Len(a) = k + 1 /\ \A i \in 1..k : a[i] = Ups(k)[i]
        /\ a[k + 1] = Upward
    BY <1>1, <1>2, AppendProperties
  <2> HIDE DEF a
  <2>2. \A i \in 1..(k + 1) : a[i] = Upward
    <3> TAKE i \in 1..(k + 1)
    <3>1. i \in 1..k \/ i = k + 1
      OBVIOUS
    <3> QED BY <1>2, <2>1, <3>1
  <2>3. k + 1 \in Nat
    OBVIOUS
  <2>4. a = Ups(k + 1)
    BY <1>2, <2>1, <2>2, <2>3, SeqEqual
  <2> QED BY <2>4 DEF a
<1> QED BY <1>1, <1>2, <1>3, <1>4

\* A relative link leads up from one path to a start it shares with the other, then down.
LEMMA RelativePathIs ==
    ASSUME NEW N, NEW from \in Seq(N), NEW to \in Seq(N)
    PROVE  \E c \in 0..Len(from) :
              /\ c \in 0..Len(to) /\ SubSeq(from, 1, c) = SubSeq(to, 1, c)
              /\ RelativePath(from, to) = Ups(Len(from) - c) \o SubSeq(to, c + 1, Len(to))
<1> DEFINE m == Min({Len(from), Len(to)})
           S == {n \in 0..m : SubSeq(from, 1, n) = SubSeq(to, 1, n)}
           c == Max(S)
<1>1. Len(from) \in Nat /\ Len(to) \in Nat
  BY LenProperties
<1>2. m \in Nat /\ m <= Len(from) /\ m <= Len(to)
  <2>1. \E x \in {Len(from), Len(to)} : \A y \in {Len(from), Len(to)} : x =< y
    BY <1>1
  <2>2. m \in {Len(from), Len(to)} /\ \A y \in {Len(from), Len(to)} : m =< y
    BY <2>1 DEF Min
  <2> QED BY <1>1, <2>2
<1> HIDE DEF m
<1>3. 0 \in S
  BY <1>2, SubSeqEmpty
<1>4. c \in S
  <2>1. S \in SUBSET (0..m) /\ S # {}
    BY <1>3
  <2> HIDE DEF S
  <2> QED BY <1>2, <2>1, Greatest
<1>5. RelativePath(from, to) = Ups(Len(from) - c) \o SubSeq(to, c + 1, Len(to))
  BY DEF RelativePath, Ups, m
<1> HIDE DEF c
<1>6. c \in 0..m /\ SubSeq(from, 1, c) = SubSeq(to, 1, c)
  BY <1>4
<1>7. c \in 0..Len(from) /\ c \in 0..Len(to)
  BY <1>1, <1>2, <1>6
<1> QED BY <1>5, <1>6, <1>7

\* A path of names is a path of steps.
LEMMA NamesAreSteps == Names \subseteq Steps /\ \A p \in Seq(Names) : p \in Seq(Steps)
<1>1. Names \subseteq Steps
  BY DEF Steps
<1> QED BY <1>1, SeqMonotonic

\* Only below a directory is something found.
LEMMA OnlyDirectories ==
    ASSUME NEW tree, IsTree(tree), NEW p \in Present(tree), NEW r \in Seq(Steps), r # <<>>,
           Canonical(tree, p \o r) \notin Unfound
    PROVE  tree[p].kind = "directory"
<1> SUFFICES ASSUME tree[p].kind # "directory" PROVE FALSE
  OBVIOUS
<1>1. p \in Seq(Steps) /\ p \notin Unfound /\ Canonical(tree, p) = p
  BY FoundIs, NamesAreSteps, Itself
<1> DEFINE x == Head(r)
           q == Tail(r)
<1>2. x \in Steps /\ q \in Seq(Steps) /\ r = <<x>> \o q /\ <<x>> \in Seq(Steps)
  <2>1. x \in Steps /\ q \in Seq(Steps)
    BY HeadTailProperties
  <2>2. Len(r) \in Nat \ {0} /\ SubSeq(r, 1, Len(r)) = r
    BY EmptySeq, SubSeqFull
  <2>3. r = <<r[1]>> \o SubSeq(r, 2, Len(r))
    <3>1. 1 \in 1..Len(r) /\ Len(r) \in 1..Len(r)
      BY <2>2
    <3>2. SubSeq(r, 1, Len(r)) = <<r[1]>> \o SubSeq(r, 1 + 1, Len(r))
      BY <3>1, SubSeqRecursiveFirst
    <3> QED BY <2>2, <3>2
  <2>4. q = SubSeq(r, 2, Len(r))
    BY TailIsSubSeq
  <2>5. x = r[1]
    BY <2>2
  <2> QED BY <2>1, <2>3, <2>4, <2>5
<1> HIDE DEF x, q
<1>3. Append(p, x) = p \o <<x>> /\ Append(p, x) \in Seq(Steps)
  BY <1>1, <1>2, OneName
<1>4. Canonical(tree, Append(p, x)) = Entered(tree, Follow(tree), p, x)
  BY <1>1, <1>2, CanonicalIs
<1>5. Canonical(tree, Append(p, x)) \in Unfound
  BY <1>1, <1>4 DEF Entered, Unfound
<1>6. p \o r = Append(p, x) \o q
  BY <1>1, <1>2, <1>3, ConcatAssociative
<1>7. Canonical(tree, Append(p, x) \o q) = Canonical(tree, Append(p, x))
  BY <1>2, <1>3, <1>5, LostBelow
<1> QED BY <1>5, <1>6, <1>7

\* Up from a directory are its starts.
LEMMA Climbed ==
    ASSUME NEW tree, IsTree(tree), NEW p \in Present(tree), tree[p].kind = "directory", NEW k \in 0..Len(p)
    PROVE  Canonical(tree, p \o Ups(k)) = SubSeq(p, 1, Len(p) - k)
<1> DEFINE S == {j \in 0..k : Canonical(tree, p \o Ups(j)) = SubSeq(p, 1, Len(p) - j)}
<1>1. p \in Seq(Names) /\ p \in Seq(Steps) /\ Canonical(tree, p) = p /\ Len(p) \in Nat /\ k \in Nat
  <2>1. p \in Seq(Names)
    BY FoundIs
  <2>2. Len(p) \in Nat
    BY <2>1, LenProperties
  <2> QED BY <2>1, <2>2, NamesAreSteps, Itself
<1>2. 0 \in S
  <2>1. p \o Ups(0) = p
    BY <1>1, UpsAre, ConcatEmptySeq
  <2>2. SubSeq(p, 1, Len(p) - 0) = p
    BY <1>1, SubSeqFull
  <2>3. Canonical(tree, p \o Ups(0)) = SubSeq(p, 1, Len(p) - 0)
    BY <1>1, <2>1, <2>2
  <2>4. 0 \in 0..k
    BY <1>1
  <2> QED BY <2>3, <2>4
<1>3. ASSUME NEW j \in 0..(k - 1), j \in S PROVE j + 1 \in S
  <2> DEFINE n == Len(p) - j
             q == SubSeq(p, 1, n)
  <2>1. j \in Nat /\ n \in 1..Len(p) /\ n \in 0..Len(p) /\ n - 1 \in 0..Len(p) /\ n - 1 = Len(p) - (j + 1) /\ j + 1 \in 0..k
    BY <1>1
  <2>2. q \in Present(tree) /\ tree[q].kind = "directory"
    <3>1. CASE n = Len(p)
      BY <1>1, <3>1, SubSeqFull
    <3>2. CASE n # Len(p)
      <4>1. n \in 0..(Len(p) - 1)
        <5>0. Len(p) \in Nat
          BY <1>1
        <5>1. n \in Nat /\ Len(p) \in Nat /\ n # Len(p) /\ n <= Len(p)
          <6> HIDE DEF n
          <6> QED BY <2>1, <3>2, <5>0
        <5> HIDE DEF n
        <5> QED BY <5>1
      <4> HIDE DEF n
      <4> QED BY <4>1, FoundStarts
    <3> QED BY <3>1, <3>2
  <2>3. Canonical(tree, p \o Ups(j)) = q
    BY <1>3
  <2> HIDE DEF n
  <2>4. p \o Ups(j) \in Seq(Steps) /\ p \o Ups(j + 1) = Append(p \o Ups(j), Upward) /\ Upward \in Steps
    <3>1. Ups(j) \in Seq(Steps) /\ Upward \in Steps /\ Ups(j + 1) = Append(Ups(j), Upward)
      BY <2>1, UpsAre
    <3>2. p \o Ups(j) \in Seq(Steps)
      BY <1>1, <3>1, ConcatProperties
    <3>3. Append(Ups(j), Upward) = Ups(j) \o <<Upward>> /\ <<Upward>> \in Seq(Steps)
      BY <3>1, OneName
    <3>4. Append(p \o Ups(j), Upward) = (p \o Ups(j)) \o <<Upward>>
      BY <3>1, <3>2, OneName
    <3>5. (p \o Ups(j)) \o <<Upward>> = p \o (Ups(j) \o <<Upward>>)
      BY <1>1, <3>1, <3>3, ConcatAssociative
    <3> QED BY <3>1, <3>2, <3>3, <3>4, <3>5
  <2>5. Canonical(tree, p \o Ups(j + 1)) = Entered(tree, Follow(tree), q, Upward)
    BY <2>3, <2>4, CanonicalIs
  <2>6. q \in Seq(Names) /\ Len(q) = n /\ q # <<>> /\ q \notin Unfound
    <3>1. q \in Seq(Names) /\ Len(q) = n
      BY <1>1, <2>1, Start
    <3>2. n # 0
      BY <2>1
    <3> HIDE DEF q
    <3> QED BY <2>2, <3>1, <3>2, FoundIs, EmptySeq
  <2>7. Canonical(tree, p \o Ups(j + 1)) = Parent(q)
    <3> HIDE DEF q
    <3> QED BY <2>2, <2>5, <2>6 DEF Entered
  <2>8. Parent(q) = SubSeq(p, 1, n - 1)
    <3>1. 0 \in 0..Len(p) /\ n - 1 < Len(p) /\ (n - 1) + 1 = n /\ n - 1 \in Nat
      BY <1>1, <2>1
    <3>2. p[n] \in Names /\ SubSeq(p, 1, n) = Append(SubSeq(p, 1, n - 1), p[n]) /\ SubSeq(p, 1, n - 1) \in Seq(Names)
      <4>1. /\ SubSeq(p, 1, n - 1) \in Seq(Names)
            /\ p[(n - 1) + 1] \in Names /\ SubSeq(p, 1, (n - 1) + 1) = Append(SubSeq(p, 1, n - 1), p[(n - 1) + 1])
        BY <1>1, <2>1, <3>1, Start
      <4> QED BY <3>1, <4>1
    <3>3. Parent(Append(SubSeq(p, 1, n - 1), p[n])) = SubSeq(p, 1, n - 1)
      BY <3>2, OneName
    <3> QED BY <3>2, <3>3
  <2> QED BY <2>1, <2>7, <2>8
<1> HIDE DEF S
<1>4. \A j \in 0..k : j \in S
  BY <1>1, <1>2, <1>3, UpTo
<1>5. k \in S
  BY <1>1, <1>4
<1> QED BY <1>5 DEF S

\* A relative link that leads anywhere leads where its source does.
LEMMA LinkLeads ==
    ASSUME NEW tree, IsTree(tree), NEW from \in Seq(Names), Plain(tree, from), NEW to \in Seq(Names),
           Canonical(tree, from \o RelativePath(from, to)) \notin Unfound
    PROVE  Canonical(tree, from \o RelativePath(from, to)) = Canonical(tree, to)
<1>1. PICK c \in 0..Len(from) :
              /\ c \in 0..Len(to) /\ SubSeq(from, 1, c) = SubSeq(to, 1, c)
              /\ RelativePath(from, to) = Ups(Len(from) - c) \o SubSeq(to, c + 1, Len(to))
  BY RelativePathIs
<1> DEFINE k == Len(from) - c
           rest == SubSeq(to, c + 1, Len(to))
<1>2. Len(from) \in Nat /\ k \in 0..Len(from) /\ k \in Nat /\ Len(from) - k = c
  BY <1>1, LenProperties
<1>3. /\ rest \in Seq(Names) /\ rest \in Seq(Steps) /\ to = SubSeq(to, 1, c) \o rest
      /\ SubSeq(to, 1, c) \in Seq(Names) /\ SubSeq(to, 1, c) \in Seq(Steps)
  BY <1>1, Start, NamesAreSteps
<1>4. from \in Seq(Steps) /\ Ups(k) \in Seq(Steps) /\ Len(Ups(k)) = k
  BY <1>2, NamesAreSteps, UpsAre
<1> HIDE DEF k, rest
<1>5. from \o RelativePath(from, to) = (from \o Ups(k)) \o rest
  <2>1. RelativePath(from, to) = Ups(k) \o rest
    BY <1>1 DEF k, rest
  <2>2. from \o (Ups(k) \o rest) = (from \o Ups(k)) \o rest
    <3>1. rest \in Seq(Steps) /\ from \in Seq(Steps) /\ Ups(k) \in Seq(Steps)
      BY <1>3, <1>4
    <3> QED BY <3>1, ConcatAssociative
  <2> QED BY <2>1, <2>2
<1>6. CASE k = 0
  <2>1. c = Len(from) /\ Ups(k) = <<>>
    BY <1>2, <1>6, UpsAre
  <2>2. SubSeq(from, 1, c) = from /\ from \o <<>> = from
    BY <1>2, <2>1, SubSeqFull, ConcatEmptySeq
  <2> QED BY <1>1, <1>3, <1>5, <2>1, <2>2
<1>7. CASE k # 0
  <2>1. from \o Ups(k) \in Seq(Steps) /\ RelativePath(from, to) \in Seq(Steps)
    BY <1>1, <1>3, <1>4, ConcatProperties DEF k, rest
  <2>2. RelativePath(from, to) # <<>>
    <3>1. Ups(k) # <<>>
      BY <1>4, <1>7, EmptySeq
    <3> QED BY <1>1, <1>3, <1>4, <3>1, ConcatEqualIffEmpty DEF k, rest
  <2>3. Canonical(tree, from) \notin Unfound
    <3> SUFFICES ASSUME Canonical(tree, from) \in Unfound PROVE FALSE
      OBVIOUS
    <3>1. Canonical(tree, from \o RelativePath(from, to)) = Canonical(tree, from)
      BY <1>4, <2>1, LostBelow
    <3> QED BY <3>1
  <2>4. Canonical(tree, from) = from
    <3>1. Canonical(tree, SubSeq(from, 1, Len(from))) \in {SubSeq(from, 1, Len(from)), Nowhere}
      BY <1>2 DEF Plain
    <3> QED BY <2>3, <3>1, SubSeqFull DEF Unfound
  <2>5. from \in Present(tree)
    BY <1>4, <2>3, <2>4, CanonicalIs, FoundIs
  <2>6. tree[from].kind = "directory"
    BY <2>1, <2>2, <2>5, OnlyDirectories
  <2>7. Canonical(tree, from \o Ups(k)) = SubSeq(to, 1, c)
    BY <1>1, <1>2, <2>5, <2>6, Climbed
  <2>8. SubSeq(to, 1, c) \in Present(tree)
    <3>1. c \in 0..(Len(from) - 1)
      BY <1>2, <1>7
    <3> QED BY <1>1, <2>5, <3>1, FoundStarts
  <2>9. Canonical(tree, SubSeq(to, 1, c)) = Canonical(tree, from \o Ups(k))
    BY <2>7, <2>8, Itself
  <2>10. Canonical(tree, (from \o Ups(k)) \o rest) = Canonical(tree, SubSeq(to, 1, c) \o rest)
    <3>1. \A r \in Seq(Steps) : Canonical(tree, (from \o Ups(k)) \o r) = Canonical(tree, SubSeq(to, 1, c) \o r)
      <4> DEFINE a == from \o Ups(k)
                 b == SubSeq(to, 1, c)
      <4>1. a \in Seq(Steps) /\ b \in Seq(Steps) /\ Canonical(tree, a) = Canonical(tree, b)
        BY <1>3, <2>1, <2>9
      <4> HIDE DEF a, b
      <4>2. \A r \in Seq(Steps) : Canonical(tree, a \o r) = Canonical(tree, b \o r)
        BY <4>1, SameBelow
      <4> QED BY <4>2 DEF a, b
    <3> QED BY <1>3, <3>1
  <2> QED BY <1>3, <1>5, <2>10
<1> QED BY <1>6, <1>7

\* Names are taken one by one, and ".." takes one back.
LEMMA Normalizes ==
    /\ Normalize(<<>>) = <<>>
    /\ \A p \in Seq(Steps) : Normalize(p) \in Seq(Steps)
    /\ \A p \in Seq(Steps), x \in Steps :
          Normalize(Append(p, x)) = IF x # Upward THEN Append(Normalize(p), x)
                                    ELSE IF Normalize(p) = <<>> THEN <<>> ELSE Parent(Normalize(p))
<1> DEFINE V == Seq(Steps)
           E(v, x) == IF x # Upward THEN Append(v, x) ELSE IF v = <<>> THEN <<>> ELSE Parent(v)
           Goes(p, f) == f \in [0..Len(p) -> V] /\ f[0] = <<>> /\ \A i \in 1..Len(p) : f[i] = E(f[i - 1], p[i])
<1>1. <<>> \in V /\ \A v \in V, x \in Steps : E(v, x) \in V
  <2>1. \A v \in Seq(Steps) : v # <<>> => Parent(v) \in Seq(Steps)
    BY LastName
  <2>2. \A v \in Seq(Steps), x \in Steps : Append(v, x) \in Seq(Steps)
    BY OneName
  <2> QED BY <2>1, <2>2, EmptySeq
<1> HIDE DEF V, E
<1>2. ASSUME NEW p \in Seq(Steps) PROVE \E f : Goes(p, f) /\ Normalize(p) = f[Len(p)]
  <2>1. Len(p) \in Nat /\ \A i \in 1..Len(p) : p[i] \in Steps
    BY LenProperties, ElementOfSeq
  <2> DEFINE step == [i \in 1..Len(p) |-> [v \in V |-> E(v, p[i])]]
             R(f) == [n \in 0..Len(p) |-> IF n = 0 THEN <<>> ELSE E(f[n - 1], p[n])]
             at == CHOOSE f : f = R(f)
  <2>2. step \in [1..Len(p) -> [V -> V]]
    BY <1>1, <2>1
  <2>3. PICK f \in [0..Len(p) -> V] : f[0] = <<>> /\ \A i \in 1..Len(p) : f[i] = step[i][f[i - 1]]
    <3> HIDE DEF step
    <3>1. \E f : Folds(f, Len(p), V, <<>>, step)
      BY <1>1, <2>1, <2>2, Recursion
    <3> QED BY <3>1 DEF Folds
  <2>4. \A i \in 1..Len(p) : i - 1 \in 0..Len(p) /\ f[i - 1] \in V /\ f[i] = E(f[i - 1], p[i])
    <3> TAKE i \in 1..Len(p)
    <3>1. i - 1 \in 0..Len(p)
      BY <2>1
    <3> QED BY <2>3, <3>1
  <2>5. f = R(f)
    <3>1. \A i \in 0..Len(p) : i # 0 => i \in 1..Len(p)
      BY <2>1
    <3> QED BY <2>3, <2>4, <3>1
  <2>6. at = R(at)
    <3> HIDE DEF R
    <3> QED BY <2>5
  <2>7. Normalize(p) = at[Len(p)]
    BY DEF Normalize, E
  <2> HIDE DEF at
  <2>8. at[0] = <<>>
    BY <2>1, <2>6
  <2>9. \A i \in 1..Len(p) : at[i] = E(at[i - 1], p[i])
    <3> TAKE i \in 1..Len(p)
    <3>1. i \in 0..Len(p) /\ i # 0
      BY <2>1
    <3> QED BY <2>6, <3>1
  <2>10. \A i \in 0..Len(p) : at[i] \in V
    <3> DEFINE T == {i \in 0..Len(p) : at[i] \in V}
    <3>1. 0 \in T
      BY <1>1, <2>1, <2>8
    <3>2. ASSUME NEW i \in 0..(Len(p) - 1), i \in T PROVE i + 1 \in T
      <4>1. i + 1 \in 1..Len(p) /\ i + 1 \in 0..Len(p) /\ (i + 1) - 1 = i
        BY <2>1
      <4> QED BY <1>1, <2>1, <2>9, <3>2, <4>1
    <3> HIDE DEF T
    <3>3. \A i \in 0..Len(p) : i \in T
      BY <2>1, <3>1, <3>2, UpTo
    <3> QED BY <3>3 DEF T
  <2>11. at \in [0..Len(p) -> V]
    <3>1. at = [n \in 0..Len(p) |-> R(at)[n]]
      BY <2>6
    <3> HIDE DEF R
    <3> QED BY <2>10, <3>1
  <2> QED BY <2>7, <2>8, <2>9, <2>11
<1>3. Normalize(<<>>) = <<>>
  <2>1. <<>> \in Seq(Steps) /\ Len(<<>>) = 0
    BY EmptySeq
  <2>2. PICK f : Goes(<<>>, f) /\ Normalize(<<>>) = f[Len(<<>>)]
    BY <1>2, <2>1
  <2> QED BY <2>1, <2>2
<1>4. ASSUME NEW p \in Seq(Steps) PROVE Normalize(p) \in V
  <2>1. PICK f : Goes(p, f) /\ Normalize(p) = f[Len(p)]
    BY <1>2
  <2> QED BY <2>1, LenProperties
<1>5. ASSUME NEW p \in Seq(Steps), NEW x \in Steps PROVE Normalize(Append(p, x)) = E(Normalize(p), x)
  <2> DEFINE q == Append(p, x)
             n == Len(p)
  <2>1. n \in Nat /\ q \in Seq(Steps) /\ Len(q) = n + 1 /\ q[n + 1] = x /\ \A i \in 1..n : q[i] = p[i]
    BY AppendProperties, LenProperties
  <2>2. PICK f : Goes(p, f) /\ Normalize(p) = f[n]
    BY <1>2
  <2>3. PICK g : Goes(q, g) /\ Normalize(q) = g[n + 1]
    BY <1>2, <2>1
  <2> HIDE DEF q
  <2> DEFINE T == {i \in 0..n : f[i] = g[i]}
  <2>4. 0 \in T
    BY <2>1, <2>2, <2>3
  <2>5. ASSUME NEW i \in 0..(n - 1), i \in T PROVE i + 1 \in T
    <3>1. i + 1 \in 1..n /\ i + 1 \in 1..(n + 1) /\ i + 1 \in 0..n /\ (i + 1) - 1 = i
      BY <2>1
    <3>2. f[i + 1] = E(f[i], p[i + 1])
      BY <2>2, <3>1
    <3>3. g[i + 1] = E(g[i], q[i + 1])
      BY <2>1, <2>3, <3>1
    <3> QED BY <2>1, <2>5, <3>1, <3>2, <3>3
  <2> HIDE DEF T
  <2>6. \A i \in 0..n : i \in T
    BY <2>1, <2>4, <2>5, UpTo
  <2>7. f[n] = g[n]
    BY <2>1, <2>6 DEF T
  <2>8. g[n + 1] = E(g[n], x)
    <3>1. n + 1 \in 1..(n + 1) /\ (n + 1) - 1 = n
      BY <2>1
    <3>2. g[n + 1] = E(g[(n + 1) - 1], q[n + 1])
      BY <2>1, <2>3, <3>1
    <3> QED BY <2>1, <3>1, <3>2
  <2> QED BY <2>2, <2>3, <2>7, <2>8 DEF q
<1> QED BY <1>3, <1>4, <1>5 DEF V, E

\* A path with no ".." in it is normal.
LEMMA NamesStay == \A p \in Seq(Names) : Normalize(p) = p
<1> DEFINE S == {p \in Seq(Names) : Normalize(p) = p}
<1>1. <<>> \in S
  BY EmptySeq, Normalizes
<1>2. ASSUME NEW p \in Seq(Names), NEW x \in Names, p \in S PROVE Append(p, x) \in S
  <2>1. p \in Seq(Steps) /\ x \in Steps /\ x # Upward /\ Append(p, x) \in Seq(Names)
    BY NamesAreSteps, TreeAssumption, OneName
  <2>2. Normalize(Append(p, x)) = Append(Normalize(p), x)
    BY <2>1, Normalizes
  <2> QED BY <1>2, <2>1, <2>2
<1> HIDE DEF S
<1>3. \A p \in Seq(Names) : p \in S
  BY <1>1, <1>2, NameByName
<1> QED BY <1>3 DEF S

\* Behind what is normal, names stay.
LEMMA NormalizedBelow ==
    ASSUME NEW a \in Seq(Steps), NEW b \in Seq(Names), Normalize(a) = b
    PROVE  \A r \in Seq(Names) : Normalize(a \o r) = b \o r
<1> DEFINE S == {r \in Seq(Names) : Normalize(a \o r) = b \o r}
<1>1. <<>> \in S
  BY EmptySeq, ConcatEmptySeq
<1>2. ASSUME NEW r \in Seq(Names), NEW x \in Names, r \in S PROVE Append(r, x) \in S
  <2>1. r \in Seq(Steps) /\ x \in Steps /\ x # Upward /\ Append(r, x) \in Seq(Names)
    BY NamesAreSteps, TreeAssumption, OneName
  <2>2. a \o r \in Seq(Steps) /\ b \o r \in Seq(Names)
    BY <2>1, ConcatProperties
  <2>3. a \o Append(r, x) = Append(a \o r, x)
    <3>1. Append(r, x) = r \o <<x>> /\ <<x>> \in Seq(Steps) /\ Append(a \o r, x) = (a \o r) \o <<x>>
      BY <2>1, <2>2, OneName
    <3> QED BY <2>1, <3>1, ConcatAssociative
  <2>4. b \o Append(r, x) = Append(b \o r, x)
    <3>1. Append(r, x) = r \o <<x>> /\ <<x>> \in Seq(Names) /\ Append(b \o r, x) = (b \o r) \o <<x>>
      BY <2>2, OneName
    <3> QED BY <3>1, ConcatAssociative
  <2>5. Normalize(Append(a \o r, x)) = Append(Normalize(a \o r), x)
    BY <2>1, <2>2, Normalizes
  <2> QED BY <1>2, <2>1, <2>3, <2>4, <2>5
<1> HIDE DEF S
<1>3. \A r \in Seq(Names) : r \in S
  BY <1>1, <1>2, NameByName
<1> QED BY <1>3 DEF S

\* The parent of a start is the start before it.
LEMMA StartBefore ==
    ASSUME NEW N, NEW p \in Seq(N), NEW n \in 1..Len(p)
    PROVE  SubSeq(p, 1, n) \in Seq(N) /\ SubSeq(p, 1, n) # <<>> /\ Parent(SubSeq(p, 1, n)) = SubSeq(p, 1, n - 1)
<1>1. Len(p) \in Nat
  BY LenProperties
<1>2. n \in Nat /\ n - 1 \in 0..Len(p) /\ n - 1 < Len(p) /\ (n - 1) + 1 = n
  BY <1>1
<1>3. /\ SubSeq(p, 1, n - 1) \in Seq(N)
      /\ p[(n - 1) + 1] \in N /\ SubSeq(p, 1, (n - 1) + 1) = Append(SubSeq(p, 1, n - 1), p[(n - 1) + 1])
  BY <1>2, Start
<1>4. p[n] \in N /\ SubSeq(p, 1, n) = Append(SubSeq(p, 1, n - 1), p[n])
  BY <1>2, <1>3
<1>5. /\ Append(SubSeq(p, 1, n - 1), p[n]) \in Seq(N) /\ Append(SubSeq(p, 1, n - 1), p[n]) # <<>>
      /\ Parent(Append(SubSeq(p, 1, n - 1), p[n])) = SubSeq(p, 1, n - 1)
  BY <1>3, <1>4, OneName
<1> QED BY <1>4, <1>5

\* A path with steps up behind it is one of its starts.
LEMMA NormalizedUp ==
    ASSUME NEW p \in Seq(Names), NEW k \in 0..Len(p)
    PROVE  Normalize(p \o Ups(k)) = SubSeq(p, 1, Len(p) - k)
<1> DEFINE S == {j \in 0..k : Normalize(p \o Ups(j)) = SubSeq(p, 1, Len(p) - j)}
<1>0. Len(p) \in Nat
  BY LenProperties
<1>1. p \in Seq(Steps) /\ Normalize(p) = p /\ k \in Nat
  BY <1>0, NamesAreSteps, NamesStay
<1>2. 0 \in S
  <2>1. p \o Ups(0) = p
    BY <1>1, UpsAre, ConcatEmptySeq
  <2>2. Len(p) - 0 = Len(p) /\ 0 \in 0..k
    BY <1>0, <1>1
  <2>3. Normalize(p \o Ups(0)) = SubSeq(p, 1, Len(p) - 0)
    BY <1>1, <2>1, <2>2, SubSeqFull
  <2> QED BY <2>2, <2>3
<1>3. ASSUME NEW j \in 0..(k - 1), j \in S PROVE j + 1 \in S
  <2> DEFINE n == Len(p) - j
  <2>1. j \in Nat /\ n \in 1..Len(p) /\ n - 1 = Len(p) - (j + 1) /\ j + 1 \in 0..k
    BY <1>0, <1>1
  <2>2. Normalize(p \o Ups(j)) = SubSeq(p, 1, n)
    BY <1>3
  <2> HIDE DEF n
  <2>3. p \o Ups(j) \in Seq(Steps) /\ p \o Ups(j + 1) = Append(p \o Ups(j), Upward) /\ Upward \in Steps
    <3>1. Ups(j) \in Seq(Steps) /\ Upward \in Steps /\ Ups(j + 1) = Append(Ups(j), Upward)
      BY <2>1, UpsAre
    <3>2. p \o Ups(j) \in Seq(Steps)
      BY <1>1, <3>1, ConcatProperties
    <3>3. Append(Ups(j), Upward) = Ups(j) \o <<Upward>> /\ <<Upward>> \in Seq(Steps)
      BY <3>1, OneName
    <3>4. Append(p \o Ups(j), Upward) = (p \o Ups(j)) \o <<Upward>>
      BY <3>1, <3>2, OneName
    <3>5. (p \o Ups(j)) \o <<Upward>> = p \o (Ups(j) \o <<Upward>>)
      BY <1>1, <3>1, <3>3, ConcatAssociative
    <3> QED BY <3>1, <3>2, <3>3, <3>4, <3>5
  <2>4. SubSeq(p, 1, n) # <<>> /\ Parent(SubSeq(p, 1, n)) = SubSeq(p, 1, n - 1)
    BY <2>1, StartBefore
  <2>5. Normalize(Append(p \o Ups(j), Upward)) =
            IF Normalize(p \o Ups(j)) = <<>> THEN <<>> ELSE Parent(Normalize(p \o Ups(j)))
    BY <2>3, Normalizes
  <2>6. Normalize(p \o Ups(j + 1)) = SubSeq(p, 1, Len(p) - (j + 1))
    BY <2>1, <2>2, <2>3, <2>4, <2>5
  <2> QED BY <2>1, <2>6
<1> HIDE DEF S
<1>4. \A j \in 0..k : j \in S
  BY <1>1, <1>2, <1>3, UpTo
<1>5. k \in S
  BY <1>1, <1>4
<1> QED BY <1>5 DEF S

\* A relative link is spelled so that it names its source.
LEMMA LinkSpelled ==
    ASSUME NEW from \in Seq(Names), NEW to \in Seq(Names)
    PROVE  Normalize(from \o RelativePath(from, to)) = to /\ RelativePath(from, to) \in Seq(Steps)
<1>1. PICK c \in 0..Len(from) :
              /\ c \in 0..Len(to) /\ SubSeq(from, 1, c) = SubSeq(to, 1, c)
              /\ RelativePath(from, to) = Ups(Len(from) - c) \o SubSeq(to, c + 1, Len(to))
  BY RelativePathIs
<1> DEFINE k == Len(from) - c
           rest == SubSeq(to, c + 1, Len(to))
<1>2. Len(from) \in Nat /\ k \in 0..Len(from) /\ k \in Nat /\ Len(from) - k = c
  BY <1>1, LenProperties
<1>3. rest \in Seq(Names) /\ rest \in Seq(Steps) /\ to = SubSeq(to, 1, c) \o rest /\ SubSeq(to, 1, c) \in Seq(Names)
  BY <1>1, Start, NamesAreSteps
<1>4. from \in Seq(Steps) /\ Ups(k) \in Seq(Steps)
  BY <1>2, NamesAreSteps, UpsAre
<1> HIDE DEF k, rest
<1>5. RelativePath(from, to) = Ups(k) \o rest
  BY <1>1 DEF k, rest
<1>6. from \o (Ups(k) \o rest) = (from \o Ups(k)) \o rest /\ Ups(k) \o rest \in Seq(Steps) /\ from \o Ups(k) \in Seq(Steps)
  <2>1. rest \in Seq(Steps)
    BY <1>3
  <2>2. Ups(k) \o rest \in Seq(Steps) /\ from \o Ups(k) \in Seq(Steps)
    BY <1>4, <2>1, ConcatProperties
  <2>3. from \o (Ups(k) \o rest) = (from \o Ups(k)) \o rest
    BY <1>4, <2>1, ConcatAssociative
  <2> QED BY <2>2, <2>3
<1>7. Normalize(from \o Ups(k)) = SubSeq(to, 1, c)
  BY <1>1, <1>2, NormalizedUp
<1>8. Normalize((from \o Ups(k)) \o rest) = SubSeq(to, 1, c) \o rest
  <2>1. \A r \in Seq(Names) : Normalize((from \o Ups(k)) \o r) = SubSeq(to, 1, c) \o r
    BY <1>3, <1>6, <1>7, NormalizedBelow
  <2> QED BY <1>3, <2>1
<1> QED BY <1>3, <1>5, <1>6, <1>8

-----------------------------------------------------------------------------
(***************************************************************************)
(* Plans.                                                                  *)
(***************************************************************************)

\* Paths that lead to one place lead to one place with anything behind them.
LEMMA LeadTogether ==
    ASSUME NEW tree, IsTree(tree), NEW N, NEW a \in Seq(N), NEW b \in Seq(N),
           Canonical(tree, a) = Canonical(tree, b), NEW r \in Seq(N)
    PROVE  Canonical(tree, a \o r) = Canonical(tree, b \o r)
<1>1. \A x \in Seq(N) : Canonical(tree, a \o x) = Canonical(tree, b \o x)
  BY SameBelow
<1> QED BY <1>1

\* What is behind a path has its parent behind it.
LEMMA ParentBehind ==
    ASSUME NEW p \in Seq(Names), NEW q \in Seq(Names), q # <<>>
    PROVE  p \o q \in Seq(Names) /\ p \o q # <<>> /\ Parent(p \o q) = p \o Parent(q) /\ Parent(q) \in Seq(Names)
<1>1. Parent(q) \in Seq(Names) /\ Name(q) \in Names /\ q = Append(Parent(q), Name(q))
  BY LastName
<1>2. q = Parent(q) \o <<Name(q)>> /\ <<Name(q)>> \in Seq(Names)
  BY <1>1, OneName
<1>3. p \o Parent(q) \in Seq(Names)
  BY <1>1, ConcatProperties
<1>4. p \o q = (p \o Parent(q)) \o <<Name(q)>>
  <2>1. p \o (Parent(q) \o <<Name(q)>>) = (p \o Parent(q)) \o <<Name(q)>>
    BY <1>1, <1>2, ConcatAssociative
  <2> QED BY <1>2, <2>1
<1>5. p \o q = Append(p \o Parent(q), Name(q))
  BY <1>1, <1>3, <1>4, OneName
<1>6. /\ Append(p \o Parent(q), Name(q)) \in Seq(Names) /\ Append(p \o Parent(q), Name(q)) # <<>>
      /\ Parent(Append(p \o Parent(q), Name(q))) = p \o Parent(q)
  BY <1>1, <1>3, OneName
<1> QED BY <1>1, <1>5, <1>6

\* Policy and executor agree about every plan.
LEMMA PlansHold ==
    ASSUME NEW tree, IsTree(tree), NEW roots \in SUBSET Seq(Names)
    PROVE  PlansAgree(tree, roots)
<1> SUFFICES ASSUME NEW output \in Outputs, NEW source \in Sources, NEW target \in Targets,
                    NEW op \in {"write", "copy", "move", "symlink"}
             PROVE  PlanAgrees(tree, roots, output, source, target, op)
  BY DEF PlansAgree
<1> DEFINE root == OutputRoot(tree, output)
           o == PlacementOperation(op, source, root, target)
<1> SUFFICES ASSUME root # Refused, ValidatePlan(tree, roots, output, {o}), SafeAncestors(tree, root, target),
                    op # "write" => Canonical(tree, source) \notin Unfound
             PROVE  /\ Allowed(roots, Lands(tree, root, target))
                    /\ AutoPlan(tree, roots, output, {o}, FALSE) => Canonical(tree, root \o target) \in Unfound
                    /\ op # "write" => Allowed(roots, Canonical(tree, source))
                    /\ op = "move" => Allowed(roots, Entry(tree, source))
                    /\ op = "symlink" =>
                          Canonical(tree, PolicySource(o, output)) = Canonical(tree, ExecutorSource(o, root, <<>>))
  BY DEF PlanAgrees
<1>1. /\ output \in Seq(Names) /\ source \in Seq(Names) /\ source # <<>>
      /\ target \in Seq(Names) /\ target # <<>>
  BY TreeAssumption
<1>2. root = WithMissingTail(tree, output)
  BY DEF OutputRoot
<1>3. /\ ValidateWrite(tree, roots, output) # Refused
      /\ o.op = "move" => ValidateRemoval(tree, roots, o.source) # Refused
      /\ o.op \notin {"move", "write"} => ValidateRead(tree, roots, PolicySource(o, output)) # Refused
  BY DEF ValidatePlan
<1>4. /\ o.op = op /\ o.target = target /\ o.absolute = (op # "symlink")
      /\ op # "symlink" => o.source = source
      /\ op = "symlink" => o.source = RelativePath(Parent(root \o target), source)
  BY DEF PlacementOperation
<1> HIDE DEF root, o
<1>5. root \in Seq(Names) /\ Canonical(tree, root) = Canonical(tree, output) /\ Plain(tree, root) /\ Allowed(roots, root)
  BY <1>1, <1>2, <1>3, TailLeads, TailIsPlain, TailIsAllowed
<1> DEFINE from == root \o Parent(target)
<1>6. /\ Parent(root \o target) = from /\ Parent(output \o target) = output \o Parent(target)
      /\ Parent(target) \in Seq(Names) /\ from \in Seq(Names)
  <2>1. /\ Parent(root \o target) = from /\ Parent(target) \in Seq(Names)
    BY <1>1, <1>5, ParentBehind
  <2>2. Parent(output \o target) = output \o Parent(target)
    BY <1>1, ParentBehind
  <2> QED BY <1>5, <2>1, <2>2, ConcatProperties
<1>7. Plain(tree, from)
  BY <1>1, <1>5, SafeIsPlain
<1>8. Allowed(roots, Lands(tree, root, target))
  <2>1. Lands(tree, root, target) = from
    BY <1>6, <1>7, PlainStays DEF Lands
  <2> QED BY <1>5, <1>6, <2>1, AllowedBelow
<1>9. ASSUME AutoPlan(tree, roots, output, {o}, FALSE) PROVE Canonical(tree, root \o target) \in Unfound
  <2>1. Canonical(tree, output \o target) \in Unfound
    BY <1>4, <1>9 DEF AutoPlan
  <2>2. Canonical(tree, root \o target) = Canonical(tree, output \o target)
    BY <1>1, <1>5, LeadTogether
  <2> QED BY <2>1, <2>2
<1>10. ASSUME op = "copy" PROVE Allowed(roots, Canonical(tree, source))
  <2>1. PolicySource(o, output) = source
    BY <1>4, <1>10 DEF PolicySource
  <2>2. ValidateRead(tree, roots, source) # Refused
    BY <1>3, <1>4, <1>10, <2>1
  <2> QED BY <1>1, <2>2, ReadIs
<1>11. ASSUME op = "move" PROVE Allowed(roots, Canonical(tree, source)) /\ Allowed(roots, Entry(tree, source))
  <2>1. ValidateRemoval(tree, roots, source) # Refused
    BY <1>3, <1>4, <1>11
  <2> QED BY <1>1, <2>1, RemovalIs
<1>12. ASSUME op = "symlink"
       PROVE  /\ Allowed(roots, Canonical(tree, source))
              /\ Canonical(tree, PolicySource(o, output)) = Canonical(tree, ExecutorSource(o, root, <<>>))
  <2> DEFINE rel == RelativePath(from, source)
             near == output \o Parent(target)
  <2>1. PolicySource(o, output) = near \o rel /\ ExecutorSource(o, root, <<>>) = Normalize(from \o rel)
    BY <1>4, <1>6, <1>12 DEF PolicySource, ExecutorSource
  <2>2. Normalize(from \o rel) = source /\ rel \in Seq(Steps)
    BY <1>1, <1>6, LinkSpelled
  <2>3. near \in Seq(Names) /\ near \in Seq(Steps) /\ from \in Seq(Steps) /\ Canonical(tree, near) = Canonical(tree, from)
    <3>1. near \in Seq(Names)
      BY <1>1, <1>6, ConcatProperties
    <3>2. Canonical(tree, near) = Canonical(tree, from)
      BY <1>1, <1>5, <1>6, LeadTogether
    <3> QED BY <1>6, <3>1, <3>2, NamesAreSteps
  <2> HIDE DEF rel, near, from
  <2>4. Canonical(tree, near \o rel) = Canonical(tree, from \o rel) /\ near \o rel \in Seq(Steps)
    BY <2>2, <2>3, LeadTogether, ConcatProperties
  <2>5. ValidateRead(tree, roots, near \o rel) # Refused
    BY <1>3, <1>4, <1>12, <2>1
  <2>6. Canonical(tree, near \o rel) \in Present(tree) /\ Allowed(roots, Canonical(tree, near \o rel))
    BY <2>4, <2>5, ReadIs
  <2>7. Canonical(tree, from \o rel) = Canonical(tree, source)
    <3>1. Canonical(tree, from \o rel) \notin Unfound
      BY <2>4, <2>6, FoundIs
    <3> QED BY <1>1, <1>6, <1>7, <3>1, LinkLeads DEF rel
  <2> QED BY <2>1, <2>2, <2>4, <2>6, <2>7
<1> QED BY <1>8, <1>9, <1>10, <1>11, <1>12

-----------------------------------------------------------------------------
(***************************************************************************)
(* References.                                                             *)
(***************************************************************************)

\* Roots are directories that are there.
RootsOf(tree, roots) == \A r \in roots : r \in Present(tree) /\ tree[r].kind = "directory"

\* The roots of a policy are directories, each where a path that was configured leads.
LEMMA PolicyRoots ==
    ASSUME NEW tree, IsTree(tree), NEW N, NEW paths \in SUBSET Seq(N), NewPolicy(tree, paths) # Refused
    PROVE  /\ RootsOf(tree, NewPolicy(tree, paths))
           /\ NewPolicy(tree, paths) = {Canonical(tree, p) : p \in paths}
           /\ NewPolicy(tree, paths) \in SUBSET Seq(Names)
<1>1. NewPolicy(tree, paths) = {Canonical(tree, p) : p \in paths} /\ \A p \in paths : Is(tree, "directory", p)
  BY DEF NewPolicy
<1>2. ASSUME NEW p \in paths
      PROVE  Canonical(tree, p) \in Present(tree) /\ tree[Canonical(tree, p)].kind = "directory" /\ Canonical(tree, p) \in Seq(Names)
  <2>1. Canonical(tree, p) \in Leads(tree)
    BY CanonicalIs
  <2>2. Canonical(tree, p) \notin Unfound /\ tree[Canonical(tree, p)].kind = "directory"
    BY <1>1 DEF Is
  <2> QED BY <2>1, <2>2, FoundIs
<1>3. RootsOf(tree, NewPolicy(tree, paths))
  BY <1>1, <1>2 DEF RootsOf
<1> QED BY <1>1, <1>2, <1>3

\* A reference resolves where it leads to a directory in its root.
Resolves(tree, roots, root, path, at) ==
    LET d == ResolveDirectory(tree, roots, [root |-> root, path |-> path]) IN
    /\ d # Refused <=> at \in Present(tree) /\ tree[at].kind = "directory" /\ IsPrefix(root, at)
    /\ d # Refused =>
          /\ d = [root |-> root, path |-> RelativeDisplay(root, at), canonical |-> at]
          /\ RelativeDisplay(root, at) \in Seq(Names) /\ at = root \o RelativeDisplay(root, at)
          /\ at \in Seq(Names) /\ root \in Seq(Names)

\* Every reference resolves there, and only there.
LEMMA ResolvedIs ==
    ASSUME NEW tree, IsTree(tree), NEW roots \in SUBSET Seq(Names),
           NEW root \in roots, NEW path \in Seq(Names)
    PROVE  Resolves(tree, roots, root, path, Canonical(tree, root \o path))
<1> DEFINE ref == [root |-> root, path |-> path]
           at == Canonical(tree, root \o path)
<1>1. root \in Seq(Names) /\ root \o path \in Seq(Names) /\ at \in Leads(tree)
  BY ConcatProperties, CanonicalIs
<1>2. /\ at \in Present(tree) => at \notin Unfound /\ at \in Seq(Names) /\ at # Refused
      /\ at \notin Unfound => at \in Present(tree)
  <2>1. at \in Seq(Names) => at # Refused
    BY NamesAreSteps, MarkAssumption DEF Steps
  <2> QED BY <1>1, <2>1, FoundIs
<1> DEFINE d == [root |-> root, path |-> RelativeDisplay(root, at), canonical |-> at]
<1>3. ref.root = root /\ ref.path = path
  OBVIOUS
<1> SUFFICES Resolves(tree, roots, root, path, at)
  OBVIOUS
<1> HIDE DEF at
<1>4. ResolveRelative(tree, root, path) = IF at \in Unfound THEN Refused ELSE IF IsPrefix(root, at) THEN at ELSE Refused
  BY DEF ResolveRelative, at
<1>5. IsPrefix(root, at) /\ at \in Present(tree) =>
         RelativeDisplay(root, at) \in Seq(Names) /\ at = root \o RelativeDisplay(root, at)
  BY <1>1, <1>2, BelowIs
<1>6. IsPrefix(root, at) /\ at \in Present(tree) => d # Refused
  <2>1. IsPrefix(root, at) /\ at \in Present(tree) => d \in [root : Seq(Names), path : Seq(Names), canonical : Seq(Names)]
    BY <1>1, <1>2, <1>5
  <2> QED BY <2>1, MarkAssumption
<1> HIDE DEF d, ref
<1>7. CASE at \in Present(tree) /\ tree[at].kind = "directory" /\ IsPrefix(root, at)
  <2>1. ResolveDirectory(tree, roots, ref) = d
    BY <1>2, <1>3, <1>4, <1>7 DEF ResolveDirectory, d
  <2> QED BY <1>1, <1>2, <1>5, <1>6, <1>7, <2>1 DEF d, ref, Resolves
<1>8. CASE ~ (at \in Present(tree) /\ tree[at].kind = "directory" /\ IsPrefix(root, at))
  <2>1. ResolveDirectory(tree, roots, ref) = Refused
    BY <1>2, <1>3, <1>4, <1>8 DEF ResolveDirectory
  <2> QED BY <1>8, <2>1 DEF ref, Resolves
<1> QED BY <1>7, <1>8

\* What is shown of a directory in a root leads to it again.
Shows(tree, roots, root, path, at) ==
    LET ref == [root |-> root, path |-> path] IN
    /\ path \in Seq(Names) /\ root \o path = at
    /\ ResolveDirectory(tree, roots, ref) = [root |-> root, path |-> path, canonical |-> at]
    /\ ResolveRelative(tree, root, path) = at

\* A directory in a root is shown so that its reference resolves to it.
LEMMA ShownAgain ==
    ASSUME NEW tree, IsTree(tree), NEW roots \in SUBSET Seq(Names), NEW root \in roots,
           NEW at \in Present(tree), tree[at].kind = "directory", IsPrefix(root, at)
    PROVE  Shows(tree, roots, root, RelativeDisplay(root, at), at)
<1> DEFINE path == RelativeDisplay(root, at)
<1> SUFFICES Shows(tree, roots, root, path, at)
  OBVIOUS
<1>1. at \in Seq(Names) /\ at \notin Unfound /\ root \in Seq(Names)
  BY FoundIs
<1>2. path \in Seq(Names) /\ root \o path = at
  BY <1>1, BelowIs
<1>3. Canonical(tree, root \o path) = at
  BY <1>2, Itself
<1>4. ResolveRelative(tree, root, path) = at
  BY <1>1, <1>3 DEF ResolveRelative
<1>5. Resolves(tree, roots, root, path, at)
  <2> HIDE DEF path
  <2>1. Resolves(tree, roots, root, path, Canonical(tree, root \o path))
    BY <1>2, ResolvedIs
  <2> QED BY <1>3, <2>1
<1>6. ResolveDirectory(tree, roots, [root |-> root, path |-> path]) = [root |-> root, path |-> path, canonical |-> at]
  BY <1>5 DEF Resolves
<1> HIDE DEF path
<1> QED BY <1>2, <1>4, <1>6 DEF Shows

\* Of the roots around a path there is a deepest.
LEMMA Deepest ==
    ASSUME NEW S \in SUBSET Seq(Names), NEW p \in Seq(Names), \A s \in S : IsPrefix(s, p), S # {}
    PROVE  \E s \in S : \A t \in S : Len(t) <= Len(s)
<1> DEFINE T == {Len(s) : s \in S}
<1>1. \A s \in S : Len(s) \in 0..Len(p)
  <2> TAKE s \in S
  <2>1. s \in Seq(Names)
    OBVIOUS
  <2> QED BY <2>1, BelowIs
<1>2. T \in SUBSET (0..Len(p)) /\ T # {} /\ Len(p) \in Nat
  <2>1. Len(p) \in Nat
    BY LenProperties
  <2>2. T \in SUBSET (0..Len(p))
    BY <1>1
  <2>3. T # {}
    OBVIOUS
  <2> QED BY <2>1, <2>2, <2>3
<1> HIDE DEF T
<1>3. Max(T) \in T /\ \A m \in T : m <= Max(T)
  BY <1>2, Greatest
<1> QED BY <1>3 DEF T

\* What references resolve to, and what is listed and searched, agree.
LEMMA ReferencesHold ==
    ASSUME NEW tree, IsTree(tree), NEW roots \in SUBSET Seq(Names), RootsOf(tree, roots)
    PROVE  ReferencesAgree(tree, roots)
<1>1. ASSUME NEW ref \in References(roots), NEW d, d = ResolveDirectory(tree, roots, ref), d # Refused
      PROVE  /\ IsPrefix(d.root, d.canonical)
             /\ DisplayDirectory(tree, d) # Refused
             /\ ResolveDirectory(tree, roots, DisplayDirectory(tree, d)) = d
             /\ \E r \in roots : r \o DisplayPath(roots, d.canonical)[2] = d.canonical
             /\ \A e \in Listing(tree, roots, ref) :
                   IF e.kind = "file" THEN e \in SearchFiles(tree, roots)
                   ELSE ResolveDirectory(tree, roots, [root |-> e.root, path |-> e.path]).canonical = e.root \o e.path
  <2>1. PICK root \in roots, path \in RelativePaths : ref = [root |-> root, path |-> path]
    BY DEF References
  <2> DEFINE at == Canonical(tree, root \o path)
             rel == RelativeDisplay(root, at)
  <2>2. path \in Seq(Names) /\ root \in Seq(Names) /\ d = ResolveDirectory(tree, roots, [root |-> root, path |-> path])
    BY <1>1, <2>1, TreeAssumption
  <2>3. Resolves(tree, roots, root, path, at)
    BY <2>2, ResolvedIs
  <2> HIDE DEF at
  <2>4. /\ at \in Present(tree) /\ tree[at].kind = "directory" /\ IsPrefix(root, at) /\ at \in Seq(Names)
        /\ d = [root |-> root, path |-> rel, canonical |-> at]
    BY <1>1, <2>2, <2>3 DEF Resolves
  <2>5. d.root = root /\ d.path = rel /\ d.canonical = at
    BY <2>4
  <2>6. /\ rel \in Seq(Names)
        /\ ResolveDirectory(tree, roots, [root |-> root, path |-> rel]) = [root |-> root, path |-> rel, canonical |-> at]
        /\ ResolveRelative(tree, root, rel) = at
    BY <2>4, ShownAgain DEF Shows
  <2> HIDE DEF rel
  <2>7. DisplayDirectory(tree, d) = [root |-> root, path |-> rel]
    BY <2>5, <2>6 DEF DisplayDirectory
  <2>8. DisplayDirectory(tree, d) # Refused
    <3>1. [root |-> root, path |-> rel] \in [root : Seq(Names), path : Seq(Names)]
      BY <2>2, <2>6
    <3> QED BY <2>7, <3>1, MarkAssumption
  <2>9. ResolveDirectory(tree, roots, DisplayDirectory(tree, d)) = d
    BY <2>4, <2>6, <2>7
  <2>10. \E r \in roots : r \o DisplayPath(roots, at)[2] = at
    <3> DEFINE around == {r \in roots : IsPrefix(r, at)}
               deepest == CHOOSE r \in around : \A s \in around : Len(s) <= Len(r)
    <3>1. around \in SUBSET Seq(Names) /\ around # {} /\ \A s \in around : IsPrefix(s, at)
      BY <2>4
    <3>2. \E r \in around : \A s \in around : Len(s) <= Len(r)
      <4> HIDE DEF around
      <4> QED BY <2>4, <3>1, Deepest
    <3>3. deepest \in around
      <4> HIDE DEF around
      <4> QED BY <3>2
    <3>4. DisplayPath(roots, at) = <<Name(deepest), RelativeDisplay(deepest, at)>>
      BY <3>1 DEF DisplayPath
    <3> HIDE DEF deepest
    <3>5. deepest \in roots /\ deepest \in Seq(Names) /\ IsPrefix(deepest, at)
      BY <3>3
    <3>6. deepest \o RelativeDisplay(deepest, at) = at
      BY <2>4, <3>5, BelowIs
    <3>7. DisplayPath(roots, at)[2] = RelativeDisplay(deepest, at)
      BY <3>4
    <3> QED BY <3>5, <3>6, <3>7
  <2>11. ASSUME NEW e \in Listing(tree, roots, ref)
         PROVE  IF e.kind = "file" THEN e \in SearchFiles(tree, roots)
                ELSE ResolveDirectory(tree, roots, [root |-> e.root, path |-> e.path]).canonical = e.root \o e.path
    <3>1. e \in LibraryEntries(tree, root, at)
      BY <1>1, <2>5 DEF Listing
    <3>2. PICK p \in DOMAIN tree \ {<<>>} :
             /\ Parent(p) = at /\ tree[p].kind # "link"
             /\ e = [root |-> root, path |-> RelativeDisplay(root, p), kind |-> tree[p].kind]
      BY <3>1 DEF LibraryEntries
    <3>3. p \in Present(tree) /\ p \in Seq(Names) /\ p # <<>> /\ IsPrefix(root, p)
      <4>1. p \in Present(tree) /\ p # <<>> /\ p \in Seq(Names)
        BY <3>2, FoundIs DEF Present
      <4>2. p = at \o <<Name(p)>> /\ <<Name(p)>> \in Seq(Names)
        <5>1. Parent(p) \in Seq(Names) /\ Name(p) \in Names /\ p = Append(Parent(p), Name(p))
          BY <4>1, LastName
        <5>2. Append(Parent(p), Name(p)) = Parent(p) \o <<Name(p)>> /\ <<Name(p)>> \in Seq(Names)
          BY <5>1, OneName
        <5> QED BY <3>2, <5>1, <5>2
      <4>3. at = root \o rel
        BY <2>2, <2>4, BelowIs DEF rel
      <4>4. p = root \o (rel \o <<Name(p)>>) /\ rel \o <<Name(p)>> \in Seq(Names)
        <5>1. rel \in Seq(Names) /\ <<Name(p)>> \in Seq(Names)
          BY <2>6, <4>2
        <5>2. (root \o rel) \o <<Name(p)>> = root \o (rel \o <<Name(p)>>)
          BY <2>2, <5>1, ConcatAssociative
        <5>3. rel \o <<Name(p)>> \in Seq(Names)
          BY <5>1, ConcatProperties
        <5> QED BY <4>2, <4>3, <5>2, <5>3
      <4> QED BY <2>2, <4>1, <4>4, BelowIs
    <3>4. e.root = root /\ e.path = RelativeDisplay(root, p) /\ e.kind = tree[p].kind
      BY <3>2
    <3>5. CASE e.kind = "file"
      <4>1. p \in {q \in DOMAIN tree : IsPrefix(root, q) /\ tree[q].kind = "file"}
        BY <3>2, <3>3, <3>4, <3>5
      <4>2. e = [root |-> root, path |-> RelativeDisplay(root, p), kind |-> "file"]
        BY <3>2, <3>4, <3>5
      <4> QED BY <3>5, <4>1, <4>2 DEF SearchFiles
    <3>6. CASE e.kind # "file"
      <4>1. tree[p].kind = "directory"
        BY <3>2, <3>4, <3>6 DEF IsTree
      <4>2. Shows(tree, roots, root, RelativeDisplay(root, p), p)
        BY <3>3, <4>1, ShownAgain
      <4>3. /\ ResolveDirectory(tree, roots, [root |-> root, path |-> RelativeDisplay(root, p)]) =
                  [root |-> root, path |-> RelativeDisplay(root, p), canonical |-> p]
            /\ root \o RelativeDisplay(root, p) = p
        BY <4>2 DEF Shows
      <4> QED BY <3>4, <3>6, <4>3
    <3> QED BY <3>5, <3>6
  <2> QED BY <2>4, <2>5, <2>8, <2>9, <2>10, <2>11
<1>2. ASSUME NEW e \in SearchFiles(tree, roots), e.path # <<>>
      PROVE  e \in Listing(tree, roots, [root |-> e.root, path |-> Parent(e.path)])
  <2>1. PICK root \in roots, p \in DOMAIN tree :
           /\ IsPrefix(root, p) /\ tree[p].kind = "file"
           /\ e = [root |-> root, path |-> RelativeDisplay(root, p), kind |-> "file"]
    BY DEF SearchFiles
  <2> DEFINE rel == RelativeDisplay(root, p)
             at == Parent(p)
  <2>2. p \in Seq(Names) /\ root \in Seq(Names) /\ e.root = root /\ e.path = rel /\ p # <<>>
    BY <2>1 DEF IsTree
  <2>3. rel \in Seq(Names) /\ p = root \o rel /\ rel # <<>>
    BY <1>2, <2>1, <2>2, BelowIs
  <2> HIDE DEF rel
  <2>4. at = root \o Parent(rel) /\ Parent(rel) \in Seq(Names)
    BY <2>2, <2>3, ParentBehind
  <2>5. at \in Present(tree) /\ tree[at].kind = "directory" /\ at \in Seq(Names)
    BY <2>1, <2>2, FoundIs
  <2> HIDE DEF at
  <2>6. IsPrefix(root, at)
    BY <2>2, <2>4, <2>5, BelowIs
  <2>7. Canonical(tree, root \o Parent(rel)) = at
    BY <2>4, <2>5, Itself
  <2>8. Resolves(tree, roots, root, Parent(rel), at)
    <3>1. Resolves(tree, roots, root, Parent(rel), Canonical(tree, root \o Parent(rel)))
      BY <2>4, ResolvedIs
    <3> QED BY <2>7, <3>1
  <2> DEFINE ref == [root |-> root, path |-> Parent(rel)]
             d == ResolveDirectory(tree, roots, ref)
  <2>9. d # Refused /\ d.root = root /\ d.canonical = at
    BY <2>5, <2>6, <2>8 DEF Resolves
  <2> HIDE DEF d
  <2>10. Listing(tree, roots, ref) = LibraryEntries(tree, root, at)
    BY <2>9 DEF Listing, d
  <2>11. p \in {q \in DOMAIN tree \ {<<>>} : Parent(q) = at /\ tree[q].kind # "link"}
    BY <2>1, <2>2 DEF at
  <2>12. e = [root |-> root, path |-> RelativeDisplay(root, p), kind |-> tree[p].kind]
    BY <2>1
  <2>13. e \in LibraryEntries(tree, root, at)
    BY <2>11, <2>12 DEF LibraryEntries
  <2> QED BY <2>2, <2>10, <2>13
<1> QED BY <1>1, <1>2 DEF ReferencesAgree

\* The directories of a job, of its rule and of the runtime agree.
LEMMA PairsHold ==
    ASSUME NEW tree, IsTree(tree), NEW roots \in SUBSET Seq(Names), RootsOf(tree, roots)
    PROVE  PairsAgree(tree, roots)
<1> SUFFICES ASSUME NEW source \in References(roots), NEW destination \in References(roots),
                    DirectoryJob(tree, roots, source, destination) # Refused
             PROVE  LET pair == DirectoryJob(tree, roots, source, destination)
                        rule == RuleDirectories(tree, roots, source, destination)
                    IN  /\ ~ IsPrefix(pair[1], pair[2]) /\ ~ IsPrefix(pair[2], pair[1])
                        /\ JobInput(tree, roots, pair[1], pair[2]) = pair
                        /\ rule # Refused /\ ResolvedRule(tree, roots, rule) = pair
  BY DEF PairsAgree
<1> DEFINE Shown(d) == [root |-> d.root, path |-> d.path]
<1>1. ASSUME NEW ref \in References(roots), NEW d, d = ResolveDirectory(tree, roots, ref), d # Refused
      PROVE  /\ d.canonical \in Present(tree) /\ tree[d.canonical].kind = "directory" /\ Allowed(roots, d.canonical)
             /\ Shown(d) \in [root : Seq(Names), path : Seq(Names)]
             /\ ResolveDirectory(tree, roots, Shown(d)).canonical = d.canonical
  <2>1. PICK root \in roots, path \in RelativePaths : ref = [root |-> root, path |-> path]
    BY DEF References
  <2> DEFINE at == Canonical(tree, root \o path)
             rel == RelativeDisplay(root, at)
  <2>2. path \in Seq(Names) /\ root \in Seq(Names) /\ d = ResolveDirectory(tree, roots, [root |-> root, path |-> path])
    BY <1>1, <2>1, TreeAssumption
  <2>3. Resolves(tree, roots, root, path, at)
    BY <2>2, ResolvedIs
  <2> HIDE DEF at
  <2>4. /\ at \in Present(tree) /\ tree[at].kind = "directory" /\ IsPrefix(root, at)
        /\ d = [root |-> root, path |-> rel, canonical |-> at]
    BY <1>1, <2>2, <2>3 DEF Resolves
  <2>5. d.root = root /\ d.path = rel /\ d.canonical = at
    BY <2>4
  <2>6. /\ rel \in Seq(Names)
        /\ ResolveDirectory(tree, roots, [root |-> root, path |-> rel]) = [root |-> root, path |-> rel, canonical |-> at]
    BY <2>4, ShownAgain DEF Shows
  <2> HIDE DEF rel
  <2> QED BY <2>2, <2>4, <2>5, <2>6 DEF Allowed
<1> HIDE DEF Shown
<1> DEFINE from == ResolveDirectory(tree, roots, source)
           to == ResolveDirectory(tree, roots, destination)
           a == from.canonical
           b == to.canonical
<1>2. from # Refused /\ to # Refused
      /\ DirectoryJob(tree, roots, source, destination) = ValidatePair(tree, NewPolicy(tree, {a, b}), a, b)
  BY DEF DirectoryJob
<1>3. /\ a \in Present(tree) /\ tree[a].kind = "directory" /\ Allowed(roots, a)
      /\ Shown(from) \in [root : Seq(Names), path : Seq(Names)]
      /\ ResolveDirectory(tree, roots, Shown(from)).canonical = a
      /\ b \in Present(tree) /\ tree[b].kind = "directory" /\ Allowed(roots, b)
      /\ Shown(to) \in [root : Seq(Names), path : Seq(Names)]
      /\ ResolveDirectory(tree, roots, Shown(to)).canonical = b
  BY <1>1, <1>2
<1>4. RuleDirectories(tree, roots, source, destination) = <<Shown(from), Shown(to)>>
  BY DEF RuleDirectories, Shown
<1> HIDE DEF from, to, a, b
<1>5. /\ Canonical(tree, a) = a /\ Canonical(tree, b) = b /\ a \notin Unfound /\ b \notin Unfound
      /\ a # Refused /\ b # Refused
  <2>1. a \in Seq(Names) /\ b \in Seq(Names) /\ a \notin Unfound /\ b \notin Unfound
    BY <1>3, FoundIs
  <2>2. a # Refused /\ b # Refused
    BY <2>1, NamesAreSteps, MarkAssumption DEF Steps
  <2> QED BY <1>3, <2>1, <2>2, Itself
<1> DEFINE pair == ValidatePair(tree, NewPolicy(tree, {a, b}), a, b)
<1>6. pair = <<a, b>> /\ ~ IsPrefix(a, b) /\ ~ IsPrefix(b, a)
  <2> DEFINE policy == NewPolicy(tree, {a, b})
  <2>1. pair # Refused
    BY <1>2
  <2>2. /\ ValidateRead(tree, policy, a) # Refused /\ ValidateRead(tree, policy, b) # Refused
        /\ LET x == ValidateRead(tree, policy, a)
               y == ValidateRead(tree, policy, b)
           IN  pair = <<x, y>> /\ ~ IsPrefix(x, y) /\ ~ IsPrefix(y, x)
    <3> HIDE DEF policy
    <3>1. ValidatePair(tree, policy, a, b) # Refused
      BY <2>1 DEF policy
    <3>2. /\ ValidateRead(tree, policy, a) # Refused /\ ValidateRead(tree, policy, b) # Refused
          /\ LET x == ValidateRead(tree, policy, a)
                 y == ValidateRead(tree, policy, b)
             IN  ValidatePair(tree, policy, a, b) = <<x, y>> /\ ~ IsPrefix(x, y) /\ ~ IsPrefix(y, x)
      BY <3>1, Zenon DEF ValidatePair
    <3> QED BY <3>2 DEF policy
  <2>3. ValidateRead(tree, policy, a) = a /\ ValidateRead(tree, policy, b) = b
    <3> HIDE DEF policy
    <3> QED BY <1>5, <2>2 DEF ValidateRead
  <2> HIDE DEF pair, policy
  <2> QED BY <2>2, <2>3
<1>7. JobInput(tree, roots, a, b) = <<a, b>>
  <2>1. ValidateRead(tree, roots, a) = a /\ ValidateRead(tree, roots, b) = b
    BY <1>3, <1>5 DEF ValidateRead
  <2> QED BY <1>3, <1>5, <2>1 DEF JobInput
<1>8. <<Shown(from), Shown(to)>> # Refused
  BY <1>3, MarkAssumption
<1>9. ResolvedRule(tree, roots, <<Shown(from), Shown(to)>>) = <<a, b>>
  BY <1>3 DEF ResolvedRule
<1> HIDE DEF pair
<1>10. DirectoryJob(tree, roots, source, destination) = <<a, b>>
  BY <1>2, <1>6 DEF pair
<1> QED BY <1>4, <1>6, <1>7, <1>8, <1>9, <1>10

-----------------------------------------------------------------------------
(***************************************************************************)
(* A file that is removed.                                                 *)
(***************************************************************************)

\* The tree once a file of it is gone.
Without(tree, file) == [p \in DOMAIN tree \ {file} |-> tree[p]]

\* What is left of a place: nothing where the file was, or below it.
Gone(file, a, b) == b = a \/ (b = Nowhere /\ a \in {file, Barred})

\* A tree without one of its files is a tree with the same links.
LEMMA WithoutIsTree ==
    ASSUME NEW tree, IsTree(tree), NEW file \in DOMAIN tree, tree[file].kind = "file"
    PROVE  /\ IsTree(Without(tree, file)) /\ LinksOf(Without(tree, file)) = LinksOf(tree)
           /\ Present(Without(tree, file)) = Present(tree) \ {file}
           /\ DOMAIN Without(tree, file) = DOMAIN tree \ {file}
<1> DEFINE w == Without(tree, file)
<1>1. DOMAIN w = DOMAIN tree \ {file} /\ \A p \in DOMAIN tree \ {file} : w[p] = tree[p]
  BY DEF Without
<1> HIDE DEF w
<1>2. LinksOf(w) = LinksOf(tree) /\ Present(w) = Present(tree) \ {file}
  BY <1>1 DEF LinksOf, Present
<1>3. IsFiniteSet(DOMAIN w) /\ DOMAIN w \subseteq Seq(Names)
  BY <1>1, FS_Subset DEF IsTree
<1>4. <<>> \in DOMAIN w /\ w[<<>>].kind = "directory"
  BY <1>1 DEF IsTree
<1>5. ASSUME NEW p \in DOMAIN w
      PROVE  /\ p # <<>> => Parent(p) \in DOMAIN w /\ w[Parent(p)].kind = "directory"
             /\ w[p].kind \in {"directory", "file", "link"}
             /\ w[p].kind = "link" => w[p].to \in Seq(Names \cup {Upward})
  BY <1>1 DEF IsTree
<1>6. IsTree(w)
  BY <1>3, <1>4, <1>5 DEF IsTree
<1> QED BY <1>1, <1>2, <1>6 DEF w

\* One name further, what is left is what was there or nothing.
LEMMA EnteredGone ==
    ASSUME NEW tree, IsTree(tree), NEW file \in DOMAIN tree, tree[file].kind = "file",
           NEW follow, NEW after, \A l \in LinksOf(tree) : Gone(file, follow[l], after[l]),
           NEW a \in Leads(tree), NEW b \in Leads(Without(tree, file)), Gone(file, a, b), NEW name
    PROVE  Gone(file, Entered(tree, follow, a, name), Entered(Without(tree, file), after, b, name))
<1> DEFINE w == Without(tree, file)
           here == Append(a, name)
<1>1. DOMAIN w = DOMAIN tree \ {file} /\ \A p \in DOMAIN tree \ {file} : w[p] = tree[p]
  BY DEF Without
<1>2. Nowhere \in Unfound /\ Barred \in Unfound /\ file \notin Unfound
  <2>1. file \in Present(tree)
    BY DEF Present
  <2> QED BY <2>1, FoundIs DEF Unfound
<1>3. CASE b # a
  <2>1. b = Nowhere /\ a \in {file, Barred}
    BY <1>3 DEF Gone
  <2>2. Entered(w, after, b, name) = Nowhere
    BY <1>2, <2>1 DEF Entered
  <2>3. Entered(tree, follow, a, name) = Barred
    BY <1>2, <2>1 DEF Entered
  <2> QED BY <2>2, <2>3 DEF Gone
<1>4. CASE b = a /\ a \in Unfound
  BY <1>4 DEF Entered, Gone
<1>5. CASE b = a /\ a \notin Unfound
  <2>1. a \in DOMAIN tree /\ a # file /\ w[a] = tree[a]
    <3>1. a \in Present(w)
      BY <1>5, WithoutIsTree, FoundIs
    <3> QED BY <1>1, <3>1 DEF Present
  <2> HIDE DEF w
  <2>2. CASE tree[a].kind # "directory" \/ name = Upward
    BY <1>5, <2>1, <2>2 DEF Entered, Gone, w
  <2>3. CASE tree[a].kind = "directory" /\ name # Upward
    <3>1. Entered(tree, follow, a, name) = IF here \notin DOMAIN tree THEN Nowhere
                                           ELSE IF tree[here].kind = "link" THEN follow[here] ELSE here
      BY <1>5, <2>3 DEF Entered
    <3>2. Entered(w, after, a, name) = IF here \notin DOMAIN w THEN Nowhere
                                       ELSE IF w[here].kind = "link" THEN after[here] ELSE here
      BY <1>5, <2>1, <2>3 DEF Entered
    <3> HIDE DEF here
    <3>3. CASE here = file
      <4>1. Entered(tree, follow, a, name) = file /\ Entered(w, after, a, name) = Nowhere
        BY <1>1, <3>1, <3>2, <3>3 DEF w
      <4> QED BY <1>5, <4>1 DEF Gone, w
    <3>4. CASE here # file /\ here \notin DOMAIN tree
      <4>1. Entered(tree, follow, a, name) = Nowhere /\ Entered(w, after, a, name) = Nowhere
        BY <1>1, <3>1, <3>2, <3>4 DEF w
      <4> QED BY <1>5, <4>1 DEF Gone, w
    <3>5. CASE here # file /\ here \in DOMAIN tree
      <4>1. here \in DOMAIN w /\ w[here] = tree[here]
        BY <1>1, <3>5 DEF w
      <4>2. CASE tree[here].kind = "link"
        <5>1. Entered(tree, follow, a, name) = follow[here] /\ Entered(w, after, a, name) = after[here]
          BY <3>1, <3>2, <3>5, <4>1, <4>2
        <5>2. here \in LinksOf(tree)
          BY <3>5, <4>2 DEF LinksOf
        <5> QED BY <1>5, <5>1, <5>2 DEF w
      <4>3. CASE tree[here].kind # "link"
        <5>1. Entered(tree, follow, a, name) = here /\ Entered(w, after, a, name) = here
          BY <3>1, <3>2, <3>5, <4>1, <4>3
        <5> QED BY <1>5, <5>1 DEF Gone, w
      <4> QED BY <4>2, <4>3
    <3> QED BY <3>3, <3>4, <3>5
  <2> QED BY <2>2, <2>3
<1> QED BY <1>3, <1>4, <1>5

\* A walk leads where it did, or nowhere, where the links do.
LEMMA WalkGone ==
    ASSUME NEW tree, IsTree(tree), NEW file \in DOMAIN tree, tree[file].kind = "file",
           NEW follow \in [LinksOf(tree) -> Leads(tree)],
           NEW after \in [LinksOf(tree) -> Leads(Without(tree, file))],
           \A l \in LinksOf(tree) : Gone(file, follow[l], after[l]),
           NEW N
    PROVE  \A p \in Seq(N) : Gone(file, Walk(tree, follow, p), Walk(Without(tree, file), after, p))
<1> DEFINE w == Without(tree, file)
           S == {p \in Seq(N) : Gone(file, Walk(tree, follow, p), Walk(w, after, p))}
<1>1. IsTree(w) /\ after \in [LinksOf(w) -> Leads(w)]
  BY WithoutIsTree
<1>2. <<>> \in S
  <2>1. Walk(tree, follow, <<>>) = <<>> /\ Walk(w, after, <<>>) = <<>>
    <3> HIDE DEF w
    <3> QED BY <1>1, Walks
  <2>2. <<>> \in Seq(N)
    BY EmptySeq
  <2> QED BY <2>1, <2>2 DEF Gone
<1>3. ASSUME NEW p \in Seq(N), NEW x \in N, p \in S PROVE Append(p, x) \in S
  <2> DEFINE a == Walk(tree, follow, p)
             b == Walk(w, after, p)
  <2>1. /\ a \in Leads(tree) /\ b \in Leads(w)
        /\ Walk(tree, follow, Append(p, x)) = Entered(tree, follow, a, x)
        /\ Walk(w, after, Append(p, x)) = Entered(w, after, b, x)
    <3> HIDE DEF w
    <3>1. a \in Leads(tree) /\ Walk(tree, follow, Append(p, x)) = Entered(tree, follow, a, x)
      BY Walks
    <3>2. b \in Leads(w) /\ Walk(w, after, Append(p, x)) = Entered(w, after, b, x)
      BY <1>1, Walks
    <3> QED BY <3>1, <3>2
  <2>2. Gone(file, a, b) /\ Append(p, x) \in Seq(N)
    BY <1>3, OneName
  <2> HIDE DEF a, b
  <2>3. Gone(file, Entered(tree, follow, a, x), Entered(w, after, b, x))
    BY <2>1, <2>2, EnteredGone
  <2> QED BY <2>1, <2>2, <2>3
<1> HIDE DEF S
<1>4. \A p \in Seq(N) : p \in S
  BY <1>2, <1>3, NameByName
<1> QED BY <1>4 DEF S

\* Links lead where they did, or nowhere.
LEMMA FollowGone ==
    ASSUME NEW tree, IsTree(tree), NEW file \in DOMAIN tree, tree[file].kind = "file"
    PROVE  \A l \in LinksOf(tree) : Gone(file, Follow(tree)[l], Follow(Without(tree, file))[l])
<1> DEFINE w == Without(tree, file)
           n == Cardinality(LinksOf(tree))
           L == LinksOf(tree)
<1>1. IsTree(w) /\ LinksOf(w) = L /\ \A l \in L : w[l] = tree[l] /\ tree[l].to \in Seq(Steps)
  <2>1. \A l \in L : l \in DOMAIN tree \ {file} /\ tree[l].to \in Seq(Steps)
    BY DEF LinksOf, IsTree, Steps
  <2>2. \A l \in L : w[l] = tree[l]
    BY <2>1 DEF Without
  <2> QED BY <2>1, <2>2, WithoutIsTree
<1> HIDE DEF w
<1>2. PICK to : Following(tree, to)
  BY FollowIs
<1>3. PICK then : Following(w, then)
  BY <1>1, FollowIs
<1>4. n \in Nat
  BY FollowIs
<1>5. /\ to \in [0..n -> [L -> Leads(tree)]] /\ to[0] = [l \in L |-> Barred]
      /\ \A i \in 1..n : to[i] = [l \in L |-> Walk(tree, to[i - 1], tree[l].to)]
      /\ Follow(tree) = to[n]
  BY <1>2 DEF Following
<1>6. /\ then \in [0..n -> [L -> Leads(w)]] /\ then[0] = [l \in L |-> Barred]
      /\ \A i \in 1..n : then[i] = [l \in L |-> Walk(w, then[i - 1], w[l].to)]
      /\ Follow(w) = then[n]
  BY <1>1, <1>3 DEF Following
<1> DEFINE T == {i \in 0..n : \A l \in L : Gone(file, to[i][l], then[i][l])}
<1> HIDE DEF n, L
<1>7. 0 \in T
  BY <1>4, <1>5, <1>6 DEF Gone
<1>8. ASSUME NEW i \in 0..(n - 1), i \in T PROVE i + 1 \in T
  <2>1. i + 1 \in 1..n /\ i + 1 \in 0..n /\ (i + 1) - 1 = i /\ i \in 0..n
    BY <1>4
  <2>2. to[i] \in [L -> Leads(tree)] /\ then[i] \in [L -> Leads(w)] /\ \A l \in L : Gone(file, to[i][l], then[i][l])
    BY <1>5, <1>6, <1>8, <2>1
  <2>3. \A p \in Seq(Steps) : Gone(file, Walk(tree, to[i], p), Walk(w, then[i], p))
    BY <2>2, WalkGone DEF w, L
  <2>4. ASSUME NEW l \in L PROVE Gone(file, to[i + 1][l], then[i + 1][l])
    <3>1. to[i + 1][l] = Walk(tree, to[i], tree[l].to)
      <4>1. to[i + 1] = [m \in L |-> Walk(tree, to[(i + 1) - 1], tree[m].to)]
        BY <1>5, <2>1
      <4> QED BY <2>1, <4>1
    <3>2. then[i + 1][l] = Walk(w, then[i], tree[l].to)
      <4>1. then[i + 1] = [m \in L |-> Walk(w, then[(i + 1) - 1], w[m].to)]
        BY <1>6, <2>1
      <4>2. w[l] = tree[l]
        BY <1>1 DEF L
      <4> QED BY <2>1, <4>1, <4>2
    <3>3. tree[l].to \in Seq(Steps)
      BY <1>1 DEF L
    <3> QED BY <2>3, <3>1, <3>2, <3>3
  <2> QED BY <2>1, <2>4
<1> HIDE DEF T
<1>9. \A i \in 0..n : i \in T
  BY <1>4, <1>7, <1>8, UpTo
<1>10. n \in T
  BY <1>4, <1>9
<1> QED BY <1>5, <1>6, <1>10 DEF T, L, w

\* Where the file is removed, every path leads where it did, or nowhere if it led there.
LEMMA CanonicalGone ==
    ASSUME NEW tree, IsTree(tree), NEW file \in DOMAIN tree, tree[file].kind = "file", NEW N, NEW p \in Seq(N)
    PROVE  Gone(file, Canonical(tree, p), Canonical(Without(tree, file), p))
<1> DEFINE w == Without(tree, file)
<1>1. IsTree(w) /\ LinksOf(w) = LinksOf(tree)
  BY WithoutIsTree
<1>2. Follow(tree) \in [LinksOf(tree) -> Leads(tree)]
  BY FollowIs
<1>3. Follow(w) \in [LinksOf(tree) -> Leads(w)]
  <2> HIDE DEF w
  <2> QED BY <1>1, FollowIs
<1>4. \A q \in Seq(N) : Gone(file, Walk(tree, Follow(tree), q), Walk(w, Follow(w), q))
  BY <1>2, <1>3, FollowGone, WalkGone
<1> QED BY <1>4 DEF Canonical

\* A path that leads anywhere is followed as a whole.
LEMMA NothingMissing ==
    ASSUME NEW tree, IsTree(tree), NEW p \in Seq(Names), Canonical(tree, p) \in Present(tree)
    PROVE  WithMissingTail(tree, p) = Canonical(tree, p)
<1> DEFINE L == Len(p)
           where == [k \in 0..L |-> Canonical(tree, SubSeq(p, 1, k))]
           n == Reach(where)
<1>1. L \in Nat /\ SubSeq(p, 1, L) = p /\ SubSeq(p, L + 1, L) = <<>> /\ SubSeq(p, 1, 0) = <<>>
  <2>1. L \in Nat
    BY LenProperties
  <2>2. SubSeq(p, 1, L) = p /\ SubSeq(p, 1, 0) = <<>>
    <3>1. L \in 0..Len(p)
      BY <2>1
    <3> QED BY <3>1, Start
  <2>3. SubSeq(p, L + 1, L) = <<>>
    BY <2>1, SubSeqEmpty
  <2> QED BY <2>1, <2>2, <2>3
<1>2. Canonical(tree, p) \notin Unfound /\ Canonical(tree, p) \in Seq(Names) /\ <<>> # Nowhere
  BY FoundIs DEF Unfound
<1> HIDE DEF L
<1>3. DOMAIN where = 0..L /\ where[0] # Nowhere /\ where[L] = Canonical(tree, p)
  <2>1. Canonical(tree, <<>>) = <<>>
    BY CanonicalIs
  <2>2. 0 \in 0..L /\ L \in 0..L
    BY <1>1
  <2> QED BY <1>1, <1>2, <2>1, <2>2
<1>4. n = L
  <2>1. n \in 0..L /\ \A m \in 0..L : n < m => where[m] = Nowhere
    <3> HIDE DEF where
    <3> QED BY <1>1, <1>3, Reached
  <2>2. ~ (n < L)
    BY <1>1, <1>2, <1>3, <2>1 DEF Unfound
  <2> HIDE DEF n
  <2> QED BY <1>1, <2>1, <2>2
<1>5. WithMissingTail(tree, p) = LET at == Canonical(tree, SubSeq(p, 1, n))
                                 IN  IF at = Barred THEN Refused ELSE at \o SubSeq(p, n + 1, L)
  BY DEF WithMissingTail, L
<1> HIDE DEF n
<1>6. WithMissingTail(tree, p) = Canonical(tree, p) \o <<>>
  BY <1>1, <1>2, <1>4, <1>5 DEF Unfound
<1> QED BY <1>2, <1>6, ConcatEmptySeq

\* Where only the last name leads nowhere, what is left is where the parent leads.
LEMMA LastMissing ==
    ASSUME NEW tree, IsTree(tree), NEW p \in Seq(Names), p # <<>>,
           Canonical(tree, p) = Nowhere, Canonical(tree, Parent(p)) \in Present(tree)
    PROVE  WithMissingTail(tree, p) = Append(Canonical(tree, Parent(p)), Name(p))
<1> DEFINE L == Len(p)
           where == [k \in 0..L |-> Canonical(tree, SubSeq(p, 1, k))]
           n == Reach(where)
           at == Canonical(tree, Parent(p))
<1>1. /\ L \in Nat \ {0} /\ SubSeq(p, 1, L) = p /\ SubSeq(p, 1, 0) = <<>> /\ SubSeq(p, 1, L - 1) = Parent(p)
      /\ SubSeq(p, L, L) = <<Name(p)>> /\ Name(p) \in Names
  <2>1. L \in Nat \ {0} /\ Name(p) \in Names
    BY LastName
  <2>2. SubSeq(p, 1, L) = p /\ SubSeq(p, 1, 0) = <<>>
    <3>1. L \in 0..Len(p)
      BY <2>1
    <3> QED BY <3>1, Start
  <2>3. SubSeq(p, 1, L - 1) = Parent(p)
    <3>1. L \in 1..Len(p)
      BY <2>1
    <3> QED BY <2>2, <3>1, StartBefore
  <2>4. SubSeq(p, L, L) = <<p[L]>> /\ p[L] = Name(p)
    <3>1. L \in 1..Len(p) /\ L \in L..Len(p) /\ L + 1 \in Int /\ L < L + 1 /\ p[L] \in Names
      BY <2>1
    <3>2. SubSeq(p, L, L) = <<p[L]>> \o SubSeq(p, L + 1, L)
      BY <3>1, SubSeqRecursiveFirst
    <3>3. SubSeq(p, L + 1, L) = <<>>
      BY <2>1, <3>1, SubSeqEmpty
    <3>4. <<p[L]>> \in Seq(Names)
      BY <3>1
    <3>5. SubSeq(p, L, L) = <<p[L]>>
      BY <3>2, <3>3, <3>4, ConcatEmptySeq
    <3> QED BY <3>5 DEF Name, Last
  <2> QED BY <2>1, <2>2, <2>3, <2>4
<1>2. at \notin Unfound /\ at \in Seq(Names) /\ <<>> # Nowhere
  BY FoundIs DEF Unfound
<1> HIDE DEF L
<1>3. L - 1 \in 0..L /\ L \in 0..L /\ 0 \in 0..L
  BY <1>1
<1>4. DOMAIN where = 0..L /\ where[0] # Nowhere /\ where[L] = Nowhere /\ where[L - 1] = at
  BY <1>1, <1>2, <1>3, CanonicalIs
<1>5. n = L - 1
  <2>1. n \in 0..L /\ where[n] # Nowhere /\ \A m \in 0..L : n < m => where[m] = Nowhere
    <3> HIDE DEF where
    <3> QED BY <1>1, <1>4, Reached
  <2> HIDE DEF n, where
  <2>2. ~ (n < L - 1) /\ n # L
    BY <1>2, <1>3, <1>4, <2>1 DEF Unfound
  <2> QED BY <1>1, <2>1, <2>2
<1>6. WithMissingTail(tree, p) = LET here == Canonical(tree, SubSeq(p, 1, n))
                                 IN  IF here = Barred THEN Refused ELSE here \o SubSeq(p, n + 1, L)
  BY DEF WithMissingTail, L
<1> HIDE DEF n
<1>7. n + 1 = L
  BY <1>1, <1>5
<1>8. WithMissingTail(tree, p) = at \o <<Name(p)>>
  BY <1>1, <1>2, <1>5, <1>6, <1>7 DEF Unfound
<1> HIDE DEF at
<1>9. Append(at, Name(p)) = at \o <<Name(p)>>
  BY <1>1, <1>2, OneName
<1> QED BY <1>8, <1>9 DEF at

\* What is left of the path of a file is where the file is, or was.
LEMMA FileIsLeft ==
    ASSUME NEW tree, IsTree(tree), NEW spelled \in Seq(Names), NEW file, file = Entry(tree, spelled),
           file \notin Unfound, tree[file].kind = "file"
    PROVE  /\ file \in Seq(Names) /\ WithMissingTail(tree, spelled) = file
           /\ WithMissingTail(Without(tree, file), spelled) = file
<1> DEFINE w == Without(tree, file)
           above == Canonical(tree, Parent(spelled))
<1>1. file \in DOMAIN tree /\ file \in Present(tree) /\ Canonical(tree, spelled) = file /\ file \in Seq(Names)
  <2>1. file \in Present(tree) /\ Canonical(tree, spelled) = file
    BY EntryIs
  <2> QED BY <2>1, FoundIs
<1>2. spelled # <<>>
  <2>1. tree[<<>>].kind = "directory"
    BY DEF IsTree
  <2> QED BY <2>1 DEF Entry
<1>3. above \in Present(tree) /\ tree[above].kind = "directory" /\ file = Append(above, Name(spelled))
  BY <1>2, EntryIs
<1>4. Parent(spelled) \in Seq(Names) /\ Name(spelled) \in Names /\ spelled = Append(Parent(spelled), Name(spelled))
  BY <1>2, LastName
<1>5. above # file /\ above \notin Unfound
  BY <1>3, FoundIs
<1>6. IsTree(w) /\ DOMAIN w = DOMAIN tree \ {file} /\ above \in Present(w) /\ w[above] = tree[above]
  <2>1. above \in DOMAIN tree \ {file}
    BY <1>3, <1>5, FoundIs
  <2> HIDE DEF above
  <2>2. w[above] = tree[above]
    BY <2>1 DEF Without
  <2>3. IsTree(w) /\ DOMAIN w = DOMAIN tree \ {file} /\ Present(w) = Present(tree) \ {file}
    BY <1>1, WithoutIsTree
  <2> QED BY <1>3, <1>5, <2>2, <2>3
<1>7. Canonical(w, Parent(spelled)) = above
  <2>1. Gone(file, above, Canonical(w, Parent(spelled)))
    BY <1>1, <1>4, CanonicalGone
  <2> QED BY <1>5, <2>1 DEF Gone, Unfound
<1>8. Canonical(w, spelled) = Nowhere
  <2> HIDE DEF w, above
  <2>1. Canonical(w, spelled) = Entered(w, Follow(w), above, Name(spelled))
    BY <1>4, <1>6, <1>7, CanonicalIs
  <2>2. Name(spelled) # Upward
    BY <1>4, TreeAssumption
  <2> QED BY <1>3, <1>5, <1>6, <2>1, <2>2 DEF Entered
<1>9. WithMissingTail(w, spelled) = file
  <2> HIDE DEF w, above
  <2> QED BY <1>2, <1>3, <1>6, <1>7, <1>8, LastMissing
<1>10. WithMissingTail(tree, spelled) = file
  BY <1>1, NothingMissing
<1> QED BY <1>1, <1>9, <1>10

\* Of two starts of one path the longer has the shorter in it.
LEMMA StartsNest ==
    ASSUME NEW a \in Seq(Names), NEW b \in Seq(Names), NEW p \in Seq(Names),
           IsPrefix(a, p), IsPrefix(b, p), Len(a) <= Len(b)
    PROVE  IsPrefix(a, b)
<1>1. Len(a) \in 0..Len(p) /\ Len(b) \in 0..Len(p) /\ SubSeq(p, 1, Len(a)) = a /\ SubSeq(p, 1, Len(b)) = b
  BY BelowIs
<1> DEFINE r == RelativeDisplay(b, p)
<1>2. r \in Seq(Names) /\ p = b \o r
  BY BelowIs
<1> HIDE DEF r
<1>3. Len(a) \in 0..Len(b) /\ Len(p) \in Nat /\ Len(b) \in Nat
  BY <1>1, LenProperties
<1>4. SubSeq(b \o r, 1, Len(a)) = SubSeq(b, 1, Len(a))
  BY <1>3, StartOfFirst
<1>5. SubSeq(b, 1, Len(a)) = a
  BY <1>1, <1>2, <1>4
<1>6. SubSeq(b, Len(a) + 1, Len(b)) \in Seq(Names) /\ b = SubSeq(b, 1, Len(a)) \o SubSeq(b, Len(a) + 1, Len(b))
  BY <1>3, Start
<1> QED BY <1>5, <1>6, BelowIs

\* A change at a place belongs to the deepest item around it.
Owns(item, items, at) ==
    LET around == {i \in items : IsPrefix(i, at)} IN
    /\ item = IF around = {} THEN Refused ELSE CHOOSE i \in around : \A j \in around : Len(j) <= Len(i)
    /\ (around = {}) = (item = Refused)
    /\ around # {} => item \in around /\ \A i \in around : IsPrefix(i, item)

\* An event is reconciled with the item that owns its place.
LEMMA ItemIs ==
    ASSUME NEW tree, NEW items \in SUBSET Seq(Names), NEW changed, NEW at \in Seq(Names),
           WithMissingTail(tree, changed) = at
    PROVE  Owns(ReconcileEvent(tree, items, changed), items, at)
<1> DEFINE around == {i \in items : IsPrefix(i, at)}
           item == ReconcileEvent(tree, items, changed)
           deepest == CHOOSE i \in around : \A j \in around : Len(j) <= Len(i)
<1>1. at # Refused /\ \A i \in Seq(Names) : i # Refused
  BY NamesAreSteps, MarkAssumption DEF Steps
<1>2. item = IF around = {} THEN Refused ELSE deepest
  <2> DEFINE seen == {i \in items : WithMissingTail(tree, changed) # Refused /\ IsPrefix(i, WithMissingTail(tree, changed))}
  <2>1. seen = around
    BY <1>1
  <2>2. item = IF seen = {} THEN Refused ELSE CHOOSE i \in seen : \A j \in seen : Len(j) <= Len(i)
    BY DEF ReconcileEvent
  <2> HIDE DEF seen, around, item
  <2> QED BY <2>1, <2>2
<1>3. around \in SUBSET Seq(Names) /\ \A i \in around : IsPrefix(i, at)
  OBVIOUS
<1> HIDE DEF around, item
<1>4. ASSUME around # {} PROVE deepest \in around /\ \A j \in around : Len(j) <= Len(deepest)
  <2>1. \E i \in around : \A j \in around : Len(j) <= Len(i)
    BY <1>3, <1>4, Deepest
  <2> QED BY <2>1
<1> HIDE DEF deepest
<1>5. (around = {}) = (item = Refused)
  BY <1>1, <1>2, <1>3, <1>4
<1>6. ASSUME around # {} PROVE item \in around /\ \A i \in around : IsPrefix(i, item)
  <2>1. item = deepest /\ item \in around
    BY <1>2, <1>4, <1>6
  <2>2. ASSUME NEW i \in around PROVE IsPrefix(i, item)
    BY <1>3, <1>4, <2>1, StartsNest
  <2> QED BY <2>1, <2>2
<1>7. item = IF around = {} THEN Refused ELSE CHOOSE i \in around : \A j \in around : Len(j) <= Len(i)
  BY <1>2 DEF deepest
<1> QED BY <1>5, <1>6, <1>7 DEF around, item, Owns

\* The removal of a file is seen where its creation was.
LEMMA EventsHold == ASSUME NEW tree, IsTree(tree) PROVE EventsReachItems(tree)
<1> SUFFICES ASSUME NEW items \in Items, NEW spelled \in Changes,
                    Entry(tree, spelled) \notin Unfound, tree[Entry(tree, spelled)].kind = "file"
             PROVE  LET file == Entry(tree, spelled)
                        around == {i \in items : IsPrefix(i, file)}
                        without == [p \in DOMAIN tree \ {file} |-> tree[p]]
                        item == ReconcileEvent(without, items, spelled)
                    IN  /\ item = ReconcileEvent(tree, items, spelled)
                        /\ (around = {}) = (item = Refused)
                        /\ around # {} => item \in around /\ \A i \in around : IsPrefix(i, item)
  BY DEF EventsReachItems
<1> DEFINE file == Entry(tree, spelled)
           around == {i \in items : IsPrefix(i, file)}
           w == Without(tree, file)
<1>1. spelled \in Seq(Names) /\ items \in SUBSET Seq(Names)
  BY TreeAssumption
<1>2. file \in Seq(Names) /\ WithMissingTail(tree, spelled) = file /\ WithMissingTail(w, spelled) = file
  BY <1>1, FileIsLeft
<1> HIDE DEF file, w
<1>3. Owns(ReconcileEvent(tree, items, spelled), items, file)
  BY <1>1, <1>2, ItemIs
<1>4. Owns(ReconcileEvent(w, items, spelled), items, file)
  BY <1>1, <1>2, ItemIs
<1>5. ReconcileEvent(w, items, spelled) = ReconcileEvent(tree, items, spelled)
  BY <1>3, <1>4 DEF Owns
<1>6. LET item == ReconcileEvent(w, items, spelled)
      IN  /\ (around = {}) = (item = Refused)
          /\ around # {} => item \in around /\ \A i \in around : IsPrefix(i, item)
  BY <1>4 DEF Owns
<1> HIDE DEF around
<1>7. w = [p \in DOMAIN tree \ {file} |-> tree[p]]
  BY DEF w, Without
<1> QED BY <1>5, <1>6, <1>7 DEF file, around

-----------------------------------------------------------------------------
(***************************************************************************)
(* What holds of every sample.                                             *)
(***************************************************************************)

\* Every sample is one of its part's.
Sampled ==
    /\ part = "select" => sample \in GroupSamples
    /\ part = "merge" => sample \in MergeSamples
    /\ part = "organize" => sample \in PlanSamples
    /\ part = "package" => sample \in Titles
    /\ part = "scan" => sample \in ScanSamples
    /\ part = "paths" => sample \in TreeSamples

\* No step changes the sample.
LEMMA SamplesStay == SpecAlgorithms => []Sampled
<1>1. InitAlgorithms => Sampled
  BY DEF InitAlgorithms, Part, Sampled
<1>2. Sampled /\ [NextAlgorithms]_<<part, sample, scrapeVars>> => Sampled'
  BY DEF NextAlgorithms, Sampled
<1> QED BY <1>1, <1>2, PTL DEF SpecAlgorithms

(***************************************************************************)
(* Whatever candidates were found, a group holds one work: no provider but *)
(* the scanned files adds two of them, neither the order of the others nor *)
(* the providers left out decide about the rest, and no member contradicts *)
(* an id of the request that chose it.                                     *)
(***************************************************************************)
THEOREM GroupsHold == SpecAlgorithms => []GroupIsOneWork
<1>1. Sampled => GroupIsOneWork
  <2> SUFFICES ASSUME Sampled, part = "select" PROVE GroupOf(sample.candidates, sample.ids)
    BY DEF GroupIsOneWork
  <2>1. IsGroupSample(sample)
    BY GroupAssumption DEF Sampled
  <2> QED BY <2>1, GroupSample DEF IsGroupSample
<1> QED BY <1>1, SamplesStay, PTL

(***************************************************************************)
(* Whatever the documents and the precedence: a merge does not depend on   *)
(* the order in which providers of different rank are asked; every key     *)
(* that a document offers is kept once, from the first provider that       *)
(* offers it; texts that differ in a language are a conflict, and nothing  *)
(* else is; every season and episode of a document is there; and an        *)
(* anime's hierarchy is that of the first document that has one.           *)
(***************************************************************************)
THEOREM MergesHold == SpecAlgorithms => []MergeByPrecedence
<1>1. Sampled => MergeByPrecedence
  <2> SUFFICES ASSUME Sampled, part = "merge" PROVE MergedAnyOrder(sample.docs, sample.policy, sample.kind)
    BY DEF MergeByPrecedence
  <2> DEFINE docs == sample.docs
             policy == sample.policy
             kind == sample.kind
             merged == Merged(kind, docs, policy)
  <2>1. IsMergeSample(sample)
    BY MergeAssumption DEF Sampled
  <2>2. /\ kind \in {"movie", "television", "anime"} /\ IsSequence(docs) /\ docs # <<>> /\ HasLists(policy)
        /\ \A i \in 1..Len(docs) : IsDocument(kind, docs[i])
        /\ kind = "television" => NumberedOnce(docs)
    BY <2>1 DEF IsMergeSample, HasLists
  <2> HIDE DEF docs, policy, kind
  <2>3. \A d \in ToSet(docs) : IsDocument(kind, d)
    <3>1. ToSet(docs) = {docs[i] : i \in 1..Len(docs)}
      BY <2>2, ItemsAre
    <3> QED BY <2>2, <3>1
  <2>4. \A other \in Rearranged(docs, policy) : Merged(kind, other, policy) = merged
    BY <2>2, OrderForgotten
  <2>5. kind = "movie" => MovieMerged(merged, docs, policy)
    <3> SUFFICES ASSUME kind = "movie" PROVE MovieMerged(merged, docs, policy)
      OBVIOUS
    <3>1. MovieMerged(MergeMovie(docs, policy), docs, policy)
      BY <2>2, <2>3, MovieIs
    <3> QED BY <3>1 DEF Merged
  <2>6. kind = "anime" => AnimeMerged(merged, docs, policy)
    <3> SUFFICES ASSUME kind = "anime" PROVE AnimeMerged(merged, docs, policy)
      OBVIOUS
    <3>1. AnimeMerged(MergeAnime(docs, policy), docs, policy)
      BY <2>2, <2>3, AnimeIs
    <3> QED BY <3>1 DEF Merged
  <2>7. kind = "television" => SeriesMerged(merged, docs, policy)
    <3> SUFFICES ASSUME kind = "television" PROVE SeriesMerged(merged, docs, policy)
      OBVIOUS
    <3>1. SeriesMerged(MergeSeries(docs, policy), docs, policy)
      BY <2>2, <2>3, SeriesIs
    <3> QED BY <3>1 DEF Merged
  <2> HIDE DEF merged
  <2>8. \A x \in {merged} :
           /\ \A other \in Rearranged(docs, policy) : Merged(kind, other, policy) = x
           /\ kind = "movie" => MovieMerged(x, docs, policy)
           /\ kind = "anime" => AnimeMerged(x, docs, policy)
           /\ kind = "television" => SeriesMerged(x, docs, policy)
    BY <2>4, <2>5, <2>6, <2>7
  <2> QED BY <2>8 DEF MergedAnyOrder, docs, policy, kind, merged
<1> QED BY <1>1, SamplesStay, PTL

(***************************************************************************)
(* Whatever lies in the tree, links and all: a reference that resolves     *)
(* leads into its root and is shown again; the two directories of a job or *)
(* a rule do not overlap and mean the same to the runtime; what policy and *)
(* executor both accept is written and taken below the roots; and the      *)
(* removal of a file is a change of the item its creation was one of.      *)
(***************************************************************************)
THEOREM PathsHold == SpecAlgorithms => []PathsAreContained
<1>1. Sampled => PathsAreContained
  <2> SUFFICES ASSUME Sampled, part = "paths", WorkspaceRoots(sample.tree, sample.configured) # Refused
               PROVE  LET tree == sample.tree
                          roots == WorkspaceRoots(sample.tree, sample.configured)
                      IN  /\ ReferencesAgree(tree, roots) /\ PairsAgree(tree, roots)
                          /\ PlansAgree(tree, roots) /\ EventsReachItems(tree)
    BY DEF PathsAreContained, Contained
  <2> DEFINE tree == sample.tree
             configured == sample.configured
             roots == WorkspaceRoots(tree, configured)
  <2>1. IsTree(tree) /\ configured \in SUBSET Seq(Names)
    BY TreeAssumption DEF Sampled
  <2> HIDE DEF tree, configured
  <2>2. roots = NewPolicy(tree, configured) /\ NewPolicy(tree, configured) # Refused
    BY DEF WorkspaceRoots, tree, configured
  <2>3. RootsOf(tree, NewPolicy(tree, configured)) /\ NewPolicy(tree, configured) \in SUBSET Seq(Names)
    BY <2>1, <2>2, PolicyRoots
  <2>4. RootsOf(tree, roots) /\ roots \in SUBSET Seq(Names)
    BY <2>2, <2>3
  <2> HIDE DEF roots
  <2>5. ReferencesAgree(tree, roots) /\ PairsAgree(tree, roots) /\ PlansAgree(tree, roots) /\ EventsReachItems(tree)
    BY <2>1, <2>4, ReferencesHold, PairsHold, PlansHold, EventsHold
  <2> QED BY <2>5 DEF tree, roots, configured
<1> QED BY <1>1, SamplesStay, PTL
=============================================================================
