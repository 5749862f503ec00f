------------------------------ MODULE Positions ------------------------------
(***************************************************************************)
(* Sequences by the positions of their items: what is kept of one, and     *)
(* what is made of each item.                                              *)
(***************************************************************************)
EXTENDS Naturals, Sequences, FiniteSets

(* The items of s at the positions in K, in order; those that are kept, by their *)
(* positions or by what they are.                                               *)
Nth(K, j) == CHOOSE i \in K : Cardinality({k \in K : k <= i}) = j
Pick(s, K) == [j \in 1..Cardinality(K) |-> s[Nth(K, j)]]
KeepAt(s, Keep(_)) == Pick(s, {i \in 1..Len(s) : Keep(i)})
Select(s, Keep(_)) == Pick(s, {i \in 1..Len(s) : Keep(s[i])})

Each(s, F(_)) == [i \in 1..Len(s) |-> F(s[i])]
=============================================================================
