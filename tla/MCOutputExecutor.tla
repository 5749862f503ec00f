-------------------------- MODULE MCOutputExecutor --------------------------
(* OutputExecutor on small instances: see the .cfg files. *)
EXTENDS OutputExecutor, TLC

CONSTANTS e1, e2, s1, s2, t1, t2, p1, p2

O(kind, source, target) == [kind |-> kind, source |-> source, target |-> target]

\* One operation of every kind.
Singles == {<<O(k, s1, t1)>> : k \in Kinds}

\* Executions that meet at t1 and share a source; s2 is the remote one.
Meeting == Singles \cup {<<O("move", s2, t1)>>, <<O("move", s1, t2), O("write", s1, t1)>>}

\* A medium and its metadata, as the writers plan them.
Placements == {<<O(k, s1, t1), O("write", s1, t2)>> : k \in Kinds}
              \cup {<<O("move", s2, t1)>>}

PathsTo == s1 :> p1 @@ s2 :> p2

NotLinked == [t \in Prior |-> Missing]
FirstLinked == [t \in Prior |-> IF t = t1 THEN s1 ELSE Missing]
=============================================================================
