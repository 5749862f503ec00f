------------------------------- MODULE MCPaths -------------------------------
(***************************************************************************)
(* Small trees with links, and the paths that are looked for in them.      *)
(***************************************************************************)
EXTENDS Paths

P(names) == [i \in 1..Len(names) |-> <<names[i]>>]

Folders == {P(d) : d \in {<<>>, <<"m">>, <<"m", "in">>, <<"m", "in", "sub">>, <<"m", "out">>, <<"o">>}}
Regular == {P(f) : f \in {<<"m", "in", "f">>, <<"m", "in", "sub", "g">>, <<"m", "out", "p">>, <<"o", "h">>}}
Places == {P(p) : p \in {<<"m", "l">>, <<"m", "in", "l">>, <<"m", "out", "l">>}}
Ends == {P(p) : p \in {<<"o">>, <<"m">>, <<"m", "in">>, <<"m", "out">>, <<"m", "in", "f">>, <<"o", "h">>, <<"gone">>}}

(* The trees with no link, with one, and with one that leads over a second. *)
Links ==
    LET one == {[p \in {at} |-> to] : at \in Places, to \in Ends}
        two == {[p \in Places \ {P(<<"m", "in", "l">>)} |->
                    IF p = P(<<"m", "l">>) THEN to ELSE Append(P(<<"m", "l">>), <<name>>)] :
                   to \in Ends, name \in {"in", "sub"}}
    IN  one \cup two \cup {[p \in {} |-> <<>>]}

Tree(links) ==
    [p \in Folders \cup Regular \cup DOMAIN links |->
        IF p \in Folders THEN [kind |-> "directory", to |-> <<>>]
        ELSE IF p \in Regular THEN [kind |-> "file", to |-> <<>>]
        ELSE [kind |-> "link", to |-> links[p]]]

Configured ==
    {{P(<<"m">>)}, {P(<<"m">>), P(<<"o">>)}, {P(<<"m">>), P(<<"m", "in">>)}, {P(<<"m", "in">>), P(<<"m", "out">>)},
     {P(<<"m", "in">>), P(<<"m", "l">>)}}

Letters == {"a", " ", ".", "/", "?"}
MCTitles == UNION {[1..n -> Letters] : n \in 0..3}
MCTemplates ==
    {<<[part |-> "title"]>>, <<[part |-> "text", text |-> <<"b", "/">>], [part |-> "title"]>>,
     <<[part |-> "sanitized"], [part |-> "text", text |-> <<"/", ".", "/">>], [part |-> "title"]>>}
MCCreators == {<<"a">>, <<".", ".">>, <<" ", "/", "a", ".">>}

MCTreeSamples == {[tree |-> Tree(links), configured |-> configured] : links \in Links, configured \in Configured}
MCNames == {<<n>> : n \in {"m", "in", "sub", "out", "o", "f", "g", "p", "h", "l", "gone", "new", "n"}}

MCRelativePaths == {<<>>} \cup {P(p) : p \in {<<"in">>, <<"out">>, <<"in", "sub">>, <<"l">>, <<"in", "l">>, <<"l", "sub">>, <<"f">>, <<"new">>}}
MCTargets == {P(t) : t \in {<<"n">>, <<"p", "n">>, <<"l", "n">>, <<"new", "n">>, <<"sub", "new", "n">>, <<"f">>, <<"sub", "g">>}}
MCSources == {P(<<"m", "in", "f">>), P(<<"m", "in", "l">>), P(<<"m", "l", "f">>), P(<<"o", "h">>)}
MCOutputs == {P(p) : p \in {<<"m", "out">>, <<"m", "in">>, <<"m", "out", "l">>, <<"m", "l">>, <<"o">>, <<"m", "new">>}}
MCChanges == MCSources \cup {P(<<"m", "in", "sub", "g">>), P(<<"m", "l", "sub", "g">>)}
MCItems == SUBSET {P(<<"m", "in">>), P(<<"m", "in", "sub">>), P(<<"m", "out">>)}
MCFresh == {P(<<"new", "n">>)}
=============================================================================
