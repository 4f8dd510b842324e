-------------------------------- MODULE MCDiffs --------------------------------
(* Small instances of Diffs for TLC: "A" and "a" differ in case only. *)
EXTENDS Diffs

MCFold(c) == IF c = "A" THEN "a" ELSE c

X == String(<<"x">>)
Y == String(<<"y">>)
Pair(k, t) == <<<<k>>, t>>
One(k, t) == Object(<<Pair(k, t)>>)
Two(k, t, l, u) == Object(<<Pair(k, t), Pair(l, u)>>)

\* for patches
Scalars == {Null, X, Y}
Small == Scalars \cup {Array(<<X>>), Array(<<Y, X>>), One("a", X)}

Arrays == {Array(s) : s \in SeqOf({X, One("a", Y)}, 2)} \cup {Array(<<X, X, X>>)}
Objects ==
    {Object(<<>>)} \cup {One("a", t) : t \in Small}
    \cup {Two("b", t, "a", u) : t \in {X, Array(<<X>>)}, u \in Small}

\* an object has no two names that differ in case only
MCDocuments(case) ==
    Scalars \cup Arrays \cup Objects
    \cup IF case THEN {Object(<<Pair("b", X), Pair("c", X), Pair("a", X)>>)}
         ELSE {Two("b", X, "A", t) : t \in Scalars}

\* for merge patches.  Generating them finds its way only where all names are in
\* one case.
Inner(k) == {X, Y, Array(<<One("a", X)>>), One(k, X), Two("b", X, k, Y)}
Flats(k) == Inner(k) \cup {Null, One(k, Null), Object(<<>>)}

MCTargets(case) ==
    {X, Null, Array(<<X, Null>>), Object(<<>>)} \cup {One("a", t) : t \in Flats("a")}
    \cup {Two("b", t, "a", u) : t \in {X, One("a", X)}, u \in Inner("a")}

\* without regard to case a patch may spell a member's name as it likes
MCPatches(case) ==
    LET a == IF case THEN "a" ELSE "A"
    IN  MCTargets(case) \cup {One(a, t) : t \in Flats(a)}
        \cup {Two(a, t, "c", u) : t \in Flats(a), u \in {Null, X, One(a, One("b", Null))}}

MCMemory == 0..4 \cup {Plenty}

\* paths and words; the keys and numbers in the order of strcmp
Tokens == <<"-", "0", "1", "2", "A", "a", "b", "c">>
Paths == {<<>>} \cup {<<"/", t>> : t \in ToSet(Tokens)}
         \cup {<<"/", t, "/", u>> : t, u \in ToSet(Tokens)}
Words == {"op", "path", "from", "value", "x", "y"} \cup Operations
MCName == Paths \cup {<<w>> : w \in ToSet(Tokens) \cup Words}
MCLower == [s \in Name |-> [k \in DOMAIN s |-> MCFold(s[k])]]
MCStrLen == [s \in Name |-> Len(s)]
Listing(S) == FoldSet(LAMBDA x, seen : seen \o <<x>>, <<>>, S)
Ranked == [k \in DOMAIN Tokens |-> <<Tokens[k]>>] \o Listing(MCName \ {<<t>> : t \in ToSet(Tokens)})
MCRank == [s \in Name |-> CHOOSE k \in DOMAIN Ranked : Ranked[k] = s]
================================================================================
