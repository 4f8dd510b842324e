------------------------------- MODULE MCPatch -------------------------------
(* Small instances of Patch for TLC: "A" and "a" differ in case only. *)
EXTENDS Patch

MCFold(c) == IF c = "A" THEN "a" ELSE c

X == String(<<"x">>)
Y == String(<<"y">>)
Key1(k) == <<k>>
Pair(k, t) == <<Key1(k), t>>

Unsorted == Object(<<Pair("b", X), Pair("a", Null)>>)

MCDocuments == {
    Object(<<Pair("a", Null), Pair("b", X)>>), Unsorted,
    Object(<<Pair("a", Object(<<Pair("b", X)>>)), Pair("r", Array(<<X, Null>>))>>),
    Object(<<Pair("r", Array(<<Array(<<X>>), X>>)), Pair("a", Y)>>),
    Array(<<X, Object(<<Pair("a", Y)>>), Array(<<>>)>>),
    Object(<<>>), X}

Flat == {Null, X, Array(<<X>>)}
Texts == Flat \cup {Object(<<Pair("b", X)>>), Unsorted}

At(token) == <<"/", token>>
Paths == {<<>>, At("a"), At("b"), At("r"), At("a") \o At("b"), At("r") \o At("0"),
          At("r") \o At("1"), At("r") \o At("2"), At("r") \o At("-"), At("r") \o At("3"),
          <<"/", "r", "/", "0", "1">>, At("0"), At("1") \o At("a"), At("r") \o At("0") \o At("-")}
Inner == Paths \ {<<>>}
CasePaths == {At("A"), At("A") \o At("b"), At("1") \o At("A")}

Op(op, path, from, value) == [op |-> op, path |-> path, from |-> from, value |-> value]

Singles(paths) ==
    {Op(op, p, Missing, v) :
        op \in {"add", "replace", "test"}, p \in paths, v \in Texts \cup {Missing}}
    \cup {Op("remove", p, Missing, Missing) : p \in paths}
    \cup {Op(op, p, f, Missing) : op \in {"move", "copy"}, p \in paths \ {<<>>}, f \in paths}
    \cup {Op("bogus", At("a"), Missing, X), Op("add", Missing, Missing, X),
          Op("move", At("b"), Missing, X)}

Few == {<<>>, At("a"), At("r") \o At("0"), At("0"), At("a") \o At("b")}
FewOps ==
    {Op(op, p, Missing, X) : op \in {"add", "replace", "test"}, p \in Few}
    \cup {Op("remove", p, Missing, Missing) : p \in Few}
    \cup {Op(op, p, At("a"), Missing) : op \in {"move", "copy"}, p \in Few \ {<<>>}}

TestRoot == Op("test", <<>>, Missing, Unsorted)

\* No call appends to an object that a test has sorted: the tests before another
\* patch are of texts without objects, or only removals follow them.  A document
\* whose names differ in case only is not the client's.
\* Nothing is moved or copied to the root.
PlentyLists(case) ==
    {<<o>> : o \in Singles(IF case THEN Paths ELSE Paths \cup CasePaths)}
    \cup {<<o, p>> : o \in FewOps, p \in FewOps}
    \cup {<<TestRoot, o>> : o \in {Op("remove", p, Missing, Missing) : p \in Few}}

\* memory that runs out at any allocation of a call with one patch
SingleLists == {<<o>> : o \in Singles(Few \cup {At("r") \o At("-"), At("r") \o At("3")})}

MCMemory == 0..7 \cup {100}
\* an operation on the root frees the key of the value, a literal or not
LiteralLists == {l \in SingleLists : l[1].path # <<>>}

\* case has no part in memory or literals
MCLists(case, memory, literal) ==
    IF memory = 100 /\ ~literal THEN PlentyLists(case)
    ELSE IF ~case THEN {}
    ELSE IF ~literal THEN SingleLists
    ELSE IF memory = 100 THEN LiteralLists ELSE {}

Words == {"op", "path", "from", "value", "bogus", "a", "A", "b", "r", "x", "y", "0", "1", "2",
          "3", "-"} \cup Operations
MCName == {<<w>> : w \in Words} \cup Paths \cup CasePaths \cup {<<"0", "1">>, <<"/", "1", "/", "a">>}
MCLower == [s \in Name |-> [k \in DOMAIN s |-> MCFold(s[k])]]
MCStrLen == [s \in Name |-> Len(s)]
Ranked == FoldSet(LAMBDA s, seen : Append(seen, s), <<>>, Name)
MCRank == [s \in Name |-> CHOOSE k \in DOMAIN Ranked : Ranked[k] = s]
=============================================================================
