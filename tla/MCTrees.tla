------------------------------- MODULE MCTrees -------------------------------
(* Small instances of Compare and Pointing for TLC: "A" and "a" differ in case *)
(* only.                                                                       *)
EXTENDS Compare, Pointing

MCFold(c) == IF c = "A" THEN "a" ELSE c
Plain == {<<"a">>, <<"A">>}
Escaped == {<<"/">>, <<"~", "a">>}
MCName == Plain \cup Escaped
MCLower == [x \in Name |-> [k \in DOMAIN x |-> MCFold(x[k])]]
MCStrLen == [x \in Name |-> Len(x)]

Token == {<<>>, <<"a">>, <<"A">>, <<"0">>, <<"1">>, <<"0", "1">>, <<"-">>,
          <<"~", "1">>, <<"~", "0", "a">>, <<"~", "a">>, <<"~">>}
Steps == {<<"/">> \o t : t \in Token}
Short == {<<>>, <<"a">>} \cup Steps \cup {s \o t : s \in Steps, t \in Steps}

MCPalettes == {
    \* members in any order, in objects and arrays side by side
    [kinds |-> {"Array", "Object"}, literals |-> {}, keys |-> Plain, size |-> 6, pointers |-> {}],
    \* values in both cases
    [kinds |-> {"Null", "Object"}, literals |-> Plain, keys |-> Plain, size |-> 4, pointers |-> {}],
    \* keys that a pointer spells with escapes
    [kinds |-> {"Array", "Object"}, literals |-> {}, keys |-> MCName, size |-> 4,
     pointers |-> Short]}
=============================================================================
