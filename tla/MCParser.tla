------------------------------ MODULE MCParser ------------------------------
(* Small instances of Parser for TLC. *)
EXTENDS JsonText, SequencesExt

MCLower == [x \in Name |-> x]
MCStrLen == [x \in Name |-> 1]
MCLimit == 2

-----------------------------------------------------------------------------
(* Texts that are JSON, put together by the grammar *)

Scalar == {<<"null">>, <<"number">>} \cup {<<x>> : x \in Name}

RECURSIVE Json(_, _), ElementsOf(_, _), MembersOf(_, _)

\* the values of length n without blanks, nested at most d deep
Json(n, d) ==
    (IF n = 1 THEN Scalar ELSE {}) \cup
    (IF n < 2 \/ d = 0 THEN {}
     ELSE {<<"[">> \o e \o <<"]">> : e \in ElementsOf(n - 2, d - 1)} \cup
          {<<"{">> \o e \o <<"}">> : e \in MembersOf(n - 2, d - 1)})

\* values between commas
ElementsOf(n, d) ==
    IF n = 0 THEN {<<>>}
    ELSE Json(n, d) \cup
         UNION {{v \o <<",">> \o r : v \in Json(k, d), r \in ElementsOf(n - k - 1, d)}
                : k \in 1..(n - 2)}

\* names, colons and values between commas
MembersOf(n, d) ==
    IF n = 0 THEN {<<>>}
    ELSE UNION {{<<x, ":">> \o v : x \in Name, v \in Json(n - 2, d)} \cup
                UNION {{<<x, ":">> \o v \o <<",">> \o r :
                            x \in Name, v \in Json(k, d), r \in MembersOf(n - k - 3, d)}
                       : k \in 1..(n - 4)}}

JsonUpTo(n, d) == UNION {Json(k, d) : k \in 1..n}

-----------------------------------------------------------------------------
\* two members, and three elements
LongTexts ==
    {<<"{", x, ":", "null", ",", x, ":", v, "}">> : x \in Name, v \in Name} \cup
    {<<"[", "number", ",", "null", ",", x, "]">> : x \in Name}

Cut(T) == UNION {{SubSeq(t, 1, k) : k \in 0..Len(t)} : t \in T}

\* one symbol too many, and one symbol wrong
Insertions(T) == UNION {{InsertAt(t, k, x) : k \in 1..(Len(t) + 1), x \in Symbol} : t \in T}
Replacements(T) == UNION {{[t EXCEPT ![k] = x] : k \in 1..Len(t), x \in Symbol} : t \in T}

Valid(n) == JsonUpTo(n, MCLimit + 1) \cup LongTexts

\* texts that are valid, cut short, or wrong in one place, with and without a
\* terminating NUL
GrammarTexts ==
    LET near == Cut(Valid(6)) \cup Insertions(Valid(6)) \cup Replacements(Valid(6))
    IN  near \cup {t \o <<"NUL">> : t \in near}

\* longer texts, valid or cut short
MCTexts == GrammarTexts \cup Cut(Valid(7))
=============================================================================
