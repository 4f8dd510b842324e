------------------------------- MODULE JsonText -------------------------------
(***************************************************************************)
(* The JSON grammar over the symbols of Parser, and what Parser makes of a *)
(* text compared with it.  The grammar says which spans <<a, b>> of a text *)
(* t are a value, t[a + 1] its first symbol and t[b] its last.             *)
(***************************************************************************)
EXTENDS Parser

AllBlank(t, a, b) == \A k \in (a + 1)..b : Blank(t[k])

Holds(t, symbols) == {k \in 0..(Len(t) - 1) : t[k + 1] \in symbols}

Scalars(t) == {<<a, a + 1>> : a \in Holds(t, {"null", "number"} \cup Name)}

\* one of the items from a to b, and otherwise blanks
Padded(t, items, a, b) ==
    \E s \in items : a <= s[1] /\ s[2] <= b /\ AllBlank(t, a, s[1]) /\ AllBlank(t, s[2], b)

\* an item between any two neighbours of p, q and some commas in between
Separated(t, items, p, q) ==
    \E commas \in SUBSET (Holds(t, {Comma}) \cap ((p + 1)..(q - 1))) :
        LET bars == commas \cup {p, q} IN
        \A l, r \in bars :
            l < r /\ (\A m \in bars : m <= l \/ r <= m) => Padded(t, items, l + 1, r)

\* name, colon, value
Named(t, values) ==
    {s \in Holds(t, Name) \X (1..Len(t)) :
        \E c \in Holds(t, {":"}), v \in values :
            /\ s[1] < c /\ AllBlank(t, s[1] + 1, c)
            /\ c < v[1] /\ AllBlank(t, c + 1, v[1]) /\ v[2] = s[2]}

Items(t, kind, values) == IF kind = "Array" THEN values ELSE Named(t, values)

\* the brackets, with nothing or some items in between
Container(t, kind, values) ==
    {s \in Holds(t, {Bracket(kind)}) \X (1..Len(t)) :
        LET close == s[2] - 1 IN
        /\ s[1] < close /\ close \in Holds(t, {Closing(kind)})
        /\ \/ AllBlank(t, s[1] + 1, close)
           \/ Separated(t, Items(t, kind, values), s[1], close)}

\* the values nested at most d deep, for each d
ValuesIn(t) ==
    LET values[d \in 0..NestingLimit] ==
            IF d = 0 THEN Scalars(t)
            ELSE LET inner == values[d - 1]
                 IN  Scalars(t) \cup Container(t, "Array", inner) \cup Container(t, "Object", inner)
    IN  values

-----------------------------------------------------------------------------
\* what may follow the value: on request, nothing but blanks and a final NUL
EndsWell(t, whole, b) ==
    whole => b < Len(t) /\ t[Len(t)] = "NUL" /\ AllBlank(t, b, Len(t))

\* a value, behind the byte order mark and blanks
WellFormed ==
    \E s \in ValuesIn(text)[NestingLimit] :
        SkipBom <= s[1] /\ AllBlank(text, SkipBom, s[1]) /\ EndsWell(text, required, s[2])

-----------------------------------------------------------------------------
\* the symbols of the text from a to b, without the blanks
Strip(t, a, b) ==
    LET kept[k \in 0..Len(t)] ==
            IF k <= a THEN <<>>
            ELSE IF Blank(t[k]) THEN kept[k - 1] ELSE kept[k - 1] \o <<t[k]>>
    IN  kept[b]

NamePart(h, n) == IF h.string[n] = NULL THEN <<>> ELSE <<Text(h, h.string[n]), ":">>

Inside(h, said, n) == IF h.child[n] = NULL THEN <<>> ELSE said[h.child[n]]

ValuePart(h, said, n) ==
    LET t == h.type[n] IN
    CASE t = "Null" -> <<"null">>
      [] t = "Number" -> <<"number">>
      [] t = "String" -> <<Text(h, h.valuestring[n])>>
      [] t \in ContainerType -> <<Bracket(t)>> \o Inside(h, said, n) \o <<Closing(t)>>
      [] OTHER -> <<"other">>

\* an item with its name, given what the list below it says
Says(h, said, n) == NamePart(h, n) \o ValuePart(h, said, n)

\* the items behind one
Behind(h, said, n) == IF h.next[n] = NULL THEN <<>> ELSE <<Comma>> \o said[h.next[n]]

\* the symbols cJSON_Print writes for an item and the items behind it
Render(h, first) ==
    LET said[n \in Node] == Says(h, said, n) \o Behind(h, said, n) IN said[first]

\* Given memory, a text parses exactly when it is well-formed JSON no deeper
\* than the limit, whatever the skipping of blanks does at the buffer's end.
AcceptsGrammar == pc = "done" /\ ~oom => (root # NULL <=> WellFormed)

\* The tree says what the text says, item for item and in order, and the
\* reported end of the parse is the end of what it says.
ResultRendersText ==
    pc = "done" /\ root # NULL =>
        Render(heap, root) = Strip(text, SkipBom, offset)
=============================================================================
