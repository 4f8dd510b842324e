---------------------------- MODULE StringText ----------------------------
(***************************************************************************)
(* What RFC 8259 (section 7) and RFC 3629 say of a JSON string: which       *)
(* bytes spell a character and which UTF-8 bytes the character is.  It is   *)
(* the reference the string code is compared with.  Control characters may  *)
(* stand unescaped, as the repository's own test of parse_string expects    *)
(* (src/harness/tests/parse_string.c).                                      *)
(***************************************************************************)
EXTENDS Integers, SequencesExt

Quote     == 34
Backslash == 92
Slash     == 47
LowerU    == 117

\* Escapes of one letter and the byte each stands for.
ShortEscapes == [letter \in {34, 92, 47, 98, 102, 110, 114, 116} |->
    IF letter = 98 THEN 8 ELSE IF letter = 102 THEN 12 ELSE IF letter = 110 THEN 10
    ELSE IF letter = 114 THEN 13 ELSE IF letter = 116 THEN 9 ELSE letter]

HexDigits == (48..57) \union (65..70) \union (97..102)
HexValue(c) == IF c <= 57 THEN c - 48 ELSE IF c <= 70 THEN c - 55 ELSE c - 87

\* "\uXXXX" stands at i, inside the text, with four digits.
IsUnit(text, i) ==
    /\ i + 5 <= Len(text)
    /\ text[i] = Backslash /\ text[i + 1] = LowerU
    /\ \A k \in 2..5 : text[i + k] \in HexDigits

Unit(text, i) ==
    LET value[k \in 0..4] == IF k = 0 THEN 0 ELSE 16 * value[k - 1] + HexValue(text[i + 1 + k])
    IN  value[4]

High == 55296..56319
Low  == 56320..57343

Utf8Of(c) ==
    IF c < 128 THEN <<c>>
    ELSE IF c < 2048 THEN <<192 + (c \div 64), 128 + (c % 64)>>
    ELSE IF c < 65536
    THEN <<224 + (c \div 4096), 128 + ((c \div 64) % 64), 128 + (c % 64)>>
    ELSE <<240 + (c \div 262144), 128 + ((c \div 4096) % 64),
           128 + ((c \div 64) % 64), 128 + (c % 64)>>

(***************************************************************************)
(* The character spelled at i: how many bytes spell it and what it is;      *)
(* the set is empty where no character is spelled.                          *)
(***************************************************************************)
Spelled(text, i) ==
    { [length |-> 1, bytes |-> <<text[j]>>] :
        j \in {k \in {i} : text[k] \notin {Quote, Backslash}} }
    \union
    { [length |-> 2, bytes |-> <<ShortEscapes[text[j + 1]]>>] :
        j \in {k \in {i} : /\ text[k] = Backslash /\ k < Len(text)
                           /\ text[k + 1] \in DOMAIN ShortEscapes} }
    \union
    { [length |-> 6, bytes |-> Utf8Of(Unit(text, j))] :
        j \in {k \in {i} : IsUnit(text, k) /\ Unit(text, k) \notin High \union Low} }
    \union
    { [length |-> 12,
       bytes |-> Utf8Of(65536 + 1024 * (Unit(text, j) - 55296) + (Unit(text, j + 6) - 56320))] :
        j \in {k \in {i} : /\ IsUnit(text, k) /\ Unit(text, k) \in High
                           /\ IsUnit(text, k + 6) /\ Unit(text, k + 6) \in Low} }

\* One character read, if one is spelled where the reader stands.
ReadOne(text, r) ==
    IF r.end > Len(text) \/ text[r.end] = Quote \/ Spelled(text, r.end) = {} THEN r
    ELSE LET c == CHOOSE s \in Spelled(text, r.end) : TRUE
         IN  [end |-> r.end + c.length, bytes |-> r.bytes \o c.bytes]

\* The characters after the opening quote, as far as they are spelled.
Characters(text) ==
    LET read[k \in 0..Len(text)] ==
            IF k = 0 THEN [end |-> 2, bytes |-> <<>>] ELSE ReadOne(text, read[k - 1])
    IN  read[Len(text)]

\* What a string literal at the start of the text says: ok when a quote ends it.
Literal(text) ==
    IF text # <<>> /\ text[1] = Quote
    THEN LET r == Characters(text)
         IN  [ok |-> r.end <= Len(text) /\ text[r.end] = Quote, bytes |-> r.bytes, end |-> r.end]
    ELSE [ok |-> FALSE, bytes |-> <<>>, end |-> 1]

\* Every "\u" is followed by four hexadecimal digits.
DigitsComplete(text) ==
    \A i \in 1..(Len(text) - 1) :
        text[i] = Backslash /\ text[i + 1] = LowerU => IsUnit(text, i)

NoControls(text) == \A i \in DOMAIN text : text[i] >= 32
============================================================================
