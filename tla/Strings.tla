------------------------------ MODULE Strings ------------------------------
(***************************************************************************)
(* The inside of strings: parse_string with its escapes and UTF-16 pairs    *)
(* (parse.rs) and print_string_ptr (print.rs), byte by byte.  Parser and    *)
(* Printer take a string as one symbol; this module says what the symbol    *)
(* hides.  Texts and values are sequences of bytes; the block a string is   *)
(* decoded into is its size, and what is written to it.                     *)
(***************************************************************************)
EXTENDS StringText

CONSTANTS
    Openings,    \* first bytes of the texts parsed
    Pieces,      \* byte sequences the texts are put together from
    MaxPieces    \* how many of them

Byte == 0..255

\* parse_string looks at the first byte without asking whether there is one
ASSUME TextAssumption ==
    /\ \A t \in Openings : t \in Seq(Byte) /\ t # <<>>
    /\ Pieces \subseteq Seq(Byte)

VARIABLES
    text,        \* the buffer, from the string literal on
    pieces,      \* how many pieces it has
    memory,      \* whether the parse was given memory
    parsed,      \* what parse_string did
    printed      \* what print_string_ptr made of the parsed value

vars == <<text, pieces, memory, parsed, printed>>

----------------------------------------------------------------------------
(* Parsing.                                                                 *)

\* The search for the closing quote, and how many backslashes it has skipped.
Searched(buf, s) == s.end > Len(buf) \/ buf[s.end] = Quote

\* Faulty variant: both bytes of an escape are taken off the size.
ScanOneBothBytes(buf, s) ==
    IF Searched(buf, s) THEN s
    ELSE IF buf[s.end] = Backslash THEN [end |-> s.end + 2, skipped |-> s.skipped + 2]
    ELSE [s EXCEPT !.end = @ + 1]

ScanOne(buf, s) ==
    IF Searched(buf, s) THEN s
    ELSE IF buf[s.end] = Backslash THEN [end |-> s.end + 2, skipped |-> s.skipped + 1]
    ELSE [s EXCEPT !.end = @ + 1]

\* No pass moves less than a byte; past the end of the buffer there is no quote.
Scan(buf) ==
    LET pass[k \in 0..Len(buf)] ==
            IF k = 0 THEN [end |-> 2, skipped |-> 0] ELSE ScanOne(buf, pass[k - 1])
    IN  pass[Len(buf)]

\* Four digits; anything else is 0.
ParseHex4(buf, i) ==
    LET digit(c) == IF c \in 48..57 THEN c - 48
                    ELSE IF c \in 65..70 THEN 10 + c - 65
                    ELSE IF c \in 97..102 THEN 10 + c - 97 ELSE 16
        digits   == [k \in 1..4 |-> digit(buf[i + k - 1])]
    IN  IF Contains(digits, 16) THEN 0
        ELSE 4096 * digits[1] + 256 * digits[2] + 16 * digits[3] + digits[4]

\* How far the bits of the last bytes are shifted out.
Shifted == <<64, 4096, 262144>>

\* Bytes of a code point, the last one first taken off.
Utf8Encode(codepoint) ==
    LET length == IF codepoint < 128 THEN 1 ELSE IF codepoint < 2048 THEN 2
                  ELSE IF codepoint < 65536 THEN 3 ELSE 4
        mark   == <<0, 192, 224, 240>>[length]
        rest(pos) == IF pos = length THEN codepoint ELSE codepoint \div Shifted[length - pos]
    IN  [pos \in 1..length |-> IF pos = 1 THEN mark + rest(1) ELSE 128 + (rest(pos) % 64)]

\* What "\u" at i, before end, stands for, and the bytes it takes; 0 bytes: refused.
Refused == [bytes |-> <<>>, length |-> 0]

\* Faulty variant: whatever follows is taken for the second half.
SecondHalfUnchecked(buf, i, end) == end - i >= 6

SecondHalf(buf, i, end) ==
    /\ end - i >= 6
    /\ buf[i] = Backslash /\ buf[i + 1] = LowerU
    /\ ParseHex4(buf, i + 2) \in Low

Utf16LiteralToUtf8(buf, i, end) ==
    LET first == ParseHex4(buf, i + 2)
    IN  IF end - i < 6 THEN Refused
        ELSE IF first \in Low THEN Refused
        ELSE IF first \notin High THEN [bytes |-> Utf8Encode(first), length |-> 6]
        ELSE IF ~SecondHalf(buf, i + 6, end) THEN Refused
        ELSE [bytes  |-> Utf8Encode(65536 + 1024 * (first % 1024) + (ParseHex4(buf, i + 8) % 1024)),
              length |-> 12]

\* The bytes the letters b, f, n, r and t stand for; quote, backslash and
\* slash stand for themselves.
ByteOf == [letter \in {98, 102, 110, 114, 116} |->
    IF letter = 98 THEN 8 ELSE IF letter = 102 THEN 12
    ELSE IF letter = 110 THEN 10 ELSE IF letter = 114 THEN 13 ELSE 9]

Escape(buf, i, end) ==
    IF buf[i + 1] \in DOMAIN ByteOf THEN [bytes |-> <<ByteOf[buf[i + 1]]>>, length |-> 2]
    ELSE IF buf[i + 1] \in {Quote, Backslash, Slash}
    THEN [bytes |-> <<buf[i + 1]>>, length |-> 2]
    ELSE IF buf[i + 1] = LowerU THEN Utf16LiteralToUtf8(buf, i, end)
    ELSE Refused

\* A byte or an escape decoded; a refused escape stays where it is.
DecodeOne(buf, end, d) ==
    IF d.at >= end THEN d
    ELSE IF buf[d.at] # Backslash THEN [at |-> d.at + 1, out |-> Append(d.out, buf[d.at])]
    ELSE LET e == Escape(buf, d.at, end)
         IN  [at |-> d.at + e.length, out |-> d.out \o e.bytes]

\* Where decoding stopped and what was written.
Decode(buf, end) ==
    LET pass[k \in 0..end] ==
            IF k = 0 THEN [at |-> 2, out |-> <<>>] ELSE DecodeOne(buf, end, pass[k - 1])
    IN  pass[end]

\* The item holds a C string: what comes after a NUL is not seen again.
CString(bytes) ==
    LET length == CHOOSE n \in 0..Len(bytes) :
                    /\ \A i \in 1..n : bytes[i] # 0
                    /\ n < Len(bytes) => bytes[n + 1] = 0
    IN  SubSeq(bytes, 1, length)

\* What a parse leaves: success, offset (from 0), bytes written, size of the
\* block, 0 when none was allocated.
Outcome(ok, offset, out, block) == [ok |-> ok, offset |-> offset, out |-> out, block |-> block]
Nothing == Outcome(FALSE, 0, <<>>, 0)    \* not parsed yet

\* Where a refused escape is reported.
ErrorOffset(at) == at - 1

ParseStringOf(buf, hasMemory) ==
    LET s       == Scan(buf)
        block   == s.end - 1 - s.skipped + 1
        decoded == Decode(buf, s.end)
    IN  IF buf[1] # Quote \/ s.end > Len(buf) \/ ~hasMemory THEN Outcome(FALSE, 1, <<>>, 0)
        ELSE IF decoded.at < s.end
             THEN Outcome(FALSE, ErrorOffset(decoded.at), decoded.out, block)
        ELSE Outcome(TRUE, s.end, Append(decoded.out, 0), block)

----------------------------------------------------------------------------
(* Printing.                                                                *)

OneLetter == {Quote, Backslash, 8, 9, 10, 12, 13}

\* Faulty variant: one too few for "\u00XX".
AddedShort(b) == IF b \in OneLetter THEN 1 ELSE IF b < 32 THEN 4 ELSE 0

\* First pass: bytes an escape adds.
Added(b) == IF b \in OneLetter THEN 1 ELSE IF b < 32 THEN 5 ELSE 0

OutputLength(value) ==
    LET upto[k \in 0..Len(value)] ==
            IF k = 0 THEN 0 ELSE upto[k - 1] + 1 + Added(value[k])
    IN  upto[Len(value)]

LetterFor(b) ==
    IF b \in {Quote, Backslash} THEN b ELSE CHOOSE letter \in DOMAIN ByteOf : ByteOf[letter] = b

HexLetter(d) == IF d < 10 THEN 48 + d ELSE 87 + d

\* Second pass: what is written for a byte.
Written(b) ==
    IF b >= 32 /\ b \notin {Quote, Backslash} THEN <<b>>
    ELSE IF b \in OneLetter THEN <<Backslash, LetterFor(b)>>
    ELSE <<Backslash, LowerU, 48, 48, HexLetter(b \div 16), HexLetter(b % 16)>>

\* The opening quote and what is written for the bytes.
AllWritten(value) ==
    LET upto[k \in 0..Len(value)] ==
            IF k = 0 THEN <<Quote>> ELSE upto[k - 1] \o Written(value[k])
    IN  upto[Len(value)]

Unset == 256    \* a byte of the block nobody wrote

\* The block after both passes; the closing quote goes where the first pass says.
PrintStringPtr(value) ==
    LET length  == OutputLength(value)
        written == AllWritten(value)
    IN  [i \in 1..(IF Len(written) > length + 3 THEN Len(written) ELSE length + 3) |->
            IF i = length + 2 THEN Quote ELSE IF i = length + 3 THEN 0
            ELSE IF i <= Len(written) THEN written[i] ELSE Unset]

----------------------------------------------------------------------------
Init ==
    /\ text \in Openings
    /\ pieces = 0 /\ memory = TRUE /\ parsed = Nothing /\ printed = <<>>

\* The client's text.
Write(piece) ==
    /\ pieces < MaxPieces /\ parsed = Nothing
    /\ text' = text \o piece /\ pieces' = pieces + 1
    /\ UNCHANGED <<memory, parsed, printed>>

ParseString ==
    /\ parsed = Nothing
    /\ memory' \in BOOLEAN
    /\ parsed' = ParseStringOf(text, memory')
    /\ UNCHANGED <<text, pieces, printed>>

PrintString ==
    /\ parsed.ok /\ printed = <<>>
    /\ printed' = PrintStringPtr(CString(parsed.out))
    /\ UNCHANGED <<text, pieces, memory, parsed>>

\* The client is done with item and text and takes another.
Forget ==
    /\ parsed # Nothing
    /\ parsed.ok => printed # <<>>
    /\ text' \in Openings /\ pieces' = 0 /\ memory' = TRUE
    /\ parsed' = Nothing /\ printed' = <<>>

Next ==
    \/ \E piece \in Pieces : Write(piece)
    \/ ParseString
    \/ PrintString
    \/ Forget

Spec == Init /\ [][Next]_vars

----------------------------------------------------------------------------
(* What a string decodes to, its NUL included, fits the block whose size    *)
(* the scan before computed, also when an escape is refused half way.       *)
DecodesInsideBlock == Len(parsed.out) <= parsed.block

(* A text whose "\u" escapes have their digits is accepted exactly when RFC *)
(* 8259 calls it a string, and then decodes to the UTF-8 of the characters  *)
(* it spells, surrogate pairs included; the parse ends behind the quote.  A *)
(* refused escape is where the error is reported, and everything before it  *)
(* was decoded as RFC 8259 says.                                            *)
DecodesAsRfc8259 ==
    parsed # Nothing /\ DigitsComplete(text) =>
        LET said == Literal(text)
        IN  /\ memory => parsed.ok = said.ok
            /\ parsed.ok => parsed.out = Append(said.bytes, 0) /\ parsed.offset = said.end
            /\ ~parsed.ok /\ parsed.block > 0 =>
                parsed.out = said.bytes /\ parsed.offset = said.end - 1

(* What is printed fills its block exactly, with no byte left out or        *)
(* written over, needs no byte unescaped that RFC 8259 wants escaped, and   *)
(* parses to the value that was printed.                                    *)
PrintedParsesBack ==
    printed # <<>> =>
        LET literal == Front(printed)
            again   == ParseStringOf(literal, TRUE)
        IN  /\ Last(printed) = 0 /\ NoControls(literal)
            /\ again.ok /\ again.offset = Len(literal)
            /\ again.out = Append(CString(parsed.out), 0)
============================================================================
