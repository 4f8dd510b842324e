--------------------------------- MODULE Minify ---------------------------------
(***************************************************************************)
(* cJSON_Minify (src/manip.rs): blanks and comments are taken out of a      *)
(* NUL-terminated text in place.  Two pointers walk over the one block:     *)
(* json, which reads, and into, which writes.  A text is given lexeme by    *)
(* lexeme, so that what should be left of it is known without reading it.   *)
(***************************************************************************)
EXTENDS Naturals, SequencesExt

CONSTANTS
    Documents    \* texts, as sequences of lexemes and of pieces that are none

Symbol == {"x", "blank", "newline", "/", "*", "quote", "backslash"}
Blank == {"blank", "newline"}

VARIABLES
    document,  \* the lexemes of the text
    memory,    \* the block with the text, the terminating NUL included
    json,      \* json_ptr, the position to read
    into,      \* the position to write
    pc         \* the loop the code is in, or "done"

vars == <<document, memory, json, into, pc>>

-----------------------------------------------------------------------------
(* Texts *)

ASSUME TextAssumption == \A d \in Documents : d \in Seq(Seq(Symbol))

Text(d) == FlattenSeq(d) \o <<"NUL">>

\* The whole lexemes.  Of the quotes in a string it is the last one, and only
\* that, which follows no backslash.
IsBlank(t) == Len(t) = 1 /\ t[1] \in Blank
IsOther(t) == Len(t) = 1 /\ t[1] \notin Blank \cup {"/", "quote"}
IsOnelineComment(t) ==
    /\ Len(t) >= 3 /\ t[1] = "/" /\ t[2] = "/"
    /\ \A k \in 3..Len(t) : t[k] = "newline" <=> k = Len(t)
IsMultilineComment(t) ==
    /\ Len(t) >= 4 /\ t[1] = "/" /\ t[2] = "*"
    /\ \A k \in 3..(Len(t) - 1) : t[k] = "*" /\ t[k + 1] = "/" <=> k = Len(t) - 1
IsString(t) ==
    /\ Len(t) >= 2 /\ t[1] = "quote" /\ t[Len(t)] = "quote"
    /\ \A k \in 2..Len(t) : t[k] = "quote" => (t[k - 1] # "backslash" <=> k = Len(t))

IsKept(t) == IsOther(t) \/ IsString(t)
IsDropped(t) == IsBlank(t) \/ IsOnelineComment(t) \/ IsMultilineComment(t)
IsWhole(d) == \A k \in 1..Len(d) : IsKept(d[k]) \/ IsDropped(d[k])

\* what should be left of a text of whole lexemes
Kept(d) == [k \in 1..Len(d) |-> IF IsKept(d[k]) THEN d[k] ELSE <<>>]

\* the symbols of a block up to its first NUL
AsString(block) ==
    LET end == CHOOSE k \in DOMAIN block :
                block[k] = "NUL" /\ \A j \in 1..(k - 1) : block[j] # "NUL"
    IN  SubSeq(block, 1, end - 1)

-----------------------------------------------------------------------------
(* The code *)

At(symbol) == memory[json] = symbol
NextIs(symbol) == memory[json + 1] = symbol

Read(n) == json' = json + n
Write(position, symbol) == memory' = [memory EXCEPT ![position] = symbol]

\* the symbol at json is copied
CopyOne ==
    /\ Write(into, memory[json])
    /\ Read(1) /\ into' = into + 1

\* the loop of cjson_minify, one action per arm of its match

SkipBlank ==
    /\ pc = "text" /\ memory[json] \in Blank
    /\ Read(1)
    /\ UNCHANGED <<document, memory, into, pc>>

OpenComment ==
    /\ pc = "text" /\ At("/")
    /\ \/ NextIs("/") /\ pc' = "oneline"
       \/ NextIs("*") /\ pc' = "multiline"
    /\ Read(2)
    /\ UNCHANGED <<document, memory, into>>

\* faulty variant: a slash that opens nothing is not stepped over
StaysAtSlash ==
    /\ pc = "text" /\ At("/") /\ ~NextIs("/") /\ ~NextIs("*")
    /\ UNCHANGED vars

\* a slash that opens no comment is dropped
DropSlash ==
    /\ pc = "text" /\ At("/") /\ ~NextIs("/") /\ ~NextIs("*")
    /\ Read(1)
    /\ UNCHANGED <<document, memory, into, pc>>

OpenString ==
    /\ pc = "text" /\ At("quote")
    /\ CopyOne
    /\ pc' = "string"
    /\ UNCHANGED document

CopyOther ==
    /\ pc = "text" /\ memory[json] \notin Blank \cup {"/", "quote", "NUL"}
    /\ CopyOne
    /\ UNCHANGED <<document, pc>>

Terminate ==
    /\ pc = "text" /\ At("NUL")
    /\ Write(into, "NUL")
    /\ pc' = "done"
    /\ UNCHANGED <<document, json, into>>

\* skip_oneline_comment and skip_multiline_comment

SkipOnelineComment ==
    /\ pc = "oneline"
    /\ IF At("NUL") THEN Read(0) ELSE Read(1)
    /\ pc' = IF At("NUL") \/ At("newline") THEN "text" ELSE pc
    /\ UNCHANGED <<document, memory, into>>

\* faulty variant: the slash of the closing mark is left to the main loop
SkipMultilineCommentKeepsSlash ==
    /\ pc = "multiline"
    /\ IF At("NUL") THEN Read(0) /\ pc' = "text"
       ELSE Read(1) /\ pc' = IF At("*") /\ NextIs("/") THEN "text" ELSE pc
    /\ UNCHANGED <<document, memory, into>>

SkipMultilineComment ==
    /\ pc = "multiline"
    /\ IF At("NUL") THEN Read(0) /\ pc' = "text"
       ELSE IF At("*") /\ NextIs("/") THEN Read(2) /\ pc' = "text"
       ELSE Read(1) /\ pc' = pc
    /\ UNCHANGED <<document, memory, into>>

\* minify_string, from the opening quote on

\* faulty variant: a backslash takes whatever follows with it
IsEscapedQuoteAny == At("backslash")

IsEscapedQuote == At("backslash") /\ NextIs("quote")

CloseString ==
    /\ pc = "string" /\ (At("quote") \/ At("NUL"))
    /\ IF At("quote") THEN CopyOne ELSE UNCHANGED <<memory, json, into>>
    /\ pc' = "text"
    /\ UNCHANGED document

CopyStringSymbol ==
    /\ pc = "string" /\ ~At("quote") /\ ~At("NUL") /\ ~IsEscapedQuote
    /\ CopyOne
    /\ UNCHANGED <<document, pc>>

\* faulty variant: both symbols are written where the reader is
CopyEscapedQuoteAhead ==
    /\ pc = "string" /\ IsEscapedQuote
    /\ memory' = [memory EXCEPT ![into] = memory[json], ![json + 2] = memory[json + 1]]
    /\ Read(2) /\ into' = into + 2
    /\ UNCHANGED <<document, pc>>

CopyEscapedQuote ==
    /\ pc = "string" /\ IsEscapedQuote
    /\ memory' = [memory EXCEPT ![into] = memory[json], ![into + 1] = memory[json + 1]]
    /\ Read(2) /\ into' = into + 2
    /\ UNCHANGED <<document, pc>>

-----------------------------------------------------------------------------
Init ==
    /\ document \in Documents
    /\ memory = Text(document)
    /\ json = 1 /\ into = 1 /\ pc = "text"

MainLoop ==
    SkipBlank \/ OpenComment \/ DropSlash \/ OpenString \/ CopyOther \/ Terminate

InnerLoops ==
    \/ SkipOnelineComment \/ SkipMultilineComment
    \/ CloseString \/ CopyStringSymbol \/ CopyEscapedQuote

Next == MainLoop \/ InnerLoops

\* a call that has begun runs on: nothing it waits for
Spec == Init /\ [][Next]_vars /\ WF_vars(Next)

-----------------------------------------------------------------------------
(* Properties *)

Position == 1..Len(Text(document))

\* The block keeps its size, and neither pointer leaves it: the look-ahead for
\* comments and escapes never passes the NUL.
TypeOK ==
    /\ document \in Documents
    /\ memory \in [Position -> Symbol \cup {"NUL"}]
    /\ json \in Position /\ into \in Position
    /\ pc \in {"text", "oneline", "multiline", "string", "done"}

\* Reading and writing share the block, and the reader stays ahead: what has
\* not been read is still what the client passed.
UnreadIsUntouched ==
    /\ into <= json
    /\ pc # "done" => \A k \in Position : k >= json => memory[k] = Text(document)[k]

\* Strings stay as they are, and of the rest exactly the blanks and comments
\* go, when every lexeme is whole and no string ends in an escaped backslash,
\* behind which the code misses the closing quote.
OnlyBlanksAndCommentsGo ==
    pc = "done" /\ IsWhole(document) => AsString(memory) = FlattenSeq(Kept(document))

\* Every call returns, unfinished comments, strings and stray slashes included.
Terminates == <>(pc = "done")
=============================================================================
