------------------------------ MODULE JsonPointer ------------------------------
(***************************************************************************)
(* The JSON Pointers of src/utils.rs: following one, writing one, and the   *)
(* decoding of its last token for JSON Patch.  Keys and pointers are        *)
(* sequences of characters.                                                 *)
(***************************************************************************)
EXTENDS ItemLists

CONSTANTS
    FoldChar(_),   \* to_ascii_lowercase
    WordSize       \* the number of values of a usize

ASSUME WordAssumption == WordSize \in Nat \ {0}

DigitValue == "0" :> 0 @@ "1" :> 1 @@ "2" :> 2 @@ "3" :> 3 @@ "4" :> 4
              @@ "5" :> 5 @@ "6" :> 6 @@ "7" :> 7 @@ "8" :> 8 @@ "9" :> 9

From(s, k) == SubSeq(s, k, Len(s))

\* a token ends with the pointer or at the next slash
AtEnd(p) == p = <<>> \/ p[1] = "/"

-----------------------------------------------------------------------------
(* Matching a member's name with a token *)

\* faulty variant: case counts for every call
SameCharExact(c, d, cs) == c = d

SameChar(c, d, cs) == IF cs THEN c = d ELSE FoldChar(c) = FoldChar(d)

\* faulty variant: a name that the token begins with matches
ComparePointersPrefix(name, p, cs) ==
    /\ Len(name) <= Len(p)
    /\ \A k \in DOMAIN name : SameChar(name[k], p[k], cs)

\* compare_pointers, for a name that is there
RECURSIVE ComparePointers(_, _, _)
ComparePointers(name, p, cs) ==
    IF name = <<>> \/ AtEnd(p) THEN name = <<>> /\ AtEnd(p)
    ELSE IF p[1] = "~"
    THEN /\ Len(p) > 1
         /\ <<p[2], name[1]>> \in {<<"0", "~">>, <<"1", "/">>}
         /\ ComparePointers(Tail(name), From(p, 3), cs)
    ELSE SameChar(name[1], p[1], cs) /\ ComparePointers(Tail(name), Tail(p), cs)

RECURSIVE FindMember(_, _, _, _)
FindMember(h, m, p, cs) ==
    IF m = NULL \/ (h.string[m] # NULL /\ ComparePointers(Text(h, h.string[m]), p, cs)) THEN m
    ELSE FindMember(h, h.next[m], p, cs)

-----------------------------------------------------------------------------
(* Array indices *)

\* the digits p begins with, accumulated with wrapping arithmetic
RECURSIVE ParseIndex(_, _)
ParseIndex(p, parsed) ==
    IF p = <<>> \/ p[1] \notin DOMAIN DigitValue THEN [index |-> parsed, rest |-> p]
    ELSE ParseIndex(Tail(p), (parsed * 10 + DigitValue[p[1]]) % WordSize)

LeadingZero(p) == p # <<>> /\ p[1] = "0" /\ ~AtEnd(Tail(p))

\* decode_array_index_from_pointer; NULL when it refuses.  A token without a
\* character is index 0.
DecodeArrayIndex(p) ==
    LET parsed == ParseIndex(p, 0)
    IN  IF LeadingZero(p) \/ ~AtEnd(parsed.rest) THEN NULL ELSE parsed.index

-----------------------------------------------------------------------------
(* Following a pointer *)

RestOfPointer(p) ==
    LET slashes == {k \in DOMAIN p : p[k] = "/"}
    IN  IF slashes = {} THEN <<>> ELSE From(p, Min(slashes))

\* the item one token leads to from an element
FollowToken(h, element, p, cs) ==
    IF h.type[element] = "Array"
    THEN LET index == DecodeArrayIndex(p)
         IN  IF index = NULL THEN NULL ELSE Nth(h, h.child[element], index)
    ELSE IF h.type[element] = "Object" THEN FindMember(h, h.child[element], p, cs)
    ELSE NULL

\* get_item_from_pointer
RECURSIVE GetItemFromPointer(_, _, _, _)
GetItemFromPointer(h, element, p, cs) ==
    IF element = NULL \/ p = <<>> \/ p[1] # "/" THEN element
    ELSE GetItemFromPointer(h, FollowToken(h, element, Tail(p), cs), RestOfPointer(Tail(p)), cs)

-----------------------------------------------------------------------------
(* Writing a pointer *)

PointerEncodedLength(s) == Len(s) + Cardinality({k \in DOMAIN s : s[k] \in {"~", "/"}})

\* encode_string_as_pointer
Encode(s) ==
    FlattenSeq([k \in DOMAIN s |-> IF s[k] = "/" THEN <<"~", "1">>
                                   ELSE IF s[k] = "~" THEN <<"~", "0">> ELSE <<s[k]>>])

\* lists here have at most ten items
IndexString(n) == <<CHOOSE c \in DOMAIN DigitValue : DigitValue[c] = n>>

RECURSIVE FindPointer(_, _, _), FindPointerAmong(_, _, _, _, _)

\* cJSONUtils_FindPointerFromObjectTo; NULL when target is not below object
FindPointer(h, object, target) ==
    IF object = target THEN <<>>
    ELSE FindPointerAmong(h, object, h.child[object], 0, target)

FindPointerAmong(h, object, child, index, target) ==
    IF child = NULL THEN NULL
    ELSE LET found == FindPointer(h, child, target)
         IN  IF found = NULL THEN FindPointerAmong(h, object, h.next[child], index + 1, target)
             ELSE IF h.type[object] = "Array" THEN <<"/">> \o IndexString(index) \o found
             ELSE IF h.type[object] = "Object"
             THEN <<"/">> \o Encode(Text(h, h.string[child])) \o found
             ELSE NULL

-----------------------------------------------------------------------------
(* Decoding in place *)

\* decode_pointer_inplace on a block with a NUL: r reads, w writes.  Only the
\* characters of an escape are written, the slash one place too far, and an
\* invalid escape ends the work before the NUL is set.
RECURSIVE DecodeFrom(_, _, _)
DecodeFrom(block, r, w) ==
    IF block[r] = "NUL" THEN [block EXCEPT ![w] = "NUL"]
    ELSE IF block[r] # "~" THEN DecodeFrom(block, r + 1, w + 1)
    ELSE IF block[r + 1] = "0" THEN DecodeFrom([block EXCEPT ![w] = "~"], r + 2, w + 1)
    ELSE IF block[r + 1] = "1" THEN DecodeFrom([block EXCEPT ![w + 1] = "/"], r + 2, w + 1)
    ELSE block

DecodePointerInplace(s) ==
    LET block == DecodeFrom(Append(s, "NUL"), 1, 1)
    IN  SubSeq(block, 1, Min({k \in DOMAIN block : block[k] = "NUL"}) - 1)

-----------------------------------------------------------------------------
(* The last token, as JSON Patch takes it off: strrchr *)

Slashes(p) == {k \in DOMAIN p : p[k] = "/"}
UpToLastSlash(p) == SubSeq(p, 1, Max(Slashes(p)) - 1)
AfterLastSlash(p) == From(p, Max(Slashes(p)) + 1)
=============================================================================
