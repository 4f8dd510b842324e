-------------------------------- MODULE Pointing --------------------------------
(***************************************************************************)
(* JSON Pointer on every tree the client of Grown builds, against RFC 6901. *)
(***************************************************************************)
EXTENDS Grown, JsonPointer

Rfc == INSTANCE Rfc6901

-----------------------------------------------------------------------------
(* RFC 6901, section 4, on an item whose members can be told apart *)

Child(n, token, cs) ==
    LET items == Children(heap, n)
        fold(s) == IF cs THEN s ELSE [k \in DOMAIN s |-> FoldChar(s[k])]
        named == {m \in ToSet(items) :
                    fold(Text(heap, heap.string[m])) = fold(Rfc!Unescape(token))}
    IN  IF heap.type[n] = "Array"
        THEN IF Rfc!IsIndex(token) /\ Rfc!IndexValue(token) < Len(items)
             THEN items[Rfc!IndexValue(token) + 1] ELSE NULL
        ELSE IF heap.type[n] = "Object" /\ Rfc!IsEscaped(token) /\ named # {}
        THEN CHOOSE m \in named : TRUE ELSE NULL

RECURSIVE Evaluate(_, _, _)
Evaluate(n, tokens, cs) ==
    IF n = NULL \/ tokens = <<>> THEN n
    ELSE Evaluate(Child(n, tokens[1], cs), Tail(tokens), cs)

Referenced(n, p, cs) == IF Rfc!IsPointer(p) THEN Evaluate(n, Rfc!Tokens(p), cs) ELSE NULL

RECURSIVE Below(_)
Below(n) == {n} \cup UNION {Below(m) : m \in ChildSet(heap, n)}

-----------------------------------------------------------------------------
(* Properties *)

\* The pointer found from an item to any item below it leads back to that item,
\* with every key and at every place, as long as the members of each object on
\* the way can be told apart; no pointer is found to what is not below; and the
\* block for a member's pointer is as long as what is written into it.
PointerLeadsBack ==
    /\ \A cs \in BOOLEAN : \A n \in Alone : Unambiguous(n, cs) =>
        \A m \in Below(n) :
            GetItemFromPointer(heap, n, FindPointer(heap, n, m), cs) = m
    /\ \A n \in heap.live : Unambiguous(n, TRUE) =>
        \A m \in heap.live \ Below(n) : FindPointer(heap, n, m) = NULL
    /\ \A name \in Name : Len(Encode(name)) = PointerEncodedLength(name)

\* Where RFC 6901 says which item a pointer refers to, cJSONUtils_GetPointer
\* returns that item.
FindsWhatRfcRefersTo ==
    \A cs \in BOOLEAN : \A n \in Alone : Unambiguous(n, cs) =>
        \A p \in palette.pointers :
            Referenced(n, p, cs) # NULL =>
                GetItemFromPointer(heap, n, p, cs) = Referenced(n, p, cs)
=================================================================================
