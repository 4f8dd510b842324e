-------------------------------- MODULE Parser --------------------------------
(***************************************************************************)
(* cJSON_ParseWithLengthOpts (src/parse.rs): the recursive descent as a    *)
(* state machine whose stack holds the frames of parse_array and           *)
(* parse_object.  A text is a sequence of symbols, one per punctuation     *)
(* character, blank, NUL or token; a name stands for its quoted form.      *)
(***************************************************************************)
EXTENDS CJsonHeap, Sequences

CONSTANTS
    Texts,          \* the texts the client may parse
    NestingLimit,   \* CJSON_NESTING_LIMIT
    MayFail         \* the allocator may return NULL

Mark ==
    {"[", "]", "{", "}", ",", ":", "blank", "NUL", "BOM", "null", "number",
     "badNumber", "badString", "other"}

Symbol == Mark \cup Name

ASSUME TextAssumption ==
    /\ NestingLimit \in Nat /\ MayFail \in BOOLEAN /\ Name \cap Mark = {}
    /\ \A t \in Texts : t \in Seq(Symbol)

VARIABLES
    text,       \* buffer.content; its length is buffer.length
    required,   \* require_null_terminated
    heap,
    root,       \* item: what the call has built, and then returns
    offset,     \* buffer.offset
    depth,      \* buffer.depth
    stack,      \* the calls of parse_array and parse_object in progress
    pc,         \* what runs next
    errorAt,    \* GLOBAL_ERROR: NULL or a position in text
    oom         \* history: the allocator has failed

buffer == <<text, required>>
vars == <<text, required, heap, root, offset, depth, stack, pc, errorAt, oom>>

-----------------------------------------------------------------------------
(* Reading *)

Comma == ","
Bracket(kind) == IF kind = "Array" THEN "[" ELSE "{"
Closing(kind) == IF kind = "Array" THEN "]" ELSE "}"

\* can_access_at_index(buffer, 0) at position o
CanAccess(o) == o < Len(text)
Is(o, symbol) == CanAccess(o) /\ text[o + 1] = symbol

\* any byte up to 32 is skipped, NUL included
Blank(symbol) == symbol \in {"blank", "NUL"}

\* the first position from o on that does not hold a blank
AfterBlanks(o) ==
    LET ends == {k \in o..Len(text) : CanAccess(k) => ~Blank(text[k + 1])}
    IN  CHOOSE k \in ends : \A j \in ends : k <= j

\* faulty variant: also steps back from where it already was at the end
SkipWhitespaceAlwaysStepsBack(o) ==
    LET end == AfterBlanks(o) IN IF end = Len(text) /\ end > 0 THEN end - 1 ELSE end

\* buffer_skip_whitespace steps back when nothing but blanks is left
SkipWhitespace(o) ==
    LET end == AfterBlanks(o)
    IN  IF CanAccess(o) /\ end = Len(text) THEN end - 1 ELSE end

\* skip_utf8_bom wants two bytes after the mark; a token has them
SkipBom ==
    IF Is(0, "BOM") /\ (Len(text) > 2 \/ (Len(text) = 2 /\ text[2] \in Name \cup {"null"}))
    THEN 1 ELSE 0

-----------------------------------------------------------------------------
(* Frames.  The argument of the running parse_value is the current item of   *)
(* the innermost list, or the root.                                          *)

Frame(kind, item) == [kind |-> kind, item |-> item, head |-> NULL, current |-> NULL]

Top == stack[Len(stack)]
Below == SubSeq(stack, 1, Len(stack) - 1)
Target == IF stack = <<>> THEN root ELSE Top.current

GoTo(label, o) == pc' = label /\ offset' = o

\* the allocator answers NULL, if it may or must
Refused(free) == (MayFail \/ free = {}) /\ oom' = TRUE
Granted(free) == free # {} /\ oom' = oom

\* faulty variant: the new node follows the first one
EnlistAfterHead(h, n) ==
    IF Top.head = NULL THEN h ELSE SuffixObject(h, Top.head, n)

\* the new node is the next of the list; its prev is set, its next is NULL
Enlist(h, n) ==
    IF Top.head = NULL THEN h ELSE SuffixObject(h, Top.current, n)

\* the end of parse_array and parse_object
CloseList(h) ==
    [h EXCEPT !.prev[Top.head] = Top.current,
              !.type[Top.item] = Top.kind, !.child[Top.item] = Top.head]

\* parse_string has put the name in valuestring; it moves to string
TakeKey(h, n, s) == [h EXCEPT !.type[n] = "String", !.string[n] = s]

\* faulty variant: the item that failed is freed without those before it
DropListLast(h) == IF Top.head = NULL THEN h ELSE Delete(h, Top.current)

\* fail: in parse_array and parse_object
DropList(h) == IF Top.head = NULL THEN h ELSE Delete(h, Top.head)

-----------------------------------------------------------------------------
(* cJSON_ParseWithLengthOpts *)

\* finish_parse_failure: the position is inside the buffer
ErrorPosition(o) == IF CanAccess(o) THEN o ELSE IF text = <<>> THEN 0 ELSE Len(text) - 1

Finish(h, o) ==
    /\ heap' = Delete(h, root) /\ root' = NULL
    /\ GoTo("done", o) /\ errorAt' = ErrorPosition(o)

\* the error state is reset, the root item made, the mark and the blanks before
\* the value skipped
Begin ==
    /\ pc = "start"
    /\ \/ /\ text = <<>> /\ Finish(heap, 0)
          /\ UNCHANGED <<depth, stack, oom>>
       \/ /\ text # <<>> /\ Refused(FreeNodes(heap)) /\ Finish(heap, 0)
          /\ UNCHANGED <<depth, stack>>
       \/ /\ text # <<>> /\ Granted(FreeNodes(heap))
          /\ root' = FreshNode(heap)
          /\ heap' = NewItem(heap, FreshNode(heap), "Invalid")
          /\ GoTo("value", SkipWhitespace(SkipBom)) /\ errorAt' = NULL
          /\ UNCHANGED <<depth, stack>>
    /\ UNCHANGED buffer

\* what follows the value is examined only on request
End ==
    /\ pc = "after" /\ stack = <<>>
    /\ LET o == IF required THEN SkipWhitespace(offset) ELSE offset
       IN  IF required /\ ~Is(o, "NUL") THEN Finish(heap, o)
           ELSE GoTo("done", o) /\ UNCHANGED <<heap, root, errorAt>>
    /\ UNCHANGED <<buffer, depth, stack, oom>>

\* a failure unwinds frame by frame: each frees its own list, the outermost
\* call the root
Unwind ==
    /\ pc = "fail"
    /\ \/ /\ stack # <<>>
          /\ heap' = DropList(heap) /\ stack' = Below
          /\ UNCHANGED <<root, offset, pc, errorAt>>
       \/ stack = <<>> /\ Finish(heap, offset) /\ UNCHANGED stack
    /\ UNCHANGED <<buffer, depth, oom>>

-----------------------------------------------------------------------------
(* parse_value *)

Unstacked == UNCHANGED <<buffer, root, stack, errorAt>>

Literal ==
    /\ pc = "value" /\ Is(offset, "null")
    /\ heap' = [heap EXCEPT !.type[Target] = "Null"]
    /\ GoTo("after", offset + 1)
    /\ Unstacked /\ UNCHANGED <<depth, oom>>

\* parse_number copies the digits to a block it frees before it returns
Number ==
    /\ pc = "value" /\ (Is(offset, "number") \/ Is(offset, "badNumber"))
    /\ \/ Refused(FreeStrings(heap)) /\ GoTo("fail", offset) /\ UNCHANGED heap
       \/ /\ Granted(FreeStrings(heap))
          /\ IF Is(offset, "number")
             THEN GoTo("after", offset + 1) /\ heap' = [heap EXCEPT !.type[Target] = "Number"]
             ELSE GoTo("fail", offset) /\ UNCHANGED heap
    /\ Unstacked /\ UNCHANGED depth

\* parse_string; the block of a string with a bad escape is freed again, and
\* a string that does not end gets none
String ==
    /\ pc = "value" /\ CanAccess(offset) /\ text[offset + 1] \in Name \cup {"badString"}
    /\ IF Is(offset, "badString") THEN GoTo("fail", offset + 1) /\ UNCHANGED <<heap, oom>>
       ELSE \/ Refused(FreeStrings(heap)) /\ GoTo("fail", offset + 1) /\ UNCHANGED heap
            \/ /\ Granted(FreeStrings(heap))
               /\ LET s == FreshStr(heap)
                  IN  heap' = [Strdup(heap, s, text[offset + 1]) EXCEPT
                                 !.type[Target] = "String", !.valuestring[Target] = s]
               /\ GoTo("after", offset + 1)
    /\ Unstacked /\ UNCHANGED depth

TooDeep == depth >= NestingLimit

\* the head of parse_array and parse_object: an empty container is complete at
\* once; otherwise the offset steps back, for the list to step over it
Open(kind) ==
    LET o == SkipWhitespace(offset + 1) IN
    /\ pc = "value" /\ Is(offset, Bracket(kind))
    /\ \/ TooDeep /\ GoTo("fail", offset) /\ UNCHANGED <<heap, depth, stack>>
       \/ /\ ~TooDeep /\ Is(o, Closing(kind))
          /\ heap' = [heap EXCEPT !.type[Target] = kind, !.child[Target] = NULL]
          /\ GoTo("after", o + 1) /\ UNCHANGED <<depth, stack>>
       \/ /\ ~TooDeep /\ ~CanAccess(o)
          /\ depth' = depth + 1
          /\ GoTo("fail", o - 1) /\ UNCHANGED <<heap, stack>>
       \/ /\ ~TooDeep /\ CanAccess(o) /\ ~Is(o, Closing(kind))
          /\ depth' = depth + 1
          /\ stack' = Append(stack, Frame(kind, Target))
          /\ GoTo("element", o - 1) /\ UNCHANGED heap
    /\ UNCHANGED <<buffer, root, errorAt, oom>>

NoValue ==
    /\ pc = "value"
    /\ CanAccess(offset) =>
        text[offset + 1] \notin {Bracket("Array"), Bracket("Object"), "null", "number", "badNumber", "badString"} \cup Name
    /\ GoTo("fail", offset)
    /\ Unstacked /\ UNCHANGED <<heap, depth, oom>>

-----------------------------------------------------------------------------
(* The loops of parse_array and parse_object *)

\* faulty variant: nothing need follow the comma
KeyMayFollowUnchecked == TRUE

KeyMayFollow == CanAccess(offset + 1)

\* one more item; the name or the value that follows is parsed into it
Element ==
    /\ pc = "element"
    /\ \/ Refused(FreeNodes(heap)) /\ GoTo("fail", offset) /\ UNCHANGED <<heap, stack>>
       \/ /\ Granted(FreeNodes(heap))
          /\ LET n == FreshNode(heap)
                 first == IF Top.head = NULL THEN n ELSE Top.head
             IN  /\ heap' = Enlist(NewItem(heap, n, "Invalid"), n)
                 /\ stack' = Append(Below, [Top EXCEPT !.head = first, !.current = n])
          /\ IF Top.kind = "Array" THEN GoTo("value", SkipWhitespace(offset + 1))
             ELSE IF KeyMayFollow THEN GoTo("key", SkipWhitespace(offset + 1))
             ELSE GoTo("fail", offset)
    /\ UNCHANGED <<buffer, root, depth, errorAt>>

\* the name, moved from valuestring to string, and the colon
Key ==
    LET o == SkipWhitespace(offset + 1) IN
    /\ pc = "key"
    /\ \/ /\ text[offset + 1] \notin Name
          /\ GoTo("fail", offset + 1) /\ UNCHANGED <<heap, oom>>
       \/ /\ text[offset + 1] \in Name /\ Refused(FreeStrings(heap))
          /\ GoTo("fail", offset + 1) /\ UNCHANGED heap
       \/ /\ text[offset + 1] \in Name /\ Granted(FreeStrings(heap))
          /\ LET s == FreshStr(heap)
             IN  heap' = TakeKey(Strdup(heap, s, text[offset + 1]), Top.current, s)
          /\ IF Is(o, ":") THEN GoTo("value", SkipWhitespace(o + 1)) ELSE GoTo("fail", o)
    /\ Unstacked /\ UNCHANGED depth

\* after a value: a comma, the closing bracket, or a failure
AfterValue ==
    LET o == SkipWhitespace(offset) IN
    /\ pc = "after" /\ stack # <<>>
    /\ \/ Is(o, Comma) /\ GoTo("element", o) /\ UNCHANGED <<heap, depth, stack>>
       \/ /\ Is(o, Closing(Top.kind))
          /\ heap' = CloseList(heap) /\ depth' = depth - 1 /\ stack' = Below
          /\ GoTo("after", o + 1)
       \/ /\ ~Is(o, Comma) /\ ~Is(o, Closing(Top.kind))
          /\ GoTo("fail", o) /\ UNCHANGED <<heap, depth, stack>>
    /\ UNCHANGED <<buffer, root, errorAt, oom>>

-----------------------------------------------------------------------------
Init ==
    /\ text \in Texts /\ required \in BOOLEAN
    /\ heap = EmptyHeap /\ root = NULL
    /\ offset = 0 /\ depth = 0 /\ stack = <<>>
    /\ pc = "start" /\ errorAt = NULL /\ oom = FALSE

Next ==
    \/ Begin \/ End \/ Unwind
    \/ Literal \/ Number \/ String \/ Open("Array") \/ Open("Object") \/ NoValue
    \/ Element \/ Key \/ AfterValue

Spec == Init /\ [][Next]_vars

-----------------------------------------------------------------------------
(* Properties *)

\* The offset never leaves the buffer, and a reported error lies inside it.
\* parse_object hands the name to parse_string, which reads without a bounds
\* check: whatever the text, something is left to read.
InsideBuffer ==
    /\ offset \in 0..Len(text)
    /\ pc = "key" => CanAccess(offset)
    /\ errorAt = NULL \/ errorAt \in 0..(Len(text) - 1) \/ (errorAt = 0 /\ text = <<>>)

\* A parse that fails, at whatever symbol, depth or allocation, has freed all
\* it had built, every block once.  The tree a parse returns owns all that was
\* allocated, so that one cJSON_Delete frees it, and its lists know their tail,
\* as the first append to any of them expects.
AllOrNothing ==
    pc = "done" =>
        /\ root = NULL => heap = EmptyHeap
        /\ root # NULL => Delete(heap, root) = EmptyHeap
        /\ \A n \in heap.live : heap.next[n] # NULL => heap.prev[heap.next[n]] = n
        /\ \A p \in heap.live : heap.child[p] # NULL =>
            LET tail == heap.prev[heap.child[p]]
            IN  tail \in Members(heap, p) /\ heap.next[tail] = NULL
=============================================================================
