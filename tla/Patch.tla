---------------------------------- MODULE Patch ----------------------------------
(***************************************************************************)
(* cJSONUtils_ApplyPatches: a list of patches applied to a document, one    *)
(* step per patch.  The client has both parsed, or has built the patches     *)
(* with literal keys, and deletes both when the call has returned.          *)
(***************************************************************************)
EXTENDS PatchSteps, Values

CONSTANTS
    Documents,   \* texts of documents
    Lists(_, _, _), \* sequences of operations, for the calls with or without regard
                    \* to case, for so much memory, and with literal keys or not
    Memory       \* numbers of allocations that succeed in a call

ASSUME MemoryAssumption == Memory \subseteq Nat

Missing == NULL

VARIABLES
    heap,
    root,        \* the document, NULL when there is none
    patches,     \* the array of patches, NULL when there is none
    current,     \* current_patch
    status,
    left,        \* the allocations that still succeed
    phase,       \* "start", "apply", "deleted"
    input,       \* document and operations, whether the patches have literal keys,
                 \* and the allocations that succeed in the call
    cs           \* the call is the one with regard to case

vars == <<heap, root, patches, current, status, left, phase, input, cs>>

-----------------------------------------------------------------------------
(* The client's input.  An operation has the fields op, path, from, value.   *)

Field(name, text) == IF text = Missing THEN <<>> ELSE << << <<name>>, text >> >>
StringField(name, s) == Field(name, IF s = Missing THEN Missing ELSE String(s))

PatchText(o) ==
    Object(StringField("op", <<o.op>>) \o StringField("path", o.path)
           \o StringField("from", o.from) \o Field("value", o.value))

PatchesText(list) == Array([k \in DOMAIN list |-> PatchText(list[k])])

Init ==
    /\ heap = EmptyHeap /\ root = NULL /\ patches = NULL /\ current = NULL
    /\ status = 0 /\ phase = "start" /\ cs \in BOOLEAN
    /\ \E document \in Documents, literal \in BOOLEAN, memory \in Memory :
        \E list \in Lists(cs, memory, literal) :
            /\ input = [document |-> document, list |-> list, literal |-> literal,
                        memory |-> memory]
            /\ left = memory

-----------------------------------------------------------------------------
\* the client makes both, and calls
Start ==
    /\ phase = "start" /\ phase' = "apply"
    /\ \E object \in {Parsed(EmptyHeap, input.document)} :
        \E array \in {Built(object.heap, PatchesText(input.list), input.literal)} :
            /\ heap' = array.heap /\ root' = object.node /\ patches' = array.node
            /\ current' = array.heap.child[array.node]
    /\ UNCHANGED <<status, left, input, cs>>

Running == phase = "apply" /\ status = 0 /\ current # NULL

\* the loop of cJSONUtils_ApplyPatches
ApplyNext ==
    /\ Running
    /\ \E done \in {ApplyPatch(heap, root, current, cs, left)} :
        /\ heap' = done.heap
        /\ status' = done.status
        /\ left' = done.left
        /\ current' = IF done.status = 0 THEN done.heap.next[current] ELSE current
    /\ UNCHANGED <<root, patches, phase, input, cs>>

\* the client deletes what it holds
DeleteBoth ==
    /\ phase = "apply" /\ ~Running /\ phase' = "deleted"
    /\ heap' = DeleteWalk(DeleteWalk(heap, root), patches)
    /\ root' = NULL /\ patches' = NULL /\ current' = NULL
    /\ UNCHANGED <<status, left, input, cs>>

Next == Start \/ ApplyNext \/ DeleteBoth

Spec == Init /\ [][Next]_vars

-----------------------------------------------------------------------------
(* What the document says                                                    *)

FoldPointer(p) == IF cs \/ p = Missing THEN p ELSE [k \in DOMAIN p |-> FoldChar(p[k])]

Operation(o) ==
    [op |-> o.op, path |-> FoldPointer(o.path), from |-> FoldPointer(o.from),
     value |-> IF o.value = Missing THEN Missing ELSE ValueOf(o.value, cs)]

MemoryLasts == input.memory >= Plenty

\* the operations whose patches have not been applied
Todo ==
    LET rest == IF phase = "start" THEN Len(input.list) ELSE Len(Items(heap, current))
        applied == Len(input.list) - rest
    IN  [k \in 1..rest |-> Operation(input.list[applied + k])]

Said == IF phase = "start" THEN ValueOf(input.document, cs) ELSE Value(heap, root, cs)

-----------------------------------------------------------------------------
(* Properties *)

\* No allocation and no text of a patch makes a call use freed memory, free
\* twice, or free what it does not own; with keys that are literals the runs
\* leave out patches of the root, which free the literal.  When a call has
\* failed, or had memory enough, and the client has deleted the document and
\* the patches, nothing is left: neither a value that was taken out nor one
\* that was to be added.
EverythingFreed ==
    /\ ~heap.fault
    /\ phase = "deleted" /\ (status # 0 \/ left > 0) => heap.live = {} /\ FreeStrings(heap) = Str

\* Step by step, the calls do to the value of the document what RFC 6902 says
\* of the operations, and fail exactly when it makes one an error; as long as
\* memory is plenty.
Abstract ==
    INSTANCE Document WITH
        doc <- IF phase = "deleted" \/ ~MemoryLasts THEN Missing ELSE Said,
        todo <- IF phase = "deleted" \/ ~MemoryLasts THEN <<>> ELSE Todo,
        ended <- MemoryLasts /\ (phase = "deleted" \/ status # 0)

ImplementsDocument == Abstract!Spec
=============================================================================
