---------------------------------- MODULE Diffs ----------------------------------
(***************************************************************************)
(* A client of the utilities that compare and merge documents.  It parses   *)
(* two values and a third item that says what the first does, generates     *)
(* JSON patches or a merge patch from the two, and applies them to the      *)
(* third; or it parses a target and a merge patch, and merges them.  Then   *)
(* it deletes what it holds.                                                *)
(***************************************************************************)
EXTENDS PatchDiff, MergePatch, Values

CONSTANTS
    Documents(_),   \* texts that patches are generated from, for the calls with or
                    \* without regard to case
    Targets(_),     \* the same for merge patches, and what they are merged into
    Patches(_),     \* texts of merge patches
    Memory          \* numbers of allocations that succeed in a merge

ASSUME MemoryAssumption == Memory \subseteq Nat

VARIABLES
    heap,
    from, to,     \* the two values patches are generated from, or NULL
    target,       \* what is patched; afterwards the result
    patch,        \* the array of patches or the merge patch, NULL for none
    current,      \* the patch that is applied next
    status,
    phase,        \* "generate", "apply", "merge", "done", "deleted"
    left,         \* the allocations that still succeed in the merge
    input,        \* what is generated, and the texts
    cs            \* the calls are those with regard to case

vars == <<heap, from, to, target, patch, current, status, phase, left, input, cs>>

-----------------------------------------------------------------------------
StartDiff(form, a, b) ==
    LET first == Parsed(EmptyHeap, a)
        second == Parsed(first.heap, b)
        third == Parsed(second.heap, a)
    IN  /\ heap = third.heap /\ from = first.node /\ to = second.node /\ target = third.node
        /\ patch = NULL /\ phase = "generate" /\ left = Plenty
        /\ input = [form |-> form, target |-> a, patch |-> NULL, to |-> b]

StartMerge(t, p) ==
    LET first == Parsed(EmptyHeap, t)
        second == Parsed(first.heap, p)
    IN  /\ heap = second.heap /\ target = first.node /\ patch = second.node
        /\ from = NULL /\ to = NULL /\ phase = "merge" /\ left \in Memory
        /\ input = [form |-> "given", target |-> t, patch |-> p, to |-> NULL]

Init ==
    /\ cs \in BOOLEAN /\ current = NULL /\ status = 0
    /\ \/ \E a, b \in Documents(cs) : StartDiff("patches", a, b)
       \/ \E a, b \in Targets(cs) : StartDiff("merge patch", a, b)
       \/ \E t \in Targets(cs), p \in Patches(cs) : StartMerge(t, p)

\* cJSONUtils_GeneratePatches
GeneratePatches ==
    LET array == FreshNode(heap)
    IN  /\ phase = "generate" /\ input.form = "patches"
        /\ heap' = CreatePatches(NewItem(heap, array, "Array"), array, <<>>, from, to, cs)
        /\ patch' = array /\ current' = heap'.child[array]
        /\ phase' = IF current' = NULL THEN "done" ELSE "apply"
        /\ UNCHANGED <<from, to, target, status, left, input, cs>>

\* one step of cJSONUtils_ApplyPatches
ApplyNext ==
    /\ phase = "apply"
    /\ \E done \in {ApplyPatch(heap, target, current, cs, Plenty)} :
        /\ heap' = done.heap /\ status' = done.status
        /\ current' = IF done.status = 0 THEN done.heap.next[current] ELSE NULL
    /\ phase' = IF current' = NULL THEN "done" ELSE "apply"
    /\ UNCHANGED <<from, to, target, patch, left, input, cs>>

\* cJSONUtils_GenerateMergePatch
GenerateMergePatch ==
    /\ phase = "generate" /\ input.form = "merge patch"
    /\ \E new \in {Generated(heap, from, to, cs)} :
        heap' = new.heap /\ patch' = new.node
    /\ phase' = IF patch' = NULL THEN "done" ELSE "merge"
    /\ UNCHANGED <<from, to, target, current, status, left, input, cs>>

\* cJSONUtils_MergePatch
MergePatch ==
    /\ phase = "merge"
    /\ \E result \in {Merged(heap, target, patch, cs, left)} :
        heap' = result.heap /\ target' = result.node /\ left' = result.left
    /\ phase' = "done"
    /\ UNCHANGED <<from, to, patch, current, status, input, cs>>

\* the client deletes what it holds
DeleteAll ==
    LET sources == DeleteWalk(DeleteWalk(heap, from), to)
    IN  /\ phase = "done"
        /\ heap' = DeleteWalk(DeleteWalk(sources, target), patch)
        /\ from' = NULL /\ to' = NULL /\ target' = NULL /\ patch' = NULL
        /\ phase' = "deleted"
        /\ UNCHANGED <<current, status, left, input, cs>>

Next == GeneratePatches \/ ApplyNext \/ GenerateMergePatch \/ MergePatch \/ DeleteAll

Spec == Init /\ [][Next]_vars

-----------------------------------------------------------------------------
(* RFC 7396, section 2, on values *)

RECURSIVE Rfc7396(_, _)
Rfc7396(t, p) ==
    LET base == IF t.type = "Object" THEN t.members ELSE <<>>
        kept == {k \in DOMAIN base \cup DOMAIN p.members :
                    k \in DOMAIN p.members => p.members[k].type # "Null"}
        old(k) == IF k \in DOMAIN base THEN base[k] ELSE Null
    IN  IF p.type # "Object" THEN p
        ELSE [type |-> "Object",
              members |-> [k \in kept |-> IF k \in DOMAIN p.members
                                          THEN Rfc7396(old(k), p.members[k]) ELSE base[k]]]

\* a merge patch cannot say that a member is null
RECURSIVE Expressible(_)
Expressible(t) ==
    t.type = "Object" => \A k \in DOMAIN t.pairs :
        t.pairs[k][2].type # "Null" /\ Expressible(t.pairs[k][2])

-----------------------------------------------------------------------------
(* Properties *)

\* The patches generated from one value to another, applied to an item that
\* says the first, succeed one and all, and make it say the second.
PatchesLeadThere ==
    phase = "done" /\ input.form = "patches" =>
        status = 0 /\ Value(heap, target, cs) = ValueOf(input.to, cs)

\* The merge patch generated from one value to another, merged into an item that
\* says the first, makes it say the second, if a merge patch can; no patch means
\* they say the same.
MergePatchLeadsThere ==
    phase = "done" /\ input.form = "merge patch" /\ left > 0 /\ Expressible(input.to) =>
        target # NULL /\ Value(heap, target, cs) = ValueOf(input.to, cs)

\* As long as memory lasts, merging a patch into any target, object or not,
\* gives what RFC 7396 says.
MergesAsRfc7396 ==
    phase = "done" /\ input.form = "given" /\ left > 0 =>
        target # NULL /\ Value(heap, target, cs)
            = Rfc7396(ValueOf(input.target, cs), ValueOf(input.patch, cs))

\* The patch and the two values stay the client's: generating sorts the values and
\* does nothing else, they say what they said, and nothing of them is shared
\* with the result.
InputsKeepTheirValue ==
    phase # "deleted" =>
        /\ input.patch # NULL => Value(heap, patch, TRUE) = ValueOf(input.patch, TRUE)
        /\ input.to # NULL => /\ Value(heap, from, TRUE) = ValueOf(input.target, TRUE)
                              /\ Value(heap, to, TRUE) = ValueOf(input.to, TRUE)

\* Wherever memory runs out, nothing is freed twice or used after it was freed;
\* and if it lasts, everything has been freed when the client has deleted what
\* it holds.
EverythingFreed ==
    /\ ~heap.fault
    /\ phase = "deleted" /\ left > 0 => heap.live = {} /\ FreeStrings(heap) = Str
=============================================================================
