-------------------------------- MODULE PatchDiff --------------------------------
(***************************************************************************)
(* cJSONUtils_GeneratePatches (src/utils.rs): the patches that lead from    *)
(* one value to another, as a function on heaps.  Generating sorts both     *)
(* values.  The blocks for paths are not checked for NULL in the code, so   *)
(* memory does not run out here.                                            *)
(***************************************************************************)
EXTENDS PatchSteps

-----------------------------------------------------------------------------
(* compose_patch *)

Named(h, patch, name, item) ==
    AddItemToObject(h, patch, <<name>>, item, FreshStr(h), FALSE)

NamedString(h, patch, name, s) ==
    LET n == FreshNode(h)
    IN  Named(CreateString(h, n, FreshStr(h), s), patch, name, n)

NamedCopy(new, patch, name) == Named(new.heap, patch, name, new.node)

\* value = NULL: the operation has none
ComposePatch(h, array, operation, path, value) ==
    LET patch == FreshNode(h)
        op == NamedString(NewItem(h, patch, "Object"), patch, "op", <<operation>>)
        named == NamedString(op, patch, "path", path)
        whole == IF value = NULL THEN named ELSE NamedCopy(Copied(named, value, Plenty), patch, "value")
    IN  AddItemToArray(whole, array, patch)

\* path with one more token
Extended(path, suffix) == path \o <<"/">> \o Encode(suffix)

-----------------------------------------------------------------------------
(* create_patches: the heap with the patches in array *)

\* faulty variant: the index moves on although the elements close up
RECURSIVE DropElementsMovingOn(_, _, _, _, _)
DropElementsMovingOn(h, array, path, m, index) ==
    IF m = NULL THEN h
    ELSE DropElementsMovingOn(
            ComposePatch(h, array, "remove", Extended(path, IndexString(index)), NULL),
            array, path, h.next[m], index + 1)

\* elements left over in from; those after a removed one close up, so the index
\* stays
RECURSIVE DropElements(_, _, _, _, _)
DropElements(h, array, path, m, index) ==
    IF m = NULL THEN h
    ELSE DropElements(ComposePatch(h, array, "remove", Extended(path, IndexString(index)), NULL),
                      array, path, h.next[m], index)

\* elements that only to has
RECURSIVE AddElements(_, _, _, _)
AddElements(h, array, path, n) ==
    IF n = NULL THEN h
    ELSE AddElements(ComposePatch(h, array, "add", Extended(path, <<"-">>), n),
                     array, path, h.next[n])

RECURSIVE CreatePatches(_, _, _, _, _, _), CreateForElements(_, _, _, _, _, _, _),
          CreateForMembers(_, _, _, _, _, _), CreateForSorted(_, _, _, _, _, _)

Differs(h, a, b) ==
    h.type[a] # h.type[b] \/ (h.type[a] = "String" /\ StringOf(h, a) # StringOf(h, b))

CreatePatches(h, array, path, a, b, case) ==
    IF Differs(h, a, b) THEN ComposePatch(h, array, "replace", path, b)
    ELSE CASE h.type[a] = "Array" ->
                CreateForElements(h, array, path, h.child[a], h.child[b], 0, case)
           [] h.type[a] = "Object" ->
                CreateForSorted(SortObject(SortObject(h, a, case), b, case),
                                array, path, a, b, case)
           [] OTHER -> h

CreateForSorted(h, array, path, a, b, case) ==
    CreateForMembers(h, array, path, h.child[a], h.child[b], case)

\* pairs of elements, then the rest of either list
CreateForElements(h, array, path, m, n, index, case) ==
    IF m = NULL THEN AddElements(h, array, path, n)
    ELSE IF n = NULL THEN DropElements(h, array, path, m, index)
    ELSE CreateForElements(
            CreatePatches(h, array, Extended(path, IndexString(index)), m, n, case),
            array, path, h.next[m], h.next[n], index + 1, case)

\* both lists are sorted: the smaller key is in one of them only
CreateForMembers(h, array, path, m, n, case) ==
    LET at(x) == Extended(path, Text(h, h.string[x]))
    IN  IF m = NULL /\ n = NULL THEN h
        ELSE IF m # NULL /\ n # NULL /\ SameNames(h, m, n, case)
        THEN CreateForMembers(CreatePatches(h, array, at(m), m, n, case),
                              array, path, h.next[m], h.next[n], case)
        ELSE IF m # NULL /\ (n = NULL \/ NodeBelow(h, m, n, case))
        THEN CreateForMembers(ComposePatch(h, array, "remove", at(m), NULL),
                              array, path, h.next[m], n, case)
        ELSE CreateForMembers(ComposePatch(h, array, "add", at(n), n),
                              array, path, m, h.next[n], case)
=================================================================================
