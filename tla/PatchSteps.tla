------------------------------- MODULE PatchSteps -------------------------------
(***************************************************************************)
(* apply_patch (src/utils.rs): one operation of a JSON Patch, as a function *)
(* on heaps.  A call is given the number of allocations that still succeed, *)
(* and ends with a heap, a status and the number that is left.              *)
(***************************************************************************)
EXTENDS Duplicates, SortLists, JsonPointer

Operations == {"add", "remove", "replace", "move", "copy", "test"}

\* more allocations than there is memory
Plenty == Cardinality(Node) + Cardinality(Str) + 1

IsString(h, n) == n # NULL /\ h.type[n] = "String"
StringOf(h, n) == Text(h, h.valuestring[n])

\* get_object_item on a member of a patch
Member(h, patch, name, cs) == Lookup(h, h.child[patch], <<name>>, cs)

\* decode_patch_operation
Opcode(h, patch, cs) ==
    LET op == Member(h, patch, "op", cs)
        names == {x \in Operations : IsString(h, op) /\ StringOf(h, op) = <<x>>}
    IN  IF names = {} THEN "invalid" ELSE CHOOSE x \in names : TRUE

Ended(h, status, left) == [heap |-> h, status |-> status, left |-> left]

\* faulty variant: the value is not deleted
RefusedForgets(h, value, status, left) == Ended(h, status, left)

\* the value that could not be added is deleted
Refused(h, value, status, left) == Ended(DeleteWalk(h, value), status, left)

-----------------------------------------------------------------------------
(* compare_json.  Objects are sorted on the way, on both sides.              *)

SameNames(h, m, n, cs) ==
    h.string[m] # NULL /\ h.string[n] # NULL
        /\ SameKey(h, h.string[m], Text(h, h.string[n]), cs)

RECURSIVE CompareJson(_, _, _, _), CompareLists(_, _, _, _, _), CompareRest(_, _, _, _, _)
CompareLists(h, m, n, keyed, cs) ==
    IF m = NULL \/ n = NULL THEN [heap |-> h, same |-> m = n]
    ELSE IF keyed /\ ~SameNames(h, m, n, cs) THEN [heap |-> h, same |-> FALSE]
    ELSE CompareRest(CompareJson(h, m, n, cs), m, n, keyed, cs)

\* m and n have been compared
CompareRest(compared, m, n, keyed, cs) ==
    IF ~compared.same THEN compared
    ELSE CompareLists(compared.heap, compared.heap.next[m], compared.heap.next[n], keyed, cs)

CompareChildren(h, a, b, keyed, cs) == CompareLists(h, h.child[a], h.child[b], keyed, cs)

CompareJson(h, a, b, cs) ==
    IF a = NULL \/ b = NULL \/ h.type[a] # h.type[b] THEN [heap |-> h, same |-> FALSE]
    ELSE CASE h.type[a] = "String" -> [heap |-> h, same |-> StringOf(h, a) = StringOf(h, b)]
           [] h.type[a] = "Array" -> CompareChildren(h, a, b, FALSE, cs)
           [] h.type[a] = "Object" ->
                CompareChildren(SortObject(SortObject(h, a, cs), b, cs), a, b, TRUE, cs)
           [] OTHER -> [heap |-> h, same |-> TRUE]

-----------------------------------------------------------------------------
(* Taking a value out                                                        *)

\* case never counts for the name of the member
DetachAt(h, parent, token, left) ==
    LET index == DecodeArrayIndex(token)
        item == IF parent = NULL THEN NULL
                ELSE IF h.type[parent] = "Array"
                THEN IF index = NULL THEN NULL ELSE Nth(h, h.child[parent], index)
                ELSE IF h.type[parent] = "Object" THEN Lookup(h, h.child[parent], token, FALSE)
                ELSE NULL
    IN  IF item = NULL THEN Made(h, NULL, left)
        ELSE Made(DetachItem(h, parent, item), item, left)

\* detach_path; the pointer is copied to be split
DetachPath(h, object, path, cs, left) ==
    IF left = 0 THEN Made(h, NULL, 0)
    ELSE IF Slashes(path) = {} THEN Made(h, NULL, left - 1)
    ELSE DetachAt(h, GetItemFromPointer(h, object, UpToLastSlash(path), cs),
                  DecodePointerInplace(AfterLastSlash(path)), left - 1)

DeleteMember(h, object, name, cs) ==
    LET item == Lookup(h, h.child[object], name, cs)
    IN  IF item = NULL THEN h ELSE DeleteWalk(DetachItem(h, object, item), item)

-----------------------------------------------------------------------------
(* Putting a value in                                                        *)

\* faulty variant: any index will do
InsertableAnywhere(h, array, index) == TRUE

\* insert_item_in_array: the count has to end on an item or right behind the
\* last one
Insertable(h, array, index) == index <= Len(Children(h, array))

AddToParent(h, parent, token, value, cs, left) ==
    LET index == DecodeArrayIndex(token)
        cleared == DeleteMember(h, parent, token, cs)
        room == left > 0 /\ FreeStrings(cleared) # {}
        s == IF room THEN FreshStr(cleared) ELSE NULL
    IN  IF parent = NULL THEN Refused(h, value, 9, left)
        ELSE IF h.type[parent] = "Array"
        THEN IF token = <<"-">> THEN Ended(AddItemToArray(h, parent, value), 0, left)
             ELSE IF index = NULL THEN Refused(h, value, 11, left)
             ELSE IF ~Insertable(h, parent, index) THEN Refused(h, value, 10, left)
             ELSE Ended(InsertItemInArray(h, parent, Nth(h, h.child[parent], index), value), 0, left)
        ELSE IF h.type[parent] = "Object"
        THEN Ended(AddItemToObject(cleared, parent, token, value, s, FALSE), 0,
                   IF room THEN left - 1 ELSE left)
        ELSE Refused(h, value, 9, left)

\* "add value to path": the second half of apply_patch
AddAtPath(h, object, path, value, cs, left) ==
    IF left = 0 THEN Refused(h, value, 9, 0)
    ELSE IF Slashes(path) = {} THEN Refused(h, value, 9, left - 1)
    ELSE AddToParent(h, GetItemFromPointer(h, object, UpToLastSlash(path), cs),
                     DecodePointerInplace(AfterLastSlash(path)), value, cs, left - 1)

-----------------------------------------------------------------------------
(* The root                                                                  *)

\* overwrite_item frees what the item has, whether it owns it or not
Emptied(h, item) ==
    LET key == FreeString(h, h.string[item])
        value == FreeString(key, h.valuestring[item])
    IN  DeleteWalk(value, h.child[item])

RemoveRoot(h, root) == NewItem(Emptied(h, root), root, "Invalid")

\* "the string "value" isn't needed"
DropKey(h, item) == [FreeString(h, h.string[item]) EXCEPT !.string[item] = NULL]

\* the duplicate's fields move into the root, without its key
ReplaceRoot(h, root, value) ==
    LET clean == Emptied(h, root)
        flag(S) == IF value \in S THEN S \cup {root} ELSE S \ {root}
        moved == [clean EXCEPT !.next[root] = NULL, !.prev[root] = NULL,
                    !.child[root] = clean.child[value], !.type[root] = clean.type[value],
                    !.isReference = flag(clean.isReference),
                    !.stringIsConst = flag(clean.stringIsConst),
                    !.valuestring[root] = clean.valuestring[value],
                    !.string[root] = clean.string[value]]
    IN  DropKey(FreeNode(moved, value), root)

-----------------------------------------------------------------------------
(* apply_patch                                                               *)

\* faulty variant: the value itself is added, not a copy of it
TakenCopy(h, source, left) == Made(h, source, left)

Copied(h, source, left) == DuplicateRec(h, source, 0, TRUE, left)

\* the value to add: NULL in node when there is none, and the status of that
Added(h, object, patch, opcode, cs, left) ==
    LET from == Member(h, patch, "from", cs)
        source == IF opcode = "copy"
                  THEN GetItemFromPointer(h, object, StringOf(h, from), cs)
                  ELSE Member(h, patch, "value", cs)
        moved == DetachPath(h, object, StringOf(h, from), cs, left)
        copied == Copied(h, source, left)
        made(r, status) == [heap |-> r.heap, node |-> r.node, left |-> r.left, status |-> status]
        none == Made(h, NULL, left)
    IN  IF opcode \in {"move", "copy"} /\ ~IsString(h, from) THEN made(none, 4)
        ELSE IF opcode = "move" THEN made(moved, 5)
        ELSE IF source = NULL THEN made(none, IF opcode = "copy" THEN 5 ELSE 7)
        ELSE made(copied, IF opcode = "copy" THEN 6 ELSE 8)

PutAtPath(new, object, path, cs) ==
    IF new.node = NULL THEN Ended(new.heap, new.status, new.left)
    ELSE AddAtPath(new.heap, object, path, new.node, cs, new.left)

AddNew(h, object, patch, opcode, path, cs, left) ==
    PutAtPath(Added(h, object, patch, opcode, cs, left), object, path, cs)

\* "special case for replacing the root"
PutAtRoot(new, object) ==
    IF new.node = NULL THEN Ended(new.heap, new.status, new.left)
    ELSE Ended(ReplaceRoot(new.heap, object, new.node), 0, new.left)

AtRoot(h, object, patch, opcode, cs, left) ==
    IF opcode = "remove" THEN Ended(RemoveRoot(h, object), 0, left)
    ELSE PutAtRoot(Added(h, object, patch, opcode, cs, left), object)

\* old is out: "Get rid of old", and for a replace the new value after it
RemoveOrReplace(old, object, patch, opcode, path, cs) ==
    IF old.node = NULL THEN Ended(old.heap, 13, old.left)
    ELSE IF opcode = "remove" THEN Ended(DeleteWalk(old.heap, old.node), 0, old.left)
    ELSE AddNew(DeleteWalk(old.heap, old.node), object, patch, opcode, path, cs, old.left)

Tested(compared, left) == Ended(compared.heap, IF compared.same THEN 0 ELSE 1, left)

ApplyPatch(h, object, patch, cs, left) ==
    LET at == Member(h, patch, "path", cs)
        path == StringOf(h, at)
        opcode == Opcode(h, patch, cs)
    IN  IF ~IsString(h, at) THEN Ended(h, 2, left)
        ELSE IF opcode = "invalid" THEN Ended(h, 3, left)
        ELSE IF opcode = "test"
        THEN Tested(CompareJson(h, GetItemFromPointer(h, object, path, cs),
                                Member(h, patch, "value", cs), cs), left)
        ELSE IF path = <<>> /\ opcode \in {"remove", "replace", "add"}
        THEN AtRoot(h, object, patch, opcode, cs, left)
        ELSE IF opcode \in {"remove", "replace"}
        THEN RemoveOrReplace(DetachPath(h, object, path, cs, left), object, patch, opcode, path, cs)
        ELSE AddNew(h, object, patch, opcode, path, cs, left)
=============================================================================
