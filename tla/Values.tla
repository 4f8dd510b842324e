--------------------------------- MODULE Values ---------------------------------
(***************************************************************************)
(* JSON texts and JSON values.  A text is a tree with its members in the    *)
(* order they stand; the client has it parsed, or builds it with keys that  *)
(* are literals.  A value is what an item says: the members of an object    *)
(* are a function from keys, in no order.                                   *)
(***************************************************************************)
EXTENDS ItemLists

\* texts
Null == [type |-> "Null"]
String(s) == [type |-> "String", text |-> s]
Array(items) == [type |-> "Array", items |-> items]
Object(pairs) == [type |-> "Object", pairs |-> pairs]

\* keys that a call without regard to case takes for one
Key(name, cs) == IF cs THEN name ELSE Lower[name]

\* the value of an item
RECURSIVE Value(_, _, _)
Value(h, n, cs) ==
    LET items == Children(h, n)
        key(m) == Key(Text(h, h.string[m]), cs)
        named(k) == CHOOSE m \in ToSet(items) : key(m) = k
    IN  CASE h.type[n] = "String" -> String(Text(h, h.valuestring[n]))
          [] h.type[n] = "Array" -> Array([k \in DOMAIN items |-> Value(h, items[k], cs)])
          [] h.type[n] = "Object" ->
                [type |-> "Object",
                 members |-> [k \in {key(m) : m \in ToSet(items)} |-> Value(h, named(k), cs)]]
          [] OTHER -> [type |-> h.type[n]]

\* the value a text stands for
RECURSIVE ValueOf(_, _)
ValueOf(t, cs) ==
    IF t.type = "Array" THEN Array([k \in DOMAIN t.items |-> ValueOf(t.items[k], cs)])
    ELSE IF t.type = "Object"
    THEN LET keys == {Key(t.pairs[k][1], cs) : k \in DOMAIN t.pairs}
             at(key) == CHOOSE k \in DOMAIN t.pairs : Key(t.pairs[k][1], cs) = key
         IN  [type |-> "Object",
              members |-> [key \in keys |-> ValueOf(t.pairs[at(key)][2], cs)]]
    ELSE t

-----------------------------------------------------------------------------
(* The item that is made of a text; with literal keys, added with              *)
(* cJSON_AddItemToObjectCS, or with copies.                                   *)

RECURSIVE Built(_, _, _), BuiltItems(_, _, _, _), BuiltPairs(_, _, _, _)

\* the heap with the item and the item
Built(h, t, literal) ==
    LET n == FreshNode(h)
        new == IF t.type = "String" THEN CreateString(h, n, FreshStr(h), t.text) ELSE NewItem(h, n, t.type)
    IN  [heap |-> IF t.type = "Array" THEN BuiltItems(new, n, t.items, literal)
                  ELSE IF t.type = "Object" THEN BuiltPairs(new, n, t.pairs, literal)
                  ELSE new,
         node |-> n]

BuiltItems(h, n, items, literal) ==
    IF items = <<>> THEN h
    ELSE LET first == Built(h, items[1], literal)
         IN  BuiltItems(AddItemToArray(first.heap, n, first.node), n, Tail(items), literal)

BuiltPairs(h, n, pairs, literal) ==
    IF pairs = <<>> THEN h
    ELSE LET first == Built(h, pairs[1][2], literal)
             key == IF literal THEN NULL ELSE FreshStr(first.heap)
         IN  BuiltPairs(AddItemToObject(first.heap, n, pairs[1][1], first.node, key, literal),
                       n, Tail(pairs), literal)

Parsed(h, t) == Built(h, t, FALSE)
=================================================================================
