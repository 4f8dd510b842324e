-------------------------------- MODULE Compare --------------------------------
(***************************************************************************)
(* cJSON_Compare (src/manip.rs) on the trees a client builds: every pair of *)
(* their items compared with and without regard to case.                    *)
(***************************************************************************)
EXTENDS Grown

-----------------------------------------------------------------------------
(* cJSON_Compare *)

SameType(h, a, b) == a # NULL /\ b # NULL /\ h.type[a] = h.type[b] /\ h.type[a] # "Invalid"

\* faulty variant: values are compared like keys, without regard to case
SameTextIgnoringCase(h, a, b) ==
    /\ h.valuestring[a] # NULL /\ h.valuestring[b] # NULL
    /\ Lower[Text(h, h.valuestring[a])] = Lower[Text(h, h.valuestring[b])]

SameText(h, a, b) ==
    /\ h.valuestring[a] # NULL /\ h.valuestring[b] # NULL
    /\ Text(h, h.valuestring[a]) = Text(h, h.valuestring[b])

\* the member of object with the key of item m
Counterpart(h, object, m, cs) ==
    IF h.string[m] = NULL THEN NULL
    ELSE Lookup(h, h.child[object], Text(h, h.string[m]), cs)

RECURSIVE Compare(_, _, _, _), CompareElements(_, _, _, _)

\* faulty variant: the members of b are not looked up in a
MembersMatchOneWay(h, a, b, cs) ==
    \A m \in ChildSet(h, a) : Compare(h, m, Counterpart(h, b, m, cs), cs)

\* each member of one object equals its counterpart in the other
MembersMatch(h, a, b, cs) ==
    /\ \A m \in ChildSet(h, a) : Compare(h, m, Counterpart(h, b, m, cs), cs)
    /\ \A m \in ChildSet(h, b) : Compare(h, m, Counterpart(h, a, m, cs), cs)

CompareElements(h, m, n, cs) ==
    IF m = NULL \/ n = NULL THEN m = n
    ELSE Compare(h, m, n, cs) /\ CompareElements(h, h.next[m], h.next[n], cs)

Compare(h, a, b, cs) ==
    /\ SameType(h, a, b)
    /\ \/ a = b
       \/ h.type[a] = "Null"
       \/ h.type[a] = "String" /\ SameText(h, a, b)
       \/ h.type[a] = "Array" /\ CompareElements(h, h.child[a], h.child[b], cs)
       \/ h.type[a] = "Object" /\ MembersMatch(h, a, b, cs)

-----------------------------------------------------------------------------
(* Properties *)

\* For objects whose keys are unambiguous, cJSON_Compare calls equal what is
\* the same down to the order of the members, and nothing that does not say the
\* same.  Of the same members in another order the documents disagree (README.md,
\* line 158; tests/diff_utils.rs, line 52), and nothing is said.
CompareIsEquality ==
    \A cs \in BOOLEAN :
        LET clear == {n \in heap.live : Unambiguous(n, cs)}
        IN  \A m, n \in clear :
                /\ SameInOrder(m, n, cs) => Compare(heap, m, n, cs)
                /\ Compare(heap, m, n, cs) => SameValue(m, n, cs)

\* Repeated or missing keys included, the answer does not depend on which
\* object is asked about the other, and what equals one of two equal objects
\* equals the other.
CompareIsConsistent ==
    \A cs \in BOOLEAN :
        LET objects == {n \in heap.live : heap.type[n] = "Object"}
            equal == [m \in objects |-> {n \in objects : Compare(heap, m, n, cs)}]
        IN  \A m \in objects : \A n \in equal[m] : equal[n] = equal[m]

\* The lookup behind every call that takes a key finds the first item that
\* matches; asked with regard to case, it finds none beyond an item without a
\* key.
LookupFindsFirst ==
    \A p \in Flat, name \in palette.keys, cs \in BOOLEAN :
        Lookup(heap, heap.child[p], name, cs) = GetObjectItem(heap, p, name, cs)
=============================================================================
