-------------------------------- MODULE Document --------------------------------
(***************************************************************************)
(* JSON Patch as RFC 6902 defines it, on values: the reference for the      *)
(* patches of src/utils.rs, written from the standard the header names and  *)
(* not from the code.  An operation is a record with the fields op, path,   *)
(* from and value; Missing stands for a field that is not there.            *)
(*                                                                         *)
(* The machine at the end performs a list of operations in turn until one   *)
(* is an error: the promise that the pointer code of Patch keeps.  The      *)
(* header says that this is not atomic: the ones before stay, and a replace *)
(* or move may have taken its source out before it fails.                   *)
(***************************************************************************)
EXTENDS Integers, SequencesExt

CONSTANT Missing

Pointer == INSTANCE Rfc6901

\* the document after its root has been removed
NoDocument == [type |-> "Invalid"]

-----------------------------------------------------------------------------
(* Places in a value.  A place is a sequence of reference tokens.            *)

Index(token) == IF Pointer!IsIndex(token) THEN Pointer!IndexValue(token) + 1 ELSE 0
MemberName(token) == IF Pointer!IsEscaped(token) THEN Pointer!Unescape(token) ELSE Missing

Child(v, token) ==
    IF v.type = "Array" /\ Index(token) \in DOMAIN v.items THEN v.items[Index(token)]
    ELSE IF v.type = "Object" /\ MemberName(token) \in DOMAIN v.members THEN v.members[MemberName(token)]
    ELSE Missing

RECURSIVE Get(_, _)
Get(v, place) ==
    IF v = Missing \/ place = <<>> THEN v ELSE Get(Child(v, place[1]), Tail(place))

\* v with w where there is a value now
RECURSIVE Put(_, _, _)
Put(v, place, w) ==
    IF place = <<>> THEN w
    ELSE LET inner == Put(Child(v, place[1]), Tail(place), w)
         IN  IF v.type = "Array" THEN [v EXCEPT !.items[Index(place[1])] = inner]
             ELSE [v EXCEPT !.members[MemberName(place[1])] = inner]

\* parent with w added under a token
AddChild(parent, token, w) ==
    LET at == IF token = <<"-">> THEN Len(parent.items) + 1 ELSE Index(token)
    IN  IF parent = Missing THEN Missing
        ELSE IF parent.type = "Array"
        THEN IF at \in 1..(Len(parent.items) + 1)
             THEN [parent EXCEPT !.items = InsertAt(@, at, w)] ELSE Missing
        ELSE IF parent.type = "Object" /\ MemberName(token) # Missing
        THEN [parent EXCEPT !.members = (MemberName(token) :> w) @@ @]
        ELSE Missing

RemoveChild(parent, token) ==
    IF parent.type = "Array" THEN [parent EXCEPT !.items = RemoveAt(@, Index(token))]
    ELSE [parent EXCEPT !.members = [k \in DOMAIN @ \ {MemberName(token)} |-> @[k]]]

-----------------------------------------------------------------------------
(* The operations, section 4.  Missing: the operation is an error.           *)

Add(v, place, w) ==
    IF place = <<>> THEN w
    ELSE LET parent == AddChild(Get(v, Front(place)), Last(place), w)
         IN  IF parent = Missing THEN Missing ELSE Put(v, Front(place), parent)

Without(v, place) ==
    IF Get(v, place) = Missing THEN Missing
    ELSE IF place = <<>> THEN NoDocument
    ELSE Put(v, Front(place), RemoveChild(Get(v, Front(place)), Last(place)))

Replace(v, place, w) == IF Get(v, place) = Missing THEN Missing ELSE Put(v, place, w)

Copy(v, from, place) ==
    IF Get(v, from) = Missing THEN Missing ELSE Add(v, place, Get(v, from))

\* a value cannot be moved into one of its own
Move(v, from, place) ==
    IF Get(v, from) = Missing \/ IsStrictPrefix(from, place) THEN Missing
    ELSE Add(Without(v, from), place, Get(v, from))

WellFormed(o) ==
    /\ o.path # Missing /\ Pointer!IsPointer(o.path)
    /\ o.op \in {"add", "replace", "test"} => o.value # Missing
    /\ o.op \in {"move", "copy"} => o.from # Missing /\ Pointer!IsPointer(o.from)

Perform(v, o) ==
    LET place == Pointer!Tokens(o.path)
        from == Pointer!Tokens(o.from)
    IN  IF ~WellFormed(o) THEN Missing
        ELSE CASE o.op = "add" -> Add(v, place, o.value)
               [] o.op = "remove" -> Without(v, place)
               [] o.op = "replace" -> Replace(v, place, o.value)
               [] o.op = "move" -> Move(v, from, place)
               [] o.op = "copy" -> Copy(v, from, place)
               [] o.op = "test" -> IF Get(v, place) = o.value THEN v ELSE Missing
               [] OTHER -> Missing

-----------------------------------------------------------------------------
(* What a list of patches does to a document.                                *)

VARIABLES
    doc,       \* the value of the document
    todo,      \* the operations to perform
    ended      \* no operation is performed any more

vars == <<doc, todo, ended>>

Succeeds ==
    LET result == Perform(doc, Head(todo))
    IN  /\ todo # <<>> /\ ~ended /\ result # Missing
        /\ doc' = result
        /\ todo' = Tail(todo)
        /\ UNCHANGED ended

\* the place a replace or move takes its source from
Sources(o) ==
    IF o.op = "replace" THEN {o.path} ELSE IF o.op = "move" THEN {o.from} ELSE {}

Fails ==
    /\ todo # <<>> /\ ~ended /\ Perform(doc, Head(todo)) = Missing
    /\ \/ UNCHANGED doc
       \/ \E p \in Sources(Head(todo)) \ {Missing, <<>>} :
            doc' = Without(doc, Pointer!Tokens(p)) /\ doc' # Missing
    /\ ended' = TRUE
    /\ UNCHANGED todo

\* the client deletes the document when the call has returned
Deletes ==
    /\ doc # Missing /\ (ended \/ todo = <<>>)
    /\ doc' = Missing /\ todo' = <<>> /\ ended' = TRUE

Next == Succeeds \/ Fails \/ Deletes

Spec == ~ended /\ [][Next]_vars
=============================================================================
