-------------------------------- MODULE Rfc6901 --------------------------------
(***************************************************************************)
(* JSON Pointer as RFC 6901 defines it, on sequences of characters: the     *)
(* reference for the pointers of src/utils.rs, written from the standard    *)
(* the header names and not from the code.                                  *)
(***************************************************************************)
EXTENDS Integers, SequencesExt

Digit == "0" :> 0 @@ "1" :> 1 @@ "2" :> 2 @@ "3" :> 3 @@ "4" :> 4
         @@ "5" :> 5 @@ "6" :> 6 @@ "7" :> 7 @@ "8" :> 8 @@ "9" :> 9

IsPointer(p) == p = <<>> \/ p[1] = "/"

\* the number of characters of s before its first "/"
TokenLength(s) ==
    LET slashes == {k \in DOMAIN s : s[k] = "/"}
    IN  IF slashes = {} THEN Len(s) ELSE Min(slashes) - 1

\* the reference tokens of a pointer, still escaped
RECURSIVE Tokens(_)
Tokens(p) ==
    IF p = <<>> THEN <<>>
    ELSE LET s == Tail(p)
         IN  <<SubSeq(s, 1, TokenLength(s))>> \o Tokens(SubSeq(s, TokenLength(s) + 1, Len(s)))

IsEscaped(t) ==
    \A k \in DOMAIN t : t[k] = "~" => k < Len(t) /\ t[k + 1] \in {"0", "1"}

RECURSIVE Unescape(_)
Unescape(t) ==
    IF t = <<>> THEN <<>>
    ELSE IF t[1] = "~"
    THEN <<IF t[2] = "1" THEN "/" ELSE "~">> \o Unescape(SubSeq(t, 3, Len(t)))
    ELSE <<t[1]>> \o Unescape(Tail(t))

IsIndex(t) ==
    t # <<>> /\ (\A k \in DOMAIN t : t[k] \in DOMAIN Digit) /\ (t[1] = "0" => Len(t) = 1)

IndexValue(t) == FoldLeft(LAMBDA n, c : 10 * n + Digit[c], 0, t)
=============================================================================
