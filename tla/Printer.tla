-------------------------------- MODULE Printer --------------------------------
(***************************************************************************)
(* What src/print.rs asks of PrintBuffer for a value: the reservations and *)
(* writes of print_value, print_array and print_object, in their order.    *)
(* Texts are widths; values are trees.                                     *)
(***************************************************************************)
EXTENDS PrintBuffer

CONSTANT NestingLimit    \* CJSON_NESTING_LIMIT

\* a literal, string or raw text of some width, a number of some width, an
\* item without a printable type
Leaf(width) == [kind |-> "leaf", width |-> width]
Digits(width) == [kind |-> "number", width |-> width]
Invalid == [kind |-> "invalid"]

Array(elements) == [kind |-> "array", of |-> elements]
\* members are pairs of the width of the quoted key and a value
Object(members) == [kind |-> "object", of |-> members]

\* "[" needs no room to spare, "{" may be followed by a newline
Gap(format) == IF format THEN 2 ELSE 1

-----------------------------------------------------------------------------
(* The steps.  depth is the depth at which the value stands. *)

RECURSIVE Steps(_, _, _), ElementSteps(_, _, _), MemberSteps(_, _, _)

Steps(v, depth, format) ==
    CASE v.kind = "leaf" -> <<Put(v.width + 1, v.width, TRUE, 0)>>
      [] v.kind = "number" -> <<Put(v.width + 1, v.width, TRUE, v.width)>>
      [] v.kind = "invalid" -> <<Stop>>
      [] v.kind # "invalid" /\ depth >= NestingLimit -> <<Stop>>
      [] v.kind = "array" /\ depth < NestingLimit ->
            <<Put(1, 1, FALSE, 1)>> \o ElementSteps(v.of, depth + 1, format)
            \o <<Put(2, 1, TRUE, 0)>>
      [] v.kind = "object" /\ depth < NestingLimit ->
            <<Put(Gap(format) + 1, Gap(format), FALSE, Gap(format))>>
            \o MemberSteps(v.of, depth + 1, format)
            \o <<IF format THEN Put(depth + 2, depth + 1, TRUE, 0) ELSE Put(2, 1, TRUE, 0)>>

ElementSteps(es, depth, format) ==
    IF es = <<>> THEN <<>>
    ELSE Steps(Head(es), depth, format) \o <<Update>>
         \o (IF Len(es) = 1 THEN <<>>
             ELSE <<Put(Gap(format) + 1, Gap(format), TRUE, Gap(format))>>)
         \o ElementSteps(Tail(es), depth, format)

\* the key, and the colon
KeySteps(width, format) ==
    <<Put(width + 1, width, TRUE, 0), Update, Put(Gap(format), Gap(format), FALSE, Gap(format))>>

MemberSteps(ms, depth, format) ==
    IF ms = <<>> THEN <<>>
    ELSE LET m == Head(ms)
             last == Len(ms) = 1
             end == (IF format THEN 1 ELSE 0) + (IF last THEN 0 ELSE 1)
         IN  (IF format THEN <<Put(depth, depth, FALSE, depth)>> ELSE <<>>)
             \o KeySteps(m[1], format)
             \o Steps(m[2], depth, format) \o <<Update, Put(end + 1, end, TRUE, end)>>
             \o MemberSteps(Tail(ms), depth, format)

-----------------------------------------------------------------------------
(* The text of a value, as JSON has it: its width, and whether it has one *)

RECURSIVE Printable(_, _), Width(_, _, _)

Printable(v, depth) ==
    CASE v.kind \in {"leaf", "number"} -> TRUE
      [] v.kind = "invalid" -> FALSE
      [] v.kind = "array" ->
            depth < NestingLimit /\ \A k \in DOMAIN v.of : Printable(v.of[k], depth + 1)
      [] v.kind = "object" ->
            depth < NestingLimit /\ \A k \in DOMAIN v.of : Printable(v.of[k][2], depth + 1)

Sum(s) == LET sum[k \in 0..Len(s)] == IF k = 0 THEN 0 ELSE sum[k - 1] + s[k] IN sum[Len(s)]

\* "[a, b]"; and, at depth 0, "{ NL TAB key : TAB a , NL ... NL }"
Width(v, depth, format) ==
    CASE v.kind \in {"leaf", "number"} -> v.width
      [] v.kind = "invalid" -> 0
      [] v.kind = "array" ->
            LET n == Len(v.of) IN
            2 + Sum([k \in 1..n |-> Width(v.of[k], depth + 1, format)])
              + (IF n = 0 THEN 0 ELSE (n - 1) * Gap(format))
      [] v.kind = "object" ->
            LET n == Len(v.of)
                member(k) == v.of[k][1] + 1 + Width(v.of[k][2], depth + 1, format)
            IN  2 + Sum([k \in 1..n |-> member(k)]) + (IF n = 0 THEN 0 ELSE n - 1)
                  + (IF format THEN 1 + n * (depth + 3) + depth ELSE 0)

Job(v, format) ==
    [ops |-> Steps(v, 0, format), width |-> Width(v, 0, format), printable |-> Printable(v, 0)]

-----------------------------------------------------------------------------
(* What the theorems of PrintTheorems take the steps of a value to do *)

\* What is asked of the buffer for a value, step by step, puts its text together
\* piece by piece, writes over none, and reserves at most five bytes more than the
\* whole; a value without a text is given up.
ASSUME StepsSpellText == \A d \in DOMAIN Jobs : SpellsText(Jobs[d])
=============================================================================
