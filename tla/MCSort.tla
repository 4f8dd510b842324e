------------------------------- MODULE MCSort -------------------------------
(* Small instances of Sort for TLC: "A" and "a" differ in case only. *)
EXTENDS Sort, TLC

MCRank == [x \in Name |-> CASE x = "A" -> 1 [] x = "a" -> 2 [] OTHER -> 3]
MCLower == [x \in Name |-> IF x = "A" THEN "a" ELSE x]
MCStrLen == [x \in Name |-> 1]
Addresses == Permutations(Node)
=============================================================================
