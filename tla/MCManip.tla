------------------------------- MODULE MCManip -------------------------------
(* Small instances of Manip for TLC. *)
EXTENDS ManipInv, TLC

MCLower == [x \in Name |-> x]
MCStrLen == [x \in Name |-> IF x = "bb" THEN 2 ELSE 1]
Addresses == Permutations(Node) \cup Permutations(Str)
=============================================================================
