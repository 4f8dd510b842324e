------------------------------- MODULE MCCopy -------------------------------
(* Small instances of Copy for TLC. *)
EXTENDS Copy

MCLower == [x \in Name |-> x]
MCStrLen == [x \in Name |-> 1]
=============================================================================
