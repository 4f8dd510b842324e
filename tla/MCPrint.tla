------------------------------- MODULE MCPrint -------------------------------
(* Small instances of Printer for TLC. *)
EXTENDS Printer

\* up to two of the things in T
UpToTwo(T) == {<<>>} \cup {<<x>> : x \in T} \cup {<<x, y>> : x \in T, y \in T}

Containers(T) ==
    {Array(s) : s \in UpToTwo(T)} \cup {Object(s) : s \in UpToTwo({3} \X T)}

Leaves == {Leaf(2), Digits(1)}
Flat == Containers(Leaves)
Nested == Containers({Leaf(4), Array(<<Digits(1), Leaf(2)>>), Object(<<<<2, Leaf(3)>>>>)})
Odd == {Array(<<Leaf(2), Invalid>>), Invalid, Array(<<Array(<<Array(<<>>)>>)>>),
        Object(<<<<2, Array(<<Object(<<>>)>>)>>>>)}

Documents == (Leaves \cup Flat \cup Nested \cup Odd) \X BOOLEAN
MCJobs == [d \in Documents |-> Job(d[1], d[2])]
MCSizes == 0..30
=============================================================================
