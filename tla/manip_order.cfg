SPECIFICATION Spec
CONSTANTS
    NULL = NULL
    Node = {n1, n2, n3, n4, n5}
    Str = {s1}
    Name = {"a"}
    Lower <- MCLower
    StrLen <- MCStrLen
    Kind = {"Array"}
    MayFail = TRUE
    Borrow = FALSE
SYMMETRY Addresses
INVARIANTS ListsWellLinked SingleOwner
PROPERTY ImplementsForest
