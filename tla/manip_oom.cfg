SPECIFICATION Spec
CONSTANTS
    NULL = NULL
    Node = {n1, n2, n3}
    Str = {s1, s2}
    Name = {"a", "bb"}
    Lower <- MCLower
    StrLen <- MCStrLen
    Kind = {"Object"}
    MayFail = TRUE
    Borrow = TRUE
SYMMETRY Addresses
INVARIANTS OnlyReferencesLost StringsOwnedOnce NoFault
