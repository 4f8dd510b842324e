SPECIFICATION SortSpec
CONSTANTS
    NULL = NULL
    Node = {n1, n2, n3, n4}
    Str = {}
    Name = {"a", "A", "b"}
    Lower <- MCLower
    StrLen <- MCStrLen
    Rank <- MCRank
    Kind = {"Object"}
    MayFail = FALSE
    Borrow = FALSE
SYMMETRY Addresses
PROPERTY AppendAppends
