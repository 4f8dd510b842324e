SPECIFICATION CopySpec
CONSTANTS
    NULL = NULL
    Node = {n1, n2, n3, n4, n5, n6, n7}
    Str = {s1, s2, s3, s4}
    Name = {"a"}
    Lower <- MCLower
    StrLen <- MCStrLen
    Kind = {"Object"}
    MayFail = FALSE
    Borrow = TRUE
    CircularLimit = 2
    MaxSource = 3
    MaxCount = 3
INVARIANTS CopyIsFaithful CopiesAreWhole DeletesWhatItReaches
PROPERTY FailureRestores
CHECK_DEADLOCK FALSE
