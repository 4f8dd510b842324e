SPECIFICATION Spec
CONSTANTS
    NULL = NULL
    Node = {n1, n2, n3, n4, n5}
    Str = {s1, s2, s3, s4, s5}
    Name = {"a"}
    Lower <- MCLower
    StrLen <- MCStrLen
    NestingLimit <- MCLimit
    Texts <- MCTexts
    MayFail = TRUE
INVARIANTS InsideBuffer AllOrNothing AcceptsGrammar ResultRendersText
CHECK_DEADLOCK FALSE
