SPECIFICATION Spec
CONSTANTS
    NULL = NULL
    Node = {n1, n2, n3, n4, n5, n6}
    Str = {}
    Name <- MCName
    Lower <- MCLower
    StrLen <- MCStrLen
    Palettes <- MCPalettes
    FoldChar <- MCFold
    WordSize = 1000
INVARIANTS CompareIsEquality CompareIsConsistent LookupFindsFirst
           PointerLeadsBack FindsWhatRfcRefersTo
CHECK_DEADLOCK FALSE
