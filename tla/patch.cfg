SPECIFICATION Spec
CONSTANTS
    NULL = NULL
    Node = {n1, n2, n3, n4, n5, n6, n7, n8, n9, n10, n11, n12, n13, n14, n15, n16, n17, n18, n19, n20, n21, n22, n23, n24, n25, n26}
    Str = {s1, s2, s3, s4, s5, s6, s7, s8, s9, s10, s11, s12, s13, s14, s15, s16, s17, s18, s19, s20, s21, s22, s23, s24}
    Name <- MCName
    Lower <- MCLower
    StrLen <- MCStrLen
    Rank <- MCRank
    FoldChar <- MCFold
    WordSize = 1000
    CircularLimit = 100
    Documents <- MCDocuments
    Lists <- MCLists
    Memory <- MCMemory
INVARIANT EverythingFreed
PROPERTY ImplementsDocument
CHECK_DEADLOCK FALSE
