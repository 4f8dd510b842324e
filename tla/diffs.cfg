SPECIFICATION Spec
CONSTANTS
    NULL = NULL
    Node = {n1, n2, n3, n4, n5, n6, n7, n8, n9, n10, n11, n12, n13, n14, n15, n16, n17, n18, n19, n20, n21, n22, n23, n24, n25, n26, n27, n28, n29, n30, n31, n32, n33, n34, n35, n36, n37, n38, n39, n40, n41, n42, n43, n44}
    Str = {s1, s2, s3, s4, s5, s6, s7, s8, s9, s10, s11, s12, s13, s14, s15, s16, s17, s18, s19, s20, s21, s22, s23, s24, s25, s26, s27, s28, s29, s30, s31, s32, s33, s34, s35, s36, s37, s38, s39, s40, s41, s42, s43, s44}
    Name <- MCName
    Lower <- MCLower
    StrLen <- MCStrLen
    Rank <- MCRank
    FoldChar <- MCFold
    WordSize = 1000
    CircularLimit = 100
    Documents <- MCDocuments
    Targets <- MCTargets
    Patches <- MCPatches
    Memory <- MCMemory
INVARIANTS PatchesLeadThere MergePatchLeadsThere MergesAsRfc7396 InputsKeepTheirValue
           EverythingFreed
CHECK_DEADLOCK FALSE
