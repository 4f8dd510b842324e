SPECIFICATION Spec
CONSTANT Documents <- MCDocuments
INVARIANTS TypeOK UnreadIsUntouched OnlyBlanksAndCommentsGo
PROPERTY Terminates
CHECK_DEADLOCK FALSE
