CONSTANTS
    Alphabet <- SortedMultiAlphabet
    MaxLen = 12
    ArenaCap = 4
    MaxCosigners = 2
    LockTimeLimit = 3
    MaxWrapperRun = 2
SPECIFICATION Spec
INVARIANT NoNestedSegwitSortedMulti
CHECK_DEADLOCK FALSE
