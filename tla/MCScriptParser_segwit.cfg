CONSTANTS
    Alphabet <- SegwitAlphabet
    MaxLen = 16
    ArenaCap = 6
    MaxCosigners = 2
    LockTimeLimit = 3
    MaxWrapperRun = 2
SPECIFICATION Spec
INVARIANTS TypeOK TreeMatchesInput ContextRules
CHECK_DEADLOCK FALSE
