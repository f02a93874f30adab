CONSTANTS
    Alphabet <- ThreshListAlphabet
    MaxLen = 15
    ArenaCap = 9
    MaxCosigners = 2
    LockTimeLimit = 3
    MaxWrapperRun = 2
SPECIFICATION Spec
INVARIANTS TreeMatchesInput
CHECK_DEADLOCK FALSE
