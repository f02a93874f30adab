CONSTANTS
    Alphabet <- ThreshAlphabet
    MaxLen = 6
    ArenaCap = 4
    MaxCosigners = 2
    LockTimeLimit = 3
    MaxWrapperRun = 2
SPECIFICATION Spec
INVARIANT ThreshKAtMostN
CHECK_DEADLOCK FALSE
