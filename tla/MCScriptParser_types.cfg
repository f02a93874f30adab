CONSTANTS
    Alphabet <- CombinatorAlphabet
    MaxLen = 8
    ArenaCap = 4
    MaxCosigners = 2
    LockTimeLimit = 3
    MaxWrapperRun = 2
SPECIFICATION Spec
INVARIANTS DissatSound
CHECK_DEADLOCK FALSE
