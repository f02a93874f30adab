CONSTANTS
    MaxWalletNameLength = 2
    MaxPolicyMapStrLength = 2
    RootLength = 2
    Inputs <- AllHeaders
SPECIFICATION Spec
INVARIANTS TypeOK HeaderBuffersInBounds
PROPERTY DecoderRefinement
CHECK_DEADLOCK FALSE
