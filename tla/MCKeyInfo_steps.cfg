CONSTANTS
    MaxBip32PathSteps = 2
    Inputs <- AllEntries
SPECIFICATION Spec
INVARIANT DerivationInBounds
CHECK_DEADLOCK FALSE
