CONSTANTS
    MaxBip32PathSteps = 2
    Inputs <- AllEntries
SPECIFICATION Spec
INVARIANTS TypeOK KeyInfoMatchesInput KeyInfoComplete
CHECK_DEADLOCK FALSE
