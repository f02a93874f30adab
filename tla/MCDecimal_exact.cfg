CONSTANTS
    W = 8
    Inputs <- AllInputs
SPECIFICATION Spec
INVARIANT DecimalExact
CHECK_DEADLOCK FALSE
