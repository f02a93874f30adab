CONSTANTS
    W = 8
    Inputs <- AllInputs
SPECIFICATION Spec
INVARIANTS TypeOK OverflowNoFalseAlarm
CHECK_DEADLOCK FALSE
