CONSTANTS
    MaxWalletNameLength = 2
    MaxPolicyMapStrLength = 2
    RootLength = 2
    Inputs <- AllHeaders
SPECIFICATION Spec
INVARIANT NoTrailingBytes
CHECK_DEADLOCK FALSE
