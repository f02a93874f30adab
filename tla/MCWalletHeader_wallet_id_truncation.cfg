CONSTANTS
    MaxWalletNameLength = 2
    MaxPolicyMapStrLength = 2
    RootLength = 2
    Inputs <- CanonicalHeaders
SPECIFICATION Spec
INVARIANT WalletIdCommitsToHeader
CHECK_DEADLOCK FALSE
