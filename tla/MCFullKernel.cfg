CONSTANTS
    Signals <- MCSignals
    MaxOutages = 2
SPECIFICATION KernelFairSpec
INVARIANTS
    KernelTypeOK
    OnlyKnownLeaks
PROPERTY CloseLoopEnds
\* the process stops when it exits
CHECK_DEADLOCK FALSE
