CONSTANTS
    NumProviders <- MCNumProviders
    Signals <- MCSignals
SPECIFICATION FairSpec
\* the process stops when it exits
CHECK_DEADLOCK FALSE
PROPERTY SignalDuringShutdownIgnored
