CONSTANTS
    NumProviders <- MCNumProviders
    Signals <- MCSignals
SPECIFICATION FairSpec
INVARIANTS
    TypeOK
    OrderedLifecycle
    TimerGuardsClosing
PROPERTY ShutdownRunsOnce
\* the process stops when it exits
CHECK_DEADLOCK FALSE
