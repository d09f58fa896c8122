CONSTANTS
    Signals <- MCSignals
    Environments <- MCEnvironments
    JobClasses <- MCJobClasses
    KafkaDefinitions <- MCKafkaDefinitions
    Injected <- MCInjected
    Conns <- MCConns
SPECIFICATION WorkEndsSpec
INVARIANTS
    TypeOK
    WorkFindsItsHandles
    ShutdownStopsWork
PROPERTY ShutdownEndsProcess
\* the process stops when it exits
CHECK_DEADLOCK FALSE
