CONSTANTS
    None = None
    Pods = {q1, q2}
    Definitions <- MCDefinitions
    Environments <- MCEnvironments
    Partitions = {p1}
    MaxMessages = 2
    MaxProduced = 2
    MaxDisturbances = 1
SPECIFICATION FairSpec
INVARIANTS
    TypeOK
    NothingSkipped
    RepeatsOnlyIfDisturbed
PROPERTY
    EveryGroupServed
