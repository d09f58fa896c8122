CONSTANTS
    Undefined = Undefined
    Keys <- MCKeys
    Loads = {l1, l2}
    MaxItems = 1
    Batches = {1, 2, 3}
    MaxVersion = 1
SPECIFICATION LoaderFairSpec
INVARIANTS
    LoaderTypeOK
    LoadsOwnFreshItem
PROPERTY CacheHeals
