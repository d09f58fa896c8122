CONSTANTS
    NoValue = NoValue
    Keys <- MCKeys
    Callers = {c1, c2}
    KeyLists <- MCKeyLists
    KeyPrefixes <- MCKeyPrefixes
    CacheOnly <- MCOneKey
    Blank <- MCBlank
    MaxWrites = 2
SPECIFICATION FairSpec
INVARIANTS
    TypeOK
    CachedValuesWereStored
    StaleOnlyIfDisturbed
    ResultsIndexed
PROPERTY EventuallyCoherent
