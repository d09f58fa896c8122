CONSTANTS
    None = None
    Requests = {r1, r2}
    Tokens = {"admin", "user"}
    Admins = {"admin"}
    CacheKeys <- MCKeys
    Inputs <- MCInputs
    HasProducer = FALSE
SPECIFICATION Spec
INVARIANTS
    TypeOK
    RefusalsChangeNothing
    GuardedForAdmins
    ExpireLeavesNothingOld
