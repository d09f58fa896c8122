CONSTANTS
    None = None
    Requests = {r1, r2}
    Users = {"u1"}
    UserRoles <- MCRoles
    Fields <- MCFields
    Resolver <- MCResolver
    Operations <- MCOperations
SPECIFICATION FairSpec
INVARIANTS
    TypeOK
    AnswerTellsFailure
    GuardedRunsForEntitled
PROPERTY EveryRequestAnswered
