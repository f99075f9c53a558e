SPECIFICATION Spec
CONSTANTS
    a1 = a1
    a2 = a2
    Addresses = {a1}
    LoopsInstalled = FALSE
    MaxGeneration = 3
    MaxDisturbances = 0
    UserDeletes = {}
    UserRemoves = FALSE
    UsersWait = TRUE
    RelistLags = FALSE
    ContactIsUser = TRUE
INVARIANT ClaimedMembershipIsBacked
CHECK_DEADLOCK FALSE
