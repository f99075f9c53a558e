SPECIFICATION FairSpec
CONSTANTS
    a1 = a1
    a2 = a2
    Addresses = {a1}
    LoopsInstalled = TRUE
    MaxGeneration = 2
    MaxDisturbances = 1
    UserDeletes = {}
    UserRemoves = FALSE
    UsersWait = TRUE
    RelistLags = FALSE
    ContactIsUser = TRUE
INVARIANTS ClaimedMembershipIsBacked NoMembershipStranded
PROPERTIES LoopsReportIsKept EventuallyMember
CHECK_DEADLOCK FALSE
