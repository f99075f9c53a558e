SPECIFICATION Spec
CONSTANTS
    a1 = a1
    a2 = a2
    Addresses = {a1}
    LoopsInstalled = FALSE
    MaxGeneration = 1
    MaxDisturbances = 0
    UserDeletes = {"contact"}
    UserRemoves = FALSE
    UsersWait = FALSE
    RelistLags = FALSE
    ContactIsUser = TRUE
INVARIANT MembershipGoesFirst
CHECK_DEADLOCK FALSE
