SPECIFICATION FairSpec
CONSTANTS
    a1 = a1
    a2 = a2
    Addresses = {a1}
    LoopsInstalled = FALSE
    MaxGeneration = 1
    MaxDisturbances = 1
    UserDeletes = {"contact", "group", "membership"}
    UserRemoves = TRUE
    UsersWait = TRUE
    RelistLags = FALSE
    ContactIsUser = TRUE
INVARIANTS TypeOK NobodyLeftBehind MembershipGoesFirst RemovedIsLeaving IInv BackedUnedited
PROPERTIES GoesOnWithoutIt DeletionsComplete RemovalTakesEffect
ACTION_CONSTRAINT OneRequest
CHECK_DEADLOCK FALSE
