SPECIFICATION FairSpec
CONSTANTS
    a1 = a1
    a2 = a2
    h1 = h1
    h2 = h2
    Addresses = {a1}
    LoopsInstalled = TRUE
    Handlers = {h1}
    ReportedEvents = {"contact.created", "contact.updated"}
    MaxGeneration = 1
    MaxDisturbances = 2
    MaxDeliveries = 1
INVARIANTS NoContactStranded ReadyIsBacked GoneFromResend IInv RecordsOK
PROPERTY DeletionCompletes
ACTION_CONSTRAINT LoopsOrWebhook
CHECK_DEADLOCK FALSE
