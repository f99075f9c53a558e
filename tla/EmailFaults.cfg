SPECIFICATION FairSpec
CONSTANTS
    e1 = e1
    e2 = e2
    h1 = h1
    h2 = h2
    Emails = {e1}
    Handlers = {h1}
    Failures = {"refused"}
    ReportedEvents = {"email.delivered"}
    MaxUid = 2
    MaxMessages = 2
    MaxDisturbances = 2
    MaxDeliveries = 1
    Priority <- PriorityHigh
    Wait <- WaitDefaults
INVARIANTS RecordedIdIsKept WebhookStatusNotOverwritten NoEmailStranded IInv
PROPERTIES EventuallyRecorded ImplementsLedger
CHECK_DEADLOCK FALSE
