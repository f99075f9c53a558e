SPECIFICATION Spec
CONSTANTS
    a1 = a1
    a2 = a2
    h1 = h1
    h2 = h2
    Addresses = {a1, a2}
    LoopsInstalled = FALSE
    Handlers = {h1}
    ReportedEvents = {"contact.created"}
    MaxGeneration = 3
    MaxDisturbances = 0
    MaxDeliveries = 1
INVARIANT ObservedWasProcessed
CHECK_DEADLOCK FALSE
