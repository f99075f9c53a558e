SPECIFICATION FairSpec
CONSTANTS
    a1 = a1
    a2 = a2
    h1 = h1
    h2 = h2
    Addresses = {a1, a2}
    LoopsInstalled = TRUE
    Handlers = {h1}
    ReportedEvents = {"contact.created", "contact.deleted"}
    MaxGeneration = 2
    MaxDisturbances = 0
    MaxDeliveries = 1
INVARIANTS ObservedWasProcessed ReplacedIsGone
PROPERTIES ConfirmsWhatWasReported RecordedWhenThere EventuallyInSync
ACTION_CONSTRAINT FirstAddress
CHECK_DEADLOCK FALSE
