SPECIFICATION Spec
CONSTANTS
    e1 = e1
    e2 = e2
    h1 = h1
    h2 = h2
    Emails = {e1, e2}
    Handlers = {h1, h2}
    Failures = {"refused"}
    ReportedEvents = {"email.delivered", "email.bounced"}
    MaxUid = 2
    MaxMessages = 1
    MaxDisturbances = 0
    MaxDeliveries = 2
    Priority <- PriorityLowAndUnknown
    Wait <- WaitDefaults
INVARIANTS RecordedIdIsTheMessage StatusIsResendsReport AnnouncedWasRecorded
SYMMETRY HandlerSymmetry
CHECK_DEADLOCK FALSE
