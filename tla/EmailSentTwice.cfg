SPECIFICATION Spec
CONSTANTS
    e1 = e1
    e2 = e2
    h1 = h1
    h2 = h2
    Emails = {e1}
    Handlers = {h1}
    Failures = {"refused"}
    ReportedEvents = {"email.delivered"}
    MaxUid = 1
    MaxMessages = 2
    MaxDisturbances = 1
    MaxDeliveries = 0
    Priority <- PriorityHigh
    Wait <- WaitDefaults
INVARIANT OneMessagePerEmail
CHECK_DEADLOCK FALSE
