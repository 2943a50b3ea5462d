SPECIFICATION Spec
CONSTANTS
    MaxID = 20
    JournalLimit = 3
    Suggestions = FALSE
    Faults = {"break", "slow", "refuse", "restart", "evict", "clearLearning", "invalidate"}
    MaxFaults = 2
    Contexts <- AllContexts
    Keys = {"letter", "space", "return", "backspace"}
    Events = {"reset", "focus", "capability"}
    MaxKeys = 2
    MaxEvents = 6
INVARIANTS
    TaughtWasDelivered
    DomainIsolation
    SecureNotRetained
PROPERTIES
    UndoHonoured
    DeliveredInDomain
CHECK_DEADLOCK FALSE
