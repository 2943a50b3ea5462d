SPECIFICATION Spec
CONSTANTS
    MaxID = 20
    JournalLimit = 3
    Suggestions = FALSE
    Faults = {"break", "slow", "refuse", "restart", "stop"}
    MaxFaults = 2
    Contexts <- NamelessOnly
    Keys = {"letter", "space", "return", "backspace", "escape", "down"}
    Events = {"click", "reset", "focus", "destroy"}
    MaxKeys = 3
    MaxEvents = 7
INVARIANTS
    AddonInv
    ShownAccounted
    ShownIsServed
    NoOrphanSession
PROPERTIES
    TextDelivered
    KeySettles
CHECK_DEADLOCK FALSE
