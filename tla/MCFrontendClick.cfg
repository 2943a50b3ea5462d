SPECIFICATION Spec
CONSTANTS
    MaxID = 20
    JournalLimit = 3
    Suggestions = FALSE
    Faults = {"break", "refuse"}
    MaxFaults = 2
    Contexts <- Frontends
    Keys = {"letter", "space"}
    Events = {"click", "capability"}
    MaxKeys = 2
    MaxEvents = 6
INVARIANTS
    ShownAccounted
CHECK_DEADLOCK FALSE
