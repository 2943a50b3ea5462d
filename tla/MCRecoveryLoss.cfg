SPECIFICATION Spec
CONSTANTS
    MaxID = 20
    JournalLimit = 3
    Suggestions = FALSE
    Faults = {"restart"}
    MaxFaults = 1
    Contexts <- EditorOnly
    Keys = {"letter", "space"}
    Events = {}
    MaxKeys = 2
    MaxEvents = 5
INVARIANTS
    RecoveryKeepsInput
CHECK_DEADLOCK FALSE
