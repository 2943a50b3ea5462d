SPECIFICATION Spec
CONSTANTS
    MaxID = 20
    JournalLimit = 3
    Suggestions = FALSE
    Faults = {"slow", "stop"}
    MaxFaults = 2
    Contexts <- EditorOnly
    Keys = {"letter", "space", "return", "backspace"}
    Events = {}
    MaxKeys = 1
    MaxEvents = 6
PROPERTIES
    UndoHonoured
CHECK_DEADLOCK FALSE
