SPECIFICATION Spec
CONSTANTS
    s1 = s1
    s2 = s2
    nobody = nobody
    Sessions = {s1, s2}
    NoSession = nobody
    StagingSessions = {s1}
    Scenarios <- Speculating
    MaxQueue = 1
INVARIANTS
    HybridInv
    LearnableFenced
    LearningNeverWaits
    SecureHoldsNothing
PROPERTIES
    OrderLocked
