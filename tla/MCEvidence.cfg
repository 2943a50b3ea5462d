SPECIFICATION Spec
SYMMETRY Interchangeable
CONSTANTS
    one = one
    two = two
    three = three
    Commands = {one, two, three}
    Cases <- SmallCases
    Score <- SmallScore
    AcceptedB0 = "below"
    Observed <- SmallObserved
    Metrics <- SmallMetrics
    Category <- SmallCategory
    Preferences <- SmallPreferences
    Scenarios <- SmallScenarios
INVARIANTS
    HonestVerdict
    NothingLeft
    EvidenceAuthentic
    AuditComplete
    B1RestsOnDecision
    FailsClosed
    PilotPassesPinned
    ReviewIsFair
PROPERTY PublishedOnce
