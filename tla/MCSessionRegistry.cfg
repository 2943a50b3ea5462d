SPECIFICATION Spec
CONSTANTS
    f1 = f1
    f2 = f2
    f3 = f3
    NoFd = NoFd
    Fds = {f1, f2, f3}
    SessionIDs = {1, 2, 3, 4}
    ConfiguredSessions = 3
    ConfiguredSessionsPerOwner = 2
    IdleTimeout = 1
    MaxTime = 3
    MaxLearning = 2
SYMMETRY FdSymmetry
INVARIANTS
    RegistryInv
    ForgottenStaysForgotten
PROPERTIES
    OnlyOwnEvicted
    RefusalJustified
