SPECIFICATION Spec
CONSTANTS
    c1 = c1
    c2 = c2
    c3 = c3
    Conns = {c1, c2, c3}
    Fds = {5, 6, 7}
    MaximumClients = 2
    MaximumRead = 3
    MaximumPending = 3
    PipeCapacity = 1
    MaxRequests = 2
SYMMETRY ConnSymmetry
INVARIANTS
    SocketInv
    AnsweredInOrder
PROPERTIES
    ClosedForCause
CHECK_DEADLOCK FALSE
