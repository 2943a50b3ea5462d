SPECIFICATION FairSpec
CONSTANTS
    c1 = c1
    c2 = c2
    Conns = {c1, c2}
    Fds = {5, 6, 7}
    MaximumClients = 2
    MaximumRead = 3
    MaximumPending = 3
    PipeCapacity = 1
    MaxRequests = 2
PROPERTIES
    RequestsServed
    AnswersDelivered
    LeaversForgotten
CHECK_DEADLOCK FALSE
