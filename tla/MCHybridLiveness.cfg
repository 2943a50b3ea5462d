SPECIFICATION LiveSpec
CONSTANTS
    s1 = s1
    s2 = s2
    nobody = nobody
    Sessions = {s1, s2}
    NoSession = nobody
    StagingSessions = {s1}
    Scenarios <- Waiting
    MaxQueue = 1
PROPERTIES
    RequestsReturn
    JobsWorkedOff
