SPECIFICATION FairSpec
CONSTANTS
    u1 = u1
    u2 = u2
    u3 = u3
    w1 = w1
    w2 = w2
    Nothing = Nothing
    Uploads = {u1}
    Unsupported = {}
    Unreadable = {}
    Workers = {w1}
    Faults <- NoFaults
PROPERTY ReachesDone
CHECK_DEADLOCK FALSE
