SPECIFICATION FairSpec
CONSTANTS
    u1 = u1
    u2 = u2
    u3 = u3
    w1 = w1
    w2 = w2
    Nothing = Nothing
    Uploads = {u1, u2, u3}
    Unsupported = {}
    Unreadable = {u3}
    Workers = {w1}
    Faults <- MixedFaults
INVARIANT FailedIsReported
PROPERTIES
    VerdictRight
    JobsEnd
    KeepsPromise
    VerdictKept
CHECK_DEADLOCK FALSE
