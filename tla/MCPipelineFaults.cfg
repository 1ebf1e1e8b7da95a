SPECIFICATION Spec
CONSTANTS
    u1 = u1
    u2 = u2
    u3 = u3
    w1 = w1
    w2 = w2
    Nothing = Nothing
    Uploads = {u1, u2, u3}
    Unsupported = {u3}
    Unreadable = {}
    Workers = {w1, w2}
    Faults <- AnyFaults
SYMMETRY Symmetry
INVARIANTS
    JobBacked
    PredictionAudited
    DoneHasPrediction
    FinishedMeansDone
PROPERTIES
    FinalStatusKept
    JobForward
    ImplementsPromise
CHECK_DEADLOCK FALSE
