SPECIFICATION FairSpec
CONSTANTS
    a = a
    b = b
    txt = txt
    Names = {a, b, txt}
    Tiffs = {a, b}
    MaxDrops = 3
    MaxJobs = 3
    Faults = {"pass", "restart", "replace"}
INVARIANTS
    DuplicatesExplained
    ArchivedIsIngested
    RememberedIsDone
    StuckWasForgotten
PROPERTIES
    KeepsInbox
    FirstDropHandled
