SPECIFICATION Spec
CONSTANTS
    u1 = u1
    t1 = t1
    t2 = t2
    Uploads = {u1}
    Tabs = {t1, t2}
    Expire = 2
    MaxPolls = 4
    MaxWriters = 2
    Faults = {"clear", "network"}
SYMMETRY Symmetry
INVARIANTS
    NeverEmptyHanded
    StaleHasCause
    StaleIsBounded
PROPERTIES
    GivesUpLate
