\* Two requests at a time and no failure: the count races.
SPECIFICATION Spec
CONSTANTS
    ann = ann
    bob = bob
    joe = joe
    r1 = r1
    r2 = r2
    Admins = {ann, bob}
    Reviewers = {}
    Auditors = {}
    Newcomers = {}
    Demo = {}
    Requests = {r1, r2}
    Nobody = Nobody
    Faults = {}
INVARIANTS
    LastAdminKept
CHECK_DEADLOCK FALSE
