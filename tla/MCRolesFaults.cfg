\* Two requests at a time, one user registering, everything failing.
SPECIFICATION Spec
CONSTANTS
    ann = ann
    bob = bob
    joe = joe
    r1 = r1
    r2 = r2
    Admins = {ann}
    Reviewers = {}
    Auditors = {}
    Newcomers = {joe}
    Demo = {ann}
    Requests = {r1, r2}
    Nobody = Nobody
    Faults = {"db", "restart"}
SYMMETRY Symmetry
INVARIANTS
    RolesAgree
    AdminLeft
