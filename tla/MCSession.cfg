CONSTANTS
    alice = alice
    bob = bob
    t1 = t1
    t2 = t2
    first = first
    second = second
    Loads = {first, second}
    Users = {alice, bob}
    Tabs = {t1, t2}
    Expire = 1
    MaxLogins = 2
    Nobody = Nobody
SPECIFICATION Spec
SYMMETRY Symmetry
INVARIANTS
    OwnerOrRecent
    ActsForShown
    NoBlankPage
