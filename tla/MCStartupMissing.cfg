\* Starts only, one of them in an environment without a password for the
\* database.
SPECIFICATION Spec
CONSTANTS
    jwt = jwt
    database = database
    old = old
    new = new
    read = read
    relabel = relabel
    Fields = {jwt, database}
    JwtField = jwt
    Values = {old, new}
    Empty = Empty
    Absent = Absent
    Policies = {read, relabel}
    Environments <- SomeEnvironments
    Faults = {}
INVARIANTS
    MissingIsSeeded
