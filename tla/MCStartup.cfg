\* Any starts in any environments, reads that fail, an operator who stores
\* secrets and a Vault that loses them.
SPECIFICATION Spec
CONSTANTS
    jwt = jwt
    database = database
    old = old
    new = new
    read = read
    relabel = relabel
    Fields = {jwt, database}
    JwtField = jwt
    Values = {old, new}
    Empty = Empty
    Absent = Absent
    Policies = {read, relabel}
    Environments <- AllEnvironments
    Faults = {"read", "store", "lose"}
INVARIANTS
    ServesVault
    PoliciesComplete
PROPERTIES
    SecretsSurvive
    KeyOutlivesRestarts
