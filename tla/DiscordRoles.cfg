SPECIFICATION FairSpec
CONSTANTS
    m1 = m1
    m2 = m2
    d1 = d1
    d2 = d2
    q1 = q1
    q2 = q2
    Bronze = Bronze
    None = None
    Members = {m1}
    Accounts = {d1, d2}
    Requests = {q1, q2}
    Roles = {Bronze}
    MaxStarts = 2
    MayFail = TRUE
INVARIANTS
    LinksAndRoles
PROPERTIES
    RolesSettle
