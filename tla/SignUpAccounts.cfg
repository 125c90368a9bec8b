SPECIFICATION Spec
CONSTANTS
    e1 = e1
    e2 = e2
    r1 = r1
    r2 = r2
    q1 = q1
    q2 = q2
    c1 = c1
    c2 = c2
    Emails = {e1, e2}
    Invited = {e1}
    Rows = {r1, r2}
    Requests = {q1, q2}
    Codes = {c1, c2}
    None = None
    CodeTTL = 2
    MaxAttempts = 2
    MaxSends = 2
    ResendCooldown = 1
    MaxTime = 2
SYMMETRY Symmetry
INVARIANTS
    EveryGuessPaid
    SendsSpaced
    OneAccountPerAddress
    AccountIsProven
    
PROPERTIES
    OnlyOwnAddressEndsASignUp
