SPECIFICATION Spec
CONSTANTS
    m1 = m1
    m2 = m2
    n1 = n1
    n2 = n2
    q1 = q1
    q2 = q2
    Members = {m1, m2}
    Names = {n1, n2}
    Requests = {q1, q2}
    None = None
    HoldDays = 1
    CooldownDays = 2
    MaxTime = 3
SYMMETRY Symmetry
INVARIANTS
    
    
    ChangesSpaced
PROPERTIES
    HoldSeen
