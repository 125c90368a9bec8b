SPECIFICATION Spec
CONSTANTS
    m1 = m1
    m2 = m2
    a1 = a1
    a2 = a2
    a3 = a3
    q1 = q1
    q2 = q2
    Members = {m1, m2}
    Addresses = {a1, a2, a3}
    Requests = {q1, q2}
    None = None
    Gone = Gone
    Wrong = Wrong
    TTL = 1
    Window = 1
    MaxGuesses = 1
    MaxRows = 2
    MaxTime = 2
    Leap = 2
SYMMETRY Symmetry
INVARIANTS
    
    CodesLimited
    
PROPERTIES
    ChangeIsProven
