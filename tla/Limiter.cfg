SPECIFICATION Spec
CONSTANTS
    k1 = k1
    k2 = k2
    Keys = {k1, k2}
    None = None
    Window = 3
    MaxUses = 2
    MaxTime = 5
    MaxCount = 4
SYMMETRY Symmetry
INVARIANTS
    BurstBounded
PROPERTIES
    RetryHonest
    KeepsQuota
