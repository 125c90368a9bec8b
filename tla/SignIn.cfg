SPECIFICATION Spec
CONSTANTS
    b1 = b1
    b2 = b2
    Browsers <- MCBrowsers
    Codes = {1}
    OnceWindow = 4
    MaxTime = 2
    MaxSecrets = 2
    MaxResets = 1
    MayFail = TRUE
SYMMETRY Symmetric
INVARIANTS SecondFactorHolds TrustForgotten 
CHECK_DEADLOCK FALSE
