SPECIFICATION Spec
CONSTANTS
    Window = 128
    Behind = 63
    BadLimit = 64
    BadKept = 60
    Step = 128
    BadLeft = {65}
    Slip = 1
    MaxOut = 120
    MaxLate = 0
    MaxHeld = 0
    MaxSyn = 0
INVARIANTS
    RestoresInTime
CHECK_DEADLOCK FALSE
