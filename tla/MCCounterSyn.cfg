SPECIFICATION Spec
CONSTANTS
    Window = 16
    Behind = 7
    BadLimit = 8
    BadKept = 4
    Step = 16
    BadLeft = {0}
    Slip = 0
    MaxOut = 46
    MaxLate = 1
    MaxHeld = 1
    MaxSyn = 1
INVARIANTS
    RestoresInTime
CHECK_DEADLOCK FALSE
