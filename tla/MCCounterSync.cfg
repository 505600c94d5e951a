SPECIFICATION Spec
CONSTANTS
    Window = 16
    Behind = 7
    BadLimit = 8
    BadKept = 4
    Step = 16
    BadLeft = {0, 4, 8}
    Slip = 0
    MaxOut = 48
    MaxLate = 2
    MaxHeld = 0
    MaxSyn = 1
INVARIANTS
    TypeOK
    NeverAhead
    RestoresInTime
    WindowExact
CHECK_DEADLOCK FALSE
