SPECIFICATION Spec
CONSTANTS
    Window = 16
    Behind = 7
    BadLimit = 8
    BadKept = 4
    Step = 16
    BadLeft = {0}
    Slip = 1
    MaxOut = 44
    MaxLate = 3
    MaxHeld = 2
    MaxSyn = 0
INVARIANTS
    NeverAhead
PROPERTIES
    FreshHeard
CHECK_DEADLOCK FALSE
