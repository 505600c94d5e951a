SPECIFICATION Spec
CONSTANTS
    a = a
    b = b
    c = c
    Guest = Guest
    Party <- Three
    Book <- Partial
    Ignored <- CIgnoredByB
    AutoAnswer = {}
    KeyReveal = {}
    MaxRuns = 1
INVARIANTS
    Agreement
    OnlyWantedCallers
PROPERTIES
    ImplementsKeyAgreement
CHECK_DEADLOCK FALSE
