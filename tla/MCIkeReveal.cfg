SPECIFICATION Spec
CONSTANTS
    a = a
    b = b
    c = c
    Guest = Guest
    Party <- Two
    Book <- Everybody
    Ignored <- Nobody
    AutoAnswer = {}
    KeyReveal = {a}
    MaxRuns = 1
INVARIANTS
    RevealMatches
CHECK_DEADLOCK FALSE
