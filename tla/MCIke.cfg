SPECIFICATION FairSpec
CONSTANTS
    a = a
    b = b
    c = c
    Guest = Guest
    Party <- Two
    Book <- Everybody
    Ignored <- GuestIgnoredByB
    AutoAnswer = {b}
    KeyReveal = {a}
    MaxRuns = 2
INVARIANTS
    TypeOK
    Inductive
    SessionInv
    OnlyWantedCallers
    EndsMatch
    FinMeansLeft
PROPERTIES
    ImplementsKeyAgreement
    Settles
CHECK_DEADLOCK FALSE
