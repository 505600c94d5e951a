\* Alice looks for the slower connection; one command or one failure.
\* Both ends may fall silent for ever: CHECK_DEADLOCK FALSE.
SPECIFICATION HistorySpec
CONSTANTS
  Alice = Alice
  Bob = Bob
  Level <- AliceAsks
  Near = 0
  BadLimit = 1
  BadKept = 0
  Step = 2
  Slip = 1
  MaxOut = 2
  MaxDial = 4
  MaxUpset = 1
INVARIANTS DoublingInv NeverAhead NeverDeaf KeepsOne FlagsAgree LeaveTogether
PROPERTIES Stays
CHECK_DEADLOCK FALSE
