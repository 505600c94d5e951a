\* Both ends look for the slower connection, and nothing breaks.
SPECIFICATION HistorySpec
CONSTANTS
  Alice = Alice
  Bob = Bob
  Level <- BothAsk
  Near = 0
  BadLimit = 64
  BadKept = 60
  Step = 128
  Slip = 1
  MaxOut = 4
  MaxDial = 4
  MaxUpset = 0
INVARIANTS KeepsOne
CHECK_DEADLOCK FALSE
