\* Nobody stops, nothing fails: is the call on one transport in the end?
SPECIFICATION Spec
CONSTANTS
  Ends = {a, b}
  Tries = 2
  MaxStart = 1
  MaxStop = 0
  MaxTalk = 0
  MaxFail = 0
  MaxHeld = 1
SYMMETRY Symmetry
INVARIANT OneTransport
CHECK_DEADLOCK FALSE
