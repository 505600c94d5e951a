SPECIFICATION ServicesSpec
CONSTANTS
  Ends = {a, b}
  Tries = 2
  MaxStart = 1
  MaxStop = 1
  MaxTalk = 1
  MaxFail = 1
  MaxHeld = 2
  Users = {a, b}
  Stems = {"s", "t"}
  Chars = {"p", "q"}
  MaxTyped = 1
  None = None
  Keys = {"bob", "bobby1", "bobby2"}
  Nicks = {"bob", "bobby"}
  Parts <- KeyParts
  Rest <- KeyRest
  NickOf <- KeyNick
  Begins <- NickBegins
  Full = 500
  MinLen = 44
  MaxLen = 900
  MaxSent = 3
  MaxAgain = 2
  Frame = 2
  Needs = {3, 6}
  Press = 3
  Hold = 2
  VadTail = 2
  MAX_PKT = 4
  Lengths = {2, 3}
  MaxShort = 8
  MaxArrive = 9
SYMMETRY Symmetry
INVARIANTS ServicesInv
  BackTogether HearsTor SwitchTogether
  VerdictsTrue BothTold
  NextKeyArrives BookNamesFile NotAddedTwice
  PushEnds SilenceTold StartsMuted
  PlaysInOrder EachCounted TotalRight
PROPERTIES OnlyUserMutes
CHECK_DEADLOCK FALSE
