SPECIFICATION FairSpec
CONSTANTS
  Wrap = 8
  Debounce = 2
  MaxGap = 1
  MaxBlock = 3
  Pulse = 5
  Chatter = 1
  ReadTimeout = 2
  MaxShoot = 1
  AckTimeout = 2
  Attempts = 2
  MaxInputs = 3
CHECK_DEADLOCK FALSE
INVARIANTS
  TypeOK
  OnePressPerActuation
  ScannersAgree
  WholeFramesArrive
PROPERTIES
  PulseIsSeen
  PollsAgain
