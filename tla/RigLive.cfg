SPECIFICATION FairSpec
CONSTANTS
  c1 = c1
  c2 = c2
  Cameras = {c1, c2}
  CameraOrder <- FirstThenSecond
  Window = 1
  Timeout = 1
  MaxLag = 0
  MaxShots = 1
  MaxBreaks = 1
  Faults = {"glitch"}
  AutoTriggers = 1
  MaxCommands = 0
  MaxDown = 1
  MaxPreviews = 0
  UiCommands = {}
  CommitOutcomes = {TRUE, FALSE}
INVARIANT
  AttemptIsPending
PROPERTIES
  SetsClose
  TransfersAreAnswered
  TriggersSettle
