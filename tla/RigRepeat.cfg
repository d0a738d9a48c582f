SPECIFICATION Spec
CONSTANTS
  c1 = c1
  c2 = c2
  Cameras = {c1, c2}
  CameraOrder <- FirstThenSecond
  Window = 1
  Timeout = 1
  MaxLag = 0
  MaxShots = 2
  MaxBreaks = 0
  Faults = {"ack timeout"}
  AutoTriggers = 0
  MaxCommands = 0
  MaxDown = 1
  MaxPreviews = 0
  UiCommands = {}
  CommitOutcomes = {TRUE, FALSE}
SYMMETRY CameraSymmetry
INVARIANTS
  SetIsolation
PROPERTY
  ReleasedByOwnAnswer
