SPECIFICATION Spec
CONSTANTS
  c1 = c1
  c2 = c2
  Cameras = {c1, c2}
  CameraOrder <- FirstThenSecond
  Window = 1
  Timeout = 12
  MaxLag = 0
  MaxShots = 1
  MaxBreaks = 0
  Faults = {"corrupt image"}
  AutoTriggers = 0
  MaxCommands = 0
  MaxDown = 1
  MaxPreviews = 0
  UiCommands = {}
  CommitOutcomes = {TRUE}
SYMMETRY CameraSymmetry
INVARIANT
  NextCaptureRecovers
