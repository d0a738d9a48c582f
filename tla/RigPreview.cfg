SPECIFICATION Spec
CONSTANTS
  c1 = c1
  c2 = c2
  Cameras = {c1, c2}
  CameraOrder <- FirstThenSecond
  Window = 1
  Timeout = 1
  MaxLag = 0
  MaxShots = 1
  MaxBreaks = 1
  Faults = {"glitch"}
  AutoTriggers = 0
  MaxCommands = 1
  MaxDown = 1
  MaxPreviews = 1
  UiCommands = {"CAPTURE", "PREVIEW_START"}
  CommitOutcomes = {TRUE}
INVARIANT
  PreviewYields
