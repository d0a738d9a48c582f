SPECIFICATION Spec
CONSTANTS
  c1 = c1
  c2 = c2
  Cameras = {c1, c2}
  CameraOrder <- FirstThenSecond
  Window = 1
  Timeout = 1
  MaxLag = 1
  MaxShots = 1
  MaxBreaks = 1
  Faults = {"capture error", "corrupt image", "ack timeout", "unplug", "glitch", "late hello"}
  AutoTriggers = 0
  MaxCommands = 0
  MaxDown = 1
  MaxPreviews = 0
  UiCommands = {}
  CommitOutcomes = {TRUE, FALSE}
SYMMETRY CameraSymmetry
INVARIANTS
  TypeOK
  TablesAgree
  AckMeansPublished
PROPERTY
  ImplementsPhotoFates
