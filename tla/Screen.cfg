SPECIFICATION Spec
CONSTANTS
  Cameras = {c1, c2}
  MaxSets = 2
  MaxEvents = 2
  MaxCommands = 1
  MaxFaults = 1
CHECK_DEADLOCK FALSE
SYMMETRY CameraSymmetry
INVARIANTS
  TypeOK
  PreviewFollowsRoute
  CompletionIsReal
