SPECIFICATION Spec
CONSTANTS
  Cameras = {c1, c2}
  Txs = {1, 2}
  Window = 1
  Timeout = 2
  MaxLag = 1
  HistoryLimit = 2
  MaxFiled = 4
SYMMETRY CameraSymmetry
INVARIANTS TypeOK ReuseOnlyBeyondHistory
PROPERTIES ClosedEarlyOnlyWhenQuiet ImplementsCaptureSets
