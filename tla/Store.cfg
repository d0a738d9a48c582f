SPECIFICATION Spec
CHECK_DEADLOCK FALSE
CONSTANTS
  Sets = {s1, s2}
  Cameras = {c1, c2}
  MaxFailures = 1
SYMMETRY StoreSymmetry
INVARIANTS
  TypeOK
  AckedPhotosSurvive
  PublishedAreWhole
  RefusedAreSettled
PROPERTY
  ImplementsAtomicStore
