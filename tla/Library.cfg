SPECIFICATION FairSpec
CONSTANTS
  Cameras = {c1}
  DriveOrder <- TwoDrives
  OldSets = 1
  MaxCaptures = 1
  MaxTurns = 1
  MaxRequests = 3
CHECK_DEADLOCK FALSE
INVARIANTS
  TypeOK
  DeletesOnlyConfirmed
  ReviewShowsItsSet
  ViewerIsNotEmpty
PROPERTIES
  SelectionSurvives
  BusyEnds
