SPECIFICATION FairSpec
CONSTANTS
  Drives = {"usb1", "usb2"}
  Preferred = {"usb2"}
  Path <- PathOrder
  Committer = "committer"
  Others = {"worker"}
  MaxTurns = 3
INVARIANTS
  TypeOK
  RaisesOnlyWithoutDrive
  PreferredWins
  ManifestNamesItsDrive
PROPERTY CallsEnd
