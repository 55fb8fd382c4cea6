SPECIFICATION FairSpec
CONSTANTS
  Folders = {f1}
  Scans = {s1, s2, s3}
  MaxRestarts = 2
INVARIANTS
  TypeOK
  OneScanPerFolder
  InFlightWillEnd
  TimersFollowMode
  WatchedHasItsRow
  ChangeIsNotDropped
PROPERTY
  ChangeIsWalked
