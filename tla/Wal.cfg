SPECIFICATION WholeSpec
CONSTANTS
  Conn = {c1, c2}
  NPage = 2
  NReader = 2
  MaxFrame = 2
  MaxTxn = 3
  MaxShared = 3
  MaxFault = 1
  MaxError = 1
  FullSync = FALSE
  Commits <- MCCommits
  Spills = {2}
  CkptModes = {"PASSIVE", "RESTART"}
SYMMETRY Symmetry
INVARIANTS
  CacheFresh
  FullMeansFull
  BackfillSound
  RestartAssert
PROPERTIES
  ImplementsSnapshotStore
