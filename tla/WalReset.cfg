SPECIFICATION Spec
CONSTANTS
  Conn = {c1, c2}
  NPage = 2
  NReader = 2
  MaxFrame = 2
  MaxTxn = 4
  MaxShared = 3
  MaxFault = 0
  MaxError = 0
  FullSync = FALSE
  Commits <- MCCommits
  Spills = {2}
  CkptModes = {"PASSIVE"}
SYMMETRY Symmetry
INVARIANTS
  BackfillWithinLog
