SPECIFICATION MCSpec
CONSTANTS
  NFile = 2
  Proc = {p1, p2}
  MaxTxn = 2
  MaxFault = 2
  BkPage = 3
  BkTxn = 2
  BkFault = 1
  \* Page 5 is that of the lock bytes, so that pages 2 and 6 are pointer-map pages.
  AutoVacuum = {"none", "full", "incr"}
  NEntry = 2
  NLeaf = 2
  PENDING_BYTE_PAGE = 5
  BtPage = 7
  MaxUse = 4
SYMMETRY Symmetry
INVARIANTS
  AllOrNothingSynced
  EveryPageHasOneUse
  RollbackPossible
  SavepointsRestore
  OriginalsOnDisk
PROPERTIES
  BackupIsSnapshot
