SPECIFICATION Spec
CONSTANTS
  Conn = {c1, c2}
  NPage = 3
  InitSizes = {2}
  Vfs = "unix"
  OneProcess = FALSE
  JournalModes = {"DELETE"}
  FullSyncs = {TRUE}
  AtomicWrite = FALSE
  Sequential = FALSE
  WriteThrough = FALSE
  SectorFull = FALSE
  MaxTxn = 1
  MaxFault = 2
  MaxSpill = 1
SYMMETRY Symmetry
INVARIANTS
  AssertPagerState
  JournalSyncedFirst
  NoHotJournalWhileReading
PROPERTIES
  ImplementsAtomicStore
