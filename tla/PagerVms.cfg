SPECIFICATION LiveSpec
CONSTANTS
  Conn = {c1, c2}
  NPage = 3
  InitSizes = {1, 2}
  Vfs = "vms"
  OneProcess = FALSE
  JournalModes = {"DELETE"}
  FullSyncs = {TRUE}
  AtomicWrite = TRUE
  Sequential = TRUE
  WriteThrough = TRUE
  SectorFull = FALSE
  MaxTxn = 1
  MaxFault = 2
  MaxSpill = 1
PROPERTIES
  ImplementsAtomicStore
  Recovers
