SPECIFICATION Spec
CONSTANTS
  Conn = {c1, c2, c3}
  NoConn = NoConn
  Table = {master, t}
  MASTER_ROOT = master
  ReadUncommitted = {}
  Patient = {c1, c2, c3}
  Tidy = {}
  MaxActive = 1
SYMMETRY Symmetry
INVARIANTS
  WriteLocksExclude
  WriterKnown
  PendingHasReaders
  NoLostNotify
  NoWaitCycle
