SPECIFICATION MCSpec
CONSTANTS
  Proc = {p1, p2}
  Slot = {s1, s2}
  NLock = 3
SYMMETRY Symmetry
INVARIANTS
  ShmLocksExclude
  TruncatedUnused
  CacheFresh
  StaleRecordsIgnored
PROPERTIES
  ConcurrentImplementsAtomicStore
  PersistImplementsAtomicStore
