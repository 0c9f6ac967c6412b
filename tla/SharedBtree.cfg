SPECIFICATION MCSpec
CONSTANTS
  c1 = c1
  c2 = c2
  Db = {c1, c2}
  NBt = 3
  MaxWant = 3
INVARIANTS
  NoMutexCycle
  HoldsWhatItEntered
PROPERTIES
  Notified
