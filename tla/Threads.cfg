SPECIFICATION MCSpec
CONSTANTS
  Proc = {p1, p2}
  Slot = {s1, s2}
  MaxUnused = 1
  NKey = 2
  PageSizes = {1, 2}
  Sizes = {1, 2}
  MinPages = 1
  Word = 65536
SYMMETRY Symmetry
INVARIANTS
  PagesAccounted
  OverBudgetOnlyPinned
PROPERTIES
  UnixImplementsFileLock
