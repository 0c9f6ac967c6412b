\* Three connections: enough for a reader beside two upgrading readers, the smallest conversion
\* deadlock with a bystander.  Blocks of two bytes: the least in which an offset can lie within a
\* block and a range have all three parts.
SPECIFICATION VmsSpec
CONSTANTS
  Conn = {c1, c2, c3}
  Block = 2
  MaxByte = 5
  Crossing = FALSE
  DefExt = 0
  RmsExtend = 2
  VolExtend = 1
INVARIANTS
  WritersExcludeAll
  FileHolds
  ReadCorrect
  ExtendsEnough
PROPERTIES
  ImplementsFileLock
  SharedGranted
