SPECIFICATION Spec
CONSTANTS
  Block = 2
  MaxByte = 4
  Crossing = TRUE
  DefExt = 0
  RmsExtend = 0
  VolExtend = 1
INVARIANTS
  FileHolds
