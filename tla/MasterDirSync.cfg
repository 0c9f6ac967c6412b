SPECIFICATION Spec
CONSTANTS
  NFile = 2
  Proc = {p1, p2}
  MaxTxn = 1
  MaxFault = 2
INVARIANTS
  AllOrNothing
