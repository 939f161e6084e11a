SPECIFICATION Spec
CONSTANTS
  a1 = a1
  a2 = a2
  b1 = b1
  p1 = p1
  sa = sa
  sb = sb
  Events = {a1, a2, b1}
  Sessions = {sa, sb}
  SessionOf <- MCSessionOf
  Sealers = {p1}
  MaxSeals = 4
INVARIANTS ChainLinear CommittedAreFlagged
PROPERTIES SealNeverShrinks
CHECK_DEADLOCK FALSE
