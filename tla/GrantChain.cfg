SPECIFICATION Spec
CONSTANTS
  w1 = w1
  w2 = w2
  g1 = g1
  g2 = g2
  Workers = {w1, w2}
  Grants = {g1, g2}
  Target <- MCTarget
  TTL = 1
  Window = 1
  Torn = Torn
  MaxTime = 3
INVARIANTS AllowedIsWarranted
PROPERTIES NothingLost ConsumedOnce
SYMMETRY MCSymmetry
