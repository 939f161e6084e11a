SPECIFICATION FairSpec
CONSTANTS
  w1 = w1
  w2 = w2
  Writers = {w1, w2}
  Limit = 1
  MaxEvents = 3
  MaxTime = 2
  MaxStarts = 2
INVARIANTS NothingSkipped RepeatsOnlyAfterStart
PROPERTIES ViolationsAreRouted
