SPECIFICATION FairSpec
CONSTANTS
  h1 = h1
  Callers = {h1}
  Obligations = {"o1"}
  Today <- MCToday
  Week <- MCWeek
  MaxEdits = 2
  MaxCalls = 1
INVARIANTS NothingMissed
PROPERTIES PolicyFollowsFile PendingIsOffered ClosedDropsOut
