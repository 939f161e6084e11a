SPECIFICATION MCSpec
CONSTANTS
  s1 = s1
  h1 = h1
  h2 = h2
  NoLoop = NoLoop
  Sessions = {s1}
  Handlers = {h1, h2}
  Residuals = {0, 1, 2}
  Epsilon = 1
  MaxIterations = 4
  Loops <- MCLoops
INVARIANTS TypeOK IterationsBounded ReportedInTime
PROPERTIES EventsEndInReport
