SPECIFICATION FairSpec
CONSTANTS
  a1 = a1
  a2 = a2
  p1 = p1
  h0 = h0
  h1 = h1
  hx = hx
  gone = gone
  Proposals = {p1}
  Proposes <- MCProposes
  Replaces <- MCReplaces
  Agents = {a1, a2}
  SelfDenied = {a2}
  Original = h0
  Missing = gone
  Hashes = {h0, h1, hx}
  Full = 2
  Cost = 1
  Gain = 1
  Evidence = 2
  Window = 2
  Deadline = 1
  MaxObservations = 3
INVARIANTS ConstraintsAreWatched AcceptedWasApproved
PROPERTIES BudgetGrowsByCompliance NonCompliantIsFrozen
