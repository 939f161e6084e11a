SPECIFICATION Spec
CONSTANTS
  t1 = t1
  t2 = t2
  Threads = {t1, t2}
  Rules = {"rm", "git"}
  Extras = {"key"}
  Domains = {"d", "e", "x.d"}
  Places <- MCPlaces
  Within <- MCWithin
  StartsWith <- MCStartsWith
  Subdomain <- MCSubdomain
  Kind <- MCKind
  Baselines <- MCBaselines
  Offers <- MCOffers
  Relaxations <- MCRelaxations
  SessionJson <- Unrestricted
  Paths <- MCPaths
  Calls <- MCCalls
INVARIANTS TypeOK NeverLooserThanSession EffectiveWithinRoot
PROPERTIES LoosensOnlyWhenStale
