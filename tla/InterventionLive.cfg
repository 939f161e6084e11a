SPECIFICATION Spec
CONSTANTS
  o1 = o1
  o2 = o2
  r1 = r1
  lazy = lazy
  boss = boss
  NoOb = NoOb
  Obs = {o1, o2}
  Actors = {lazy, boss}
  ActorOf <- MCActorOf
  RerouteOf <- MCRerouteOf
  Threshold = 3
  Window = 1
  MaxTime = 1
PROPERTIES HardIsGated
