SPECIFICATION Spec
CONSTANTS
  f1 = f1
  f2 = f2
  f3 = f3
  c1 = c1
  e1 = e1
  a1 = a1
  a2 = a2
  w1 = w1
  w2 = w2
  NoOb = NoOb
  Obs = {c1}
  Entities = {e1}
  Actors <- MCActors
  EventTypes <- MCEvents
  Kinds <- MCKinds
  Policy <- MCPolicy
  KindOf <- MCKindOf
  EntityOf <- MCEntityOf
  ActorOf <- MCActorOf
  Workers = {w1}
  ActiveWindow = 1
  PersistSeverity = FALSE
  MaxTime = 3
PROPERTIES EscalatesAsDocumented
