SPECIFICATION FairSpec
CONSTANTS
  Stages = {s1, s2}
  Events = {e1, e2}
  Callbacks = {c1, c2}
  Workers = {w1, w2}
  None = None
  MaxHops = 1
INVARIANTS
  OneOwner
  CallbacksIntact
  CalledBackOnItsStage
PROPERTY
  EventsEnd
CHECK_DEADLOCK FALSE
