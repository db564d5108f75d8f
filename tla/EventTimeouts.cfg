SPECIFICATION Spec
CONSTANTS
  Threads = {t1, t2}
  Events = {e1, e2, e3}
  Infos = {i1, i2}
  None = None
  MaxTime = 1
INVARIANTS LiveWhileUsed
PROPERTY TimedOutForGood
