SPECIFICATION FairLifeSpec
CONSTANTS
  Procs = {p1}
  Signals = {s1}
  Nobody = Nobody
  Faults = {}
  Overlap = FALSE
  CanBeKilled = FALSE
PROPERTY
  SignalShutsDown
CHECK_DEADLOCK FALSE
