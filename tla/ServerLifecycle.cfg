SPECIFICATION FairLifeSpec
CONSTANTS
  Procs = {p1, p2}
  Signals = {s1, s2, s3}
  Nobody = Nobody
  Faults = {"pid", "seda", "base", "socket", "bind", "listen", "event"}
  Overlap = FALSE
  CanBeKilled = TRUE
INVARIANTS
  Reachable
  RestartSucceeds
  NoUseAfterFree
PROPERTY
  SignalStopsServer
CHECK_DEADLOCK FALSE
