SPECIFICATION Spec
CONSTANTS
  Sessions = {s1, s2}
  Keys = {k1, k2}
  Values = {v1, v2}
  None = None
  SessionMax = 3
INVARIANTS OrderlyCallsAreSafe
PROPERTIES ImplementsMap InsertReplacesOnlyInRace
