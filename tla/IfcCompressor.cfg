SPECIFICATION FairSpec
CONSTANTS
  N = 3
  Nested = FALSE
  Inputs <- Files
  Requests = {TRUE, FALSE}
INVARIANTS
  Faithful
  MergesExactlyEqual
PROPERTY
  Terminates
CHECK_DEADLOCK FALSE
