SPECIFICATION Spec
CONSTANTS
  N = 2
  Nested = TRUE
  Inputs <- Files
  Requests = {TRUE}
INVARIANT
  Faithful
CHECK_DEADLOCK FALSE
