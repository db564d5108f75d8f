SPECIFICATION Spec
CONSTANTS
  Nodes = {0, 1, 2, 3, 4}
  None = None
  Files <- FilesMC
INVARIANTS Ordered LeavesOutCycles TablesInOrder ColumnsAsDeclared
PROPERTY CommandEnds
CHECK_DEADLOCK FALSE
