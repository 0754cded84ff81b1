SPECIFICATION Spec
CONSTANTS
  N = 4
  Graphs <- AllGraphs
CHECK_DEADLOCK FALSE
INVARIANTS
  TypeOK
  Bookkeeping
  Correct
PROPERTY Terminates
