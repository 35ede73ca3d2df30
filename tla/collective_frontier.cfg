SPECIFICATION Spec
CONSTANTS
  Searches <- MCSearches
  MaxId = 4
INVARIANTS
  PriorityExact
  FatalOnlyThen
PROPERTIES
  KeepsFrontierContract
  NoStarvation
\* The search stops when no inferences are left.
CHECK_DEADLOCK FALSE
