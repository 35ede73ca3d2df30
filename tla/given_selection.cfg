SPECIFICATION Spec
CONSTANTS
  Settings <- MCSettings
  MaxInt = 1023
  MinRecords = 3
  MinInactive = 1
INVARIANTS
  IndexesAgree
  FairShare
PROPERTIES
  SelectsAsPromised
  DisplacesTheWorst
\* The search stops when Sos is empty.
CHECK_DEADLOCK FALSE
