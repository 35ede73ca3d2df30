SPECIFICATION Spec
CONSTANTS
  SymbolOrder <- MCSymbolOrder
  VariableNames <- MCVariableNames
  Problems <- CaptureProblems
  FrontEnds = {"prover9"}
  Thresholds = {0}
  ClauseLimits = {0}
INVARIANTS
  ProvedMeansTheorem
CHECK_DEADLOCK FALSE
