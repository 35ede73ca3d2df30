SPECIFICATION Spec
CONSTANTS
  SymbolOrder <- MCSymbolOrder
  VariableNames <- MCVariableNames
  Problems <- MCProblems
  FrontEnds = {"prover9", "fof-prover9"}
  Thresholds = {0, 1}
  ClauseLimits = {0, 2}
INVARIANTS
  MeaningKept
  RecordedProofHolds
  ReductionExact
CHECK_DEADLOCK FALSE
