SPECIFICATION Spec
CONSTANTS
  MaxVars = 3
  MaxMultipliers = 6
  Problems <- MCProblems
INVARIANTS
  ConclusionsExact
  ContextsAreClean
