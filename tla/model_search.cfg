SPECIFICATION FairSpec
CONSTANTS
  Arity <- MCArity
  Relations = {"P", "R", "<"}
  Skolems = {"s"}
  Problems <- MCProblems
INVARIANTS
  ModelsAreModels
  EachModelOnce
  BacktrackExact
  NormalForm
  EliminationsSound
PROPERTIES
  Termination
CHECK_DEADLOCK FALSE
