SPECIFICATION FairSpec
CONSTANTS
  Body <- Bodies
  Empty = "Empty"
  NoBody = "none"
  Tautology = {"True"}
  TooHeavy <- Heavy
  Unit <- Units
  Equation = {"E"}
  Negative <- Denials
  Subsumes <- Subsumption
  Conflicts <- Opposite
  Rewrites <- Rewriting
  Deletes <- Deletion
  Conclusions <- Inference
  Factors <- Factoring
  SosLimit = 2
  KeepFactor = 3
  MaxKept = 12
  Problems <- AllProblems
INVARIANTS
  IndexesFollowLists
  
  ConflictIsProof
  Saturated
PROPERTIES
  Termination
CHECK_DEADLOCK FALSE
