\* Three strategies on two slots, a long phase 2, no deadline that must come.
SPECIFICATION SliceSpec
CONSTANTS
  NSlots = 2
  Phase1Limit = 3
  Codes <- FewCodes
  MaxGiven = 1
  MegsBudget = FALSE
  MayKill = FALSE
  MayFailFork = FALSE
PROPERTIES
  EveryStrategyTried
  ProofIsReaped
CHECK_DEADLOCK FALSE
