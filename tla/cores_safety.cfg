\* Two slots, three strategies; signals, fork failures and ejection.
SPECIFICATION FairSpec
CONSTANTS
  NSlots = 2
  Phase1Limit = 3
  Codes <- AllCodes
  MaxGiven = 0
  MegsBudget = TRUE
  MayKill = TRUE
  MayFailFork = TRUE
INVARIANTS
  OneOwner
  NoSurvivors
  DrainedIsComplete
PROPERTIES
  KeepsRaceContract
  Termination
CHECK_DEADLOCK FALSE
