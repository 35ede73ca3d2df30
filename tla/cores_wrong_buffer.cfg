\* Finding: the buffer relayed is that of the slot, not of the winner.
SPECIFICATION Spec
CONSTANTS
  NSlots = 2
  Phase1Limit = 3
  Codes <- FewCodes
  MaxGiven = 0
  MegsBudget = FALSE
  MayKill = FALSE
  MayFailFork = FALSE
INVARIANT
  WinnerIsPublished
CHECK_DEADLOCK FALSE
