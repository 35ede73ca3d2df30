\* Two cores, no end_size: sizes 2, 4, 6 and 8, which overflows; the size after it
\* wraps around.  Signals and failing forks.
SPECIFICATION FairSpec
CONSTANTS
  NCores = 2
  Start = 2
  End <- Unbounded
  Incr = 2
  MaxInt = 9
  OverflowFrom = 8
  Codes <- AllCodes
  MayKill = TRUE
  MayAlarm = TRUE
  MayFailFork = TRUE
INVARIANTS
  NoOrphans
  SmallestModel
PROPERTIES
  KeepsRaceContract
  KillKeepsModel
  Termination
CHECK_DEADLOCK FALSE
