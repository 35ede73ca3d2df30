\* Two periodic checkpoints kept, one resumption, one failure.
CONSTANTS
    Keep = 2
    MaxTurn = 3
    MaxPid = 2
    MaxFaults = 1
SPECIFICATION Spec
INVARIANTS
    WholeOrHidden
    RotationExact
PROPERTIES
    ExitMeansWritten
    RequestNotLost
