CONSTANTS
    SlotCount = 3
    HasFence = TRUE
    Intervals = {}
    MaxViews = 4
    MaxPopups = 1
    MaxLoads = 0
SPECIFICATION Spec
INVARIANTS
    TypeOK
    SlotIntact
    SnapshotsAreFrames
\* The bounds on paints end every behaviour.
CHECK_DEADLOCK FALSE
