CONSTANTS
    Capacity = 2
    MaxLogs = 6
SPECIFICATION Spec
INVARIANTS
    ReadNeverPassesWrite
    LosslessUntilFull
PROPERTIES
    NewestIsDelivered
\* The page may stop logging, and the consumer then waits for ever.
CHECK_DEADLOCK FALSE
