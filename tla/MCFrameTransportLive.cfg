CONSTANTS
    SlotCount = 3
    HasFence = TRUE
    Intervals = {2}
    MaxViews = 3
    MaxPopups = 0
    MaxLoads = 1
SPECIFICATION Spec
PROPERTY
    EveryPublishShown
\* The bounds on paints end every behaviour.
CHECK_DEADLOCK FALSE
