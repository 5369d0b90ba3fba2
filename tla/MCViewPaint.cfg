CONSTANTS
    Tiles = {t1, t2}
    Pool = {k1}
    FirstSize <- Small
    Requests <- Both
    SlotCount = 3
    WarmupFrames = 1
    HandlesReused = FALSE
    MaxPaints = 1
    MaxPopups = 1
    MaxResizes = 2
    MaxOpenFails = 1
    MaxCreateFails = 1
SPECIFICATION Spec
INVARIANTS
    TypeOK
    ImageIsPage
PROPERTIES
    PublishesPainted
    SizeConverges
\* The bounds on paints and resizes end every behaviour.
CHECK_DEADLOCK FALSE
