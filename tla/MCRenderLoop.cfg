CONSTANTS
    Gate = 1
    Word = 64
    MaxTime = 9
    Nanos = 12
    Freq = 6
    DefaultFps = 2
    MaxFps = 3
    ResyncFrames = 2
    Requests = {0, 9}
SPECIFICATION LoopSpec
INVARIANTS
    LoopTypeOK
    QuietGate
    BurstBounded
    NeverAheadOfTime
    RateTakesEffect
\* The bound on the clock ends every behaviour.
CHECK_DEADLOCK FALSE
