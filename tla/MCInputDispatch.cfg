CONSTANTS
    Batch = 3
    NudgeEvery = 2
    Capacity = 4
    MaxControls = 2
    Browsers = 1
    Buttons = {1, 2}
SPECIFICATION DispatchSpec
INVARIANTS
    DispatchTypeOK
    NoWorkerWithoutBrowser
    NudgeTriedForEveryInput
    ModifiersAreHeld
PROPERTIES
    StopCompletes
    InputIsServed
\* Once the browser is closed and the rings are full, nothing is left to do.
CHECK_DEADLOCK FALSE
