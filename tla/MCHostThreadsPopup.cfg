CONSTANTS
    Batch = 3
    NudgeEvery = 2
    Capacity = 2
    MaxControls = 0
    Browsers = 2
SPECIFICATION Spec
INVARIANT
    CreationStartsLoops
\* The process ends when std::terminate is called.
CHECK_DEADLOCK FALSE
