CONSTANTS
    RequestedCaps = {0, 1}
    MaxSent = 4
    MaxNudges = 1
    MaxResets = 1
    MaxExtraPaints = 1
SPECIFICATION Spec
INVARIANTS
    TypeOK
    CountedDebtWithinCap
    PauseSettles
PROPERTIES
    CadenceKeptIfAllPublished
    ResetUnblocks
\* The bounds on begin frames and events end every behaviour.
CHECK_DEADLOCK FALSE
