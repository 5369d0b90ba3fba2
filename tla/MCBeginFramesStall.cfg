CONSTANTS
    RequestedCaps = {2}
    MaxSent = 4
    MaxNudges = 0
    MaxResets = 0
    MaxExtraPaints = 0
SPECIFICATION Spec
PROPERTY
    CadenceKept
\* The bounds on begin frames and events end every behaviour.
CHECK_DEADLOCK FALSE
