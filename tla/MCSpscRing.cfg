CONSTANTS
    Events = {e1, e2}
    Capacity = 3
    Laps = 2
    NoEvent = NoEvent
SPECIFICATION Spec
INVARIANTS
    TypeOK
    NoDataRace
PROPERTIES
    ImplementsQueue
    PublishedIsRead
