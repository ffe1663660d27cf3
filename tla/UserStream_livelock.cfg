SPECIFICATION StreamSpec
CONSTANTS
    KeepaliveEvery = 1
    RotateAfter = 2
    StaleAfter = 2
    MaxErrors = 0
    MaxAsks = 0
PROPERTIES
    EventsAreReceived
CHECK_DEADLOCK FALSE
