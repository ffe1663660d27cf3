SPECIFICATION PolledSpec
CONSTANTS
    None = None
    r1 = r1
    c1 = c1
    Runs = {r1}
    Callers = {c1}
    Kinds = {"get", "pause", "resume", "stop"}
    MaxCalls = 2
    MaxDeaths = 1
    MaxStalls = 1
    Tasks <- FetchOnly
PROPERTIES
    EveryRunEnds
    DeadRunIsCleared
\* Every run may have ended and every call been made.
CHECK_DEADLOCK FALSE
