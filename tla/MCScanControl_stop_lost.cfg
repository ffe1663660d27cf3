SPECIFICATION Spec
CONSTANTS
    None = None
    r1 = r1
    c1 = c1
    Runs = {r1}
    Callers = {c1}
    Kinds = {"stop"}
    MaxCalls = 1
    MaxDeaths = 0
    MaxStalls = 0
    Tasks <- FetchOnly
PROPERTIES
    StopStandsUntilServed
\* Every run may have ended and every call been made.
CHECK_DEADLOCK FALSE
