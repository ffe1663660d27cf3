SPECIFICATION Spec
CONSTANTS
    None = None
    r1 = r1
    r2 = r2
    c1 = c1
    Runs = {r1, r2}
    Callers = {c1}
    Kinds = {"get", "pause", "resume", "stop", "stop_all", "force_all"}
    MaxCalls = 1
    MaxDeaths = 1
    MaxStalls = 1
    Tasks <- OneOfEach
CONSTRAINT OneScenario
INVARIANTS
    TypeOK
    
    
    StoppedWasAsked
\* Every run may have ended and every call been made.
CHECK_DEADLOCK FALSE
