SPECIFICATION LiveSpec
CONSTANTS
    a = a
    b = b
    Callers = {a, b}
    Kinds = {"STOP", "PROFIT"}
    MaxCalls = 3
    MaxSyncs = 1
    MaxPosts = 3
    MaxFaults = 1
SYMMETRY CallerSymmetry
INVARIANTS
    LiveTypeOK
    
    ProtectionIsTrue

    
\* Nobody has to call.
CHECK_DEADLOCK FALSE
