SPECIFICATION FairSpec
CONSTANTS
    Jobs = {j1, j2, j3}
    MaxWorkers = 2
    MaxQueue = 1
    NoJob = NoJob
INVARIANTS
    TypeOK
    OnePlacePerJob
    WaitingIsServed
    CountersMatchLedger
PROPERTIES
    TerminalIsFinal
    PromiseSpec
    EverySubmitReturns
\* Every job may have been answered and every worker idle.
CHECK_DEADLOCK FALSE
