SPECIFICATION GatesSpec
CONSTANTS
    t1 = t1
    main = main
    Traders = {t1}
    Profiles = {main}
    Equities <- FewEquities
    BlockAt = 300
    Hysteresis = 50
    ResumeAfter = 0
    MaxPositions = 2
    MaxNotional = 1
    Notionals = {1, 2}
    Horizon = 1
    MaxHeld = 3
    MaxManual = 0
INVARIANTS
    PositionsWithinLimit
\* Nobody has to trade.
CHECK_DEADLOCK FALSE
