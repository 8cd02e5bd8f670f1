SPECIFICATION ConsoleSpec
CONSTANTS
    Events <- MCEvents
    Cap = 2
    HistoryPage = 1
    RecoveryPage = 1
    MaxPages = 2
    Overlap = 1
    MaxLoads = 2
    MaxDisturbances = 3
CHECK_DEADLOCK FALSE
INVARIANTS
    NoGapUnlessExcused
PROPERTIES
    RecoveryEnds
