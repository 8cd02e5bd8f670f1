SPECIFICATION Spec
CONSTANTS
    EnterConfirm = 2
    ExitConfirm = 2
    LostAfter = 1
    NumZones = 1
    StaleLimit = 1
    MaxTracks = 2
    MaxTime = 2
    MaxEvents = 6
    MaxQueue = 1
    MaxFaults = 1
    MaxRuns = 2
INVARIANTS
    EventsMatchSessions
    ClosedEntityLeft
    ObjectHasEntity
PROPERTIES
    TransitionsConfirmed
    CommitKeepsAgreement
CHECK_DEADLOCK FALSE
