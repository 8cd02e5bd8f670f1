SPECIFICATION FairSpec
CONSTANTS
    a = a
    b = b
    dwell = dwell
    room = room
    match = match
    Rules = {dwell}
    Entities = {a}
    RuleType <- DwellType
    Delay <- OneSecond
    Threshold <- Two
    Cooldown <- OneSecond
    MatchTypes = {"zone_entered"}
    PublishOccupancyChanges = FALSE
    BatchLimit = 1
    MaxTime = 2
    MaxMoveTime = 1
    MaxMoves = 4
    MaxFaults = 1
    MaxToggles = 1
    MaxManual = 1
INVARIANTS
    TypeOK
    DwellResolvedUnlessExcused
PROPERTY DwellFires
CHECK_DEADLOCK FALSE
