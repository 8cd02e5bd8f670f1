SPECIFICATION Spec
CONSTANTS
    a = a
    b = b
    dwell = dwell
    room = room
    match = match
    Rules = {dwell}
    Entities = {a}
    RuleType <- DwellType
    Delay <- OneSecond
    Threshold <- Two
    Cooldown <- NoDelay
    MatchTypes = {"zone_entered"}
    PublishOccupancyChanges = FALSE
    BatchLimit = 1
    MaxTime = 3
    MaxMoveTime = 2
    MaxMoves = 3
    MaxFaults = 0
    MaxToggles = 0
    MaxManual = 0
PROPERTY DueDwellTriggers
CHECK_DEADLOCK FALSE
