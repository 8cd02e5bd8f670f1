SPECIFICATION Spec
CONSTANTS
    a = a
    b = b
    dwell = dwell
    room = room
    match = match
    Rules = {match, room}
    Entities = {a, b}
    RuleType <- EventTypesOfRules
    Delay <- NoDelay
    Threshold <- Two
    Cooldown <- OneSecond
    MatchTypes = {"zone_entered"}
    PublishOccupancyChanges = TRUE
    BatchLimit = 1
    MaxTime = 2
    MaxMoveTime = 2
    MaxMoves = 4
    MaxFaults = 1
    MaxToggles = 0
    MaxManual = 1
SYMMETRY EntitySymmetry
INVARIANTS
    OneOpenAlert
    OneAlertPerCause
CHECK_DEADLOCK FALSE
