SPECIFICATION Spec
CONSTANTS
    Detections <- MCDetections
    IouNum = 3
    IouDen = 10
    MaxMissed = 1
    MaxDetections = 2
    MaxFrames = 3
CHECK_DEADLOCK FALSE
INVARIANTS
    StableMatching
    HistoriesOfTracks
PROPERTY
    TrackLives
