\* A pool of two threads for five services, a worker with two jobs and one
\* more delivery in its batches.
CONSTANTS
    Inputs <- MCInputs
    PoolSize = 2
    Concurrency = 2
    MaxSiblings = 1
    MaxQueue = 3
SPECIFICATION FairSpec
INVARIANTS LastLayerWins AcceptedIsUsable NoGapAtStart
PROPERTIES StopIsFinal StartsAndEnds
CHECK_DEADLOCK FALSE
