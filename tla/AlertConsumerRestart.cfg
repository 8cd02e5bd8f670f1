\* Crashes, lost connections and failures with late events, a small queue and
\* pages of one event.
CONSTANTS
    QueueSize = 2
    PageSize = 1
    CatchUpLimit = 2
    Lag = 1
    MaxEvents = 3
    MaxFaults = 2
SPECIFICATION FairSpec
INVARIANTS CheckpointEvaluated FirstEvaluationsInOrder
PROPERTIES EvaluatedUnlessExcused
CHECK_DEADLOCK FALSE
