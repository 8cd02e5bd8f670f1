\* A client that reads and one that may never, queues of two.
CONSTANTS
    reading = reading
    stuck = stuck
    Clients = {reading, stuck}
    Readers = {reading}
    QueueSize = 2
    MaxConnections = 2
    MaxEvents = 3
    MaxHeartbeats = 1
    MaxUpdates = 1
SPECIFICATION FairStreamSpec
INVARIANTS TypeOK OnlyObservationsDropped
PROPERTIES LifecycleReachesReaders
CHECK_DEADLOCK FALSE
