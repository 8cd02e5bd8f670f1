SPECIFICATION FairSpec
CONSTANTS
    e1 = e1
    t1 = t1
    w1 = w1
    w2 = w2
    Events = {e1}
    Targets = {t1}
    Matching <- OneMatch
    Workers = {w1, w2}
    MaxAttempts = 2
    BatchSize = 1
    MaxConcurrent = 1
    MaxManual = 1
    MaxFaults = 1
    MaxErrors = 1
INVARIANTS
    TypeOK
    OneJobPerLock
    AnsweredOnceUnlessExcused
PROPERTIES
    DeliveredFinalUnlessExcused
    Settles
    ImplementsContract
