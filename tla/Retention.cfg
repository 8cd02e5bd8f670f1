SPECIFICATION FairSpec
CONSTANTS
    e1 = e1
    a1 = a1
    d1 = d1
    s1 = s1
    Initial = {e1}
    NoRow = NoRow
    Rows = {e1, a1, d1, s1}
    DomainOf <- MCDomainOf
    ParentOf <- MCParentOf
    Enabled = {"alerts", "evaluator_state", "notification_deliveries", "entities"}
    Keep <- MCKeep
    BatchSize = 1
    MaxBatches = 2
    ConfigDry = FALSE
    AllowManual = TRUE
    Loop = Loop
    Nobody = Nobody
    DryRequests = {dry}
    RunRequests = {run}
    MaxTime = 2
    MaxFaults = 1
    MaxChanges = 4
INVARIANTS DryRunDeletesNothing
PROPERTIES LiveRowsGoOnlyByCascade KeptForItsDays OldRowsGo
CHECK_DEADLOCK FALSE
