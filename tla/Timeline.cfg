SPECIFICATION Spec
CONSTANTS
    Rows <- MCRows
    Kind <- MCKind
    EntityOf <- MCEntityOf
    ZoneOf <- MCZoneOf
    OpenAt <- MCOpenAt
    CloseAt <- MCCloseAt
    NoZone = "none"
    NoEntity = 0
    Queries <- MCQueries
    MaximumLimit = 3
INVARIANTS
    PageIsFirstOfUnion
    ScanIsFaithful
    FoundById
