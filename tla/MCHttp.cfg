SPECIFICATION FairSpec
CONSTANTS
    Tasks = {t1, t2}
    Contents = {absent, c1}
    Absent = absent
    Statuses = {403, 429, 500}
    MaxRetries = 2
    Capacities = {0, 2}
    Window = 2
INVARIANTS
    TypeOK
    RateBound
    GivesUpOnlyWhenItMust
PROPERTIES
    ImplementsCall
    NoHang
