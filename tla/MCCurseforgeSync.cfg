SPECIFICATION FairSpec
CONSTANTS
    refresh = refresh
    Tasks = {refresh, queue}
    PageSize = 2
    EmptyPages = FALSE
    MaxFiles = 2
    MaxModified = 3
    MaxFaults = 1
CONSTRAINT Explored
INVARIANTS
    TypeOK
    CurrentMeansMirrored
PROPERTIES
    HiddenSurvives
    Converges
    CleanMeansCurrent
