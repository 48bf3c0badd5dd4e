SPECIFICATION FairSpec
CONSTANTS
    Projects = {p1}
    Versions = {v1}
    Refreshers = {refresh}
    Syncers = {queue}
    ChunkSize = 1
    RelistTouches = TRUE
    MaxUpdated = 2
    MaxFaults = 1
INVARIANTS
    TypeOK
    CurrentMeansMirrored
    IInv
PROPERTIES
    StampsAdvance
    RemovesOnlyTheDead
    RemovalLeavesNothing
    Converges
