SPECIFICATION Spec
CONSTANTS
    Projects = {p1}
    Versions = {v1}
    Refreshers = {refresh}
    Syncers = {queue}
    ChunkSize = 1
    RelistTouches = TRUE
    MaxUpdated = 2
    MaxFaults = 0
PROPERTIES
    KeepsCurrent
