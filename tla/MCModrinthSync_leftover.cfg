SPECIFICATION Spec
CONSTANTS
    Projects = {p1}
    Versions = {v1}
    Refreshers = {}
    Syncers = {queue}
    ChunkSize = 1
    RelistTouches = TRUE
    MaxUpdated = 2
    MaxFaults = 0
INVARIANTS
    NoFileLeftBehind
