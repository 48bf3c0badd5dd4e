SPECIFICATION Spec
CONSTANTS
    Sources = {"curseforge", "modrinth"}
    SearchLimit = 4
    PageSize = 2
    OthersAsk = TRUE
    Disturbed = TRUE
    MaxProjects = 5
    MaxFaults = 1
CHECK_DEADLOCK FALSE
INVARIANTS
    TypeOK
    NothingMissed
PROPERTY FullFindsAll
