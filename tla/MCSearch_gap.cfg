SPECIFICATION Spec
CONSTANTS
    Sources = {"modrinth"}
    SearchLimit = 4
    PageSize = 1
    OthersAsk = FALSE
    Disturbed = FALSE
    MaxProjects = 3
    MaxFaults = 0
CHECK_DEADLOCK FALSE
INVARIANT NoGapEver
