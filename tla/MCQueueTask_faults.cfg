SPECIFICATION Spec
CONSTANTS
    mod = mod
    lowMod = lowMod
    file = file
    hiddenFile = hiddenFile
    lowFile = lowFile
    junk = junk
    project = project
    version = version
    hash = hash
    unknown = unknown
    NoMod = NoMod
    Consumers = {daemon}
    Members <- MCMembers
    Mods <- MCMods
    Accepted <- MCAccepted
    Hidden <- MCHidden
    KindOf <- MCKindOf
    ModOf <- MCModOf
    LastKind = 2
    DrainAllFirst = TRUE
    DrainBatch = 2
    ChunkSize = 2
    RedisFails = TRUE
    StoreFails = TRUE
    Crashes = TRUE
    MaxPushes = 4
    MaxFaults = 2
INVARIANT RequeuedIsFailed
PROPERTY OnlyFaultsLose
