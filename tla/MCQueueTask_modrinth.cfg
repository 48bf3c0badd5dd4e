SPECIFICATION FairSpec
CONSTANTS
    mod = mod
    lowMod = lowMod
    file = file
    hiddenFile = hiddenFile
    lowFile = lowFile
    junk = junk
    project = project
    version = version
    hash = hash
    unknown = unknown
    NoMod = NoMod
    Consumers = {daemon, oneOff}
    Members <- MrMembers
    Mods <- MrMods
    Accepted <- MrMods
    Hidden = {}
    KindOf <- MrKindOf
    ModOf <- MrModOf
    LastKind = 3
    DrainAllFirst = FALSE
    DrainBatch = 1
    ChunkSize = 2
    RedisFails = FALSE
    StoreFails = FALSE
    Crashes = FALSE
    MaxPushes = 3
    MaxFaults = 2
INVARIANTS
    TypeOK
    NoneLost
    FailedIsRequeued
PROPERTY EventuallyServed
