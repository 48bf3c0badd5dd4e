SPECIFICATION FairSpec
CONSTANTS
    Jobs = {queue}
    Cron <- MCCron
    OneOffs = {cli}
    Unrecorded = {}
    MaxNow = 2
    MaxRuns = 2
    MaxCrashes = 1
    MaxFaults = 1
CHECK_DEADLOCK FALSE
INVARIANTS
    TypeOK
    NoSelfOverlap
    SlotMeansRunning
    RunningIsLive
PROPERTIES
    OncePerShift
    ResultsStay
    DueIsDispatched
    StopIsObeyed
