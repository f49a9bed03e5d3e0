CONSTANTS
    doc = doc
    embed = embed
    w1 = w1
    w2 = w2
    NoJob = NoJob
    NoWorker = NoWorker
    NoBell = NoBell
    Job <- MCJob
    Worker <- MCOneWorker
    KindOf <- MCKindOf
    Follows <- MCFollows
    MaxAttempts = 2
    MaxCrashes = 1
    MaxOverruns = 0
    MaxReopens = 1
    MaxKills = 1
    MaxLost = 1
SPECIFICATION FairDrainSpec
PROPERTIES BellsSettleEveryJob BellsStop
CHECK_DEADLOCK FALSE
