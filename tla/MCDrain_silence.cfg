CONSTANTS
    doc = doc
    embed = embed
    w1 = w1
    w2 = w2
    NoJob = NoJob
    NoWorker = NoWorker
    NoBell = NoBell
    Job <- MCJob
    Worker <- MCWorker
    KindOf <- MCKindOf
    Follows <- MCFollows
    MaxAttempts = 2
    MaxCrashes = 1
    MaxOverruns = 0
    MaxReopens = 1
    MaxKills = 1
    MaxLost = 0
SPECIFICATION DrainSpec
SYMMETRY WorkerSymmetry
INVARIANT SilenceExplained
CHECK_DEADLOCK FALSE
