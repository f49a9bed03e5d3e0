CONSTANTS
    embed = embed
    doc = doc
    source = source
    w1 = w1
    w2 = w2
    NoJob = NoJob
    NoWorker = NoWorker
    Worker <- MCWorker
    KindOf <- MCKindOf
    Follows <- MCFollows
    Job <- MCWalk
    MaxAttempts = 2
    MaxCrashes = 2
    MaxOverruns = 0
    MaxReopens = 2
SPECIFICATION FairSpec
INVARIANTS ClaimIsCurrent AttemptsBounded
PROPERTIES  EveryJobSettles ImplementsQueue
CHECK_DEADLOCK FALSE
