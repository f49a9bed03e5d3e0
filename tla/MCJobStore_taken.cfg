CONSTANTS
    embed = embed
    doc = doc
    source = source
    w1 = w1
    w2 = w2
    NoJob = NoJob
    NoWorker = NoWorker
    Worker <- MCWorker
    KindOf <- MCKindOf
    Follows <- MCFollows
    Job <- MCDocOnly
    MaxAttempts = 2
    MaxCrashes = 0
    MaxOverruns = 1
    MaxReopens = 0
SPECIFICATION Spec
INVARIANT LiveJobNotTaken
CHECK_DEADLOCK FALSE
