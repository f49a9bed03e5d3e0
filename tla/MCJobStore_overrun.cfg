CONSTANTS
    embed = embed
    doc = doc
    source = source
    w1 = w1
    w2 = w2
    NoJob = NoJob
    NoWorker = NoWorker
    Worker <- MCWorker
    KindOf <- MCKindOf
    Follows <- MCFollows
    Job <- MCJob
    MaxAttempts = 2
    MaxCrashes = 1
    MaxOverruns = 1
    MaxReopens = 1
SPECIFICATION Spec
SYMMETRY WorkerSymmetry
INVARIANTS TypeOK PaidCallExclusive RowsAgree
CHECK_DEADLOCK FALSE
