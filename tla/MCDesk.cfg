CONSTANTS
    f1 = f1
    f2 = f2
    w1 = w1
    w2 = w2
    d1 = d1
    g1 = g1
    g2 = g2
    NoDoc = NoDoc
    Doc <- MCDoc
    Fetcher <- MCFetcher
    MaxBodies = 3
    NoFile = NoFile
    NoText = NoText
    File <- MCFile
    TextFile <- MCTextFile
    MaxReads = 2
    Text <- MCText
    MaxAsks = 2
    MaxSessions = 2
    Estimate <- MCTokens
    Billed <- MCTokens
    MaxBatchSize = 2
    MaxBatchTokens = 2
    MaxConcurrency = 2
    MaxAttempts = 2
    TokenBudget = 4
    PassLimit = 4
    MaxClock = 2
SPECIFICATION DeskSpec
INVARIANTS CorpusIsRight OneSession CursorCovers
PROPERTIES WaitsEnd SpendingIsHeld DictationKeepsTyped SessionEnds
CHECK_DEADLOCK FALSE
