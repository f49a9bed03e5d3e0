CONSTANTS
    Doc = {d1, d2}
    Fetcher = {g1, g2}
    NoDoc = NoDoc
    MaxBodies = 2
SPECIFICATION WalkSpec
INVARIANT CoveredIsRead
CHECK_DEADLOCK FALSE
