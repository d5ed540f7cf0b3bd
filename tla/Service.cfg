SPECIFICATION FairService
CONSTANTS
    start = start
    short = short
    long = long
    garbage = garbage
    Positions = {start, short, long, garbage}
    Readable = {start, short, long}
    MateIn <- MCMateIn
    After <- MCAfter
    Start = start
    Depth = 4
    ChunkFactor = 1
    Runs <- MCRuns
INVARIANTS
    AnswersInOrder
    ClaimsAreTrue
PROPERTIES
    NobodyWaitsForEver
