SPECIFICATION MCSpec
CONSTANTS
    N = 3
    FlatMoves = 3
    RaceMoves = 3
    Pair = 2
    NumWorkers = 3
    SeqFirst = 1
    StopOnTimeout = FALSE
    Limits = TRUE
    InLane = TRUE
    StoreBuffering = TRUE
INVARIANTS
    TypeOK
    NoFalseDisproof
    AnswerIsBestRecorded
    NoLostCancel
PROPERTIES
    ImplementsDepth
    OvertakenSearchStops
