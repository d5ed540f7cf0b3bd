SPECIFICATION Spec
CONSTANTS
    MaxDepth = 2
    RootMoves = 3
    Cases <- MCCases
INVARIANTS
    AnswerIsTrue
    SilenceIsNoMate
    BoundsAreTrue
    CancelledForAnAnswer
    KeysAreExact
