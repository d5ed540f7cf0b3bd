SPECIFICATION Spec
CONSTANTS
    MaxDepth = 2
    RootMoves = 3
    Cases <- MCCases
INVARIANT PublishedBoundsAreTrue
