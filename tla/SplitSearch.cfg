SPECIFICATION FairSpec
CONSTANTS
    NumWorkers = 3
    N = 2
    Kids <- MCKids
    RootNode <- MCRootNode
    OrNodes <- MCOrNodes
    MaySplit <- MCMaySplit
    LeafCases <- MCLeafCases
    ReplySplit = TRUE
    MinProved = 1
    YbwFirst = 1
    OwnerHelps = TRUE
    Limits = {"limit"}
INVARIANTS
    VerdictsAreTrue
    ChildrenAreRunOnce
PROPERTIES
    ImplementsDepth
    Termination
