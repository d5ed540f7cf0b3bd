SPECIFICATION MCSpec
CONSTANTS
    a = a
    b = b
    c = c
    x = x
    y = y
    Attackers = {a, b, c}
    Defenders = {x, y}
    Stalemates = FALSE
    Plainly = {TRUE, FALSE}
    Root = a
    NoChild = none
    KeepTable = TRUE
    MaxDepth = 3
    AnyDepth = TRUE
    QuotaPlay = FALSE
    Limits = FALSE
    InLane = TRUE
    MaxEvictions = 0
SYMMETRY Symmetry
INVARIANTS
    TypeOK
    TableIsTrue
    VerdictIsTrue
    ProvenBoundIsTrue
    AnswerIsShortest
    RefutedIsForGood
PROPERTIES
    EveryStepCounts
