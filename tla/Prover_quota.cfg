SPECIFICATION MCSpec
CONSTANTS
    a = a
    b = b
    c = c
    x = x
    y = y
    Attackers = {a, b, c}
    Defenders = {x, y}
    Stalemates = FALSE
    Plainly = {FALSE}
    Root = a
    NoChild = none
    KeepTable = TRUE
    MaxDepth = 3
    AnyDepth = TRUE
    QuotaPlay = TRUE
    Limits = FALSE
    InLane = FALSE
    MaxEvictions = 0
SYMMETRY Symmetry
INVARIANTS
    ReportedRefutedIsForGood
