SPECIFICATION FairSpec
CONSTANTS
    p1 = p1
    p2 = p2
    p3 = p3
    q1 = q1
    q2 = q2
    q3 = q3
    Attackers = {p1, p2, p3}
    Defenders = {q1, q2, q3}
    Root = p1
    MaxDepth = 3
    Inf = 4
    Cases <- MCCases
INVARIANTS
    ZeroIsAVerdict
    DisproofsAreTrue
PROPERTIES
    Termination
