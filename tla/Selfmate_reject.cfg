SPECIFICATION MCSpec
CONSTANTS
    p1 = p1
    p2 = p2
    p3 = p3
    p4 = p4
    q1 = q1
    q2 = q2
    q3 = q3
    Attackers = {p1, p2, p3, p4}
    Defenders = {q1, q2, q3}
    Root = p1
    Games <- MCGames
    MaxDepth = 2
    Settings <- MCDefault
    Interruptible = FALSE
    AnyDepthFail = 20
    MaxStates = 3
INVARIANTS
    SilenceIsNoSelfmate
