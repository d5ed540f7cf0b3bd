SPECIFICATION Spec
CONSTANTS
    a = a
    b = b
    c = c
    d = d
    e = e
    w1 = w1
    w2 = w2
    Positions = {a, b, c, d, e}
    Root = a
    MaxDepth = 2
    Workers = {w1, w2}
    Caller = w1
    Limit = 3
    Cases <- MCCases
    Interrupts = {"deadline", "cancel"}
INVARIANTS
    AnswerIsShortest
    SilenceIsNoSolution
    EnumerationIsExact
