SPECIFICATION Spec
CONSTANTS
    p = p
    q = q
    r = r
    Keys = {p, q, r}
    MaxDepth = 3
    Shortest = {2, 4}
    ShedDivisor = 2
    Slot <- MCSlot
    LineCap = 1
    Layouts <- MCLayouts
INVARIANTS
    TypeOK
    TablesSound
    AnswersSound
    MapDepthIsTrue
PROPERTIES
    NothingDowngraded
    RefutedShedLast
