CONSTANTS
    Callers = {t1, t2}
    Maps = {1, 2}
    NParts = 2
    Keys = {k1, k2}
    Values = {a}
    MaxChanges = 2
    MaxTokens = 1
    NoThread = NoThread
    N = 3
    MaxPush = 6
SYMMETRY Symmetry
SPECIFICATION Spec
CHECK_DEADLOCK FALSE
INVARIANTS
    MapSound
    WalkTrue
    OnlyMatch
    NoPartCycle
    RingSound
PROPERTIES
    CasExact
