CONSTANTS
    a = a
    b = b
    Threads = {t1, t2, t3}
    Channels = {a, b}
    Capacity <- MCCapacity
    Selects <- MCSelects
    MaxSends = 3
    TurnWrap = 2
SYMMETRY ThreadSymmetry
SPECIFICATION Spec
CHECK_DEADLOCK FALSE
INVARIANTS
    NobodyStranded
    NoStrandedSelect
PROPERTIES
    ImplementsFifo
