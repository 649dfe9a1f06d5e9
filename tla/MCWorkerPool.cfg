CONSTANTS
    Callers = {m1, m2}
    Workers = {w1, w2}
    Objects = {o1, o2}
    Jobs = {j1, j2, j3}
    MaxCount = 3
    MaxAsked = 2
    MaxLevel = 1
    MaxCalls = 1
    None = None
SYMMETRY Symmetry
SPECIFICATION PoolSpec
INVARIANTS
    ObjectExclusive
    QueueSound
    CallOutlivesChunks
    ElementsOnce
