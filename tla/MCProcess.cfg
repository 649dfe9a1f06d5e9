CONSTANTS
    Threads = {t1, t2, t3, t4}
    NoThread = NoThread
    Files = {1, 2, 3, 4}
    Root = 1
    Graphs <- MCGraphs
    Contents <- MCContents
    Names = {"hash_seed", "iface"}
    Interface = "iface"
    SeedKey = "hash_seed"
    IncludeDepth = 2
    IncludeFiles = 4
    Mains = {m1}
    NoFile = 0
    Sigs = {2, 15}
    Registrars = {r1, r2}
    Reader = reader
    MaxRegister = 3
    MaxRaise = 3
SPECIFICATION ProcessSpec
CHECK_DEADLOCK FALSE
INVARIANTS
    MutualExclusion
    WordSound
    NoLostWakeup
    SettingsRight
    HandedOutStays
    SignalsRight
PROPERTIES
    SleepersProgress
    ImplementsMutex
    RaiseArrives
