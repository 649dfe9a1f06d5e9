CONSTANTS
    Threads = {t1, t2}
    Libs = {f1, f2, f3, bad}
    Refused = {bad}
    Bases = {b1, b2, b3}
    PluginMax = 2
    Owners = {w1, w2, w3}
    Objects = {o1, o2}
    ArenaLive = 1
    None = None
SYMMETRY Symmetry
SPECIFICATION PluginSpec
INVARIANTS
    CodeStays
    CountsExact
