CONSTANTS
    Threads = {t1}
    Libs = {f1}
    Refused = {}
    Bases = {b1}
    PluginMax = 1
    Owners = {w1}
    Objects = {o1}
    ArenaLive = 1
    None = None
SPECIFICATION PluginSpec
INVARIANTS
    RefusedForAlive
