SPECIFICATION FairSpec
CONSTANTS
    Servers = {"http", "https"}
    Conns = {c1, c2}
    MaxVersion = 2
    PlainConns = {p1}
    PluginFiles = {f1, f2}
    TTLFlags <- BoundaryTTLs
    Second = 10
    MaxInt = 127
    MaxAttempts = 2
CHECK_DEADLOCK FALSE
INVARIANTS TypeOK ExitTruthful DrainedBeforeStop PluginsWhole TTLExact
PROPERTIES ServesCurrent Exits
