SPECIFICATION Spec
CONSTANTS
    Servers = {"http"}
    Conns = {c1}
    MaxVersion = 1
    PlainConns = {p1}
    PluginFiles = {f1}
    TTLFlags <- BoundaryTTLs
    Second = 10
    MaxInt = 127
    MaxAttempts = 2
CHECK_DEADLOCK FALSE
INVARIANT ReadyServes
