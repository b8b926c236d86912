SPECIFICATION FairSpec
CONSTANTS
    Replicas = {r1, r2}
    Objects = {a, b}
    None = None
    MaxEvents = 2
    MaxFaults = 1
INVARIANTS TypeOK FilesFollow
PROPERTIES ReleasedClean UpdatesKeepSpec ReplicasConverge
