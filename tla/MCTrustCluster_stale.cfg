SPECIFICATION Spec
CONSTANTS
    Replicas = {r1, r2}
    Objects = {a}
    None = None
    MaxEvents = 2
    MaxFaults = 1
INVARIANT StaleFilesDeleted
