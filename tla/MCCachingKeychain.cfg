SPECIFICATION Spec
CONSTANTS
    Callers = {c1, c2}
    Registries = {r1, r2, r3}
    None = None
    TTL = 2
    MaxCached = 2
    MaxTime = 4
SYMMETRY Symmetry
INVARIANTS TypeOK Bounded NeverTooOld
