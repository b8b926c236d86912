SPECIFICATION Spec
CONSTANTS
    Names = {a, b}
    Docs = {d1}
    NoDoc = NoDoc
    Malformed = {}
    MaxEvents = 1
    MaxFaults = 1
    MaxRestarts = 0
INVARIANT EveryChangeNotified
