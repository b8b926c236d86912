SPECIFICATION FairSpec
CONSTANTS
    Names = {a, b}
    Docs = {d1, d2}
    NoDoc = NoDoc
    Malformed = {d2}
    MaxEvents = 2
    MaxFaults = 1
    MaxRestarts = 1
PROPERTY EventuallyInForce
INVARIANTS TypeOK NoLostReload FilesFollowObjects
