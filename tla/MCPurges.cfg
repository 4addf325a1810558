SPECIFICATION Spec
CONSTANTS
    Keys = {k1}
    Scopes <- EachKey
    Requests = {r1}
    Writers = {w1, w2}
    Outcomes = {"ok"}
    EnableEtag = TRUE
    KeysPrefix = FALSE
    PurgeLogSize = 2
    MaxPurges = 3
    MaxWrites = 2
    MaxFaults = 1
    None = None
SYMMETRY Slots
INVARIANTS
    StaleIsOwned
    LogIsSuffix
