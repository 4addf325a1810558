SPECIFICATION Spec
CONSTANTS
    Keys = {k1}
    Scopes <- EachKey
    Requests = {r1, r2}
    Writers = {w1}
    Outcomes = {"ok"}
    EnableEtag = FALSE
    KeysPrefix = FALSE
    PurgeLogSize = 1
    MaxPurges = 2
    MaxWrites = 2
    MaxFaults = 0
    None = None
SYMMETRY Slots
INVARIANT HitsAreFresh
