SPECIFICATION Spec
CONSTANTS
    Keys = {k1}
    Scopes <- EachKey
    Requests = {r1, r2, r3}
    Writers = {w1}
    Outcomes = {"ok"}
    EnableEtag = FALSE
    KeysPrefix = FALSE
    PurgeLogSize = 1
    MaxPurges = 2
    MaxWrites = 1
    MaxFaults = 1
    None = None
SYMMETRY Slots
INVARIANTS
    SingleFlight
    OriginResponsesAreFresh
