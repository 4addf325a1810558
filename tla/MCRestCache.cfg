SPECIFICATION Spec
CONSTANTS
    Keys = {k1, k2}
    Scopes <- EachKey
    Requests = {r1, r2}
    Writers = {w1}
    Outcomes = {"ok", "refused"}
    EnableEtag = FALSE
    KeysPrefix = TRUE
    PurgeLogSize = 1
    MaxPurges = 2
    MaxWrites = 1
    MaxFaults = 0
    None = None
SYMMETRY Slots
INVARIANTS
    TypeOK
    StaleIsOwned
    RefusedStaysPrivate
    NoMissedPurge
    UnrelatedPurgesIgnored
PROPERTIES
    OnlyCurrentReadsStored
    PurgedIsSticky
    ImplementsLeases
