SPECIFICATION FairSpec
CONSTANTS
    Keys = {k1}
    Scopes <- EachKey
    Requests = {r1, r2}
    Writers = {w1}
    Outcomes = {"ok", "refused", "throws"}
    EnableEtag = FALSE
    KeysPrefix = FALSE
    PurgeLogSize = 1
    MaxPurges = 2
    MaxWrites = 2
    MaxFaults = 0
    None = None
PROPERTIES EveryRequestAnswered ConvergesAfterWrites
