SPECIFICATION Spec
CONSTANTS
    Types = {"article", "author", "page"}
    Components = {"seo", "block"}
    NoUid = NoUid
    Unset = Unset
    Null = Null
    Callers = {"anonymous", "ann", "bob"}
    Anonymous = "anonymous"
    Apps <- MCApps
    MaxRuns = 2
    MaxEntries = 2
INVARIANTS
    PluginTypeOK
    HitsAnswerTheRequest
    SharingIsChosen
    AdvertisedTruly
    ReplayedAsSent
    ResetBeforeServing
PROPERTIES
    RelatedExact
    PurgeReaches
    PurgeSpares
    LoadKeepsEntries
    LoadEnds
CHECK_DEADLOCK FALSE
