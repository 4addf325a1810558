SPECIFICATION Spec
CONSTANTS
    Types = {"article", "author", "page"}
    Components = {"seo", "block"}
    NoUid = NoUid
    Unset = Unset
    Null = Null
    Callers = {"anonymous", "ann", "bob"}
    Anonymous = "anonymous"
    Apps <- SharingApps
    MaxRuns = 1
    MaxEntries = 2
INVARIANT SharingIsAnnounced
CHECK_DEADLOCK FALSE
