SPECIFICATION Spec
CONSTANTS
    Types = {"article", "page", "tag"}
    Cached = {"article", "page"}
    Singles = {"page"}
    Related <- MCRelated
    Documents <- MCDocuments
    Object = Object
    Entries <- MCEntries
    Visited <- MCVisited
    Permissions <- MCPermissions
    Flags = {TRUE, FALSE}
    MaxPurges = 2
    MaxFaults = 1
    Undefined = Undefined
INVARIANTS
    AdminTypeOK
    OneRequestPerVersion
    SpinnersEnd
    LoadingEnds
    ControlsAppear
PROPERTIES
    DocumentIsPurged
    OnlyMountingMisses
