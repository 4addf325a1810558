SPECIFICATION Spec
CONSTANTS
    article = article
    user = user
    author = author
    Chains = {c1}
    Types <- SchemaTypes
    Cached = {article, user}
    PluginTypes = {user}
    Docs = {d1}
    Related <- SchemaRelated
    Shown <- SchemaShown
    Flags = {TRUE, FALSE}
    Modes = {"routes"}
    MaxDepth = 2
    MaxFaults = 1
    None = None
INVARIANT FailedPurgeNeverFailsWrite
