\* A resource whose spec changes.
CONSTANTS
    None = None
    Owners <- OneProcessor
    ChildType <- MCChildType
    Brokers = {}
    MaxOps = 2
    MaxCrashes = 0
    MaxLag = 2
SPECIFICATION FairSpec
PROPERTIES
    ChildrenFollow
\* The cluster may come to rest.
CHECK_DEADLOCK FALSE
